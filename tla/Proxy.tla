------------------------------- MODULE Proxy -------------------------------
(***************************************************************************)
(* The transparent redirect of http_proxy.c: the phone's connections, the  *)
(* flow table the tcpip task's hooks keep, and the relay task that accepts *)
(* what was redirected.  Flows are ordered by their stamp, oldest first;   *)
(* a free slot of the table is a place the sequence does not use.  What a  *)
(* session does with the bytes is ProxySession, how a packet is changed    *)
(* RelayHeader.                                                            *)
(***************************************************************************)
EXTENDS Naturals, Sequences

CONSTANTS Ports,               \* of the phone
          Dialled,             \* <<port, address, service>> it may try
          FlowMax, SessMax,    \* FLOW_MAX, SESS_MAX
          MaxDials             \* bound: connections tried and PPP sessions begun

ASSUME ProxyAssumption ==
  /\ FlowMax \in Nat \ {0} /\ SessMax \in Nat \ {0} /\ MaxDials \in Nat
  /\ \A d \in Dialled : d[1] \in Ports /\ d[3] \in {"http", "tls"}

VARIABLES
  flows,      \* the table
  conn,       \* the phone's connection of each port
  backlog,    \* by service: connections waiting to be accepted
  sess,       \* sessions of the relay
  relay_pc, rd,        \* the relay task, and what select() found at its listeners
  px_ready,
  crossed, evicted,    \* ghosts: ports whose flow another event has taken
  dials

proxyVars == <<flows, conn, backlog, sess, relay_pc, rd, px_ready, crossed,
               evicted, dials>>

table == <<flows, crossed, evicted>>
sockets == <<backlog, sess>>
relay == <<relay_pc, rd, px_ready>>

Service == {"http", "tls"}
NoConn == [st |-> "none"]
Conn(st, ip, svc) == [st |-> st, ip |-> ip, svc |-> svc]

ProxyInit ==
  /\ flows = << >>
  /\ conn = [p \in Ports |-> NoConn]
  /\ backlog = [s \in Service |-> << >>]
  /\ sess = {}
  /\ relay_pc = "start" /\ rd = {}
  /\ px_ready = TRUE
  /\ crossed = {} /\ evicted = {}
  /\ dials = 0

-----------------------------------------------------------------------------
(* The flow table. *)

FlowOf(fs, p) == {i \in DOMAIN fs : fs[i].port = p}     \* flow_find()
FlowRemove(fs, i) == SubSeq(fs, 1, i - 1) \o SubSeq(fs, i + 1, Len(fs))
FlowTouch(fs, i) == Append(FlowRemove(fs, i), [fs[i] EXCEPT !.idle = FALSE])

Oldest(those) == {i \in those : \A j \in those : i <= j}
Closed(fs) == {i \in DOMAIN fs : fs[i].state = "CLOSED"}

\* Mutant: the idle connection goes before the closed one.
flow_slot_idle_first(fs) ==
  IF Closed(fs) # DOMAIN fs THEN Oldest(DOMAIN fs \ Closed(fs))
  ELSE Oldest(Closed(fs))

\* Which flow gives up its slot when none is free; nobody, in a table of
\* connections that are all in use.
flow_slot(fs) ==
  IF Closed(fs) # {} THEN Oldest(Closed(fs))
  ELSE Oldest({i \in DOMAIN fs : fs[i].idle})

flow_lookup(p, svc) ==
  {flows[i] : i \in {j \in FlowOf(flows, p) :
                       flows[j].state = "ACTIVE" /\ flows[j].svc = svc}}

flow_mark_closed(fs, p) ==
  IF FlowOf(fs, p) = {} THEN fs
  ELSE LET i == CHOOSE i \in FlowOf(fs, p) : TRUE
       IN  Append(FlowRemove(fs, i), [fs[i] EXCEPT !.state = "CLOSED", !.idle = FALSE])

NewFlow(p, ip, svc) ==
  [state |-> "ACTIVE", port |-> p, svc |-> svc, ip |-> ip, idle |-> FALSE]

\* The input hook's part of a SYN: what the table becomes, whether the packet
\* goes to the relay, and which idle connection gave up its flow for it.
Verdict(fs, match, taken) == [flows |-> fs, match |-> match, taken |-> taken]

\* Mutant: the port of the site is compared, its address is not.
Same_port(fs, i, ip, svc) == fs[i].svc = svc

Same(fs, i, ip, svc) == fs[i].ip = ip /\ fs[i].svc = svc

\* No closed flow is left, and it has been idle for IDLE_MS.
Idle(fs) == {i \in DOMAIN fs : fs[i].idle /\ Closed(fs) = {}}

AddFlow(fs, p, ip, svc, intercept) ==
  IF ~intercept THEN Verdict(fs, FALSE, {})
  ELSE IF Len(fs) < FlowMax THEN Verdict(Append(fs, NewFlow(p, ip, svc)), TRUE, {})
  ELSE IF flow_slot(fs) = {} THEN Verdict(fs, FALSE, {})
  ELSE LET i == CHOOSE i \in flow_slot(fs) : TRUE
       IN  Verdict(Append(FlowRemove(fs, i), NewFlow(p, ip, svc)), TRUE,
                   {fs[j].port : j \in {i} \intersect Idle(fs)})

\* Mutant: a flow of the port to another site is left in the table.
HookSyn_keep_old(fs, p, ip, svc, intercept) ==
  LET mine == {i \in FlowOf(fs, p) : Same(fs, i, ip, svc) /\ fs[i].state = "ACTIVE"}
  IN  IF mine # {} THEN Verdict(FlowTouch(fs, CHOOSE i \in mine : TRUE), TRUE, {})
      ELSE AddFlow(fs, p, ip, svc, intercept)

HookSyn(fs, p, ip, svc, intercept) ==
  IF FlowOf(fs, p) = {} THEN AddFlow(fs, p, ip, svc, intercept)
  ELSE LET i == CHOOSE i \in FlowOf(fs, p) : TRUE
       IN  IF Same(fs, i, ip, svc) /\ fs[i].state = "ACTIVE"
           THEN Verdict(FlowTouch(fs, i), TRUE, {})
           ELSE AddFlow(FlowRemove(fs, i), p, ip, svc, intercept)

-----------------------------------------------------------------------------
(* The phone, and lwIP's side of its connections.  A connection the relay
   has not closed is "live" while the phone has it too, "left" when the phone
   forgot it and lwIP did not hear of it, "gone" when lwIP did. *)

Entry(p, ip) == [port |-> p, ip |-> ip, st |-> "live"]
Has(p) == conn[p].st # "none"

Reset(e, p, from, to) == IF e.port = p /\ e.st \in from THEN [e EXCEPT !.st = to] ELSE e
ResetAll(p, svcs, from, to) ==
  /\ backlog' = [s \in Service |->
       IF s \in svcs THEN [k \in DOMAIN backlog[s] |-> Reset(backlog[s][k], p, from, to)]
       ELSE backlog[s]]
  /\ sess' = {IF s.svc \in svcs THEN Reset(s, p, from, to) ELSE s : s \in sess}

\* The old connection of these ports is still open at lwIP's end.
HeldOpen(p, svc) ==
  \/ \E k \in DOMAIN backlog[svc] : backlog[svc][k].port = p /\ backlog[svc][k].st = "left"
  \/ \E s \in sess : s.port = p /\ s.svc = svc /\ s.st = "left"

\* A SYN at the relay port: a new connection, or a reset for the one that is
\* still open there and another try later; with no relay, a refusal.
Arrives(p, ip, svc, match) ==
  IF ~match THEN /\ conn' = [conn EXCEPT ![p] = Conn("direct", ip, svc)]
                 /\ UNCHANGED sockets
  ELSE IF relay_pc \in {"start", "gone"}
       THEN conn' = [conn EXCEPT ![p] = NoConn] /\ UNCHANGED sockets
  ELSE IF HeldOpen(p, svc)
       THEN /\ conn' = [conn EXCEPT ![p] = Conn("syn", ip, svc)]
            /\ ResetAll(p, {svc}, {"left"}, "gone")
  ELSE /\ conn' = [conn EXCEPT ![p] = Conn("relayed", ip, svc)]
       /\ backlog' = [backlog EXCEPT ![svc] = Append(@, Entry(p, ip))]
       /\ UNCHANGED sess

Live(p) == conn[p].st = "relayed"

Syn(p, ip, svc, wifi) ==
  LET v == HookSyn(flows, p, ip, svc, px_ready /\ wifi)
  IN  /\ flows' = v.flows
      /\ evicted' = (evicted \ {p}) \union {q \in v.taken : q # p /\ Live(q)}
      /\ crossed' = crossed \ {p}
      /\ Arrives(p, ip, svc, v.match)
      /\ UNCHANGED relay

Dial(p, ip, svc) ==
  /\ ~Has(p) /\ dials < MaxDials
  /\ \E wifi \in BOOLEAN : Syn(p, ip, svc, wifi)
  /\ dials' = dials + 1

Resend(p) ==
  /\ conn[p].st = "syn"
  /\ \E wifi \in BOOLEAN : Syn(p, conn[p].ip, conn[p].svc, wifi)
  /\ UNCHANGED dials

\* The phone drops a connection, with a reset that reaches lwIP or without.
HangUp(p) ==
  /\ Has(p)
  /\ conn' = [conn EXCEPT ![p] = NoConn]
  /\ crossed' = crossed \ {p} /\ evicted' = evicted \ {p}
  /\ \E to \in {"left", "gone"} : ResetAll(p, Service, {"live"}, to)
  /\ UNCHANGED <<flows, relay, dials>>

\* Any other packet of a connection, either way: its flow is in use.
Packet(p) ==
  /\ Live(p)
  /\ \E i \in FlowOf(flows, p) :
       /\ Same(flows, i, conn[p].ip, conn[p].svc)
       /\ flows' = FlowTouch(flows, i)
  /\ UNCHANGED <<crossed, evicted, conn, sockets, relay, dials>>

\* IDLE_MS without a packet for the oldest flows.
TimeIdles ==
  /\ \E k \in DOMAIN flows :
       /\ ~flows[k].idle
       /\ flows' = [i \in DOMAIN flows |->
                      IF i <= k THEN [flows[i] EXCEPT !.idle = TRUE] ELSE flows[i]]
  /\ UNCHANGED <<crossed, evicted, conn, sockets, relay, dials>>

\* A new PPP session: an empty table, and a phone that knows none of the
\* connections lwIP still has.
proxy_attach_netif ==
  /\ dials < MaxDials /\ dials' = dials + 1
  /\ flows' = << >>
  /\ conn' = [p \in Ports |-> NoConn]
  /\ crossed' = {} /\ evicted' = {}
  /\ LET leave(e) == IF e.st = "live" THEN [e EXCEPT !.st = "left"] ELSE e
     IN  /\ backlog' = [s \in Service |-> [k \in DOMAIN backlog[s] |-> leave(backlog[s][k])]]
         /\ sess' = {leave(s) : s \in sess}
  /\ UNCHANGED relay

-----------------------------------------------------------------------------
(* The relay task. *)

proxy_task_start ==
  /\ relay_pc = "start"
  /\ \/ relay_pc' = "select" /\ UNCHANGED px_ready
     \/ relay_pc' = "gone" /\ px_ready' = FALSE      \* a listener failed
  /\ UNCHANGED <<table, conn, sockets, rd, dials>>

\* The proxy page turns the redirect on again: nothing tells it that the
\* task has ended.  (Off is what a SYN meets without WiFi.)
SetReady ==
  /\ relay_pc = "gone" /\ ~px_ready /\ px_ready' = TRUE
  /\ UNCHANGED <<table, conn, sockets, relay_pc, rd, dials>>

Waiting == {s \in Service : backlog[s] # << >>}
FreeSlots == (1 .. SessMax) \ {s.slot : s \in sess}
SlotFree == FreeSlots # {}

\* Mutant: the listeners are always asked.
Select_always(room) ==
  /\ relay_pc = "select"
  /\ relay_pc' = "service" /\ rd' = Waiting
  /\ UNCHANGED <<table, conn, sockets, px_ready, dials>>

\* The listeners are asked only with a slot free and memory left (room).
Select(room) ==
  /\ relay_pc = "select"
  /\ relay_pc' = "service"
  /\ rd' = IF room THEN Waiting ELSE {}
  /\ UNCHANGED <<table, conn, sockets, px_ready, dials>>

sess_close(s) ==
  /\ sess' = sess \ {s}
  /\ conn' = IF s.st = "live" THEN [conn EXCEPT ![s.port] = NoConn] ELSE conn
  /\ crossed' = IF s.st # "live" /\ Has(s.port) THEN crossed \union {s.port} ELSE crossed
  /\ flows' = flow_mark_closed(flows, s.port)

\* A session ends while it is served, or by its deadline.
CloseSession ==
  /\ relay_pc \in {"service", "deadlines"}
  /\ \E s \in sess : sess_close(s)
  /\ UNCHANGED <<evicted, backlog, relay, dials>>

Served ==
  /\ relay_pc = "service" /\ relay_pc' = "http"
  /\ UNCHANGED <<table, conn, sockets, rd, px_ready, dials>>

Refuse(e) ==
  /\ sess' = sess
  /\ conn' = IF e.st = "live" THEN [conn EXCEPT ![e.port] = NoConn] ELSE conn

\* do_accept(): the first of the backlog, if the phone has not reset it.
do_accept(svc) ==
  LET e == Head(backlog[svc])
      found == flow_lookup(e.port, svc)
  IN  /\ backlog' = [backlog EXCEPT ![svc] = Tail(@)]
      /\ \/ e.st = "gone" /\ UNCHANGED <<flows, conn, sess>>
         \/ /\ e.st # "gone" /\ found = {}
            /\ Refuse(e)
            /\ UNCHANGED flows
         \/ /\ e.st # "gone" /\ found # {}
            /\ Refuse(e)
            /\ flows' = flow_mark_closed(flows, e.port)
         \/ /\ e.st # "gone" /\ SlotFree
            /\ \E f \in found, k \in FreeSlots :
                 /\ \A j \in FreeSlots : k <= j
                 /\ sess' = sess \union
                      {[slot |-> k, port |-> e.port, svc |-> svc, ip |-> f.ip, st |-> e.st]}
            /\ UNCHANGED <<flows, conn>>

\* Mutant: one listener or the other, not both in a pass.
AfterAccept_one == [http |-> "deadlines", tls |-> "deadlines"]
AfterAccept == [http |-> "tls", tls |-> "deadlines"]

Accept ==
  /\ relay_pc \in Service
  /\ relay_pc' = AfterAccept[relay_pc]
  /\ IF relay_pc \in rd THEN do_accept(relay_pc)
     ELSE UNCHANGED <<flows, conn, sockets>>
  /\ UNCHANGED <<crossed, evicted, rd, px_ready, dials>>

Deadlines ==
  /\ relay_pc = "deadlines" /\ relay_pc' = "select"
  /\ UNCHANGED <<table, conn, sockets, rd, px_ready, dials>>

RelayTask ==
  \/ \E room \in {SlotFree, FALSE} : Select(room)
  \/ CloseSession \/ Served \/ Accept \/ Deadlines

Phone ==
  \/ \E d \in Dialled : Dial(d[1], d[2], d[3])
  \/ \E p \in Ports : Resend(p) \/ HangUp(p) \/ Packet(p)

ProxyNext == proxy_task_start \/ SetReady \/ RelayTask \/ Phone \/ TimeIdles \/ proxy_attach_netif

(* Scheduling: the relay task runs, a session ends (ProxySession.SessionEnds)
   and there is memory for another one again and again. *)
ProxyFairness ==
  /\ WF_proxyVars(Served) /\ WF_proxyVars(Accept) /\ WF_proxyVars(Deadlines)
  /\ WF_proxyVars(Select(FALSE)) /\ SF_proxyVars(SlotFree /\ Select(TRUE))
  /\ SF_proxyVars(relay_pc = "deadlines" /\ CloseSession)

-----------------------------------------------------------------------------
(* http_proxy.c:178-185, 312-335: the table holds one flow per port of the
   phone and no more flows than it has slots. *)
OneFlowPerPort ==
  /\ Len(flows) <= FlowMax
  /\ \A i, j \in DOMAIN flows : flows[i].port = flows[j].port => i = j

(* http_proxy.c:312-369: as long as the phone has a connection to the relay,
   its answers can be given the address the phone dialled, unless it was idle
   for IDLE_MS in a full table or an older connection of its port had its
   flow closed. *)
FlowServesConnection ==
  \A p \in Ports : Live(p) /\ p \notin evicted \union crossed =>
    \E i \in FlowOf(flows, p) :
      Same(flows, i, conn[p].ip, conn[p].svc) /\ flows[i].state = "ACTIVE"

(* http_proxy.c:835-877: a session of a connection the phone still has
   connects to the site and service the phone dialled, whatever was dialled
   from that port before. *)
SessionKnowsItsSite ==
  \A s \in sess : s.st = "live" =>
    conn[s.port] = Conn("relayed", s.ip, s.svc)

\* The relay closes a connection of port p that it has just accepted.
ClosedAtAccept(p) ==
  relay_pc \in Service /\ relay_pc' # relay_pc /\ Live(p) /\ conn'[p] = NoConn

(* http_proxy.c:845-877, 928-929, 949-951: a connection the phone still has is
   closed unserved only because there is no memory for a session, because the
   other listener took the last slot in the same pass, or because its flow is
   gone in one of the two ways above. *)
ClosedOnlyForWant ==
  [][\A p \in Ports : ClosedAtAccept(p) =>
       \/ p \in crossed \union evicted
       \/ /\ flow_lookup(p, relay_pc) # {}
          /\ SlotFree \/ (relay_pc = "tls" /\ "http" \in rd)]_proxyVars

(* http_proxy.c:921-962: a connection is not left in the backlog. *)
BacklogServed ==
  \A svc \in Service : backlog[svc] # << >> ~> backlog[svc] = << >>
=============================================================================
