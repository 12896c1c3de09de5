------------------------------- MODULE DnsFwd -------------------------------
(***************************************************************************)
(* dns_fwd.c: the task that answers the phone's DNS queries - from its     *)
(* cache, from the upstream server, or itself - and the watchdog that      *)
(* replaces it when it hangs.  A query is an id and a name; the phone does *)
(* not use an id again while an answer to it may still come.  Sockets are  *)
(* numbered by the task that opened them, 0 is -1.                         *)
(***************************************************************************)
EXTENDS Naturals, Sequences

CONSTANTS DnsNames,
          AddressNames,        \* those whose question is of type A
          DNS_CACHE_SIZE, DNS_WATCHDOG_TICKS,
          MaxQueries, MaxHangs, MaxTasks      \* bounds

ASSUME DnsAssumption ==
  /\ AddressNames \subseteq DnsNames
  /\ DNS_CACHE_SIZE \in Nat \ {0} /\ DNS_WATCHDOG_TICKS \in Nat \ {0}
  /\ MaxQueries \in Nat /\ MaxHangs \in Nat /\ MaxTasks \in Nat

Tasks == 1 .. MaxTasks
NoQuery == [id |-> 0, name |-> "none"]

VARIABLES
  dns_pc, q,                 \* by task: where it is; the query it is at
  sock, reply,               \* by task: the upstream socket it waits at; its reply
  hung,                      \* tasks that do not move
  dns_task_handle, dns_restart_flag,
  stale,                     \* dns_last_alive_ms is DNS_WATCHDOG_MS old
  dns_stuck_count, wd,       \* the watchdog
  dns_srv_sock, dns_ext_sock, bound,    \* the shared sockets; who has port 53
  dns_cache,
  inbox, wire, ext_in,       \* queries of the phone; asked upstream; answered
  wifi_up, told,             \* told: the last reply to the phone
  overlap, starved,          \* ghosts: a task was started beside another; no memory
  queries, hangs, made

taskVars == <<dns_pc, q, sock, reply, hung>>
wdVars == <<dns_task_handle, dns_restart_flag, stale, dns_stuck_count, wd>>
sockVars == <<dns_srv_sock, dns_ext_sock, bound>>
netVars == <<inbox, wire, ext_in, wifi_up>>
dnsGhosts == <<overlap, starved>>
dnsCounts == <<queries, hangs, made>>
dnsVars == <<taskVars, wdVars, sockVars, dns_cache, netVars, told, dnsGhosts, dnsCounts>>

Reply(kind, id, about, wifi) == [kind |-> kind, id |-> id, about |-> about, wifi |-> wifi]
NoReply == Reply("none", 0, "none", FALSE)

DnsInit ==
  /\ dns_pc = [t \in Tasks |-> "none"] /\ q = [t \in Tasks |-> NoQuery]
  /\ sock = [t \in Tasks |-> 0] /\ reply = [t \in Tasks |-> NoReply]
  /\ hung = {}
  /\ dns_task_handle = 0 /\ dns_restart_flag = FALSE
  /\ stale = FALSE /\ dns_stuck_count = 0 /\ wd = "off"
  /\ dns_srv_sock = 0 /\ dns_ext_sock = 0 /\ bound = 0
  /\ dns_cache = << >>
  /\ inbox = << >> /\ wire = {} /\ ext_in = [t \in Tasks |-> << >>]
  /\ wifi_up = FALSE /\ told = [q |-> NoQuery, reply |-> NoReply]
  /\ overlap = FALSE /\ starved = FALSE
  /\ queries = 0 /\ hangs = 0 /\ made = 0

-----------------------------------------------------------------------------
(* The cache: a ring of entries, the newest last; one that is too old is
   found out when it is looked up. *)

dns_cache_lookup(name) == {e \in {dns_cache[i] : i \in DOMAIN dns_cache} :
                             e.name = name /\ ~e.old}
dns_cache_store(name, about) ==
  LET all == Append(dns_cache, [name |-> name, about |-> about, old |-> FALSE])
  IN  IF Len(all) > DNS_CACHE_SIZE THEN Tail(all) ELSE all

-----------------------------------------------------------------------------
(* dns_server_task() *)

At(t, pc) == dns_pc[t] = pc /\ t \notin hung
Goto(t, pc) == dns_pc' = [dns_pc EXCEPT ![t] = pc]

\* Mutant: the flag of the task before is still up.
TaskStart_keep_flag(t) ==
  /\ At(t, "start") /\ Goto(t, "open")
  /\ UNCHANGED <<q, sock, reply, hung, wdVars, sockVars, dns_cache, netVars, told,
                 dnsGhosts, dnsCounts>>

TaskStart(t) ==
  /\ At(t, "start") /\ Goto(t, "open")
  /\ dns_restart_flag' = FALSE
  /\ UNCHANGED <<q, sock, reply, hung, dns_task_handle, stale, dns_stuck_count, wd,
                 sockVars, dns_cache, netVars, told, dnsGhosts, dnsCounts>>

OpenSockets(t) ==
  /\ At(t, "open")
  /\ \/ /\ Goto(t, "bind")
        /\ dns_srv_sock' = t /\ dns_ext_sock' = t /\ UNCHANGED starved
     \/ /\ Goto(t, "exit") /\ starved' = TRUE         \* socket() fails
        /\ dns_srv_sock' \in {0, dns_srv_sock}        \* the first one; or the second
        /\ dns_ext_sock' \in {0, dns_ext_sock}
  /\ UNCHANGED <<q, sock, reply, hung, wdVars, bound, dns_cache, netVars, told,
                 overlap, dnsCounts>>

\* lwIP gives a port that is in use to nobody else.
BindSocket(t) ==
  /\ At(t, "bind")
  /\ IF bound = 0
     THEN Goto(t, "loop") /\ bound' = t /\ UNCHANGED <<dns_srv_sock, dns_ext_sock>>
     ELSE Goto(t, "exit") /\ dns_srv_sock' = 0 /\ dns_ext_sock' = 0 /\ UNCHANGED bound
  /\ UNCHANGED <<q, sock, reply, hung, wdVars, dns_cache, netVars, told,
                 dnsGhosts, dnsCounts>>

\* The top of the loop.
CheckFlag(t) ==
  /\ At(t, "loop")
  /\ IF dns_restart_flag THEN Goto(t, "close") /\ UNCHANGED stale
     ELSE Goto(t, "recv") /\ stale' = FALSE
  /\ UNCHANGED <<q, sock, reply, hung, dns_task_handle, dns_restart_flag,
                 dns_stuck_count, wd, sockVars, dns_cache, netVars, told,
                 dnsGhosts, dnsCounts>>

\* Without WiFi: the bridge's own address, or that there is none of this type.
dns_make_captive_reply(m) ==
  Reply(IF m.name \in AddressNames THEN "own" ELSE "nxdomain", m.id, m.name, wifi_up)

\* A query that the cache answers, that goes upstream, or that gets the
\* bridge's own address.
TakeQuery(t) ==
  /\ At(t, "recv") /\ dns_srv_sock = bound /\ bound # 0 /\ inbox # << >>
  /\ LET m == Head(inbox)
     IN  /\ q' = [q EXCEPT ![t] = m]
         /\ \/ \E e \in dns_cache_lookup(m.name) :
                 /\ reply' = [reply EXCEPT ![t] = Reply("answer", m.id, e.about, wifi_up)]
                 /\ Goto(t, "answer")
            \/ /\ dns_cache_lookup(m.name) = {} /\ wifi_up
               /\ UNCHANGED reply /\ Goto(t, "send")
            \/ /\ dns_cache_lookup(m.name) = {} /\ ~wifi_up
               /\ reply' = [reply EXCEPT ![t] = dns_make_captive_reply(m)]
               /\ Goto(t, "answer")
  /\ inbox' = Tail(inbox)
  /\ UNCHANGED <<sock, hung, wdVars, sockVars, dns_cache, wire, ext_in, wifi_up, told,
                 dnsGhosts, dnsCounts>>

\* One second without a query, or a socket that is not open.
NoQueryYet(t) ==
  /\ At(t, "recv") /\ Goto(t, "loop")
  /\ inbox = << >> \/ dns_srv_sock # bound \/ bound = 0
  /\ UNCHANGED <<q, sock, reply, hung, wdVars, sockVars, dns_cache, netVars, told,
                 dnsGhosts, dnsCounts>>

dns_make_servfail_reply(t) == reply' = [reply EXCEPT ![t] = Reply("servfail", q[t].id, q[t].name, TRUE)]

\* dns_forward(): what is queued is dropped, then the query is sent.
SendUpstream(t) ==
  /\ At(t, "send")
  /\ sock' = [sock EXCEPT ![t] = dns_ext_sock]
  /\ \/ /\ dns_ext_sock # 0
        /\ ext_in' = [ext_in EXCEPT ![dns_ext_sock] = << >>]
        /\ wire' = wire \union {[sock |-> dns_ext_sock, q |-> q[t]]}
        /\ Goto(t, "wait") /\ UNCHANGED reply
     \/ /\ dns_make_servfail_reply(t) /\ Goto(t, "answer") /\ UNCHANGED <<wire, ext_in>>
  /\ UNCHANGED <<q, hung, wdVars, sockVars, dns_cache, inbox, wifi_up, told,
                 dnsGhosts, dnsCounts>>

Received(t) ==
  LET m == Head(ext_in[sock[t]])
  IN  /\ reply' = [reply EXCEPT ![t] = Reply("answer", m.id, m.name, TRUE)]
      /\ dns_cache' = dns_cache_store(q[t].name, m.name)
      /\ Goto(t, "answer")

\* Mutant: the first answer at the socket is the answer.
Matches_any(t, m) == TRUE
Matches(t, m) == m.id = q[t].id

ReceiveUpstream(t) ==
  /\ At(t, "wait") /\ ext_in[sock[t]] # << >>
  /\ IF Matches(t, Head(ext_in[sock[t]])) THEN Received(t)
     ELSE UNCHANGED <<reply, dns_cache, dns_pc>>
  /\ ext_in' = [ext_in EXCEPT ![sock[t]] = Tail(@)]
  /\ UNCHANGED <<q, sock, hung, wdVars, sockVars, inbox, wire, wifi_up, told,
                 dnsGhosts, dnsCounts>>

\* DNS_TIMEOUT_MS, or the socket was closed.
UpstreamFails(t) ==
  /\ At(t, "wait") /\ ext_in[sock[t]] = << >>
  /\ dns_make_servfail_reply(t) /\ Goto(t, "answer")
  /\ UNCHANGED <<q, sock, hung, wdVars, sockVars, dns_cache, netVars, told,
                 dnsGhosts, dnsCounts>>

Answer(t) ==
  /\ At(t, "answer") /\ Goto(t, "loop")
  /\ told' = IF dns_srv_sock = bound /\ bound # 0
             THEN [q |-> q[t], reply |-> reply[t]] ELSE told
  /\ UNCHANGED <<q, sock, reply, hung, wdVars, sockVars, dns_cache, netVars,
                 dnsGhosts, dnsCounts>>

CloseSockets(t) ==
  /\ At(t, "close") /\ Goto(t, "exit")
  /\ bound' = IF bound = dns_srv_sock THEN 0 ELSE bound
  /\ dns_srv_sock' = 0 /\ dns_ext_sock' = 0
  /\ UNCHANGED <<q, sock, reply, hung, wdVars, dns_cache, netVars, told,
                 dnsGhosts, dnsCounts>>

TaskExit(t) ==
  /\ At(t, "exit") /\ Goto(t, "dead")
  /\ dns_task_handle' = 0
  /\ UNCHANGED <<q, sock, reply, hung, dns_restart_flag, stale, dns_stuck_count, wd,
                 sockVars, dns_cache, netVars, told, dnsGhosts, dnsCounts>>

ServerStep(t) ==
  \/ TaskStart(t) \/ OpenSockets(t) \/ BindSocket(t)
  \/ CheckFlag(t) \/ TakeQuery(t) \/ NoQueryYet(t)
  \/ SendUpstream(t) \/ ReceiveUpstream(t) \/ UpstreamFails(t)
  \/ Answer(t) \/ CloseSockets(t) \/ TaskExit(t)

-----------------------------------------------------------------------------
(* dns_fwd_start() and dns_fwd_watchdog_check(). *)

Running(t) == dns_pc[t] \notin {"none", "dead"}

\* A task is made (without memory for it the bridge reboots); its handle is
\* stored later.
CreateTask ==
  /\ made' = made + 1
  /\ stale' = FALSE
  /\ dns_pc' = [dns_pc EXCEPT ![made + 1] = "start"]
  /\ overlap' = (overlap \/ \E t \in Tasks : Running(t))
  /\ wd' = "store"

\* gw_setup() starts the first one.
FirstStart ==
  /\ wd = "off" /\ CreateTask
  /\ UNCHANGED <<q, sock, reply, hung, dns_task_handle, dns_restart_flag,
                 dns_stuck_count, sockVars, dns_cache, netVars, told, starved, queries, hangs>>

StoreHandle ==
  /\ wd = "store" /\ wd' = "idle"
  /\ dns_task_handle' = made
  /\ dns_stuck_count' = 0
  /\ UNCHANGED <<taskVars, dns_restart_flag, stale, sockVars, dns_cache, netVars,
                 told, dnsGhosts, dnsCounts>>

\* One heartbeat.
Heartbeat ==
  /\ wd = "idle"
  /\ \/ /\ dns_task_handle # 0 /\ stale
        /\ dns_stuck_count' = dns_stuck_count + 1
        /\ IF dns_stuck_count' >= DNS_WATCHDOG_TICKS
           THEN dns_restart_flag' = TRUE /\ dns_task_handle' = 0 /\ wd' = "grace"
           ELSE UNCHANGED <<dns_restart_flag, dns_task_handle, wd>>
     \/ /\ dns_task_handle = 0 \/ ~stale
        /\ dns_stuck_count' = 0
        /\ UNCHANGED <<dns_restart_flag, dns_task_handle, wd>>
  /\ UNCHANGED <<taskVars, stale, sockVars, dns_cache, netVars, told, dnsGhosts, dnsCounts>>

\* 1.5 s later.
Restart ==
  /\ wd = "grace" /\ CreateTask
  /\ dns_cache' = << >>
  /\ UNCHANGED <<q, sock, reply, hung, dns_task_handle, dns_restart_flag,
                 dns_stuck_count, sockVars, netVars, told, starved, queries, hangs>>

Watchdog == StoreHandle \/ Heartbeat \/ Restart

-----------------------------------------------------------------------------
(* The phone, the upstream server, WiFi and time. *)

Elsewhere == UNCHANGED <<dns_pc, q, sock, reply, sockVars, told, dnsGhosts, made,
                         dns_task_handle, dns_restart_flag, dns_stuck_count, wd>>

Ask(name) ==
  /\ made > 0 /\ queries < MaxQueries /\ queries' = queries + 1
  /\ inbox' = Append(inbox, [id |-> queries + 1, name |-> name])
  /\ Elsewhere /\ UNCHANGED <<hung, stale, dns_cache, wire, ext_in, wifi_up, hangs>>

UpstreamAnswers(m) ==
  /\ wire' = wire \ {m}
  /\ ext_in' = [ext_in EXCEPT ![m.sock] = IF dns_ext_sock = m.sock THEN Append(@, m.q) ELSE @]
  /\ Elsewhere /\ UNCHANGED <<hung, stale, dns_cache, inbox, wifi_up, queries, hangs>>

WifiChanges ==
  /\ made > 0 /\ wifi_up' = ~wifi_up
  /\ Elsewhere /\ UNCHANGED <<hung, stale, dns_cache, inbox, wire, ext_in, queries, hangs>>

EntryAges ==
  /\ \E i \in DOMAIN dns_cache :
       /\ ~dns_cache[i].old /\ dns_cache' = [dns_cache EXCEPT ![i].old = TRUE]
  /\ Elsewhere /\ UNCHANGED <<hung, stale, netVars, queries, hangs>>

SocketCalls == {"open", "bind", "recv", "send", "wait", "answer", "close"}

\* A call of the task does not return, or does after all.
Hang(t) ==
  /\ dns_pc[t] \in SocketCalls /\ t \notin hung /\ hangs < MaxHangs
  /\ hung' = hung \union {t} /\ hangs' = hangs + 1
  /\ Elsewhere /\ UNCHANGED <<stale, dns_cache, netVars, queries>>

Resume(t) ==
  /\ t \in hung /\ hung' = hung \ {t}
  /\ Elsewhere /\ UNCHANGED <<stale, dns_cache, netVars, queries, hangs>>

\* DNS_WATCHDOG_MS without a pass of any task's loop.
GoesStale ==
  /\ ~stale /\ made \in 1 .. MaxTasks - 1 /\ \A t \in Tasks : Running(t) => t \in hung
  /\ stale' = TRUE
  /\ Elsewhere /\ UNCHANGED <<hung, dns_cache, netVars, queries, hangs>>

DnsNext ==
  \/ \E t \in Tasks : ServerStep(t) \/ Hang(t) \/ Resume(t)
  \/ FirstStart \/ Watchdog
  \/ \E name \in DnsNames : Ask(name)
  \/ \E m \in wire : UpstreamAnswers(m)
  \/ WifiChanges \/ EntryAges \/ GoesStale

(* A task that does not hang runs, and so does the heartbeat. *)
DnsFairness ==
  /\ \A t \in Tasks : WF_dnsVars(ServerStep(t))
  /\ WF_dnsVars(StoreHandle) /\ WF_dnsVars(Restart)

-----------------------------------------------------------------------------
(* dns_fwd.c:65-106, 167-173, 193-199, 239-247: the phone is given the answer
   to its own query, through the cache or not and however late the answers
   to other queries come, and the bridge's own address only for a query that
   came without WiFi; the cache holds no name with another name's answer. *)
TellsOwnAnswer ==
  /\ told.reply.id = told.q.id
  /\ told.reply.about = told.q.name
  /\ told.reply.kind = "own" => ~told.reply.wifi
  /\ \A i \in DOMAIN dns_cache : dns_cache[i].name = dns_cache[i].about

Serving == \E t \in Tasks : dns_pc[t] = "recv" /\ dns_srv_sock = t /\ bound = t

(* dns_fwd.c:272-277, 409-421: a task that sees the flag in the time it is
   given is replaced by one that serves, if it gets its sockets and does not
   hang in turn. *)
SlowServerReplaced ==
  wd = "store" /\ ~overlap ~> Serving \/ starved \/ overlap \/ hung # {}

(* dns_fwd.c:396: "Called from the watchdog heartbeat: restart the DNS task if
   it hung." *)
HungServerReplaced ==
  wd = "grace" ~> Serving \/ starved
=============================================================================
