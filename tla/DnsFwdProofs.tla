----------------------------- MODULE DnsFwdProofs -----------------------------
(***************************************************************************)
(* Proofs about DnsFwd, for any names, any size of the cache and any number *)
(* of queries, hangs and tasks.                                            *)
(***************************************************************************)
EXTENDS DnsFwd, SequenceTheorems, TLAPS

DnsSpec == DnsInit /\ [][DnsNext]_dnsVars

QueryNames == DnsNames \cup {"none"}
Query == [id : Nat, name : QueryNames]
ReplyRec == [kind : {"none", "answer", "own", "nxdomain", "servfail"}, id : Nat,
             about : QueryNames, wifi : BOOLEAN]
CacheRec == [name : QueryNames, about : QueryNames, old : BOOLEAN]

DnsTypes ==
  /\ DOMAIN dns_pc = Tasks
  /\ q \in [Tasks -> Query] /\ sock \in [Tasks -> 0 .. MaxTasks]
  /\ reply \in [Tasks -> ReplyRec]
  /\ dns_ext_sock \in 0 .. MaxTasks
  /\ dns_cache \in Seq(CacheRec)
  /\ inbox \in Seq(Query) /\ ext_in \in [Tasks -> Seq(Query)]
  /\ wire \in SUBSET [sock : Tasks, q : Query]
  /\ wifi_up \in BOOLEAN /\ queries \in Nat
  /\ told.q \in Query

(* The queries that are anywhere on their way.                             *)
Entries(s) == {s[i] : i \in DOMAIN s}
Asked ==
  Entries(inbox) \cup {q[t] : t \in Tasks} \cup {w.q : w \in wire}
    \cup UNION {Entries(ext_in[s]) : s \in Tasks}

(* An id is one query's: what comes back with it answers that query.       *)
OnePerId ==
  /\ \A m \in Asked : m.id <= queries
  /\ \A m, n \in Asked : m.id = n.id => m = n

About(r, m) == r.id = m.id /\ r.about = m.name /\ (r.kind = "own" => ~r.wifi)

CacheRight == \A i \in DOMAIN dns_cache : dns_cache[i].name = dns_cache[i].about

RepliesRight ==
  /\ \A t \in Tasks : dns_pc[t] = "answer" => About(reply[t], q[t])
  /\ \A t \in Tasks : dns_pc[t] = "wait" => sock[t] \in Tasks

DnsInv == DnsTypes /\ OnePerId /\ CacheRight /\ RepliesRight /\ About(told.reply, told.q)

-----------------------------------------------------------------------------
(* Queues of queries, and the cache as a queue.                            *)
LEMMA Shorter ==
  ASSUME NEW S, NEW s \in Seq(S), s # << >>
  PROVE  /\ Tail(s) \in Seq(S) /\ Head(s) \in S /\ Head(s) \in Entries(s)
         /\ Entries(Tail(s)) \subseteq Entries(s)
<1>1. /\ Head(s) = s[1] /\ Head(s) \in S /\ Tail(s) \in Seq(S)
      /\ Len(s) \in Nat \ {0} /\ DOMAIN s = 1..Len(s)
      /\ Len(Tail(s)) = Len(s) - 1
      /\ \A k \in 1..(Len(s) - 1) : Tail(s)[k] = s[k + 1]
  BY EmptySeq, HeadTailProperties
<1>2. DOMAIN Tail(s) = 1..(Len(s) - 1)
  BY <1>1
<1>3. ASSUME NEW k \in DOMAIN Tail(s) PROVE Tail(s)[k] \in Entries(s)
  <2>1. k + 1 \in DOMAIN s /\ Tail(s)[k] = s[k + 1]
    BY <1>1, <1>2
  <2> QED BY <2>1 DEF Entries
<1>4. Head(s) \in Entries(s)
  BY <1>1 DEF Entries
<1> QED BY <1>1, <1>3, <1>4 DEF Entries

LEMMA Longer ==
  ASSUME NEW S, NEW s \in Seq(S), NEW e \in S
  PROVE  /\ Append(s, e) \in Seq(S) /\ Append(s, e) # << >>
         /\ Entries(Append(s, e)) \subseteq Entries(s) \cup {e}
<1>1. /\ Append(s, e) \in Seq(S) /\ Len(Append(s, e)) = Len(s) + 1
      /\ \A k \in 1..Len(s) : Append(s, e)[k] = s[k]
      /\ Append(s, e)[Len(s) + 1] = e
      /\ Len(s) \in Nat /\ DOMAIN s = 1..Len(s)
  BY AppendProperties
<1>2. DOMAIN Append(s, e) = 1..(Len(s) + 1)
  BY <1>1
<1>3. Append(s, e) # << >>
  BY <1>1
<1>4. ASSUME NEW k \in DOMAIN Append(s, e) PROVE Append(s, e)[k] \in Entries(s) \cup {e}
  BY <1>1, <1>2 DEF Entries
<1> QED BY <1>1, <1>3, <1>4 DEF Entries

LEMMA CacheStored ==
  ASSUME dns_cache \in Seq(CacheRec), CacheRight, NEW name \in QueryNames
  PROVE  LET c == dns_cache_store(name, name)
         IN  c \in Seq(CacheRec) /\ \A i \in DOMAIN c : c[i].name = c[i].about
<1> DEFINE e == [name |-> name, about |-> name, old |-> FALSE]
           all == Append(dns_cache, e)
           c == dns_cache_store(name, name)
<1>1. e \in CacheRec /\ e.name = e.about
  BY DEF CacheRec
<1> HIDE DEF e
<1>2. /\ all \in Seq(CacheRec) /\ all # << >>
      /\ Entries(all) \subseteq Entries(dns_cache) \cup {e}
  BY <1>1, Longer
<1>3. c = IF Len(all) > DNS_CACHE_SIZE THEN Tail(all) ELSE all
  BY DEF dns_cache_store, e
<1> HIDE DEF all
<1>4. Tail(all) \in Seq(CacheRec) /\ Entries(Tail(all)) \subseteq Entries(all)
  BY <1>2, Shorter
<1>5. c \in Seq(CacheRec) /\ Entries(c) \subseteq Entries(dns_cache) \cup {e}
  BY <1>2, <1>3, <1>4
<1> HIDE DEF c
<1>6. \A m \in Entries(dns_cache) \cup {e} : m.name = m.about
  BY <1>1 DEF CacheRight, Entries
<1>7. \A i \in DOMAIN c : c[i] \in Entries(c)
  BY DEF Entries
<1>8. \A i \in DOMAIN c : c[i].name = c[i].about
  BY <1>5, <1>6, <1>7
<1> QED BY <1>5, <1>8 DEF c

-----------------------------------------------------------------------------
(* The steps that answer nothing, ask nothing and send nothing.            *)
LEMMA AskedKept ==
  ASSUME OnePerId, Asked' \subseteq Asked, queries' = queries
  PROVE  OnePerId'
BY DEF OnePerId

LEMMA Undisturbed ==
  ASSUME DnsInv, UNCHANGED <<q, sock, reply, inbox, wire, ext_in, told, queries>>,
         wifi_up' \in BOOLEAN, dns_ext_sock' \in 0 .. MaxTasks,
         dns_cache' \in Seq(CacheRec), CacheRight', DOMAIN dns_pc' = Tasks,
         \A t \in Tasks : dns_pc'[t] \in {"answer", "wait"} => dns_pc'[t] = dns_pc[t]
  PROVE  DnsInv'
<1>1. DnsTypes'
  BY DEF DnsInv, DnsTypes
<1>2. Asked' = Asked
  BY DEF Asked
<1>3. OnePerId'
  BY <1>2, AskedKept DEF DnsInv
<1>4. RepliesRight'
  BY DEF DnsInv, RepliesRight, About
<1>5. About(told.reply, told.q)'
  BY DEF DnsInv, About
<1> QED BY <1>1, <1>3, <1>4, <1>5 DEF DnsInv

LEMMA Goes ==
  ASSUME DOMAIN dns_pc = Tasks, NEW t, NEW pc, dns_pc' = [dns_pc EXCEPT ![t] = pc]
  PROVE  /\ DOMAIN dns_pc' = Tasks
         /\ \A u \in Tasks : dns_pc'[u] = IF u = t THEN pc ELSE dns_pc[u]
OBVIOUS

LEMMA QuietServer ==
  ASSUME DnsInv, NEW t \in Tasks,
         TaskStart(t) \/ OpenSockets(t) \/ BindSocket(t) \/ CheckFlag(t) \/ NoQueryYet(t)
           \/ CloseSockets(t) \/ TaskExit(t)
  PROVE  DnsInv'
<1>1. /\ UNCHANGED <<q, sock, reply, inbox, wire, ext_in, wifi_up, told, queries, dns_cache>>
  BY DEF TaskStart, OpenSockets, BindSocket, CheckFlag, NoQueryYet, CloseSockets, TaskExit,
         netVars, dnsCounts
<1>2. \E pc \in {"open", "bind", "loop", "recv", "close", "exit", "dead"} :
         dns_pc' = [dns_pc EXCEPT ![t] = pc]
  BY DEF TaskStart, OpenSockets, BindSocket, CheckFlag, NoQueryYet, CloseSockets, TaskExit, Goto
<1>3. dns_ext_sock' \in {0, t, dns_ext_sock}
  BY DEF TaskStart, OpenSockets, BindSocket, CheckFlag, NoQueryYet, CloseSockets, TaskExit,
         sockVars
<1>4. dns_ext_sock' \in 0 .. MaxTasks
  <2>1. 0 \in 0 .. MaxTasks /\ t \in 0 .. MaxTasks /\ dns_ext_sock \in 0 .. MaxTasks
    BY DnsAssumption DEF Tasks, DnsInv, DnsTypes
  <2> QED BY <1>3, <2>1
<1>5. /\ DOMAIN dns_pc' = Tasks
      /\ \A u \in Tasks : dns_pc'[u] \in {"answer", "wait"} => dns_pc'[u] = dns_pc[u]
  BY <1>2, Goes DEF DnsInv, DnsTypes
<1>6. wifi_up' \in BOOLEAN /\ dns_cache' \in Seq(CacheRec) /\ CacheRight'
  BY <1>1 DEF DnsInv, DnsTypes, CacheRight
<1> QED BY <1>1, <1>4, <1>5, <1>6, Undisturbed

LEMMA Watched ==
  ASSUME DnsInv, FirstStart \/ Watchdog
  PROVE  DnsInv'
<1>1. /\ UNCHANGED <<q, sock, reply, inbox, wire, ext_in, wifi_up, told, queries, dns_ext_sock>>
      /\ dns_cache' = dns_cache \/ dns_cache' = << >>
  BY DEF FirstStart, Watchdog, StoreHandle, Heartbeat, Restart, taskVars, sockVars, netVars,
         dnsCounts
<1>2. dns_pc' = dns_pc \/ dns_pc' = [dns_pc EXCEPT ![made + 1] = "start"]
  BY DEF FirstStart, Watchdog, StoreHandle, Heartbeat, Restart, CreateTask, taskVars
<1>3. /\ DOMAIN dns_pc' = Tasks
      /\ \A u \in Tasks : dns_pc'[u] \in {"answer", "wait"} => dns_pc'[u] = dns_pc[u]
  BY <1>2 DEF DnsInv, DnsTypes
<1>4. << >> \in Seq(CacheRec) /\ DOMAIN << >> = {}
  OBVIOUS
<1>5. wifi_up' \in BOOLEAN /\ dns_cache' \in Seq(CacheRec) /\ CacheRight'
  BY <1>1, <1>4 DEF DnsInv, DnsTypes, CacheRight
<1>6. dns_ext_sock' \in 0 .. MaxTasks
  BY <1>1 DEF DnsInv, DnsTypes
<1> QED BY <1>1, <1>3, <1>5, <1>6, Undisturbed

LEMMA World ==
  ASSUME DnsInv,
         (\E t \in Tasks : Hang(t) \/ Resume(t)) \/ WifiChanges \/ EntryAges \/ GoesStale
           \/ UNCHANGED dnsVars
  PROVE  DnsInv'
<1>1. /\ UNCHANGED <<q, sock, reply, inbox, wire, ext_in, told, queries, dns_ext_sock, dns_pc>>
  BY DEF Hang, Resume, WifiChanges, EntryAges, GoesStale, dnsVars, Elsewhere, taskVars,
         sockVars, netVars, dnsCounts
<1>2. wifi_up' \in BOOLEAN
  <2>1. wifi_up' = wifi_up \/ wifi_up' = ~wifi_up
    BY Zenon DEF Hang, Resume, WifiChanges, EntryAges, GoesStale, dnsVars, netVars
  <2> QED BY <2>1 DEF DnsInv, DnsTypes
<1>3. dns_cache' \in Seq(CacheRec) /\ CacheRight'
  <2>1. CASE dns_cache' = dns_cache
    BY <2>1 DEF DnsInv, DnsTypes, CacheRight
  <2>2. CASE EntryAges
    <3>1. PICK i \in DOMAIN dns_cache : dns_cache' = [dns_cache EXCEPT ![i].old = TRUE]
      BY <2>2 DEF EntryAges
    <3>2. dns_cache \in Seq(CacheRec) /\ CacheRight /\ dns_cache[i] \in CacheRec
      BY DEF DnsInv, DnsTypes
    <3> DEFINE e == [dns_cache[i] EXCEPT !.old = TRUE]
    <3>3. e \in CacheRec /\ e.name = dns_cache[i].name /\ e.about = dns_cache[i].about
      BY <3>2 DEF CacheRec
    <3>4. dns_cache' = [dns_cache EXCEPT ![i] = e]
      BY <3>1
    <3> HIDE DEF e
    <3>5. dns_cache' \in Seq(CacheRec) /\ DOMAIN dns_cache' = DOMAIN dns_cache
      BY <3>2, <3>3, <3>4
    <3>6. \A j \in DOMAIN dns_cache : dns_cache'[j] = IF j = i THEN e ELSE dns_cache[j]
      BY <3>4
    <3> QED BY <3>2, <3>3, <3>5, <3>6 DEF CacheRight
  <2>3. dns_cache' = dns_cache \/ EntryAges
    BY DEF Hang, Resume, WifiChanges, GoesStale, dnsVars
  <2> QED BY <2>1, <2>2, <2>3
<1>4. dns_ext_sock' \in 0 .. MaxTasks /\ DOMAIN dns_pc' = Tasks
  BY <1>1 DEF DnsInv, DnsTypes
<1> QED BY <1>1, <1>2, <1>3, <1>4, Undisturbed

-----------------------------------------------------------------------------
(* The ways of a query.                                                    *)
LEMMA AskedOf ==
  ASSUME DnsTypes
  PROVE  /\ \A t \in Tasks : q[t] \in Asked /\ q[t] \in Query
         /\ \A w \in wire : w.q \in Asked /\ w.q \in Query /\ w.sock \in Tasks
         /\ \A s \in Tasks : Entries(ext_in[s]) \subseteq Asked
         /\ Entries(inbox) \subseteq Asked
BY DEF DnsTypes, Asked

(* Asked grows by no query when each of its parts comes from Asked.        *)
LEMMA AskedFrom ==
  ASSUME OnePerId, queries' = queries, Entries(inbox') \subseteq Asked,
         \A t \in Tasks : q'[t] \in Asked, \A w \in wire' : w.q \in Asked,
         \A s \in Tasks : Entries(ext_in'[s]) \subseteq Asked
  PROVE  OnePerId'
<1>1. Asked' \subseteq Asked
  BY DEF Asked
<1> QED BY <1>1, AskedKept

LEMMA CaptiveReply ==
  ASSUME NEW m \in Query, ~wifi_up, wifi_up \in BOOLEAN
  PROVE  dns_make_captive_reply(m) \in ReplyRec /\ About(dns_make_captive_reply(m), m)
<1>1. m.id \in Nat /\ m.name \in QueryNames /\ wifi_up = FALSE
  BY DEF Query
<1> QED BY <1>1 DEF dns_make_captive_reply, Reply, ReplyRec, About

LEMMA TakeQueryRight ==
  ASSUME DnsInv, NEW t \in Tasks, TakeQuery(t)
  PROVE  DnsInv'
<1> DEFINE m == Head(inbox)
<1>1. DnsTypes /\ OnePerId /\ CacheRight /\ RepliesRight
  BY DEF DnsInv
<1>2. /\ m \in Query /\ m \in Asked /\ inbox' = Tail(inbox)
      /\ inbox' \in Seq(Query) /\ Entries(inbox') \subseteq Asked
  BY <1>1, Shorter, AskedOf DEF TakeQuery, DnsTypes
<1>3. /\ q' = [q EXCEPT ![t] = m]
      /\ UNCHANGED <<sock, dns_ext_sock, dns_cache, wire, ext_in, wifi_up, told, queries>>
  BY DEF TakeQuery, sockVars, dnsCounts
<1>4. \/ \E e \in dns_cache_lookup(m.name) :
            /\ reply' = [reply EXCEPT ![t] = Reply("answer", m.id, e.about, wifi_up)]
            /\ Goto(t, "answer")
      \/ reply' = reply /\ Goto(t, "send")
      \/ /\ ~wifi_up /\ reply' = [reply EXCEPT ![t] = dns_make_captive_reply(m)]
         /\ Goto(t, "answer")
  BY DEF TakeQuery
<1> HIDE DEF m
<1>5. m.id \in Nat /\ m.name \in QueryNames /\ wifi_up \in BOOLEAN
  BY <1>1, <1>2 DEF Query, DnsTypes
<1>6. \/ \E r \in ReplyRec : /\ About(r, m) /\ reply' = [reply EXCEPT ![t] = r]
                             /\ Goto(t, "answer")
      \/ reply' = reply /\ Goto(t, "send")
  <2>1. ASSUME NEW e \in dns_cache_lookup(m.name)
        PROVE  LET r == Reply("answer", m.id, e.about, wifi_up)
               IN  r \in ReplyRec /\ About(r, m)
    <3>1. e.about = m.name
      BY <1>1 DEF dns_cache_lookup, CacheRight
    <3> QED BY <1>5, <3>1 DEF Reply, ReplyRec, About
  <2>2. CASE \E e \in dns_cache_lookup(m.name) :
            /\ reply' = [reply EXCEPT ![t] = Reply("answer", m.id, e.about, wifi_up)]
            /\ Goto(t, "answer")
    BY <2>1, <2>2
  <2>3. CASE /\ ~wifi_up /\ reply' = [reply EXCEPT ![t] = dns_make_captive_reply(m)]
             /\ Goto(t, "answer")
    BY <1>2, <1>5, <2>3, CaptiveReply
  <2> QED BY <1>4, <2>2, <2>3
<1>7. /\ q' \in [Tasks -> Query] /\ q'[t] = m
      /\ \A u \in Tasks : q'[u] \in Asked /\ (u # t => q'[u] = q[u])
  BY <1>1, <1>2, <1>3, AskedOf DEF DnsTypes
<1>8. OnePerId'
  BY <1>1, <1>2, <1>3, <1>7, AskedOf, AskedFrom
<1>9. CASE reply' = reply /\ Goto(t, "send")
  <2>1. /\ DOMAIN dns_pc' = Tasks
        /\ \A u \in Tasks : dns_pc'[u] = IF u = t THEN "send" ELSE dns_pc[u]
    BY <1>1, <1>9, Goes DEF Goto, DnsTypes
  <2>2. DnsTypes'
    BY <1>1, <1>2, <1>3, <1>7, <1>9, <2>1 DEF DnsTypes
  <2>3. RepliesRight'
    BY <1>1, <1>3, <1>7, <1>9, <2>1 DEF RepliesRight, About
  <2> QED BY <1>3, <1>8, <2>2, <2>3 DEF DnsInv, CacheRight, About
<1>10. CASE \E r \in ReplyRec : /\ About(r, m) /\ reply' = [reply EXCEPT ![t] = r]
                                /\ Goto(t, "answer")
  <2>1. PICK r \in ReplyRec : /\ About(r, m) /\ reply' = [reply EXCEPT ![t] = r]
                              /\ Goto(t, "answer")
    BY <1>10
  <2>2. /\ DOMAIN dns_pc' = Tasks
        /\ \A u \in Tasks : dns_pc'[u] = IF u = t THEN "answer" ELSE dns_pc[u]
    BY <1>1, <2>1, Goes DEF Goto, DnsTypes
  <2>3. /\ reply' \in [Tasks -> ReplyRec]
        /\ \A u \in Tasks : reply'[u] = IF u = t THEN r ELSE reply[u]
    BY <1>1, <2>1 DEF DnsTypes
  <2>4. DnsTypes'
    BY <1>1, <1>2, <1>3, <1>7, <2>2, <2>3 DEF DnsTypes
  <2>5. RepliesRight'
    BY <1>1, <1>3, <1>7, <2>1, <2>2, <2>3 DEF RepliesRight, About
  <2> QED BY <1>3, <1>8, <2>4, <2>5 DEF DnsInv, CacheRight, About
<1> QED BY <1>6, <1>9, <1>10

(* A reply of this task, to the query it is at.                            *)
LEMMA Replied ==
  ASSUME DnsInv, NEW t \in Tasks, NEW r \in ReplyRec, About(r, q[t]),
         reply' = [reply EXCEPT ![t] = r], Goto(t, "answer"),
         sock' \in [Tasks -> 0 .. MaxTasks], \A u \in Tasks : u # t => sock'[u] = sock[u],
         UNCHANGED <<q, inbox, wire, dns_ext_sock, wifi_up, told, queries>>,
         dns_cache' \in Seq(CacheRec), CacheRight',
         ext_in' \in [Tasks -> Seq(Query)],
         \A s \in Tasks : Entries(ext_in'[s]) \subseteq Asked
  PROVE  DnsInv'
<1>1. DnsTypes /\ OnePerId /\ RepliesRight
  BY DEF DnsInv
<1>2. /\ DOMAIN dns_pc' = Tasks
      /\ \A u \in Tasks : dns_pc'[u] = IF u = t THEN "answer" ELSE dns_pc[u]
  BY <1>1, Goes DEF Goto, DnsTypes
<1>3. /\ reply' \in [Tasks -> ReplyRec]
      /\ \A u \in Tasks : reply'[u] = IF u = t THEN r ELSE reply[u]
  BY <1>1 DEF DnsTypes
<1>4. DnsTypes'
  BY <1>1, <1>2, <1>3 DEF DnsTypes
<1>5. RepliesRight'
  BY <1>1, <1>2, <1>3 DEF RepliesRight, About
<1>6. OnePerId'
  BY <1>1, AskedOf, AskedFrom
<1> QED BY <1>4, <1>5, <1>6 DEF DnsInv, About

LEMMA ServfailReply ==
  ASSUME DnsTypes, NEW t \in Tasks
  PROVE  LET r == Reply("servfail", q[t].id, q[t].name, TRUE)
         IN  r \in ReplyRec /\ About(r, q[t])
<1>1. q[t].id \in Nat /\ q[t].name \in QueryNames
  BY DEF DnsTypes, Query
<1> QED BY <1>1 DEF Reply, ReplyRec, About

LEMMA SendRight ==
  ASSUME DnsInv, NEW t \in Tasks, SendUpstream(t)
  PROVE  DnsInv'
<1>1. DnsTypes /\ OnePerId /\ CacheRight /\ RepliesRight
  BY DEF DnsInv
<1>2. /\ sock' = [sock EXCEPT ![t] = dns_ext_sock]
      /\ UNCHANGED <<q, inbox, dns_ext_sock, wifi_up, told, queries, dns_cache>>
  BY DEF SendUpstream, sockVars, dnsCounts
<1>3. /\ sock' \in [Tasks -> 0 .. MaxTasks] /\ sock'[t] = dns_ext_sock
      /\ \A u \in Tasks : u # t => sock'[u] = sock[u]
      /\ dns_cache' \in Seq(CacheRec) /\ CacheRight'
  BY <1>1, <1>2 DEF DnsTypes, CacheRight
<1>4. CASE dns_make_servfail_reply(t) /\ Goto(t, "answer") /\ UNCHANGED <<wire, ext_in>>
  <2> DEFINE r == Reply("servfail", q[t].id, q[t].name, TRUE)
  <2>1. r \in ReplyRec /\ About(r, q[t])
    BY <1>1, ServfailReply
  <2>2. reply' = [reply EXCEPT ![t] = r]
    BY <1>4 DEF dns_make_servfail_reply
  <2> HIDE DEF r
  <2>3. /\ ext_in' \in [Tasks -> Seq(Query)]
        /\ \A s \in Tasks : Entries(ext_in'[s]) \subseteq Asked
    BY <1>1, <1>4, AskedOf DEF DnsTypes
  <2> QED BY <1>2, <1>3, <1>4, <2>1, <2>2, <2>3, Replied
<1>5. CASE /\ dns_ext_sock # 0
           /\ ext_in' = [ext_in EXCEPT ![dns_ext_sock] = << >>]
           /\ wire' = wire \union {[sock |-> dns_ext_sock, q |-> q[t]]}
           /\ Goto(t, "wait") /\ UNCHANGED reply
  <2>1. dns_ext_sock \in Tasks
    BY <1>1, <1>5, DnsAssumption DEF DnsTypes, Tasks
  <2>2. /\ DOMAIN dns_pc' = Tasks
        /\ \A u \in Tasks : dns_pc'[u] = IF u = t THEN "wait" ELSE dns_pc[u]
    BY <1>1, <1>5, Goes DEF Goto, DnsTypes
  <2>3. << >> \in Seq(Query) /\ Entries(<< >>) = {}
    BY DEF Entries
  <2>4. /\ ext_in' \in [Tasks -> Seq(Query)]
        /\ \A s \in Tasks : ext_in'[s] = << >> \/ ext_in'[s] = ext_in[s]
    BY <1>1, <1>5, <2>3 DEF DnsTypes
  <2>5. \A s \in Tasks : Entries(ext_in'[s]) \subseteq Asked
    BY <1>1, <2>3, <2>4, AskedOf
  <2>6. /\ wire' \in SUBSET [sock : Tasks, q : Query]
        /\ \A w \in wire' : w.q \in Asked
    BY <1>1, <1>5, <2>1, AskedOf DEF DnsTypes
  <2>7. OnePerId'
    BY <1>1, <1>2, <2>5, <2>6, AskedOf, AskedFrom
  <2>8. DnsTypes'
    BY <1>1, <1>2, <1>3, <1>5, <2>2, <2>4, <2>6 DEF DnsTypes
  <2>9. RepliesRight'
    BY <1>1, <1>2, <1>3, <1>5, <2>1, <2>2 DEF RepliesRight, About
  <2> QED BY <1>2, <1>3, <2>7, <2>8, <2>9 DEF DnsInv, About
<1> QED BY <1>4, <1>5 DEF SendUpstream

(* The answer that matches is to the query the task is at.                 *)
LEMMA ReceiveRight ==
  ASSUME DnsInv, NEW t \in Tasks, ReceiveUpstream(t)
  PROVE  DnsInv'
<1> DEFINE s == sock[t]
           m == Head(ext_in[s])
<1>1. DnsTypes /\ OnePerId /\ CacheRight /\ RepliesRight
  BY DEF DnsInv
<1>2. s \in Tasks /\ ext_in[s] \in Seq(Query) /\ ext_in[s] # << >>
  BY <1>1 DEF RepliesRight, ReceiveUpstream, At, DnsTypes
<1>3. /\ m \in Query /\ m \in Asked
      /\ Tail(ext_in[s]) \in Seq(Query) /\ Entries(Tail(ext_in[s])) \subseteq Asked
  BY <1>1, <1>2, Shorter, AskedOf
<1>4. /\ ext_in' = [ext_in EXCEPT ![s] = Tail(ext_in[s])]
      /\ UNCHANGED <<q, sock, inbox, wire, dns_ext_sock, wifi_up, told, queries>>
  BY <1>1, <1>2 DEF ReceiveUpstream, sockVars, dnsCounts, DnsTypes
<1>5. \/ /\ m.id = q[t].id /\ Goto(t, "answer")
         /\ reply' = [reply EXCEPT ![t] = Reply("answer", m.id, m.name, TRUE)]
         /\ dns_cache' = dns_cache_store(q[t].name, m.name)
      \/ UNCHANGED <<reply, dns_cache, dns_pc>>
  BY DEF ReceiveUpstream, Received, Matches
<1> HIDE DEF m
<1>6. /\ ext_in' \in [Tasks -> Seq(Query)]
      /\ \A u \in Tasks : ext_in'[u] = IF u = s THEN Tail(ext_in[s]) ELSE ext_in[u]
  BY <1>1, <1>2, <1>3, <1>4 DEF DnsTypes
<1>7. \A u \in Tasks : Entries(ext_in'[u]) \subseteq Asked
  BY <1>1, <1>3, <1>6, AskedOf
<1> HIDE DEF s
<1>8. CASE UNCHANGED <<reply, dns_cache, dns_pc>>
  <2>1. DnsTypes'
    BY <1>1, <1>4, <1>6, <1>8 DEF DnsTypes
  <2>2. OnePerId'
    BY <1>1, <1>4, <1>7, AskedOf, AskedFrom
  <2>3. RepliesRight' /\ CacheRight' /\ About(told.reply, told.q)'
    BY <1>1, <1>4, <1>8 DEF RepliesRight, About, CacheRight, DnsInv
  <2> QED BY <2>1, <2>2, <2>3 DEF DnsInv
<1>9. CASE /\ m.id = q[t].id /\ Goto(t, "answer")
           /\ reply' = [reply EXCEPT ![t] = Reply("answer", m.id, m.name, TRUE)]
           /\ dns_cache' = dns_cache_store(q[t].name, m.name)
  <2>1. m = q[t]
    BY <1>1, <1>3, <1>9, AskedOf DEF OnePerId
  <2> DEFINE r == Reply("answer", m.id, m.name, TRUE)
  <2>2. m.id \in Nat /\ m.name \in QueryNames
    BY <1>3 DEF Query
  <2>3. r \in ReplyRec /\ About(r, q[t])
    BY <2>1, <2>2 DEF Reply, ReplyRec, About
  <2>4. dns_cache' \in Seq(CacheRec) /\ CacheRight'
    <3>1. dns_cache' = dns_cache_store(m.name, m.name)
      BY <1>9, <2>1
    <3> QED BY <1>1, <2>2, <3>1, CacheStored DEF DnsTypes, CacheRight
  <2>5. /\ sock' \in [Tasks -> 0 .. MaxTasks]
        /\ \A u \in Tasks : u # t => sock'[u] = sock[u]
    BY <1>1, <1>4 DEF DnsTypes
  <2>6. reply' = [reply EXCEPT ![t] = r]
    BY <1>9
  <2> HIDE DEF r
  <2> QED BY <1>4, <1>6, <1>7, <1>9, <2>3, <2>4, <2>5, <2>6, Replied
<1> QED BY <1>5, <1>8, <1>9

LEMMA UpstreamFailsRight ==
  ASSUME DnsInv, NEW t \in Tasks, UpstreamFails(t)
  PROVE  DnsInv'
<1> DEFINE r == Reply("servfail", q[t].id, q[t].name, TRUE)
<1>1. DnsTypes /\ CacheRight
  BY DEF DnsInv
<1>2. r \in ReplyRec /\ About(r, q[t])
  BY <1>1, ServfailReply
<1>3. /\ reply' = [reply EXCEPT ![t] = r] /\ Goto(t, "answer")
      /\ UNCHANGED <<q, sock, inbox, wire, ext_in, dns_ext_sock, wifi_up, told, queries, dns_cache>>
  BY DEF UpstreamFails, dns_make_servfail_reply, sockVars, netVars, dnsCounts
<1> HIDE DEF r
<1>4. /\ sock' \in [Tasks -> 0 .. MaxTasks] /\ \A u \in Tasks : u # t => sock'[u] = sock[u]
      /\ dns_cache' \in Seq(CacheRec) /\ CacheRight'
  BY <1>1, <1>3 DEF DnsTypes, CacheRight
<1>5. /\ ext_in' \in [Tasks -> Seq(Query)]
      /\ \A s \in Tasks : Entries(ext_in'[s]) \subseteq Asked
  BY <1>1, <1>3, AskedOf DEF DnsTypes
<1> QED BY <1>2, <1>3, <1>4, <1>5, Replied

LEMMA AnswerRight ==
  ASSUME DnsInv, NEW t \in Tasks, Answer(t)
  PROVE  DnsInv'
<1>1. DnsTypes /\ OnePerId /\ CacheRight /\ RepliesRight /\ About(told.reply, told.q)
  BY DEF DnsInv
<1>2. UNCHANGED <<q, sock, reply, inbox, wire, ext_in, dns_ext_sock, wifi_up, queries, dns_cache>>
  BY DEF Answer, sockVars, netVars, dnsCounts
<1>3. /\ DOMAIN dns_pc' = Tasks
      /\ \A u \in Tasks : dns_pc'[u] = IF u = t THEN "loop" ELSE dns_pc[u]
  BY <1>1, Goes DEF Answer, Goto, DnsTypes
<1>4. About(reply[t], q[t]) /\ q[t] \in Query
  BY <1>1 DEF RepliesRight, Answer, At, DnsTypes
<1>5. told' = told \/ told' = [q |-> q[t], reply |-> reply[t]]
  BY DEF Answer
<1>6. told'.q \in Query /\ About(told'.reply, told'.q)
  BY <1>1, <1>4, <1>5 DEF DnsTypes
<1>7. DnsTypes'
  BY <1>1, <1>2, <1>3, <1>6 DEF DnsTypes
<1>8. Asked' = Asked
  BY <1>2 DEF Asked
<1>9. OnePerId'
  BY <1>1, <1>2, <1>8, AskedKept
<1>10. RepliesRight' /\ CacheRight'
  BY <1>1, <1>2, <1>3 DEF RepliesRight, CacheRight, About
<1>11. About(told.reply, told.q)'
  BY <1>6 DEF About
<1> QED BY <1>7, <1>9, <1>10, <1>11 DEF DnsInv

LEMMA AskRight ==
  ASSUME DnsInv, NEW name \in DnsNames, Ask(name)
  PROVE  DnsInv'
<1> DEFINE m == [id |-> queries + 1, name |-> name]
<1>1. DnsTypes /\ OnePerId /\ CacheRight /\ RepliesRight
  BY DEF DnsInv
<1>2. /\ inbox' = Append(inbox, m) /\ queries' = queries + 1
      /\ UNCHANGED <<dns_pc, q, sock, reply, wire, ext_in, dns_ext_sock, wifi_up, dns_cache, told>>
  BY DEF Ask, Elsewhere, sockVars
<1>3. queries \in Nat /\ m \in Query /\ m.id = queries + 1
  BY <1>1 DEF DnsTypes, Query, QueryNames
<1> HIDE DEF m
<1>4. inbox' \in Seq(Query) /\ Entries(inbox') \subseteq Entries(inbox) \cup {m}
  BY <1>1, <1>2, <1>3, Longer DEF DnsTypes
<1>5. Asked' \subseteq Asked \cup {m}
  BY <1>2, <1>4 DEF Asked
<1>6. \A n \in Asked : n.id \in Nat
  <2>1. \A n \in Asked : n \in Query
    BY <1>1 DEF Asked, DnsTypes, Entries
  <2> QED BY <2>1 DEF Query
<1>7. \A n \in Asked : n.id <= queries
  BY <1>1 DEF OnePerId
<1>8. \A n \in Asked' : n.id <= queries'
  BY <1>2, <1>3, <1>5, <1>6, <1>7
<1>9. \A n \in Asked : n.id # m.id
  BY <1>3, <1>6, <1>7
<1>10. ASSUME NEW n1 \in Asked', NEW n2 \in Asked', n1.id = n2.id PROVE n1 = n2
  BY <1>1, <1>5, <1>9, <1>10 DEF OnePerId
<1>11. OnePerId'
  BY <1>8, <1>10 DEF OnePerId
<1>12. DnsTypes'
  BY <1>1, <1>2, <1>3, <1>4 DEF DnsTypes
<1>13. RepliesRight' /\ CacheRight' /\ About(told.reply, told.q)'
  BY <1>1, <1>2 DEF RepliesRight, About, CacheRight, DnsInv
<1> QED BY <1>11, <1>12, <1>13 DEF DnsInv

LEMMA UpstreamRight ==
  ASSUME DnsInv, NEW m \in wire, UpstreamAnswers(m)
  PROVE  DnsInv'
<1>1. DnsTypes /\ OnePerId /\ CacheRight /\ RepliesRight
  BY DEF DnsInv
<1>2. m.sock \in Tasks /\ m.q \in Query /\ m.q \in Asked
  BY <1>1, AskedOf
<1>3. /\ wire' \subseteq wire
      /\ UNCHANGED <<dns_pc, q, sock, reply, inbox, dns_ext_sock, wifi_up, dns_cache, told, queries>>
  BY DEF UpstreamAnswers, Elsewhere, sockVars
<1>4. \/ ext_in' = ext_in
      \/ ext_in' = [ext_in EXCEPT ![m.sock] = Append(ext_in[m.sock], m.q)]
  BY <1>1, <1>2 DEF UpstreamAnswers, DnsTypes
<1>5. /\ Append(ext_in[m.sock], m.q) \in Seq(Query)
      /\ Entries(Append(ext_in[m.sock], m.q)) \subseteq Asked
  BY <1>1, <1>2, Longer, AskedOf DEF DnsTypes
<1>6. /\ ext_in' \in [Tasks -> Seq(Query)]
      /\ \A s \in Tasks : ext_in'[s] = ext_in[s] \/ ext_in'[s] = Append(ext_in[m.sock], m.q)
  BY <1>1, <1>2, <1>4, <1>5 DEF DnsTypes
<1>7. \A s \in Tasks : Entries(ext_in'[s]) \subseteq Asked
  BY <1>1, <1>5, <1>6, AskedOf
<1>8. OnePerId'
  BY <1>1, <1>3, <1>7, AskedOf, AskedFrom
<1>9. DnsTypes'
  BY <1>1, <1>3, <1>6 DEF DnsTypes
<1>10. RepliesRight' /\ CacheRight' /\ About(told.reply, told.q)'
  BY <1>1, <1>3 DEF RepliesRight, About, CacheRight, DnsInv
<1> QED BY <1>8, <1>9, <1>10 DEF DnsInv

-----------------------------------------------------------------------------
LEMMA DnsStart == DnsInit => DnsInv
<1> SUFFICES ASSUME DnsInit PROVE DnsInv
  OBVIOUS
<1>1. /\ NoQuery \in Query /\ NoQuery.id = 0 /\ NoQuery.name = "none"
      /\ NoReply \in ReplyRec /\ About(NoReply, NoQuery)
  BY DEF NoQuery, NoReply, Reply, Query, QueryNames, ReplyRec, About
<1>2. << >> \in Seq(Query) /\ << >> \in Seq(CacheRec) /\ DOMAIN << >> = {} /\ 0 \in 0 .. MaxTasks
  BY DnsAssumption
<1>3. DnsTypes
  BY <1>1, <1>2 DEF DnsInit, DnsTypes
<1>4. \A m \in Asked : m = NoQuery
  BY <1>2 DEF DnsInit, Asked, Entries
<1>5. OnePerId
  BY <1>1, <1>4 DEF OnePerId, DnsInit
<1>6. CacheRight /\ RepliesRight /\ About(told.reply, told.q)
  BY <1>1, <1>2 DEF DnsInit, CacheRight, RepliesRight
<1> QED BY <1>3, <1>5, <1>6 DEF DnsInv

LEMMA DnsStep == DnsInv /\ [DnsNext]_dnsVars => DnsInv'
<1> SUFFICES ASSUME DnsInv, [DnsNext]_dnsVars PROVE DnsInv'
  OBVIOUS
<1>1. ASSUME NEW t \in Tasks, ServerStep(t) PROVE DnsInv'
  BY <1>1, QuietServer, TakeQueryRight, SendRight, ReceiveRight, UpstreamFailsRight,
     AnswerRight DEF ServerStep
<1>2. CASE FirstStart \/ Watchdog
  BY <1>2, Watched
<1>3. ASSUME NEW name \in DnsNames, Ask(name) PROVE DnsInv'
  BY <1>3, AskRight
<1>4. ASSUME NEW m \in wire, UpstreamAnswers(m) PROVE DnsInv'
  BY <1>4, UpstreamRight
<1>5. CASE (\E t \in Tasks : Hang(t) \/ Resume(t)) \/ WifiChanges \/ EntryAges \/ GoesStale
             \/ UNCHANGED dnsVars
  BY <1>5, World
<1> QED BY <1>1, <1>2, <1>3, <1>4, <1>5 DEF DnsNext

(* dns_fwd.c:65-106, 167-173, 193-199, 239-247: with any number of queries
   on their way, tasks that hang and come back beside their successor, and
   answers as late and as mixed as they like, what the phone is told has the
   id and the name of the query it answers, the bridge's own address goes out
   only without WiFi, and a cache of any size holds each name's own answer. *)
THEOREM TellsItsOwn == DnsSpec => []TellsOwnAnswer
<1>1. DnsInv => TellsOwnAnswer
  BY DEF DnsInv, About, CacheRight, TellsOwnAnswer
<1> QED BY <1>1, DnsStart, DnsStep, PTL DEF DnsSpec
=============================================================================
