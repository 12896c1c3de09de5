---------------------------- MODULE ProxyProofs ----------------------------
(***************************************************************************)
(* Proofs about Proxy, for any phone, any sites and any sizes of the flow  *)
(* table and of the relay; about ProxySession, for any buffers, requests   *)
(* and answers; and about RelayHeader, for words of any width.             *)
(***************************************************************************)
EXTENDS Proxy, ProxySession, RelayHeader, SequenceTheorems, WellFoundedInduction, TLAPS

ProxySpec == ProxyInit /\ [][ProxyNext]_proxyVars

Addresses == {d[2] : d \in Dialled}

FlowRec  == [state : {"ACTIVE", "CLOSED"}, port : Ports, svc : Service, ip : Addresses,
             idle : BOOLEAN]
EntryRec == [port : Ports, ip : Addresses, st : {"live", "left", "gone"}]
SessRec  == [slot : 1..SessMax, port : Ports, svc : Service, ip : Addresses,
             st : {"live", "left", "gone"}]
ConnRec  == {NoConn} \cup
            [st : {"direct", "syn", "relayed"}, ip : Addresses, svc : Service]

ProxyTypes ==
  /\ flows \in Seq(FlowRec)
  /\ conn \in [Ports -> ConnRec]
  /\ backlog \in [Service -> Seq(EntryRec)]
  /\ sess \in SUBSET SessRec
  /\ relay_pc \in {"start", "gone", "select", "service", "http", "tls", "deadlines"}
  /\ rd \in SUBSET Service /\ px_ready \in BOOLEAN
  /\ crossed \in SUBSET Ports /\ evicted \in SUBSET Ports

(* An active flow of a connection the phone has is that connection's.      *)
ActiveIsSame ==
  \A p \in Ports : Live(p) =>
    \A i \in FlowOf(flows, p) :
      flows[i].state = "ACTIVE" => Same(flows, i, conn[p].ip, conn[p].svc)

TableInv == OneFlowPerPort /\ ActiveIsSame /\ FlowServesConnection

(* A connection the phone has is at one place of the relay, and the relay  *)
(* has no older one of that port and service that lwIP still holds open.   *)
BacklogKnows ==
  \A svc \in Service : \A k \in DOMAIN backlog[svc] :
    backlog[svc][k].st = "live" =>
      conn[backlog[svc][k].port] = Conn("relayed", backlog[svc][k].ip, svc)

LiveOnce ==
  /\ \A s, t \in sess : s.st = "live" /\ t.st = "live" /\ s.port = t.port => s = t
  /\ \A svc \in Service : \A k \in DOMAIN backlog[svc] : backlog[svc][k].st = "live" =>
       /\ \A s \in sess : s.st = "live" => s.port # backlog[svc][k].port
       /\ \A j \in DOMAIN backlog[svc] :
            backlog[svc][j].st = "live" /\ backlog[svc][j].port = backlog[svc][k].port
              => j = k

NoneHeld == \A p \in Ports : Live(p) => ~HeldOpen(p, conn[p].svc)

RelayInv == BacklogKnows /\ SessionKnowsItsSite /\ LiveOnce /\ NoneHeld

(* The listeners were asked with a slot free, which the first may take.    *)
SlotInv ==
  /\ relay_pc \in {"service", "http"} /\ rd # {} => SlotFree
  /\ relay_pc = "tls" /\ rd # {} /\ "http" \notin rd => SlotFree

(* A listener that was asked and not yet accepted from still has a backlog. *)
AskedWaits ==
  /\ relay_pc \in {"service", "http"} => \A svc \in rd : backlog[svc] # << >>
  /\ relay_pc = "tls" /\ "tls" \in rd => backlog["tls"] # << >>

ProxyInv == ProxyTypes /\ TableInv /\ RelayInv /\ SlotInv /\ AskedWaits

-----------------------------------------------------------------------------
(* The table as a set of flows, of which a port has at most one.           *)
Flows(fs) == {fs[i] : i \in DOMAIN fs}
OnePerPort(fs) == \A i, j \in DOMAIN fs : fs[i].port = fs[j].port => i = j

LEMMA Sizes ==
  /\ FlowMax \in Nat /\ FlowMax > 0 /\ SessMax \in Nat /\ SessMax > 0
  /\ \A d \in Dialled : d[1] \in Ports /\ d[2] \in Addresses /\ d[3] \in Service
BY ProxyAssumption DEF Addresses, Service

(* What FlowRemove() leaves, place by place ...                            *)
LEMMA RemoveEntries ==
  ASSUME NEW fs \in Seq(FlowRec), NEW i \in DOMAIN fs
  PROVE  /\ FlowRemove(fs, i) \in Seq(FlowRec)
         /\ Len(FlowRemove(fs, i)) = Len(fs) - 1
         /\ \A k \in 1..(Len(fs) - 1) :
              FlowRemove(fs, i)[k] = IF k < i THEN fs[k] ELSE fs[k + 1]
<1>1. i \in Nat /\ 1 <= i /\ i <= Len(fs) /\ Len(fs) \in Nat
  OBVIOUS
<1>2. /\ SubSeq(fs, 1, i - 1) \in Seq(FlowRec) /\ Len(SubSeq(fs, 1, i - 1)) = i - 1
      /\ \A k \in 1..(i - 1) : SubSeq(fs, 1, i - 1)[k] = fs[k]
  BY <1>1, SubSeqProperties
<1>3. /\ SubSeq(fs, i + 1, Len(fs)) \in Seq(FlowRec)
      /\ Len(SubSeq(fs, i + 1, Len(fs))) = Len(fs) - i
      /\ \A k \in 1..(Len(fs) - i) : SubSeq(fs, i + 1, Len(fs))[k] = fs[i + k]
  BY <1>1, SubSeqProperties
<1> DEFINE a == SubSeq(fs, 1, i - 1)
           b == SubSeq(fs, i + 1, Len(fs))
<1>4. /\ a \o b \in Seq(FlowRec) /\ Len(a \o b) = Len(a) + Len(b)
      /\ \A k \in 1..(Len(a) + Len(b)) :
           (a \o b)[k] = IF k <= Len(a) THEN a[k] ELSE b[k - Len(a)]
  BY <1>2, <1>3, ConcatProperties
<1>5. FlowRemove(fs, i) = a \o b
  BY DEF FlowRemove
<1>6. ASSUME NEW k \in 1..(Len(fs) - 1)
      PROVE  (a \o b)[k] = IF k < i THEN fs[k] ELSE fs[k + 1]
  <2>1. CASE k < i
    <3>1. k \in 1..(i - 1) /\ k \in 1..(Len(a) + Len(b)) /\ k <= Len(a)
      BY <1>1, <1>2, <1>3, <2>1
    <3> HIDE DEF a, b
    <3>2. (a \o b)[k] = a[k]
      BY <1>4, <3>1
    <3>3. a[k] = fs[k]
      BY <1>2, <3>1 DEF a
    <3> QED BY <2>1, <3>2, <3>3
  <2>2. CASE ~(k < i)
    <3>1. k - (i - 1) \in 1..(Len(fs) - i) /\ i + (k - (i - 1)) = k + 1
      BY <1>1, <2>2
    <3>2. k \in 1..(Len(a) + Len(b)) /\ ~(k <= Len(a)) /\ k - Len(a) = k - (i - 1)
      BY <1>1, <1>2, <1>3, <2>2
    <3> HIDE DEF a, b
    <3>3. (a \o b)[k] = b[k - (i - 1)]
      BY <1>4, <3>2
    <3>4. b[k - (i - 1)] = fs[k + 1]
      BY <1>3, <3>1 DEF b
    <3> QED BY <2>2, <3>3, <3>4
  <2> QED BY <2>1, <2>2
<1>7. Len(a) = i - 1 /\ Len(b) = Len(fs) - i
  BY <1>2, <1>3
<1> HIDE DEF a, b
<1>8. Len(a \o b) = Len(fs) - 1
  BY <1>1, <1>4, <1>7
<1> QED BY <1>4, <1>5, <1>6, <1>8

(* ... and as a set.                                                       *)
LEMMA Removed ==
  ASSUME NEW fs \in Seq(FlowRec), OnePerPort(fs), NEW i \in DOMAIN fs
  PROVE  /\ FlowRemove(fs, i) \in Seq(FlowRec) /\ OnePerPort(FlowRemove(fs, i))
         /\ Len(FlowRemove(fs, i)) = Len(fs) - 1
         /\ Flows(FlowRemove(fs, i)) = Flows(fs) \ {fs[i]}
         /\ \A f \in Flows(FlowRemove(fs, i)) : f.port # fs[i].port
<1> DEFINE g == FlowRemove(fs, i)
<1>1. i \in Nat /\ 1 <= i /\ i <= Len(fs) /\ Len(fs) \in Nat /\ DOMAIN fs = 1..Len(fs)
  OBVIOUS
<1>a. /\ g \in Seq(FlowRec) /\ Len(g) = Len(fs) - 1
      /\ \A k \in 1..(Len(fs) - 1) : g[k] = IF k < i THEN fs[k] ELSE fs[k + 1]
  BY RemoveEntries
<1> HIDE DEF g
<1>2. DOMAIN g = 1..(Len(fs) - 1)
  BY <1>a
<1>3. \A k \in DOMAIN g : \E m \in DOMAIN fs \ {i} :
         g[k] = fs[m] /\ m = IF k < i THEN k ELSE k + 1
  BY <1>1, <1>a, <1>2
<1>4. \A m \in DOMAIN fs \ {i} : \E k \in DOMAIN g : g[k] = fs[m]
  <2> SUFFICES ASSUME NEW m \in DOMAIN fs \ {i} PROVE \E k \in DOMAIN g : g[k] = fs[m]
    OBVIOUS
  <2>1. CASE m < i
    BY <1>1, <1>a, <1>2, <2>1
  <2>2. CASE m > i
    <3>1. m - 1 \in DOMAIN g /\ ~(m - 1 < i) /\ (m - 1) + 1 = m
      BY <1>1, <1>2, <2>2
    <3> QED BY <1>a, <1>2, <3>1
  <2> QED BY <1>1, <2>1, <2>2
<1>5. OnePerPort(g)
  <2> SUFFICES ASSUME NEW j \in DOMAIN g, NEW k \in DOMAIN g, g[j].port = g[k].port
               PROVE  j = k
    BY DEF OnePerPort
  <2>1. PICK m \in DOMAIN fs \ {i} : g[j] = fs[m] /\ m = IF j < i THEN j ELSE j + 1
    BY <1>3
  <2>2. PICK n \in DOMAIN fs \ {i} : g[k] = fs[n] /\ n = IF k < i THEN k ELSE k + 1
    BY <1>3
  <2>3. m = n
    BY <2>1, <2>2 DEF OnePerPort
  <2> QED BY <1>1, <1>2, <2>1, <2>2, <2>3
<1>6. \A f \in Flows(g) : f \in Flows(fs) /\ f.port # fs[i].port
  BY <1>3 DEF Flows, OnePerPort
<1>7. \A f \in Flows(fs) : f # fs[i] => f \in Flows(g)
  BY <1>4 DEF Flows
<1>8. Flows(g) = Flows(fs) \ {fs[i]}
  BY <1>6, <1>7
<1> QED BY <1>a, <1>5, <1>6, <1>8 DEF g

(* A flow appended to a table that has none of its port.                  *)
LEMMA Added ==
  ASSUME NEW fs \in Seq(FlowRec), OnePerPort(fs), NEW r \in FlowRec,
         \A f \in Flows(fs) : f.port # r.port
  PROVE  /\ Append(fs, r) \in Seq(FlowRec) /\ OnePerPort(Append(fs, r))
         /\ Len(Append(fs, r)) = Len(fs) + 1
         /\ Flows(Append(fs, r)) = Flows(fs) \cup {r}
<1>1. /\ Append(fs, r) \in Seq(FlowRec) /\ Len(Append(fs, r)) = Len(fs) + 1
      /\ Len(fs) \in Nat /\ DOMAIN fs = 1..Len(fs)
      /\ DOMAIN Append(fs, r) = 1..(Len(fs) + 1)
      /\ \A k \in 1..Len(fs) : Append(fs, r)[k] = fs[k]
      /\ Append(fs, r)[Len(fs) + 1] = r
  BY AppendProperties
<1> DEFINE g == Append(fs, r)
<1> HIDE DEF g
<1>2. OnePerPort(g)
  <2> SUFFICES ASSUME NEW j \in DOMAIN g, NEW k \in DOMAIN g, g[j].port = g[k].port
               PROVE  j = k
    BY DEF OnePerPort
  <2>1. \A m \in 1..Len(fs) : fs[m].port # r.port
    BY <1>1 DEF Flows
  <2> QED BY <1>1, <2>1 DEF OnePerPort, g
<1>3. Flows(g) = Flows(fs) \cup {r}
  <2>1. \A k \in DOMAIN g : g[k] \in Flows(fs) \cup {r}
    BY <1>1 DEF Flows, g
  <2>2. \A k \in DOMAIN fs : fs[k] \in Flows(g)
    BY <1>1 DEF Flows, g
  <2>3. r \in Flows(g)
    BY <1>1 DEF Flows, g
  <2> QED BY <2>1, <2>2, <2>3 DEF Flows
<1> QED BY <1>1, <1>2, <1>3 DEF g

(* A flow replaced by a newer one of its port.                             *)
LEMMA Replaced ==
  ASSUME NEW fs \in Seq(FlowRec), OnePerPort(fs), NEW i \in DOMAIN fs,
         NEW r \in FlowRec, r.port = fs[i].port
  PROVE  LET g == Append(FlowRemove(fs, i), r)
         IN  /\ g \in Seq(FlowRec) /\ OnePerPort(g) /\ Len(g) = Len(fs)
             /\ Flows(g) = (Flows(fs) \ {fs[i]}) \cup {r}
<1>1. /\ FlowRemove(fs, i) \in Seq(FlowRec) /\ OnePerPort(FlowRemove(fs, i))
      /\ Len(FlowRemove(fs, i)) = Len(fs) - 1
      /\ Flows(FlowRemove(fs, i)) = Flows(fs) \ {fs[i]}
      /\ \A f \in Flows(FlowRemove(fs, i)) : f.port # r.port
  BY Removed
<1> DEFINE h == FlowRemove(fs, i)
<1> HIDE DEF h
<1>2. /\ Append(h, r) \in Seq(FlowRec) /\ OnePerPort(Append(h, r))
      /\ Len(Append(h, r)) = Len(h) + 1
      /\ Flows(Append(h, r)) = Flows(h) \cup {r}
  BY <1>1, Added DEF h
<1>3. Len(fs) \in Nat
  OBVIOUS
<1>4. Len(Append(h, r)) = Len(fs)
  BY <1>1, <1>2, <1>3 DEF h
<1> QED BY <1>1, <1>2, <1>4 DEF h

LEMMA FlowsOf ==
  ASSUME NEW fs \in Seq(FlowRec), NEW p
  PROVE  /\ FlowOf(fs, p) = {} <=> \A f \in Flows(fs) : f.port # p
         /\ \A i \in FlowOf(fs, p) : i \in DOMAIN fs /\ fs[i].port = p /\ fs[i] \in Flows(fs)
BY DEF FlowOf, Flows

(* Moving a flow to the young end of the table keeps whose flow it is.     *)
LEMMA Touched ==
  ASSUME NEW fs \in Seq(FlowRec), OnePerPort(fs), NEW i \in DOMAIN fs
  PROVE  /\ FlowTouch(fs, i) \in Seq(FlowRec) /\ OnePerPort(FlowTouch(fs, i))
         /\ Len(FlowTouch(fs, i)) = Len(fs)
         /\ Flows(FlowTouch(fs, i)) = (Flows(fs) \ {fs[i]}) \cup {[fs[i] EXCEPT !.idle = FALSE]}
<1> DEFINE r == [fs[i] EXCEPT !.idle = FALSE]
<1>1. fs[i] \in FlowRec
  OBVIOUS
<1>2. r \in FlowRec /\ r.port = fs[i].port
  BY <1>1 DEF FlowRec
<1>3. FlowTouch(fs, i) = Append(FlowRemove(fs, i), r)
  BY DEF FlowTouch
<1> HIDE DEF r
<1>4. LET g == Append(FlowRemove(fs, i), r)
      IN  /\ g \in Seq(FlowRec) /\ OnePerPort(g) /\ Len(g) = Len(fs)
          /\ Flows(g) = (Flows(fs) \ {fs[i]}) \cup {r}
  BY <1>2, Replaced
<1>5. /\ FlowTouch(fs, i) \in Seq(FlowRec) /\ OnePerPort(FlowTouch(fs, i))
      /\ Len(FlowTouch(fs, i)) = Len(fs)
      /\ Flows(FlowTouch(fs, i)) = (Flows(fs) \ {fs[i]}) \cup {r}
  BY <1>3, <1>4
<1> QED BY <1>5 DEF r

(* flow_mark_closed() touches no flow of another port.                     *)
LEMMA MarkedClosed ==
  ASSUME NEW fs \in Seq(FlowRec), OnePerPort(fs), NEW p \in Ports
  PROVE  LET g == flow_mark_closed(fs, p)
         IN  /\ g \in Seq(FlowRec) /\ OnePerPort(g) /\ Len(g) = Len(fs)
             /\ \A f \in Flows(g) : f.port = p => f.state = "CLOSED"
             /\ \A f : f.port # p => (f \in Flows(g) <=> f \in Flows(fs))
<1>1. CASE FlowOf(fs, p) = {}
  BY <1>1, FlowsOf DEF flow_mark_closed
<1>2. CASE FlowOf(fs, p) # {}
  <2> DEFINE i == CHOOSE i \in FlowOf(fs, p) : TRUE
             r == [fs[i] EXCEPT !.state = "CLOSED", !.idle = FALSE]
  <2>1. i \in FlowOf(fs, p)
    BY <1>2
  <2>2. flow_mark_closed(fs, p) = Append(FlowRemove(fs, i), r)
    BY <1>2 DEF flow_mark_closed
  <2> HIDE DEF i
  <2>3. i \in DOMAIN fs /\ fs[i].port = p /\ fs[i] \in Flows(fs) /\ fs[i] \in FlowRec
    BY <2>1, FlowsOf
  <2>4. r \in FlowRec /\ r.port = p /\ r.state = "CLOSED"
    BY <2>3 DEF FlowRec
  <2> HIDE DEF r
  <2>5. LET g == Append(FlowRemove(fs, i), r)
        IN  /\ g \in Seq(FlowRec) /\ OnePerPort(g) /\ Len(g) = Len(fs)
            /\ Flows(g) = (Flows(fs) \ {fs[i]}) \cup {r}
    BY <2>3, <2>4, Replaced
  <2>6. \A f \in Flows(fs) : f.port = p => f = fs[i]
    BY <2>3 DEF Flows, OnePerPort
  <2> QED BY <2>2, <2>3, <2>4, <2>5, <2>6
<1> QED BY <1>1, <1>2

(* What a SYN from p to ip, svc makes of a table: v is the verdict, fs the *)
(* table before it.                                                        *)
SynVerdict(v, fs, p, ip, svc) ==
  /\ v.flows \in Seq(FlowRec) /\ OnePerPort(v.flows) /\ Len(v.flows) <= FlowMax
  /\ v.match \in BOOLEAN /\ v.taken \in SUBSET Ports
  /\ v.match => \E f \in Flows(v.flows) :
                  f.port = p /\ f.ip = ip /\ f.svc = svc /\ f.state = "ACTIVE"
  /\ \A f \in Flows(v.flows) :
       f.port = p => v.match /\ f.ip = ip /\ f.svc = svc /\ f.state = "ACTIVE"
  /\ \A f \in Flows(v.flows) : f.port # p => f \in Flows(fs)
  /\ \A f \in Flows(fs) :
       f.port # p /\ f.state = "ACTIVE" /\ f.port \notin v.taken => f \in Flows(v.flows)

LEMMA AddedBySyn ==
  ASSUME NEW fs \in Seq(FlowRec), OnePerPort(fs), Len(fs) <= FlowMax,
         NEW p \in Ports, NEW ip \in Addresses, NEW svc \in Service,
         NEW intercept \in BOOLEAN, \A f \in Flows(fs) : f.port # p
  PROVE  SynVerdict(AddFlow(fs, p, ip, svc, intercept), fs, p, ip, svc)
<1> DEFINE v == AddFlow(fs, p, ip, svc, intercept)
           n == NewFlow(p, ip, svc)
<1>1. n \in FlowRec /\ n.port = p /\ n.ip = ip /\ n.svc = svc /\ n.state = "ACTIVE"
  BY DEF NewFlow, FlowRec
<1>2. Len(fs) \in Nat /\ FlowMax \in Nat
  BY Sizes
<1> HIDE DEF n
<1>3. CASE v = Verdict(fs, FALSE, {})
  <2>1. v.flows = fs /\ v.match = FALSE /\ v.taken = {}
    BY <1>3 DEF Verdict
  <2> HIDE DEF v
  <2> QED BY <2>1 DEF SynVerdict, v
<1>4. CASE Len(fs) < FlowMax /\ v = Verdict(Append(fs, n), TRUE, {})
  <2>1. v.flows = Append(fs, n) /\ v.match = TRUE /\ v.taken = {}
    BY <1>4 DEF Verdict
  <2>2. /\ Append(fs, n) \in Seq(FlowRec) /\ OnePerPort(Append(fs, n))
        /\ Len(Append(fs, n)) = Len(fs) + 1
        /\ Flows(Append(fs, n)) = Flows(fs) \cup {n}
    BY <1>1, Added
  <2>3. Len(Append(fs, n)) <= FlowMax
    BY <1>2, <1>4, <2>2
  <2> HIDE DEF v
  <2> QED BY <1>1, <2>1, <2>2, <2>3 DEF SynVerdict, v
<1>5. ASSUME intercept, ~(Len(fs) < FlowMax), flow_slot(fs) # {}
      PROVE  SynVerdict(v, fs, p, ip, svc)
  <2> DEFINE i == CHOOSE i \in flow_slot(fs) : TRUE
             taken == {fs[j].port : j \in {i} \intersect Idle(fs)}
             g == FlowRemove(fs, i)
  <2>1. i \in flow_slot(fs)
    BY <1>5
  <2>2. v = Verdict(Append(g, n), TRUE, taken)
    BY <1>5 DEF AddFlow, n
  <2>3. v.flows = Append(g, n) /\ v.match = TRUE /\ v.taken = taken
    BY <2>2 DEF Verdict
  <2> HIDE DEF v, i
  <2>4. i \in DOMAIN fs /\ fs[i] \in FlowRec
    BY <2>1 DEF flow_slot, Oldest, Closed
  <2>5. fs[i].state = "CLOSED" \/ i \in Idle(fs)
    BY <2>1 DEF flow_slot, Oldest, Closed, Idle
  <2>6. fs[i].port \in Ports
    BY <2>4 DEF FlowRec
  <2>7. taken \in SUBSET Ports /\ (fs[i].state = "CLOSED" \/ fs[i].port \in taken)
    BY <2>5, <2>6
  <2>8. /\ g \in Seq(FlowRec) /\ OnePerPort(g) /\ Len(g) = Len(fs) - 1
        /\ Flows(g) = Flows(fs) \ {fs[i]}
    BY <2>4, Removed
  <2> HIDE DEF g, taken
  <2>9. /\ Append(g, n) \in Seq(FlowRec) /\ OnePerPort(Append(g, n))
        /\ Len(Append(g, n)) = Len(g) + 1
        /\ Flows(Append(g, n)) = Flows(g) \cup {n}
    BY <1>1, <2>8, Added
  <2>10. Len(Append(g, n)) <= FlowMax
    BY <1>2, <2>8, <2>9
  <2>11. \A f \in Flows(fs) :
           f.port # p /\ f.state = "ACTIVE" /\ f.port \notin v.taken => f \in Flows(v.flows)
    BY <2>3, <2>7, <2>8, <2>9
  <2> QED BY <1>1, <2>3, <2>7, <2>8, <2>9, <2>10, <2>11 DEF SynVerdict
<1>6. CASE ~intercept
  BY <1>3, <1>6 DEF AddFlow
<1>7. CASE intercept /\ Len(fs) < FlowMax
  BY <1>4, <1>7 DEF AddFlow, n
<1>8. CASE intercept /\ ~(Len(fs) < FlowMax) /\ flow_slot(fs) = {}
  BY <1>3, <1>8 DEF AddFlow
<1> QED BY <1>5, <1>6, <1>7, <1>8

LEMMA SynDoes ==
  ASSUME NEW fs \in Seq(FlowRec), OnePerPort(fs), Len(fs) <= FlowMax,
         NEW p \in Ports, NEW ip \in Addresses, NEW svc \in Service,
         NEW intercept \in BOOLEAN
  PROVE  SynVerdict(HookSyn(fs, p, ip, svc, intercept), fs, p, ip, svc)
<1>1. CASE FlowOf(fs, p) = {}
  <2>1. \A f \in Flows(fs) : f.port # p
    BY <1>1, FlowsOf
  <2> QED BY <1>1, <2>1, AddedBySyn DEF HookSyn
<1>2. CASE FlowOf(fs, p) # {}
  <2> DEFINE i == CHOOSE i \in FlowOf(fs, p) : TRUE
             v == HookSyn(fs, p, ip, svc, intercept)
  <2>1. i \in FlowOf(fs, p)
    BY <1>2
  <2>2. v = IF Same(fs, i, ip, svc) /\ fs[i].state = "ACTIVE"
            THEN Verdict(FlowTouch(fs, i), TRUE, {})
            ELSE AddFlow(FlowRemove(fs, i), p, ip, svc, intercept)
    BY <1>2 DEF HookSyn
  <2> HIDE DEF i, v
  <2>3. i \in DOMAIN fs /\ fs[i].port = p /\ fs[i] \in Flows(fs) /\ fs[i] \in FlowRec
    BY <2>1, FlowsOf
  <2>4. \A f \in Flows(fs) : f.port = p => f = fs[i]
    BY <2>3 DEF Flows, OnePerPort
  <2>5. CASE Same(fs, i, ip, svc) /\ fs[i].state = "ACTIVE"
    <3> DEFINE g == FlowTouch(fs, i)
               r == [fs[i] EXCEPT !.idle = FALSE]
    <3>1. v.flows = g /\ v.match = TRUE /\ v.taken = {}
      BY <2>2, <2>5 DEF Verdict
    <3>2. g \in Seq(FlowRec) /\ OnePerPort(g) /\ Len(g) = Len(fs)
          /\ Flows(g) = (Flows(fs) \ {fs[i]}) \cup {r}
      BY <2>3, Touched
    <3>3. r.port = p /\ r.ip = ip /\ r.svc = svc /\ r.state = "ACTIVE"
      BY <2>3, <2>5 DEF FlowRec, Same
    <3> HIDE DEF g, r
    <3> QED BY <2>3, <2>4, <3>1, <3>2, <3>3 DEF SynVerdict, v
  <2>6. CASE ~(Same(fs, i, ip, svc) /\ fs[i].state = "ACTIVE")
    <3> DEFINE g == FlowRemove(fs, i)
    <3>1. /\ g \in Seq(FlowRec) /\ OnePerPort(g) /\ Len(g) = Len(fs) - 1
          /\ Flows(g) = Flows(fs) \ {fs[i]}
      BY <2>3, Removed
    <3>2. v = AddFlow(g, p, ip, svc, intercept)
      BY <2>2, <2>6
    <3> HIDE DEF g
    <3>3. Len(g) <= FlowMax
      BY <3>1, Sizes
    <3>4. \A f \in Flows(g) : f.port # p
      BY <2>3, <2>4, <3>1
    <3>5. SynVerdict(v, g, p, ip, svc)
      BY <3>1, <3>2, <3>3, <3>4, AddedBySyn
    <3> QED BY <2>3, <3>1, <3>5 DEF SynVerdict, v
  <2> QED BY <2>5, <2>6 DEF v
<1> QED BY <1>1, <1>2

-----------------------------------------------------------------------------
(* Backlogs and sessions, entry by entry.                                  *)
LEMMA Entered ==
  ASSUME NEW s \in Seq(EntryRec), NEW e \in EntryRec
  PROVE  /\ Append(s, e) \in Seq(EntryRec) /\ Append(s, e) # << >>
         /\ \A k \in DOMAIN Append(s, e) :
              \/ k \in DOMAIN s /\ Append(s, e)[k] = s[k]
              \/ k = Len(s) + 1 /\ k \notin DOMAIN s /\ Append(s, e)[k] = e
<1>1. /\ Append(s, e) \in Seq(EntryRec) /\ Len(Append(s, e)) = Len(s) + 1
      /\ \A k \in 1..Len(s) : Append(s, e)[k] = s[k]
      /\ Append(s, e)[Len(s) + 1] = e
      /\ Len(s) \in Nat /\ DOMAIN s = 1..Len(s)
  BY AppendProperties
<1>2. DOMAIN Append(s, e) = 1..(Len(s) + 1)
  BY <1>1
<1>3. Append(s, e) # << >>
  BY <1>1
<1> QED BY <1>1, <1>2, <1>3

LEMMA Taken ==
  ASSUME NEW s \in Seq(EntryRec), s # << >>
  PROVE  /\ 1 \in DOMAIN s /\ Head(s) = s[1] /\ Head(s) \in EntryRec
         /\ Tail(s) \in Seq(EntryRec)
         /\ \A k \in DOMAIN Tail(s) :
              k \in Nat /\ k + 1 \in DOMAIN s /\ k + 1 # 1 /\ Tail(s)[k] = s[k + 1]
<1>1. /\ Head(s) = s[1] /\ Head(s) \in EntryRec /\ Tail(s) \in Seq(EntryRec)
      /\ Len(s) \in Nat \ {0} /\ DOMAIN s = 1..Len(s)
      /\ Len(Tail(s)) = Len(s) - 1
      /\ \A k \in 1..(Len(s) - 1) : Tail(s)[k] = s[k + 1]
  BY EmptySeq, HeadTailProperties
<1>2. DOMAIN Tail(s) = 1..(Len(s) - 1)
  BY <1>1
<1> QED BY <1>1, <1>2

(* Reset() changes how an entry stands and nothing else of it.             *)
LEMMA ResetEntry ==
  ASSUME NEW e \in EntryRec, NEW p, NEW from, NEW to \in {"left", "gone"}
  PROVE  LET r == Reset(e, p, from, to)
         IN  /\ r \in EntryRec /\ r.port = e.port /\ r.ip = e.ip
             /\ r.st = IF e.port = p /\ e.st \in from THEN to ELSE e.st
BY DEF Reset, EntryRec

LEMMA ResetSession ==
  ASSUME NEW e \in SessRec, NEW p, NEW from, NEW to \in {"left", "gone"}
  PROVE  LET r == Reset(e, p, from, to)
         IN  /\ r \in SessRec /\ r.port = e.port /\ r.ip = e.ip
             /\ r.slot = e.slot /\ r.svc = e.svc
             /\ r.st = IF e.port = p /\ e.st \in from THEN to ELSE e.st
BY DEF Reset, SessRec

(* What a reset of port p makes of the backlogs and the sessions.          *)
ResetTo(p, svcs, from, to) ==
  /\ backlog' \in [Service -> Seq(EntryRec)] /\ sess' \in SUBSET SessRec
  /\ \A svc \in Service :
       /\ DOMAIN backlog'[svc] = DOMAIN backlog[svc]
       /\ backlog[svc] # << >> => backlog'[svc] # << >>
       /\ \A k \in DOMAIN backlog[svc] :
            /\ backlog'[svc][k].port = backlog[svc][k].port
            /\ backlog'[svc][k].ip = backlog[svc][k].ip
            /\ backlog'[svc][k].st =
                 IF svc \in svcs /\ backlog[svc][k].port = p /\ backlog[svc][k].st \in from
                 THEN to ELSE backlog[svc][k].st
  /\ \A s \in sess' : \E t \in sess :
       /\ s.slot = t.slot /\ s.port = t.port /\ s.svc = t.svc /\ s.ip = t.ip
       /\ s.st = IF t.svc \in svcs /\ t.port = p /\ t.st \in from THEN to ELSE t.st
       /\ s.st = t.st => s = t
  /\ {s.slot : s \in sess'} \subseteq {s.slot : s \in sess}

LEMMA ResetDoes ==
  ASSUME backlog \in [Service -> Seq(EntryRec)], sess \in SUBSET SessRec,
         NEW p \in Ports, NEW svcs \in SUBSET Service,
         NEW from, NEW to \in {"left", "gone"}, ResetAll(p, svcs, from, to)
  PROVE  ResetTo(p, svcs, from, to)
<1>1. ASSUME NEW svc \in Service
      PROVE  /\ backlog'[svc] \in Seq(EntryRec)
             /\ DOMAIN backlog'[svc] = DOMAIN backlog[svc]
             /\ backlog[svc] # << >> => backlog'[svc] # << >>
             /\ \A k \in DOMAIN backlog[svc] :
                   /\ backlog'[svc][k].port = backlog[svc][k].port
                   /\ backlog'[svc][k].ip = backlog[svc][k].ip
                   /\ backlog'[svc][k].st =
                        IF svc \in svcs /\ backlog[svc][k].port = p /\ backlog[svc][k].st \in from
                        THEN to ELSE backlog[svc][k].st
  <2> DEFINE b == backlog[svc]
             cn == [k \in DOMAIN b |-> Reset(b[k], p, from, to)]
  <2>1. backlog'[svc] = IF svc \in svcs THEN cn ELSE b
    BY DEF ResetAll
  <2>2. b \in Seq(EntryRec)
    OBVIOUS
  <2>3. CASE svc \notin svcs
    BY <2>1, <2>2, <2>3
  <2>4. CASE svc \in svcs
    <3> HIDE DEF b
    <3>1. Len(b) \in Nat /\ DOMAIN b = 1..Len(b) /\ \A k \in DOMAIN b : b[k] \in EntryRec
      BY <2>2
    <3>2. \A k \in DOMAIN b : cn[k] \in EntryRec /\ cn[k] = Reset(b[k], p, from, to)
      BY <3>1, ResetEntry
    <3>3. cn \in [1..Len(b) -> EntryRec]
      BY <3>1, <3>2
    <3>4. cn \in Seq(EntryRec)
      BY <3>1, <3>3, SeqDef
    <3>5. b # << >> => DOMAIN cn # {}
      <4>1. b # << >> => Len(b) # 0
        BY <2>2, EmptySeq
      <4>2. b # << >> => 1 \in DOMAIN cn
        BY <3>1, <4>1
      <4> QED BY <4>2
    <3>6. b # << >> => cn # << >>
      BY <3>4, <3>5
    <3>7. \A k \in DOMAIN b : /\ cn[k].port = b[k].port /\ cn[k].ip = b[k].ip
                             /\ cn[k].st = IF b[k].port = p /\ b[k].st \in from THEN to ELSE b[k].st
      BY <3>1, <3>2, ResetEntry
    <3>8. DOMAIN cn = DOMAIN b /\ backlog'[svc] = cn
      BY <2>1, <2>4
    <3> HIDE DEF cn
    <3> QED BY <2>4, <3>4, <3>6, <3>7, <3>8 DEF b
  <2> QED BY <2>3, <2>4
<1>2. backlog' \in [Service -> Seq(EntryRec)]
  <2>1. backlog' = [s \in Service |-> backlog'[s]]
    BY DEF ResetAll
  <2> QED BY <1>1, <2>1
<1>3. ASSUME NEW s \in sess'
      PROVE  \E t \in sess :
              /\ s \in SessRec
              /\ s.slot = t.slot /\ s.port = t.port /\ s.svc = t.svc /\ s.ip = t.ip
              /\ s.st = IF t.svc \in svcs /\ t.port = p /\ t.st \in from THEN to ELSE t.st
              /\ s.st = t.st => s = t
  <2>1. PICK t \in sess : s = IF t.svc \in svcs THEN Reset(t, p, from, to) ELSE t
    BY DEF ResetAll
  <2>2. t \in SessRec
    OBVIOUS
  <2>3. CASE t.svc \notin svcs
    BY <2>1, <2>2, <2>3
  <2>4. CASE t.svc \in svcs
    <3>1. s = Reset(t, p, from, to)
      BY <2>1, <2>4
    <3>2. s.st = t.st => s = t
      BY <2>2, <3>1 DEF Reset, SessRec
    <3> QED BY <2>2, <2>4, <3>1, <3>2, ResetSession
  <2> QED BY <2>3, <2>4
<1>4. sess' \in SUBSET SessRec /\ {s.slot : s \in sess'} \subseteq {s.slot : s \in sess}
  BY <1>3
<1> QED BY <1>1, <1>2, <1>3, <1>4 DEF ResetTo

-----------------------------------------------------------------------------
(* The steps, as the rest of the proofs take them apart.                   *)
LEMMA Connections ==
  ASSUME conn \in [Ports -> ConnRec], NEW p \in Ports
  PROVE  /\ conn[p].st \in {"none", "direct", "syn", "relayed"}
         /\ conn[p].st = "none" <=> conn[p] = NoConn
         /\ conn[p].st # "none" =>
              /\ conn[p].ip \in Addresses /\ conn[p].svc \in Service
              /\ conn[p] = Conn(conn[p].st, conn[p].ip, conn[p].svc)
<1>1. conn[p] \in ConnRec
  OBVIOUS
<1>2. CASE conn[p] = NoConn
  BY <1>2 DEF NoConn
<1>3. CASE conn[p] \in [st : {"direct", "syn", "relayed"}, ip : Addresses, svc : Service]
  BY <1>3 DEF NoConn, Conn
<1> QED BY <1>1, <1>2, <1>3 DEF ConnRec

LEMMA ConnTyped ==
  ASSUME NEW st \in {"direct", "syn", "relayed"}, NEW ip \in Addresses, NEW svc \in Service
  PROVE  /\ Conn(st, ip, svc) \in ConnRec /\ NoConn \in ConnRec
         /\ Conn(st, ip, svc).st = st /\ Conn(st, ip, svc).ip = ip
         /\ Conn(st, ip, svc).svc = svc /\ NoConn.st = "none"
BY DEF Conn, ConnRec, NoConn

Quiet ==
  /\ UNCHANGED <<flows, crossed, evicted, conn, backlog, sess>>
  /\ \/ proxy_task_start \/ SetReady \/ Served \/ Deadlines
     \/ (\E room \in {SlotFree, FALSE} : Select(room)) \/ UNCHANGED proxyVars

LEMMA Steps ==
  ASSUME ProxyTypes, [ProxyNext]_proxyVars
  PROVE  \/ \E p \in Ports, ip \in Addresses, svc \in Service, wifi \in BOOLEAN :
              conn[p].st \in {"none", "syn"} /\ Syn(p, ip, svc, wifi)
         \/ \E p \in Ports : HangUp(p)
         \/ \E p \in Ports : Packet(p)
         \/ TimeIdles \/ proxy_attach_netif \/ CloseSession \/ Accept \/ Quiet
<1>1. CASE \E d \in Dialled : Dial(d[1], d[2], d[3])
  <2>1. PICK d \in Dialled : Dial(d[1], d[2], d[3])
    BY <1>1
  <2>2. d[1] \in Ports /\ d[2] \in Addresses /\ d[3] \in Service
    BY Sizes
  <2>3. PICK wifi \in BOOLEAN : Syn(d[1], d[2], d[3], wifi)
    BY <2>1 DEF Dial
  <2>4. conn[d[1]].st \in {"none", "syn"}
    BY <2>1 DEF Dial, Has
  <2> QED BY <2>2, <2>3, <2>4
<1>2. CASE \E p \in Ports : Resend(p)
  <2>1. PICK p \in Ports : Resend(p)
    BY <1>2
  <2>2. PICK wifi \in BOOLEAN : Syn(p, conn[p].ip, conn[p].svc, wifi)
    BY <2>1 DEF Resend
  <2>3. conn[p].st = "syn"
    BY <2>1 DEF Resend
  <2>4. conn[p].ip \in Addresses /\ conn[p].svc \in Service
    BY <2>3, Connections DEF ProxyTypes
  <2> QED BY <2>2, <2>3, <2>4
<1>3. CASE UNCHANGED proxyVars
  BY <1>3 DEF Quiet, proxyVars
<1>4. CASE proxy_task_start
  BY <1>4 DEF Quiet, proxy_task_start, table, sockets
<1>5. CASE SetReady
  BY <1>5 DEF Quiet, SetReady, table, sockets
<1>6. CASE Served
  BY <1>6 DEF Quiet, Served, table, sockets
<1>7. CASE Deadlines
  BY <1>7 DEF Quiet, Deadlines, table, sockets
<1>8. CASE \E room \in {SlotFree, FALSE} : Select(room)
  BY <1>8 DEF Quiet, Select, table, sockets
<1> QED BY <1>1, <1>2, <1>3, <1>4, <1>5, <1>6, <1>7, <1>8 DEF ProxyNext, Phone, RelayTask

-----------------------------------------------------------------------------
(* Types, and a table of one flow per port in its size.                    *)
TableTypes(fs) == fs \in Seq(FlowRec) /\ OnePerPort(fs) /\ Len(fs) <= FlowMax

LEMMA TableTyped ==
  /\ ProxyTypes /\ OneFlowPerPort => TableTypes(flows)
  /\ TableTypes(flows) => OneFlowPerPort
BY DEF ProxyTypes, OneFlowPerPort, TableTypes, OnePerPort

LEMMA TypesStart == ProxyInit => ProxyTypes /\ OneFlowPerPort
<1>1. << >> \in Seq(FlowRec) /\ << >> \in Seq(EntryRec) /\ Len(<< >>) = 0
  OBVIOUS
<1>2. NoConn \in ConnRec /\ 0 <= FlowMax
  BY Sizes DEF ConnRec
<1>3. ASSUME ProxyInit PROVE backlog \in [Service -> Seq(EntryRec)]
  BY <1>1, <1>3 DEF ProxyInit
<1> QED BY <1>1, <1>2, <1>3 DEF ProxyInit, ProxyTypes, OneFlowPerPort

(* TimeIdles tells nothing of a flow but that it has been idle.            *)
LEMMA IdledFlows ==
  ASSUME NEW fs, TableTypes(fs), NEW k \in DOMAIN fs
  PROVE  LET g == [i \in DOMAIN fs |-> IF i <= k THEN [fs[i] EXCEPT !.idle = TRUE] ELSE fs[i]]
         IN  /\ TableTypes(g) /\ DOMAIN g = DOMAIN fs
             /\ \A i \in DOMAIN fs : /\ g[i].port = fs[i].port /\ g[i].ip = fs[i].ip
                                     /\ g[i].svc = fs[i].svc /\ g[i].state = fs[i].state
<1> DEFINE g == [i \in DOMAIN fs |-> IF i <= k THEN [fs[i] EXCEPT !.idle = TRUE] ELSE fs[i]]
<1>1. Len(fs) \in Nat /\ DOMAIN fs = 1..Len(fs) /\ \A i \in DOMAIN fs : fs[i] \in FlowRec
  BY DEF TableTypes
<1>2. \A i \in DOMAIN fs : /\ g[i] \in FlowRec /\ g[i].port = fs[i].port /\ g[i].ip = fs[i].ip
                           /\ g[i].svc = fs[i].svc /\ g[i].state = fs[i].state
  BY <1>1 DEF FlowRec
<1>3. g \in [1..Len(fs) -> FlowRec] /\ DOMAIN g = DOMAIN fs
  BY <1>1, <1>2
<1> HIDE DEF g
<1>4. g \in Seq(FlowRec)
  BY <1>1, <1>3, SeqDef
<1>5. Len(g) = Len(fs)
  BY <1>1, <1>3, <1>4
<1> QED BY <1>2, <1>3, <1>4, <1>5 DEF TableTypes, OnePerPort, g

Slots(ss) == {s.slot : s \in ss}
SocketTypes ==
  /\ conn \in [Ports -> ConnRec] /\ backlog \in [Service -> Seq(EntryRec)]
  /\ sess \in SUBSET SessRec

(* What the listeners still have, and which slots are taken.               *)
RoomKept ==
  /\ \A svc \in Service : backlog[svc] # << >> => backlog'[svc] # << >>
  /\ Slots(sess') \subseteq Slots(sess)

LEMMA ArrivesTyped ==
  ASSUME SocketTypes, NEW p \in Ports, NEW ip \in Addresses, NEW svc \in Service,
         NEW match \in BOOLEAN, Arrives(p, ip, svc, match)
  PROVE  SocketTypes' /\ RoomKept
<1>1. ASSUME NEW cn \in ConnRec, conn' = [conn EXCEPT ![p] = cn]
      PROVE  conn' \in [Ports -> ConnRec]
  BY <1>1 DEF SocketTypes
<1>2. /\ NoConn \in ConnRec /\ Conn("direct", ip, svc) \in ConnRec
      /\ Conn("syn", ip, svc) \in ConnRec /\ Conn("relayed", ip, svc) \in ConnRec
  BY ConnTyped
<1>3. CASE ~match
  <2>1. conn' = [conn EXCEPT ![p] = Conn("direct", ip, svc)] /\ UNCHANGED sockets
    BY <1>3 DEF Arrives
  <2> QED BY <1>1, <1>2, <2>1 DEF SocketTypes, RoomKept, sockets
<1>4. CASE match /\ relay_pc \in {"start", "gone"}
  <2>1. conn' = [conn EXCEPT ![p] = NoConn] /\ UNCHANGED sockets
    BY <1>4 DEF Arrives
  <2> QED BY <1>1, <1>2, <2>1 DEF SocketTypes, RoomKept, sockets
<1>5. CASE match /\ relay_pc \notin {"start", "gone"} /\ HeldOpen(p, svc)
  <2>1. /\ conn' = [conn EXCEPT ![p] = Conn("syn", ip, svc)]
        /\ ResetAll(p, {svc}, {"left"}, "gone")
    BY <1>5 DEF Arrives
  <2>2. ResetTo(p, {svc}, {"left"}, "gone")
    BY <2>1, ResetDoes, "gone" \in {"left", "gone"}, {svc} \in SUBSET Service DEF SocketTypes
  <2> QED BY <1>1, <1>2, <2>1, <2>2 DEF ResetTo, SocketTypes, RoomKept, Slots
<1>6. CASE match /\ relay_pc \notin {"start", "gone"} /\ ~HeldOpen(p, svc)
  <2> DEFINE e == Entry(p, ip)
  <2>1. /\ conn' = [conn EXCEPT ![p] = Conn("relayed", ip, svc)]
        /\ backlog' = [backlog EXCEPT ![svc] = Append(@, e)]
        /\ sess' = sess
    BY <1>6 DEF Arrives
  <2>2. e \in EntryRec
    BY DEF Entry, EntryRec
  <2>3. backlog[svc] \in Seq(EntryRec)
    BY DEF SocketTypes
  <2> HIDE DEF e
  <2>4. Append(backlog[svc], e) \in Seq(EntryRec) /\ Append(backlog[svc], e) # << >>
    BY <2>2, <2>3, Entered
  <2>5. backlog' \in [Service -> Seq(EntryRec)]
    BY <2>1, <2>4 DEF SocketTypes
  <2>6. \A s \in Service : backlog[s] # << >> => backlog'[s] # << >>
    BY <2>1, <2>4 DEF SocketTypes
  <2> QED BY <1>1, <1>2, <2>1, <2>5, <2>6 DEF SocketTypes, RoomKept
<1> QED BY <1>3, <1>4, <1>5, <1>6

LEMMA LeftTyped ==
  ASSUME SocketTypes, proxy_attach_netif
  PROVE  SocketTypes' /\ RoomKept
<1> DEFINE leave(e) == IF e.st = "live" THEN [e EXCEPT !.st = "left"] ELSE e
<1>1. /\ backlog' = [s \in Service |-> [k \in DOMAIN backlog[s] |-> leave(backlog[s][k])]]
      /\ sess' = {leave(s) : s \in sess} /\ conn' = [p \in Ports |-> NoConn]
  BY DEF proxy_attach_netif
<1>2. ASSUME NEW s \in SessRec PROVE leave(s) \in SessRec /\ leave(s).slot = s.slot
  BY DEF SessRec
<1>3. ASSUME NEW e \in EntryRec PROVE leave(e) \in EntryRec
  BY DEF EntryRec
<1> HIDE DEF leave
<1>4. sess' \in SUBSET SessRec /\ Slots(sess') \subseteq Slots(sess)
  BY <1>1, <1>2 DEF SocketTypes, Slots
<1>5. ASSUME NEW svc \in Service
      PROVE  backlog'[svc] \in Seq(EntryRec) /\ (backlog[svc] # << >> => backlog'[svc] # << >>)
  <2> DEFINE b == backlog[svc]
             cn == [k \in DOMAIN b |-> leave(b[k])]
  <2>1. b \in Seq(EntryRec) /\ backlog'[svc] = cn
    BY <1>1 DEF SocketTypes
  <2> HIDE DEF b
  <2>2. Len(b) \in Nat /\ DOMAIN b = 1..Len(b) /\ \A k \in DOMAIN b : b[k] \in EntryRec
    BY <2>1
  <2>3. \A k \in DOMAIN b : leave(b[k]) \in EntryRec
    BY <1>3, <2>2
  <2>4. cn \in [1..Len(b) -> EntryRec]
    BY <2>2, <2>3
  <2>5. cn \in Seq(EntryRec)
    BY <2>2, <2>4, SeqDef
  <2>6. b # << >> => 1 \in DOMAIN cn
    BY <2>1, <2>2, EmptySeq
  <2> QED BY <2>1, <2>5, <2>6 DEF b
<1>6. backlog' \in [Service -> Seq(EntryRec)]
  BY <1>1, <1>5
<1>7. conn' \in [Ports -> ConnRec]
  BY <1>1 DEF ConnRec
<1> QED BY <1>4, <1>5, <1>6, <1>7 DEF SocketTypes, RoomKept

(* do_accept() takes one connection off the backlog, and gives at most one *)
(* session to it, of the site its flow names.                              *)
JustAccepted(svc) ==
  LET e == Head(backlog[svc])
  IN  /\ backlog' = [backlog EXCEPT ![svc] = Tail(@)]
      /\ \/ sess' = sess
         \/ /\ e.st # "gone" /\ conn' = conn /\ flows' = flows
            /\ \E f \in flow_lookup(e.port, svc), k \in FreeSlots :
                 sess' = sess \union
                   {[slot |-> k, port |-> e.port, svc |-> svc, ip |-> f.ip, st |-> e.st]}
      /\ \/ conn' = conn
         \/ e.st = "live" /\ conn' = [conn EXCEPT ![e.port] = NoConn]
      /\ \/ flows' = flows
         \/ /\ e.st # "gone" /\ flow_lookup(e.port, svc) # {}
            /\ sess' = sess /\ flows' = flow_mark_closed(flows, e.port)
            /\ (e.st = "live" => conn' = [conn EXCEPT ![e.port] = NoConn])

LEMMA AcceptDoes ==
  ASSUME Accept
  PROVE  /\ relay_pc \in Service
         /\ relay_pc' = (IF relay_pc = "http" THEN "tls" ELSE "deadlines")
         /\ UNCHANGED <<crossed, evicted, rd, px_ready, dials>>
         /\ relay_pc \in rd => JustAccepted(relay_pc)
         /\ relay_pc \notin rd => UNCHANGED <<flows, conn, backlog, sess>>
<1>1. ASSUME do_accept(relay_pc) PROVE JustAccepted(relay_pc)
  BY <1>1 DEF do_accept, JustAccepted, Refuse
<1> QED BY <1>1 DEF Accept, AfterAccept, Service, sockets

LEMMA FoundFlow ==
  ASSUME flows \in Seq(FlowRec), NEW p, NEW svc, NEW f \in flow_lookup(p, svc)
  PROVE  /\ f \in Flows(flows) /\ f \in FlowRec /\ f.port = p
         /\ f.state = "ACTIVE" /\ f.svc = svc
BY DEF flow_lookup, FlowOf, Flows

LEMMA AcceptTyped ==
  ASSUME SocketTypes, TableTypes(flows), NEW svc \in Service,
         backlog[svc] # << >>, JustAccepted(svc)
  PROVE  SocketTypes' /\ TableTypes(flows')
<1> DEFINE e == Head(backlog[svc])
<1>1. /\ backlog[svc] \in Seq(EntryRec) /\ e \in EntryRec
      /\ Tail(backlog[svc]) \in Seq(EntryRec)
  BY Taken DEF SocketTypes
<1>2. e.port \in Ports /\ e.st \in {"live", "left", "gone"}
  BY <1>1 DEF EntryRec
<1>3. backlog' = [backlog EXCEPT ![svc] = Tail(@)]
  BY DEF JustAccepted
<1>4. backlog' \in [Service -> Seq(EntryRec)]
  BY <1>1, <1>3 DEF SocketTypes
<1> HIDE DEF e
<1>5. conn' \in [Ports -> ConnRec]
  <2>1. conn' = conn \/ conn' = [conn EXCEPT ![e.port] = NoConn]
    BY DEF JustAccepted, e
  <2>2. NoConn \in ConnRec
    BY DEF ConnRec
  <2> QED BY <2>1, <2>2 DEF SocketTypes
<1>6. sess' \in SUBSET SessRec
  <2>1. CASE sess' = sess
    BY <2>1 DEF SocketTypes
  <2>2. CASE sess' # sess
    <3>1. PICK f \in flow_lookup(e.port, svc), k \in FreeSlots :
            sess' = sess \union
              {[slot |-> k, port |-> e.port, svc |-> svc, ip |-> f.ip, st |-> e.st]}
      BY <2>2 DEF JustAccepted, e
    <3>2. f \in FlowRec
      BY FoundFlow DEF TableTypes
    <3>3. f.ip \in Addresses /\ k \in 1..SessMax
      BY <3>2 DEF FlowRec, FreeSlots
    <3>4. [slot |-> k, port |-> e.port, svc |-> svc, ip |-> f.ip, st |-> e.st] \in SessRec
      BY <1>2, <3>3 DEF SessRec
    <3> QED BY <3>1, <3>4 DEF SocketTypes
  <2> QED BY <2>1, <2>2
<1>7. TableTypes(flows')
  <2>1. flows' = flows \/ flows' = flow_mark_closed(flows, e.port)
    BY DEF JustAccepted, e
  <2>2. TableTypes(flow_mark_closed(flows, e.port))
    BY <1>2, MarkedClosed DEF TableTypes
  <2> QED BY <2>1, <2>2
<1> QED BY <1>4, <1>5, <1>6, <1>7 DEF SocketTypes

LEMMA CloseTyped ==
  ASSUME SocketTypes, TableTypes(flows), CloseSession
  PROVE  SocketTypes' /\ TableTypes(flows') /\ RoomKept
         /\ crossed' \in SUBSET (crossed \union Ports)
<1>1. PICK s \in sess : sess_close(s)
  BY DEF CloseSession
<1>2. s \in SessRec /\ s.port \in Ports /\ backlog' = backlog
  BY DEF SocketTypes, SessRec, CloseSession
<1>3. /\ sess' = sess \ {s} /\ flows' = flow_mark_closed(flows, s.port)
      /\ conn' = conn \/ conn' = [conn EXCEPT ![s.port] = NoConn]
      /\ crossed' = crossed \/ crossed' = crossed \union {s.port}
  BY <1>1 DEF sess_close
<1>4. TableTypes(flows')
  BY <1>2, <1>3, MarkedClosed DEF TableTypes
<1>5. conn' \in [Ports -> ConnRec]
  BY <1>3 DEF SocketTypes, ConnRec
<1> QED BY <1>2, <1>3, <1>4, <1>5 DEF SocketTypes, RoomKept, Slots

LEMMA SynTyped ==
  ASSUME ProxyTypes, OneFlowPerPort, NEW p \in Ports, NEW ip \in Addresses,
         NEW svc \in Service, NEW wifi \in BOOLEAN, Syn(p, ip, svc, wifi)
  PROVE  /\ SocketTypes' /\ TableTypes(flows') /\ RoomKept
         /\ crossed' \in SUBSET Ports /\ evicted' \in SUBSET Ports
         /\ UNCHANGED relay
<1> DEFINE v == HookSyn(flows, p, ip, svc, px_ready /\ wifi)
<1>1. (px_ready /\ wifi) \in BOOLEAN
  BY DEF ProxyTypes
<1>2. SynVerdict(v, flows, p, ip, svc)
  BY <1>1, SynDoes, TableTyped DEF TableTypes
<1>3. /\ flows' = v.flows /\ Arrives(p, ip, svc, v.match)
      /\ evicted' = (evicted \ {p}) \union {q \in v.taken : q # p /\ Live(q)}
      /\ crossed' = crossed \ {p} /\ UNCHANGED relay
  BY DEF Syn
<1> HIDE DEF v
<1>4. v.match \in BOOLEAN /\ TableTypes(v.flows) /\ v.taken \in SUBSET Ports
  BY <1>2 DEF SynVerdict, TableTypes
<1>5. SocketTypes
  BY DEF ProxyTypes, SocketTypes
<1>6. SocketTypes' /\ RoomKept
  BY <1>3, <1>4, <1>5, ArrivesTyped
<1> QED BY <1>3, <1>4, <1>6 DEF ProxyTypes

LEMMA HangsUpTyped ==
  ASSUME SocketTypes, NEW p \in Ports, HangUp(p)
  PROVE  SocketTypes' /\ RoomKept
<1>1. PICK to \in {"left", "gone"} : ResetAll(p, Service, {"live"}, to)
  BY DEF HangUp
<1>2. ResetTo(p, Service, {"live"}, to)
  BY <1>1, ResetDoes DEF SocketTypes
<1>3. conn' \in [Ports -> ConnRec]
  BY DEF HangUp, SocketTypes, ConnRec
<1> QED BY <1>2, <1>3 DEF SocketTypes, RoomKept, Slots, ResetTo

LEMMA PacketTyped ==
  ASSUME TableTypes(flows), NEW p \in Ports, Packet(p)
  PROVE  TableTypes(flows')
<1>1. PICK i \in FlowOf(flows, p) : flows' = FlowTouch(flows, i)
  BY DEF Packet
<1>2. i \in DOMAIN flows
  BY DEF FlowOf
<1> QED BY <1>1, <1>2, Touched DEF TableTypes

(* What any step keeps: the types, the table, and, but for an accept, what *)
(* the listeners have waiting and the slots that are taken.                *)
LEMMA TypesStep ==
  ASSUME ProxyTypes, OneFlowPerPort, AskedWaits, [ProxyNext]_proxyVars
  PROVE  /\ ProxyTypes' /\ OneFlowPerPort'
         /\ Accept \/ (RoomKept /\ (UNCHANGED relay \/ Quiet))
<1>1. SocketTypes /\ TableTypes(flows)
  BY TableTyped DEF ProxyTypes, SocketTypes
<1>2. ASSUME SocketTypes', TableTypes(flows'), UNCHANGED relay,
             crossed' \in SUBSET Ports, evicted' \in SUBSET Ports
      PROVE  ProxyTypes' /\ OneFlowPerPort'
  BY <1>2 DEF ProxyTypes, SocketTypes, TableTypes, OneFlowPerPort, OnePerPort, relay
<1>3. /\ UNCHANGED <<conn, backlog, sess>> => SocketTypes' /\ RoomKept
      /\ crossed \in SUBSET Ports /\ evicted \in SUBSET Ports
  BY <1>1 DEF SocketTypes, RoomKept, ProxyTypes
<1>4. CASE \E p \in Ports, ip \in Addresses, svc \in Service, wifi \in BOOLEAN :
             Syn(p, ip, svc, wifi)
  BY <1>2, <1>4, SynTyped
<1>5. CASE \E p \in Ports : HangUp(p)
  <2>1. SocketTypes' /\ RoomKept
    BY <1>1, <1>5, HangsUpTyped
  <2>2. /\ flows' = flows /\ UNCHANGED relay
        /\ crossed' \in SUBSET Ports /\ evicted' \in SUBSET Ports
    BY <1>3, <1>5 DEF HangUp
  <2> QED BY <1>1, <1>2, <2>1, <2>2
<1>6. CASE \E p \in Ports : Packet(p)
  <2>1. TableTypes(flows')
    BY <1>1, <1>6, PacketTyped
  <2>2. UNCHANGED <<crossed, evicted, conn, backlog, sess>> /\ UNCHANGED relay
    BY <1>6 DEF Packet, sockets
  <2> QED BY <1>2, <1>3, <2>1, <2>2
<1>7. CASE TimeIdles
  <2>1. TableTypes(flows')
    BY <1>1, <1>7, IdledFlows DEF TimeIdles
  <2>2. UNCHANGED <<crossed, evicted, conn, backlog, sess>> /\ UNCHANGED relay
    BY <1>7 DEF TimeIdles, sockets
  <2> QED BY <1>2, <1>3, <2>1, <2>2
<1>8. CASE proxy_attach_netif
  <2>1. SocketTypes' /\ RoomKept
    BY <1>1, <1>8, LeftTyped
  <2>2. flows' = << >> /\ crossed' = {} /\ evicted' = {} /\ UNCHANGED relay
    BY <1>8 DEF proxy_attach_netif
  <2>3. TableTypes(<< >>)
    BY Sizes DEF TableTypes, OnePerPort
  <2> QED BY <1>2, <2>1, <2>2, <2>3
<1>9. CASE CloseSession
  <2>1. /\ SocketTypes' /\ TableTypes(flows') /\ RoomKept
        /\ crossed' \in SUBSET (crossed \union Ports)
    BY <1>1, <1>9, CloseTyped
  <2>2. evicted' = evicted /\ UNCHANGED relay
    BY <1>9 DEF CloseSession
  <2> QED BY <1>2, <1>3, <2>1, <2>2
<1>10. CASE Accept
  <2>1. CASE relay_pc \in rd
    <3>1. relay_pc \in Service /\ backlog[relay_pc] # << >> /\ JustAccepted(relay_pc)
      BY <1>10, <2>1, AcceptDoes DEF AskedWaits, Service
    <3>2. SocketTypes' /\ TableTypes(flows')
      BY <1>1, <3>1, AcceptTyped
    <3>3. relay_pc' \in {"tls", "deadlines"} /\ UNCHANGED <<crossed, evicted, rd, px_ready>>
      BY <1>10, AcceptDoes
    <3> QED BY <1>10, <3>2, <3>3
            DEF ProxyTypes, SocketTypes, TableTypes, OneFlowPerPort, OnePerPort
  <2>2. CASE relay_pc \notin rd
    <3>1. /\ UNCHANGED <<flows, conn, backlog, sess>> /\ relay_pc' \in {"tls", "deadlines"}
          /\ UNCHANGED <<crossed, evicted, rd, px_ready>>
      BY <1>10, <2>2, AcceptDoes
    <3> QED BY <1>10, <3>1 DEF ProxyTypes, OneFlowPerPort
  <2> QED BY <2>1, <2>2
<1>11. CASE Quiet
  <2>1. UNCHANGED <<flows, crossed, evicted, conn, backlog, sess>>
    BY <1>11 DEF Quiet
  <2>2. /\ relay_pc' \in {"start", "gone", "select", "service", "http", "tls", "deadlines"}
        /\ rd' \in SUBSET Service /\ px_ready' \in BOOLEAN
    BY <1>11 DEF Quiet, proxyVars, proxy_task_start, SetReady, Served, Deadlines, Select,
                 Waiting, ProxyTypes
  <2> QED BY <1>3, <1>11, <2>1, <2>2 DEF ProxyTypes, OneFlowPerPort
<1> QED BY <1>4, <1>5, <1>6, <1>7, <1>8, <1>9, <1>10, <1>11, Steps

-----------------------------------------------------------------------------
(* The table and the connections, with the table taken as a set.           *)
ActiveSame(fs, cn) ==
  \A p \in Ports : cn[p].st = "relayed" =>
    \A f \in Flows(fs) : f.port = p /\ f.state = "ACTIVE" => f.ip = cn[p].ip /\ f.svc = cn[p].svc

Serves(fs, cn, but) ==
  \A p \in Ports : cn[p].st = "relayed" /\ p \notin but =>
    \E f \in Flows(fs) :
      f.port = p /\ f.ip = cn[p].ip /\ f.svc = cn[p].svc /\ f.state = "ACTIVE"

LEMMA TableAsSet ==
  /\ ActiveIsSame <=> ActiveSame(flows, conn)
  /\ FlowServesConnection <=> Serves(flows, conn, evicted \union crossed)
<1>1. ActiveIsSame <=> ActiveSame(flows, conn)
  BY DEF ActiveIsSame, ActiveSame, Flows, FlowOf, Same, Live
<1>2. FlowServesConnection <=> Serves(flows, conn, evicted \union crossed)
  BY DEF FlowServesConnection, Serves, Flows, FlowOf, Same, Live
<1> QED BY <1>1, <1>2

LEMMA TableAsSetAfter ==
  /\ ActiveSame(flows', conn') => ActiveIsSame'
  /\ Serves(flows', conn', evicted' \union crossed') => FlowServesConnection'
<1>1. ActiveSame(flows', conn') => ActiveIsSame'
  BY DEF ActiveIsSame, ActiveSame, Flows, FlowOf, Same, Live
<1>2. Serves(flows', conn', evicted' \union crossed') => FlowServesConnection'
  BY DEF FlowServesConnection, Serves, Flows, FlowOf, Same, Live
<1> QED BY <1>1, <1>2

SameButIdle(fs, gs) ==
  /\ \A f \in Flows(gs) : \E h \in Flows(fs) :
       h.port = f.port /\ h.ip = f.ip /\ h.svc = f.svc /\ h.state = f.state
  /\ \A f \in Flows(fs) : \E h \in Flows(gs) :
       h.port = f.port /\ h.ip = f.ip /\ h.svc = f.svc /\ h.state = f.state

LEMMA IdleServes ==
  ASSUME NEW fs, NEW gs, NEW cn, NEW but, SameButIdle(fs, gs)
  PROVE  /\ ActiveSame(fs, cn) => ActiveSame(gs, cn)
         /\ Serves(fs, cn, but) => Serves(gs, cn, but)
<1>1. ActiveSame(fs, cn) => ActiveSame(gs, cn)
  BY DEF ActiveSame, SameButIdle
<1>2. Serves(fs, cn, but) => Serves(gs, cn, but)
  BY DEF Serves, SameButIdle
<1> QED BY <1>1, <1>2

LEMMA SynServes ==
  ASSUME ProxyTypes, TableInv, NEW p \in Ports, NEW ip \in Addresses,
         NEW svc \in Service, NEW wifi \in BOOLEAN, Syn(p, ip, svc, wifi)
  PROVE  /\ ActiveSame(flows', conn')
         /\ Serves(flows', conn', evicted' \union crossed')
<1> DEFINE v == HookSyn(flows, p, ip, svc, px_ready /\ wifi)
<1>1. (px_ready /\ wifi) \in BOOLEAN
  BY DEF ProxyTypes
<1>2. SynVerdict(v, flows, p, ip, svc)
  BY <1>1, SynDoes, TableTyped DEF TableTypes, TableInv
<1>3. /\ flows' = v.flows /\ Arrives(p, ip, svc, v.match)
      /\ evicted' = (evicted \ {p}) \union {q \in v.taken : q # p /\ Live(q)}
      /\ crossed' = crossed \ {p}
  BY DEF Syn
<1> HIDE DEF v
<1>4. \E cn \in {Conn("direct", ip, svc), NoConn, Conn("syn", ip, svc), Conn("relayed", ip, svc)} :
         conn' = [conn EXCEPT ![p] = cn] /\ (cn = Conn("relayed", ip, svc) => v.match)
  BY <1>3, ConnTyped DEF Arrives
<1>5. /\ \A q \in Ports \ {p} : conn'[q] = conn[q]
      /\ conn'[p].st = "relayed" => v.match /\ conn'[p].ip = ip /\ conn'[p].svc = svc
  BY <1>4, ConnTyped DEF ProxyTypes
<1>6. ActiveSame(flows, conn) /\ Serves(flows, conn, evicted \union crossed)
  BY TableAsSet DEF TableInv
<1>7. ActiveSame(flows', conn')
  BY <1>2, <1>3, <1>5, <1>6 DEF SynVerdict, ActiveSame
<1>8. Serves(flows', conn', evicted' \union crossed')
  <2> SUFFICES ASSUME NEW q \in Ports, conn'[q].st = "relayed",
                      q \notin evicted' \union crossed'
               PROVE  \E f \in Flows(flows') : /\ f.port = q /\ f.ip = conn'[q].ip
                                               /\ f.svc = conn'[q].svc /\ f.state = "ACTIVE"
    BY DEF Serves
  <2>1. CASE q = p
    BY <1>2, <1>3, <1>5, <2>1 DEF SynVerdict
  <2>2. CASE q # p
    <3>1. conn[q] = conn'[q] /\ Live(q)
      BY <1>5, <2>2 DEF Live
    <3>2. q \notin evicted \union crossed /\ q \notin v.taken
      BY <1>3, <2>2, <3>1
    <3>3. PICK f \in Flows(flows) : /\ f.port = q /\ f.ip = conn[q].ip
                                    /\ f.svc = conn[q].svc /\ f.state = "ACTIVE"
      BY <1>6, <3>1, <3>2 DEF Serves
    <3>4. f \in Flows(v.flows)
      BY <1>2, <2>2, <3>2, <3>3 DEF SynVerdict
    <3> QED BY <1>3, <3>1, <3>3, <3>4
  <2> QED BY <2>1, <2>2
<1> QED BY <1>7, <1>8

LEMMA CloseServes ==
  ASSUME ProxyTypes, TableInv, CloseSession
  PROVE  /\ ActiveSame(flows', conn')
         /\ Serves(flows', conn', evicted' \union crossed')
<1>1. PICK s \in sess : sess_close(s)
  BY DEF CloseSession
<1>2. s.port \in Ports /\ evicted' = evicted
  BY DEF ProxyTypes, SessRec, CloseSession
<1>3. /\ flows' = flow_mark_closed(flows, s.port)
      /\ conn' = IF s.st = "live" THEN [conn EXCEPT ![s.port] = NoConn] ELSE conn
      /\ crossed' = IF s.st # "live" /\ Has(s.port) THEN crossed \union {s.port} ELSE crossed
  BY <1>1 DEF sess_close
<1>4. /\ \A f \in Flows(flows') : f.port = s.port => f.state = "CLOSED"
      /\ \A f : f.port # s.port => (f \in Flows(flows') <=> f \in Flows(flows))
  BY <1>2, <1>3, MarkedClosed, TableTyped DEF TableTypes, TableInv
<1>5. ActiveSame(flows, conn) /\ Serves(flows, conn, evicted \union crossed)
  BY TableAsSet DEF TableInv
<1>6. \A q \in Ports : q # s.port => conn'[q] = conn[q]
  BY <1>3 DEF ProxyTypes
<1>7. conn'[s.port].st = "relayed" => s.port \in crossed'
  <2>1. CASE s.st = "live"
    <3>1. conn'[s.port] = NoConn
      BY <1>2, <1>3, <2>1 DEF ProxyTypes
    <3> QED BY <3>1 DEF NoConn
  <2>2. CASE s.st # "live"
    BY <1>3, <2>2 DEF Has
  <2> QED BY <2>1, <2>2
<1>8. ActiveSame(flows', conn')
  BY <1>4, <1>5, <1>6 DEF ActiveSame
<1>9. crossed \subseteq crossed'
  BY <1>3
<1>10. Serves(flows', conn', evicted' \union crossed')
  BY <1>2, <1>4, <1>5, <1>6, <1>7, <1>9 DEF Serves
<1> QED BY <1>8, <1>10

LEMMA AcceptServes ==
  ASSUME ProxyTypes, TableInv, NoneHeld, NEW svc \in Service,
         backlog[svc] # << >>, JustAccepted(svc), UNCHANGED <<crossed, evicted>>
  PROVE  /\ ActiveSame(flows', conn')
         /\ Serves(flows', conn', evicted' \union crossed')
<1> DEFINE e == Head(backlog[svc])
<1>1. e \in EntryRec /\ e = backlog[svc][1] /\ 1 \in DOMAIN backlog[svc]
  BY Taken DEF ProxyTypes
<1>2. e.port \in Ports /\ e.st \in {"live", "left", "gone"}
  BY <1>1 DEF EntryRec
<1> HIDE DEF e
<1>3. ActiveSame(flows, conn) /\ Serves(flows, conn, evicted \union crossed)
  BY TableAsSet DEF TableInv
<1>4. CASE flows' = flows
  <2>1. conn' = conn \/ conn' = [conn EXCEPT ![e.port] = NoConn]
    BY DEF JustAccepted, e
  <2>2. \A q \in Ports : conn'[q].st = "relayed" => conn'[q] = conn[q]
    BY <2>1 DEF ProxyTypes, NoConn
  <2> QED BY <1>3, <1>4, <2>2 DEF ActiveSame, Serves
<1>5. CASE flows' # flows
  <2>1. /\ e.st # "gone" /\ flow_lookup(e.port, svc) # {}
        /\ flows' = flow_mark_closed(flows, e.port)
        /\ e.st = "live" => conn' = [conn EXCEPT ![e.port] = NoConn]
        /\ conn' = conn \/ conn' = [conn EXCEPT ![e.port] = NoConn]
    BY <1>5 DEF JustAccepted, e
  <2>2. /\ \A f \in Flows(flows') : f.port = e.port => f.state = "CLOSED"
        /\ \A f : f.port # e.port => (f \in Flows(flows') <=> f \in Flows(flows))
    BY <1>2, <2>1, MarkedClosed, TableTyped DEF TableTypes, TableInv
  <2>3. conn'[e.port].st # "relayed"
    <3>1. CASE conn' = [conn EXCEPT ![e.port] = NoConn]
      <4>1. conn'[e.port] = NoConn
        BY <1>2, <3>1 DEF ProxyTypes
      <4> QED BY <4>1 DEF NoConn
    <3>2. CASE conn' = conn /\ e.st = "left"
      <4>1. PICK f : f \in flow_lookup(e.port, svc)
        BY <2>1
      <4>2. f \in Flows(flows) /\ f.port = e.port /\ f.state = "ACTIVE" /\ f.svc = svc
        BY <4>1, FoundFlow DEF ProxyTypes
      <4>3. HeldOpen(e.port, svc)
        BY <1>1, <3>2 DEF HeldOpen
      <4>4. conn[e.port].st = "relayed" => conn[e.port].svc = svc
        BY <1>2, <1>3, <4>2 DEF ActiveSame
      <4> QED BY <1>2, <3>2, <4>3, <4>4 DEF NoneHeld, Live
    <3> QED BY <1>2, <2>1, <3>1, <3>2
  <2>4. \A q \in Ports : q # e.port => conn'[q] = conn[q]
    BY <2>1 DEF ProxyTypes
  <2> QED BY <1>3, <2>2, <2>3, <2>4 DEF ActiveSame, Serves
<1> QED BY <1>4, <1>5

LEMMA TableStep ==
  ASSUME ProxyInv, [ProxyNext]_proxyVars
  PROVE  TableInv'
<1>1. ProxyTypes /\ TableInv /\ OneFlowPerPort /\ AskedWaits /\ NoneHeld
  BY DEF ProxyInv, TableInv, RelayInv
<1>2. OneFlowPerPort'
  BY <1>1, TypesStep
<1>3. ActiveSame(flows, conn) /\ Serves(flows, conn, evicted \union crossed)
  BY <1>1, TableAsSet DEF TableInv
<1>4. TableTypes(flows)
  BY <1>1, TableTyped
<1> SUFFICES ActiveSame(flows', conn') /\ Serves(flows', conn', evicted' \union crossed')
  BY <1>2, TableAsSetAfter DEF TableInv
<1>5. ASSUME SameButIdle(flows, flows'), UNCHANGED <<crossed, evicted, conn>>
      PROVE  ActiveSame(flows', conn') /\ Serves(flows', conn', evicted' \union crossed')
  BY <1>3, <1>5, IdleServes
<1>6. CASE \E p \in Ports, ip \in Addresses, svc \in Service, wifi \in BOOLEAN :
             Syn(p, ip, svc, wifi)
  BY <1>1, <1>6, SynServes
<1>7. CASE \E p \in Ports : HangUp(p)
  <2>1. PICK p \in Ports : HangUp(p)
    BY <1>7
  <2>2. /\ flows' = flows /\ conn' = [conn EXCEPT ![p] = NoConn]
        /\ crossed' = crossed \ {p} /\ evicted' = evicted \ {p}
    BY <2>1 DEF HangUp
  <2>3. \A q \in Ports : conn'[q].st = "relayed" => q # p /\ conn'[q] = conn[q]
    BY <1>1, <2>2 DEF ProxyTypes, NoConn
  <2>4. \A q : q # p /\ q \notin evicted' \union crossed' => q \notin evicted \union crossed
    BY <2>2
  <2> QED BY <1>3, <2>2, <2>3, <2>4 DEF ActiveSame, Serves
<1>8. CASE \E p \in Ports : Packet(p)
  <2>a. PICK p \in Ports : Packet(p)
    BY <1>8
  <2>1. PICK i \in FlowOf(flows, p) : flows' = FlowTouch(flows, i)
    BY <2>a DEF Packet
  <2> DEFINE r == [flows[i] EXCEPT !.idle = FALSE]
  <2>2. i \in DOMAIN flows /\ flows[i] \in Flows(flows) /\ flows[i] \in FlowRec
    BY <1>4, <2>1, FlowsOf DEF TableTypes
  <2>3. Flows(flows') = (Flows(flows) \ {flows[i]}) \cup {r}
    BY <1>4, <2>1, <2>2, Touched DEF TableTypes
  <2>4. /\ r.port = flows[i].port /\ r.ip = flows[i].ip /\ r.svc = flows[i].svc
        /\ r.state = flows[i].state
    BY <2>2 DEF FlowRec
  <2> HIDE DEF r
  <2>5. SameButIdle(flows, flows')
    BY <2>2, <2>3, <2>4 DEF SameButIdle
  <2> QED BY <1>5, <1>8, <2>5 DEF Packet
<1>9. CASE TimeIdles
  <2>1. PICK k \in DOMAIN flows :
          flows' = [i \in DOMAIN flows |->
                      IF i <= k THEN [flows[i] EXCEPT !.idle = TRUE] ELSE flows[i]]
    BY <1>9 DEF TimeIdles
  <2>2. /\ DOMAIN flows' = DOMAIN flows
        /\ \A i \in DOMAIN flows :
             /\ flows'[i].port = flows[i].port /\ flows'[i].ip = flows[i].ip
             /\ flows'[i].svc = flows[i].svc /\ flows'[i].state = flows[i].state
    BY <1>4, <2>1, IdledFlows
  <2>3. SameButIdle(flows, flows')
    BY <2>2 DEF SameButIdle, Flows
  <2> QED BY <1>5, <1>9, <2>3 DEF TimeIdles
<1>10. CASE proxy_attach_netif
  <2>1. conn' = [p \in Ports |-> NoConn]
    BY <1>10 DEF proxy_attach_netif
  <2>2. \A q \in Ports : conn'[q].st # "relayed"
    BY <2>1 DEF NoConn
  <2> QED BY <2>2 DEF ActiveSame, Serves
<1>11. CASE CloseSession
  BY <1>1, <1>11, CloseServes
<1>12. CASE Accept
  <2>1. CASE relay_pc \in rd
    <3>1. relay_pc \in Service /\ backlog[relay_pc] # << >> /\ JustAccepted(relay_pc)
      BY <1>1, <1>12, <2>1, AcceptDoes DEF AskedWaits, Service
    <3>2. UNCHANGED <<crossed, evicted>>
      BY <1>12, AcceptDoes
    <3> QED BY <1>1, <3>1, <3>2, AcceptServes
  <2>2. CASE relay_pc \notin rd
    BY <1>3, <1>12, <2>2, AcceptDoes
  <2> QED BY <2>1, <2>2
<1>13. CASE Quiet
  BY <1>3, <1>13 DEF Quiet
<1> QED BY <1>1, <1>6, <1>7, <1>8, <1>9, <1>10, <1>11, <1>12, <1>13, Steps

-----------------------------------------------------------------------------
(* The relay's connections.  Most steps only take connections away or end  *)
(* them; n is how many a step took from the front of each backlog.         *)
OnlyEnds(n) ==
  /\ n \in [Service -> {0, 1}]
  /\ \A svc \in Service : \A k \in DOMAIN backlog'[svc] :
       /\ k + n[svc] \in DOMAIN backlog[svc]
       /\ backlog'[svc][k].port = backlog[svc][k + n[svc]].port
       /\ backlog'[svc][k].ip = backlog[svc][k + n[svc]].ip
       /\ backlog'[svc][k].st = "live" =>
            /\ backlog[svc][k + n[svc]].st = "live"
            /\ conn'[backlog'[svc][k].port] = conn[backlog'[svc][k].port]
       /\ backlog'[svc][k].st = "left" =>
            \/ backlog[svc][k + n[svc]].st = "left"
            \/ conn'[backlog'[svc][k].port].st # "relayed"
  /\ \A s \in sess' : \E t \in sess :
       /\ s.port = t.port /\ s.svc = t.svc
       /\ s.st = "live" => s = t /\ conn'[s.port] = conn[s.port]
       /\ s.st = "left" => t.st = "left" \/ conn'[s.port].st # "relayed"
  /\ \A q \in Ports : conn'[q].st = "relayed" => conn'[q] = conn[q]

LEMMA EndsKeep ==
  ASSUME RelayInv, SocketTypes, SocketTypes', NEW n, OnlyEnds(n)
  PROVE  RelayInv'
<1>1. ASSUME NEW svc \in Service, NEW k \in DOMAIN backlog'[svc]
      PROVE  k \in Nat /\ n[svc] \in Nat
  <2>1. backlog'[svc] \in Seq(EntryRec) /\ n[svc] \in {0, 1}
    BY DEF SocketTypes, OnlyEnds
  <2> QED BY <2>1
<1>2. BacklogKnows'
  <2> SUFFICES ASSUME NEW svc \in Service, NEW k \in DOMAIN backlog'[svc],
                      backlog'[svc][k].st = "live"
               PROVE  conn'[backlog'[svc][k].port] = Conn("relayed", backlog'[svc][k].ip, svc)
    BY DEF BacklogKnows
  <2> QED BY DEF OnlyEnds, RelayInv, BacklogKnows
<1>3. SessionKnowsItsSite'
  BY DEF OnlyEnds, RelayInv, SessionKnowsItsSite
<1>4. LiveOnce'
  <2>1. ASSUME NEW s \in sess', NEW t \in sess', s.st = "live", t.st = "live", s.port = t.port
        PROVE  s = t
    BY <2>1 DEF OnlyEnds, RelayInv, LiveOnce
  <2>2. ASSUME NEW svc \in Service, NEW k \in DOMAIN backlog'[svc],
               backlog'[svc][k].st = "live", NEW s \in sess', s.st = "live"
        PROVE  s.port # backlog'[svc][k].port
    BY <2>2 DEF OnlyEnds, RelayInv, LiveOnce
  <2>3. ASSUME NEW svc \in Service, NEW k \in DOMAIN backlog'[svc],
               NEW j \in DOMAIN backlog'[svc],
               backlog'[svc][k].st = "live", backlog'[svc][j].st = "live",
               backlog'[svc][j].port = backlog'[svc][k].port
        PROVE  j = k
    <3>1. j + n[svc] = k + n[svc]
      BY <2>3 DEF OnlyEnds, RelayInv, LiveOnce
    <3>2. j \in Nat /\ k \in Nat /\ n[svc] \in Nat
      BY <1>1
    <3> QED BY <3>1, <3>2
  <2> QED BY <2>1, <2>2, <2>3 DEF LiveOnce
<1>5. NoneHeld'
  <2> SUFFICES ASSUME NEW p \in Ports, conn'[p].st = "relayed", HeldOpen(p, conn[p].svc)'
               PROVE  FALSE
    BY DEF NoneHeld, Live
  <2>1. conn'[p] = conn[p]
    BY DEF OnlyEnds
  <2>2. conn[p].svc \in Service
    BY <2>1, Connections DEF SocketTypes
  <2>3. HeldOpen(p, conn[p].svc)
    <3>1. CASE \E k \in DOMAIN backlog'[conn[p].svc] :
                 backlog'[conn[p].svc][k].port = p /\ backlog'[conn[p].svc][k].st = "left"
      BY <2>1, <2>2, <3>1 DEF HeldOpen, OnlyEnds
    <3>2. CASE \E s \in sess' : s.port = p /\ s.svc = conn[p].svc /\ s.st = "left"
      BY <2>1, <3>2 DEF HeldOpen, OnlyEnds
    <3> QED BY <2>1, <3>1, <3>2 DEF HeldOpen
  <2> QED BY <2>1, <2>3 DEF RelayInv, NoneHeld, Live
<1> QED BY <1>2, <1>3, <1>4, <1>5 DEF RelayInv

None == [svc \in Service |-> 0]

LEMMA SameEnds ==
  ASSUME SocketTypes, UNCHANGED <<conn, backlog, sess>>
  PROVE  OnlyEnds(None)
<1>1. \A svc \in Service : \A k \in DOMAIN backlog[svc] : k \in Nat /\ k + None[svc] = k
  BY DEF SocketTypes, None
<1> QED BY <1>1 DEF OnlyEnds, None

LEMMA ResetEnds ==
  ASSUME RelayInv, SocketTypes, NEW p \in Ports, NEW svcs \in SUBSET Service,
         NEW from \in SUBSET {"live", "left"}, NEW to \in {"left", "gone"}, ResetTo(p, svcs, from, to),
         NEW cn \in ConnRec, conn' = [conn EXCEPT ![p] = cn], cn.st # "relayed",
         conn[p].st = "relayed" => svcs = Service /\ "live" \in from
  PROVE  OnlyEnds(None)
<1>1. \A svc \in Service : \A k \in DOMAIN backlog[svc] :
        k \in Nat /\ k + None[svc] = k /\ backlog[svc][k] \in EntryRec
  BY DEF SocketTypes, None
<1>2. /\ conn'[p] = cn /\ \A q \in Ports \ {p} : conn'[q] = conn[q]
  BY DEF SocketTypes
<1>3. ASSUME NEW svc \in Service, NEW k \in DOMAIN backlog'[svc]
      PROVE  /\ k + None[svc] \in DOMAIN backlog[svc]
             /\ backlog'[svc][k].port = backlog[svc][k + None[svc]].port
             /\ backlog'[svc][k].ip = backlog[svc][k + None[svc]].ip
             /\ backlog'[svc][k].st = "live" =>
                  /\ backlog[svc][k + None[svc]].st = "live"
                  /\ conn'[backlog'[svc][k].port] = conn[backlog'[svc][k].port]
             /\ backlog'[svc][k].st = "left" =>
                  \/ backlog[svc][k + None[svc]].st = "left"
                  \/ conn'[backlog'[svc][k].port].st # "relayed"
  <2> DEFINE new == backlog'[svc][k]
             old == backlog[svc][k]
  <2>1. k \in DOMAIN backlog[svc] /\ k + None[svc] = k /\ old \in EntryRec
    BY <1>1, <1>3 DEF ResetTo
  <2>2. /\ new.port = old.port /\ new.ip = old.ip
        /\ new.st = IF svc \in svcs /\ old.port = p /\ old.st \in from THEN to ELSE old.st
    BY <2>1 DEF ResetTo
  <2>3. old.port \in Ports
    BY <2>1 DEF EntryRec
  <2>4. old.st = "live" => conn[old.port].st = "relayed"
    <3>1. old.st = "live" => conn[old.port] = Conn("relayed", old.ip, svc)
      BY <2>1 DEF RelayInv, BacklogKnows
    <3> QED BY <3>1 DEF Conn
  <2> HIDE DEF new, old
  <2>5. new.st = "live" => old.st = "live" /\ old.port # p
    BY <1>3, <2>2, <2>4
  <2>6. new.st = "left" => old.st = "left" \/ old.port = p
    BY <2>2
  <2> QED BY <1>2, <2>1, <2>2, <2>3, <2>5, <2>6 DEF new, old
<1>4. ASSUME NEW s \in sess'
      PROVE  \E t \in sess :
       /\ s.port = t.port /\ s.svc = t.svc
       /\ s.st = "live" => s = t /\ conn'[s.port] = conn[s.port]
       /\ s.st = "left" => t.st = "left" \/ conn'[s.port].st # "relayed"
  <2>1. PICK t \in sess :
          /\ s.slot = t.slot /\ s.port = t.port /\ s.svc = t.svc /\ s.ip = t.ip
          /\ s.st = IF t.svc \in svcs /\ t.port = p /\ t.st \in from THEN to ELSE t.st
          /\ s.st = t.st => s = t
    BY DEF ResetTo
  <2>2. t.port \in Ports /\ t.svc \in Service
    BY DEF SocketTypes, SessRec
  <2>3. t.st = "live" => conn[t.port].st = "relayed"
    <3>1. t.st = "live" => conn[t.port] = Conn("relayed", t.ip, t.svc)
      BY DEF RelayInv, SessionKnowsItsSite
    <3> QED BY <3>1 DEF Conn
  <2>4. s.st = "live" => t.st = "live" /\ t.port # p
    BY <2>1, <2>2, <2>3
  <2>5. s.st = "left" => t.st = "left" \/ t.port = p
    BY <2>1
  <2> QED BY <1>2, <2>1, <2>2, <2>4, <2>5
<1>5. \A q \in Ports : conn'[q].st = "relayed" => conn'[q] = conn[q]
  BY <1>2
<1>6. None \in [Service -> {0, 1}]
  BY DEF None
<1> QED BY <1>3, <1>4, <1>5, <1>6 DEF OnlyEnds

(* A port whose connection is not relayed has nothing live at the relay.   *)
LEMMA NothingLive ==
  ASSUME RelayInv, SocketTypes, NEW p \in Ports, conn[p].st # "relayed"
  PROVE  /\ \A svc \in Service : \A k \in DOMAIN backlog[svc] :
              backlog[svc][k].port = p => backlog[svc][k].st # "live"
         /\ \A s \in sess : s.port = p => s.st # "live"
<1>1. ASSUME NEW svc \in Service, NEW k \in DOMAIN backlog[svc],
             backlog[svc][k].port = p, backlog[svc][k].st = "live"
      PROVE  FALSE
  <2>1. conn[p] = Conn("relayed", backlog[svc][k].ip, svc)
    BY <1>1 DEF RelayInv, BacklogKnows
  <2> QED BY <2>1 DEF Conn
<1>2. ASSUME NEW s \in sess, s.port = p, s.st = "live" PROVE FALSE
  <2>1. conn[p] = Conn("relayed", s.ip, s.svc)
    BY <1>2 DEF RelayInv, SessionKnowsItsSite
  <2> QED BY <2>1 DEF Conn
<1> QED BY <1>1, <1>2

(* The connection a SYN begins: the only one of its port the relay has.    *)
LEMMA BeginsOne ==
  ASSUME RelayInv, SocketTypes, NEW p \in Ports, NEW ip \in Addresses, NEW svc \in Service,
         conn[p].st # "relayed", ~HeldOpen(p, svc),
         conn' = [conn EXCEPT ![p] = Conn("relayed", ip, svc)],
         backlog' = [backlog EXCEPT ![svc] = Append(@, Entry(p, ip))],
         sess' = sess
  PROVE  RelayInv'
<1> DEFINE e == Entry(p, ip)
<1>1. e \in EntryRec /\ e.port = p /\ e.ip = ip /\ e.st = "live"
  BY DEF Entry, EntryRec
<1>2. backlog[svc] \in Seq(EntryRec) /\ backlog'[svc] = Append(backlog[svc], e)
  BY DEF SocketTypes
<1> HIDE DEF e
<1>3. /\ conn'[p] = Conn("relayed", ip, svc)
      /\ \A q \in Ports \ {p} : conn'[q] = conn[q]
  BY DEF SocketTypes
<1>4. ASSUME NEW s \in Service, NEW k \in DOMAIN backlog'[s]
      PROVE  \/ k \in DOMAIN backlog[s] /\ backlog'[s][k] = backlog[s][k]
             \/ s = svc /\ k = Len(backlog[svc]) + 1 /\ backlog'[s][k] = e
  <2>1. CASE s = svc
    BY <1>1, <1>2, <1>4, <2>1, Entered
  <2>2. CASE s # svc
    BY <1>4, <2>2 DEF SocketTypes
  <2> QED BY <2>1, <2>2
<1>5. ASSUME NEW s \in Service, NEW k \in DOMAIN backlog[s]
      PROVE  backlog[s][k].port \in Ports /\ (backlog[s][k].port = p => backlog[s][k].st # "live")
  <2>1. backlog[s][k] \in EntryRec
    BY DEF SocketTypes
  <2>2. backlog[s][k].port \in Ports
    BY <2>1 DEF EntryRec
  <2> QED BY <1>5, <2>2, NothingLive
<1>6. \A s \in sess : s.port \in Ports /\ (s.port = p => s.st # "live")
  BY NothingLive DEF SocketTypes, SessRec
<1>7. BacklogKnows'
  <2> SUFFICES ASSUME NEW s \in Service, NEW k \in DOMAIN backlog'[s],
                      backlog'[s][k].st = "live"
               PROVE  conn'[backlog'[s][k].port] = Conn("relayed", backlog'[s][k].ip, s)
    BY DEF BacklogKnows
  <2>1. CASE k \in DOMAIN backlog[s] /\ backlog'[s][k] = backlog[s][k]
    BY <1>3, <1>5, <2>1 DEF RelayInv, BacklogKnows
  <2>2. CASE s = svc /\ backlog'[s][k] = e
    BY <1>1, <1>3, <2>2
  <2> QED BY <1>4, <2>1, <2>2
<1>8. SessionKnowsItsSite'
  BY <1>3, <1>6 DEF RelayInv, SessionKnowsItsSite
<1>9. LiveOnce'
  <2>1. ASSUME NEW s \in sess', NEW t \in sess', s.st = "live", t.st = "live", s.port = t.port
        PROVE  s = t
    BY <2>1 DEF RelayInv, LiveOnce
  <2>2. ASSUME NEW b \in Service, NEW k \in DOMAIN backlog'[b],
               backlog'[b][k].st = "live", NEW s \in sess', s.st = "live"
        PROVE  s.port # backlog'[b][k].port
    BY <1>1, <1>4, <1>6, <2>2 DEF RelayInv, LiveOnce
  <2>3. ASSUME NEW b \in Service, NEW k \in DOMAIN backlog'[b],
               NEW j \in DOMAIN backlog'[b],
               backlog'[b][k].st = "live", backlog'[b][j].st = "live",
               backlog'[b][j].port = backlog'[b][k].port
        PROVE  j = k
    BY <1>1, <1>4, <1>5, <2>3 DEF RelayInv, LiveOnce
  <2> QED BY <2>1, <2>2, <2>3 DEF LiveOnce
<1>10. NoneHeld'
  <2> SUFFICES ASSUME NEW q \in Ports, conn'[q].st = "relayed", HeldOpen(q, conn[q].svc)'
               PROVE  FALSE
    BY DEF NoneHeld, Live
  <2>1. conn'[q].svc \in Service
    BY <1>3, Connections, ConnTyped DEF SocketTypes
  <2>2. HeldOpen(q, conn'[q].svc)
    <3>1. CASE \E k \in DOMAIN backlog'[conn'[q].svc] :
                 backlog'[conn'[q].svc][k].port = q /\ backlog'[conn'[q].svc][k].st = "left"
      BY <1>1, <1>4, <2>1, <3>1 DEF HeldOpen
    <3>2. CASE \E s \in sess : s.port = q /\ s.svc = conn'[q].svc /\ s.st = "left"
      BY <3>2 DEF HeldOpen
    <3> QED BY <3>1, <3>2 DEF HeldOpen
  <2>3. CASE q = p
    BY <1>3, <2>2, <2>3, ConnTyped
  <2>4. CASE q # p
    BY <1>3, <2>2, <2>4 DEF RelayInv, NoneHeld, Live
  <2> QED BY <2>3, <2>4
<1> QED BY <1>7, <1>8, <1>9, <1>10 DEF RelayInv

LEMMA SynRelay ==
  ASSUME RelayInv, SocketTypes, NEW p \in Ports, NEW ip \in Addresses, NEW svc \in Service,
         NEW match \in BOOLEAN, conn[p].st \in {"none", "syn"}, Arrives(p, ip, svc, match)
  PROVE  RelayInv'
<1>1. SocketTypes'
  BY ArrivesTyped
<1>2. /\ \A s \in Service : \A k \in DOMAIN backlog[s] :
           backlog[s][k].port = p => backlog[s][k].st # "live"
      /\ \A s \in sess : s.port = p => s.st # "live"
  BY NothingLive
<1>3. ASSUME NEW cn \in ConnRec, conn' = [conn EXCEPT ![p] = cn], cn.st # "relayed",
             UNCHANGED sockets
      PROVE  RelayInv'
  <2>1. conn'[p] = cn /\ \A q \in Ports \ {p} : conn'[q] = conn[q]
    BY <1>3 DEF SocketTypes
  <2>2. ASSUME NEW s \in Service, NEW k \in DOMAIN backlog'[s]
        PROVE  /\ k + None[s] = k /\ k \in DOMAIN backlog[s] /\ backlog'[s][k] = backlog[s][k]
               /\ backlog[s][k].port \in Ports
    <3>1. k \in Nat /\ k \in DOMAIN backlog[s] /\ backlog[s][k] \in EntryRec
      BY <1>3, <2>2 DEF SocketTypes, sockets
    <3> QED BY <1>3, <3>1 DEF None, sockets, EntryRec
  <2>3. \A s \in sess : s.port \in Ports
    BY DEF SocketTypes, SessRec
  <2>4. OnlyEnds(None)
    <3>1. None \in [Service -> {0, 1}]
      BY DEF None
    <3>2. sess' = sess
      BY <1>3 DEF sockets
    <3> QED BY <1>2, <1>3, <2>1, <2>2, <2>3, <3>1, <3>2 DEF OnlyEnds
  <2> QED BY <1>1, <2>4, EndsKeep
<1>4. /\ NoConn \in ConnRec /\ Conn("direct", ip, svc) \in ConnRec
      /\ Conn("syn", ip, svc) \in ConnRec /\ NoConn.st # "relayed"
      /\ Conn("direct", ip, svc).st # "relayed" /\ Conn("syn", ip, svc).st # "relayed"
  BY ConnTyped
<1>5. CASE ~match
  BY <1>3, <1>4, <1>5 DEF Arrives
<1>6. CASE match /\ relay_pc \in {"start", "gone"}
  BY <1>3, <1>4, <1>6 DEF Arrives
<1>7. CASE match /\ relay_pc \notin {"start", "gone"} /\ HeldOpen(p, svc)
  <2>1. /\ conn' = [conn EXCEPT ![p] = Conn("syn", ip, svc)]
        /\ ResetAll(p, {svc}, {"left"}, "gone")
    BY <1>7 DEF Arrives
  <2>2. ResetTo(p, {svc}, {"left"}, "gone")
    BY <2>1, ResetDoes, "gone" \in {"left", "gone"}, {svc} \in SUBSET Service DEF SocketTypes
  <2>3. OnlyEnds(None)
    <3>1. {svc} \in SUBSET Service /\ {"left"} \in SUBSET {"live", "left"} /\ "gone" \in {"left", "gone"}
      OBVIOUS
    <3> QED BY <1>4, <2>1, <2>2, <3>1, ResetEnds
  <2> QED BY <1>1, <2>3, EndsKeep
<1>8. CASE match /\ relay_pc \notin {"start", "gone"} /\ ~HeldOpen(p, svc)
  <2>1. /\ conn' = [conn EXCEPT ![p] = Conn("relayed", ip, svc)]
        /\ backlog' = [backlog EXCEPT ![svc] = Append(@, Entry(p, ip))]
        /\ sess' = sess
    BY <1>8 DEF Arrives
  <2> QED BY <1>8, <2>1, BeginsOne
<1> QED BY <1>5, <1>6, <1>7, <1>8

LEMMA HangUpRelay ==
  ASSUME RelayInv, SocketTypes, NEW p \in Ports, HangUp(p)
  PROVE  RelayInv'
<1>1. SocketTypes'
  BY HangsUpTyped
<1>2. PICK to \in {"left", "gone"} : ResetAll(p, Service, {"live"}, to)
  BY DEF HangUp
<1>3. ResetTo(p, Service, {"live"}, to)
  BY <1>2, ResetDoes DEF SocketTypes
<1>4. conn' = [conn EXCEPT ![p] = NoConn] /\ NoConn \in ConnRec /\ NoConn.st # "relayed"
  BY DEF HangUp, NoConn, ConnRec
<1>5. Service \in SUBSET Service /\ {"live"} \in SUBSET {"live", "left"} /\ "live" \in {"live"}
  OBVIOUS
<1>6. OnlyEnds(None)
  BY <1>3, <1>4, <1>5, ResetEnds
<1> QED BY <1>1, <1>6, EndsKeep

LEMMA LeaveRelay ==
  ASSUME RelayInv, SocketTypes, proxy_attach_netif
  PROVE  RelayInv'
<1> DEFINE leave(e) == IF e.st = "live" THEN [e EXCEPT !.st = "left"] ELSE e
<1>1. /\ backlog' = [s \in Service |-> [k \in DOMAIN backlog[s] |-> leave(backlog[s][k])]]
      /\ sess' = {leave(s) : s \in sess} /\ conn' = [p \in Ports |-> NoConn]
  BY DEF proxy_attach_netif
<1>2. \A s \in SessRec : leave(s).st # "live"
  BY DEF SessRec
<1>3. \A e \in EntryRec : leave(e).st # "live"
  BY DEF EntryRec
<1> HIDE DEF leave
<1>4. \A s \in sess' : s.st # "live"
  BY <1>1, <1>2 DEF SocketTypes
<1>5. ASSUME NEW svc \in Service, NEW k \in DOMAIN backlog'[svc]
      PROVE  backlog'[svc][k].st # "live"
  <2>1. k \in DOMAIN backlog[svc] /\ backlog'[svc][k] = leave(backlog[svc][k])
    BY <1>1
  <2>2. backlog[svc][k] \in EntryRec
    BY <2>1 DEF SocketTypes
  <2> QED BY <1>3, <2>1, <2>2
<1>6. \A q \in Ports : conn'[q].st # "relayed"
  BY <1>1 DEF NoConn
<1>7. BacklogKnows' /\ SessionKnowsItsSite' /\ LiveOnce'
  BY <1>4, <1>5 DEF BacklogKnows, SessionKnowsItsSite, LiveOnce
<1>8. NoneHeld'
  BY <1>6 DEF NoneHeld, Live
<1> QED BY <1>7, <1>8 DEF RelayInv

LEMMA CloseRelay ==
  ASSUME RelayInv, SocketTypes, SocketTypes', CloseSession
  PROVE  RelayInv'
<1>1. PICK s \in sess : sess_close(s)
  BY DEF CloseSession
<1>2. s.port \in Ports /\ backlog' = backlog
  BY DEF SocketTypes, SessRec, CloseSession
<1>3. /\ sess' = sess \ {s}
      /\ conn' = IF s.st = "live" THEN [conn EXCEPT ![s.port] = NoConn] ELSE conn
  BY <1>1 DEF sess_close
<1>4. \A q \in Ports : /\ s.st # "live" \/ q # s.port => conn'[q] = conn[q]
                       /\ conn'[q].st = "relayed" => conn'[q] = conn[q]
  BY <1>3 DEF SocketTypes, NoConn
<1>5. ASSUME NEW svc \in Service, NEW k \in DOMAIN backlog'[svc]
      PROVE  /\ k + None[svc] = k /\ k \in DOMAIN backlog[svc]
             /\ backlog'[svc][k] = backlog[svc][k]
             /\ backlog[svc][k].port \in Ports
             /\ backlog[svc][k].st = "live" /\ s.st = "live" => backlog[svc][k].port # s.port
  <2>1. k \in Nat /\ k \in DOMAIN backlog[svc] /\ backlog[svc][k] \in EntryRec
    BY <1>2, <1>5 DEF SocketTypes
  <2>2. k + None[svc] = k
    BY <2>1 DEF None
  <2>3. backlog[svc][k].port \in Ports
    BY <2>1 DEF EntryRec
  <2>4. backlog[svc][k].st = "live" /\ s.st = "live" => backlog[svc][k].port # s.port
    BY <2>1 DEF RelayInv, LiveOnce
  <2> QED BY <1>2, <2>1, <2>2, <2>3, <2>4
<1>6. ASSUME NEW t \in sess'
      PROVE  t \in sess /\ t.port \in Ports
             /\ (t.st = "live" /\ s.st = "live" => t.port # s.port)
  <2>1. t \in sess /\ t # s
    BY <1>3, <1>6
  <2> QED BY <2>1 DEF RelayInv, LiveOnce, SocketTypes, SessRec
<1>7. None \in [Service -> {0, 1}]
  BY DEF None
<1>8. \A svc \in Service : \A k \in DOMAIN backlog'[svc] :
       /\ k + None[svc] \in DOMAIN backlog[svc]
       /\ backlog'[svc][k].port = backlog[svc][k + None[svc]].port
       /\ backlog'[svc][k].ip = backlog[svc][k + None[svc]].ip
       /\ backlog'[svc][k].st = "live" =>
            /\ backlog[svc][k + None[svc]].st = "live"
            /\ conn'[backlog'[svc][k].port] = conn[backlog'[svc][k].port]
       /\ backlog'[svc][k].st = "left" =>
            \/ backlog[svc][k + None[svc]].st = "left"
            \/ conn'[backlog'[svc][k].port].st # "relayed"
  BY <1>4, <1>5
<1>9. OnlyEnds(None)
  BY <1>4, <1>6, <1>7, <1>8 DEF OnlyEnds
<1> QED BY <1>9, EndsKeep

LEMMA AcceptRelay ==
  ASSUME RelayInv, SocketTypes, SocketTypes', TableTypes(flows), ActiveIsSame,
         NEW svc \in Service, backlog[svc] # << >>, JustAccepted(svc)
  PROVE  RelayInv'
<1> DEFINE e == Head(backlog[svc])
           n == [s \in Service |-> IF s = svc THEN 1 ELSE 0]
<1>1. /\ e \in EntryRec /\ e = backlog[svc][1] /\ 1 \in DOMAIN backlog[svc]
      /\ \A k \in DOMAIN Tail(backlog[svc]) :
           /\ k \in Nat /\ k + 1 \in DOMAIN backlog[svc] /\ k + 1 # 1
           /\ Tail(backlog[svc])[k] = backlog[svc][k + 1]
  BY Taken DEF SocketTypes
<1>2. e.port \in Ports /\ e.ip \in Addresses /\ e.st \in {"live", "left", "gone"}
  BY <1>1 DEF EntryRec
<1>3. backlog'[svc] = Tail(backlog[svc]) /\ \A s \in Service \ {svc} : backlog'[s] = backlog[s]
  BY DEF JustAccepted, SocketTypes
<1> HIDE DEF e
<1>4. n \in [Service -> {0, 1}]
  OBVIOUS
<1>5. ASSUME NEW s \in Service, NEW k \in DOMAIN backlog'[s]
      PROVE  /\ k + n[s] \in DOMAIN backlog[s] /\ backlog'[s][k] = backlog[s][k + n[s]]
             /\ backlog[s][k + n[s]].port \in Ports
             /\ s = svc => k + n[s] # 1
             /\ k \in Nat /\ n[s] \in Nat
  <2>1. CASE s = svc
    <3>1. k \in DOMAIN Tail(backlog[svc]) /\ n[s] = 1
      BY <1>3, <1>5, <2>1
    <3>2. /\ k \in Nat /\ k + 1 \in DOMAIN backlog[svc] /\ k + 1 # 1
          /\ Tail(backlog[svc])[k] = backlog[svc][k + 1]
      BY <1>1, <3>1
    <3>3. backlog[svc][k + 1] \in EntryRec
      BY <3>2 DEF SocketTypes
    <3>4. backlog[svc][k + 1].port \in Ports
      BY <3>3 DEF EntryRec
    <3> HIDE DEF n
    <3>5. k + n[s] = k + 1 /\ n[s] \in Nat /\ backlog'[s] = Tail(backlog[s])
      BY <1>3, <2>1, <3>1
    <3> QED BY <2>1, <3>2, <3>4, <3>5
  <2>2. CASE s # svc
    <3>1. k \in Nat /\ k \in DOMAIN backlog[s] /\ backlog[s][k] \in EntryRec
      BY <1>3, <1>5, <2>2 DEF SocketTypes
    <3>2. n[s] = 0 /\ k + 0 = k
      BY <2>2, <3>1
    <3>3. backlog[s][k].port \in Ports
      BY <3>1 DEF EntryRec
    <3> HIDE DEF n
    <3> QED BY <1>3, <2>2, <3>1, <3>2, <3>3
  <2> QED BY <2>1, <2>2
<1>6. ASSUME NEW s \in Service, NEW k \in DOMAIN backlog'[s],
             e.st = "live", backlog'[s][k].st = "live"
      PROVE  backlog'[s][k].port # e.port
  <2>1. CASE s = svc
    BY <1>1, <1>5, <1>6, <2>1 DEF RelayInv, LiveOnce
  <2>2. CASE s # svc
    <3>1. /\ conn[e.port] = Conn("relayed", e.ip, svc)
          /\ conn[backlog'[s][k].port] = Conn("relayed", backlog'[s][k].ip, s)
      BY <1>1, <1>5, <1>6 DEF RelayInv, BacklogKnows
    <3> QED BY <2>2, <3>1 DEF Conn
  <2> QED BY <2>1, <2>2
<1>7. \A s \in sess : s.port \in Ports /\ (e.st = "live" /\ s.st = "live" => s.port # e.port)
  BY <1>1 DEF RelayInv, LiveOnce, SocketTypes, SessRec
<1> HIDE DEF n
<1>8. CASE sess' = sess
  <2>1. conn' = conn \/ (e.st = "live" /\ conn' = [conn EXCEPT ![e.port] = NoConn])
    BY DEF JustAccepted, e
  <2>2. \A q \in Ports : /\ e.st # "live" \/ q # e.port => conn'[q] = conn[q]
                         /\ conn'[q].st = "relayed" => conn'[q] = conn[q]
    BY <2>1 DEF SocketTypes, NoConn
  <2>3. OnlyEnds(n)
    <3>1. \A s \in Service : \A k \in DOMAIN backlog'[s] :
            /\ k + n[s] \in DOMAIN backlog[s]
            /\ backlog'[s][k].port = backlog[s][k + n[s]].port
            /\ backlog'[s][k].ip = backlog[s][k + n[s]].ip
            /\ backlog'[s][k].st = "live" =>
                 /\ backlog[s][k + n[s]].st = "live"
                 /\ conn'[backlog'[s][k].port] = conn[backlog'[s][k].port]
            /\ backlog'[s][k].st = "left" =>
                 \/ backlog[s][k + n[s]].st = "left"
                 \/ conn'[backlog'[s][k].port].st # "relayed"
      BY <1>5, <1>6, <2>2
    <3> QED BY <1>4, <1>7, <1>8, <2>2, <3>1 DEF OnlyEnds
  <2> QED BY <2>3, EndsKeep
<1>9. CASE sess' # sess
  <2>1. PICK f \in flow_lookup(e.port, svc), k \in FreeSlots :
          sess' = sess \union
            {[slot |-> k, port |-> e.port, svc |-> svc, ip |-> f.ip, st |-> e.st]}
    BY <1>9 DEF JustAccepted, e
  <2>2. conn' = conn /\ e.st # "gone"
    BY <1>9 DEF JustAccepted, e
  <2> DEFINE s0 == [slot |-> k, port |-> e.port, svc |-> svc, ip |-> f.ip, st |-> e.st]
  <2>3. sess' = sess \union {s0} /\ s0.port = e.port /\ s0.svc = svc /\ s0.ip = f.ip /\ s0.st = e.st
    BY <2>1
  <2>4. f \in Flows(flows) /\ f.port = e.port /\ f.state = "ACTIVE" /\ f.svc = svc
    BY FoundFlow DEF TableTypes
  <2> HIDE DEF s0
  <2>5. BacklogKnows'
    BY <1>5, <2>2 DEF RelayInv, BacklogKnows
  <2>6. e.st = "live" => conn[e.port] = Conn("relayed", e.ip, svc)
    BY <1>1 DEF RelayInv, BacklogKnows
  <2>7. e.st = "live" => f.ip = e.ip
    <3>1. e.st = "live" => conn[e.port].st = "relayed" /\ conn[e.port].ip = e.ip
      BY <2>6 DEF Conn
    <3>2. ActiveSame(flows, conn)
      BY TableAsSet
    <3> QED BY <1>2, <2>4, <3>1, <3>2 DEF ActiveSame
  <2>8. SessionKnowsItsSite'
    BY <2>2, <2>3, <2>6, <2>7 DEF RelayInv, SessionKnowsItsSite
  <2>9. LiveOnce'
    <3>1. ASSUME NEW s \in sess', NEW t \in sess', s.st = "live", t.st = "live", s.port = t.port
          PROVE  s = t
      BY <1>7, <2>3, <3>1 DEF RelayInv, LiveOnce
    <3>2. ASSUME NEW b \in Service, NEW j \in DOMAIN backlog'[b],
                 backlog'[b][j].st = "live", NEW s \in sess', s.st = "live"
          PROVE  s.port # backlog'[b][j].port
      BY <1>5, <1>6, <2>3, <3>2 DEF RelayInv, LiveOnce
    <3>3. ASSUME NEW b \in Service, NEW j \in DOMAIN backlog'[b], NEW m \in DOMAIN backlog'[b],
                 backlog'[b][j].st = "live", backlog'[b][m].st = "live",
                 backlog'[b][j].port = backlog'[b][m].port
          PROVE  j = m
      <4>1. j + n[b] = m + n[b]
        BY <1>5, <3>3 DEF RelayInv, LiveOnce
      <4>2. j \in Nat /\ m \in Nat /\ n[b] \in Nat
        BY <1>5
      <4> QED BY <4>1, <4>2
    <3> QED BY <3>1, <3>2, <3>3 DEF LiveOnce
  <2>10. NoneHeld'
    <3> SUFFICES ASSUME NEW q \in Ports, conn'[q].st = "relayed", HeldOpen(q, conn[q].svc)'
                 PROVE  FALSE
      BY DEF NoneHeld, Live
    <3>1. conn[q].svc \in Service /\ conn'[q] = conn[q]
      BY <2>2, Connections DEF SocketTypes
    <3>2. HeldOpen(q, conn[q].svc)
      <4>1. CASE \E j \in DOMAIN backlog'[conn[q].svc] :
                   backlog'[conn[q].svc][j].port = q /\ backlog'[conn[q].svc][j].st = "left"
        BY <1>5, <3>1, <4>1 DEF HeldOpen
      <4>2. CASE \E s \in sess' : s.port = q /\ s.svc = conn[q].svc /\ s.st = "left"
        BY <1>1, <2>3, <4>2 DEF HeldOpen
      <4> QED BY <3>1, <4>1, <4>2 DEF HeldOpen
    <3> QED BY <2>2, <3>1, <3>2 DEF RelayInv, NoneHeld, Live
  <2> QED BY <2>5, <2>8, <2>9, <2>10 DEF RelayInv
<1> QED BY <1>8, <1>9

LEMMA RelayStep ==
  ASSUME ProxyInv, [ProxyNext]_proxyVars
  PROVE  RelayInv'
<1>1. /\ ProxyTypes /\ RelayInv /\ OneFlowPerPort /\ AskedWaits /\ ActiveIsSame
      /\ SocketTypes /\ TableTypes(flows)
  BY TableTyped DEF ProxyInv, TableInv, ProxyTypes, SocketTypes
<1>2. SocketTypes'
  BY <1>1, TypesStep DEF ProxyTypes, SocketTypes
<1>3. CASE UNCHANGED <<conn, backlog, sess>>
  BY <1>1, <1>2, <1>3, SameEnds, EndsKeep
<1>4. CASE \E p \in Ports, ip \in Addresses, svc \in Service, wifi \in BOOLEAN :
             conn[p].st \in {"none", "syn"} /\ Syn(p, ip, svc, wifi)
  <2>1. PICK p \in Ports, ip \in Addresses, svc \in Service, wifi \in BOOLEAN :
          conn[p].st \in {"none", "syn"} /\ Syn(p, ip, svc, wifi)
    BY <1>4
  <2> DEFINE v == HookSyn(flows, p, ip, svc, px_ready /\ wifi)
  <2>2. (px_ready /\ wifi) \in BOOLEAN
    BY <1>1 DEF ProxyTypes
  <2>3. SynVerdict(v, flows, p, ip, svc)
    BY <1>1, <2>2, SynDoes DEF TableTypes
  <2>4. Arrives(p, ip, svc, v.match)
    BY <2>1 DEF Syn
  <2> HIDE DEF v
  <2>5. v.match \in BOOLEAN
    BY <2>3 DEF SynVerdict
  <2> QED BY <1>1, <2>1, <2>4, <2>5, SynRelay
<1>5. CASE \E p \in Ports : HangUp(p)
  BY <1>1, <1>5, HangUpRelay
<1>6. CASE \E p \in Ports : Packet(p)
  BY <1>3, <1>6 DEF Packet, sockets
<1>7. CASE TimeIdles
  BY <1>3, <1>7 DEF TimeIdles, sockets
<1>8. CASE proxy_attach_netif
  BY <1>1, <1>8, LeaveRelay
<1>9. CASE CloseSession
  BY <1>1, <1>2, <1>9, CloseRelay
<1>10. CASE Accept
  <2>1. CASE relay_pc \in rd
    <3>1. relay_pc \in Service /\ backlog[relay_pc] # << >> /\ JustAccepted(relay_pc)
      BY <1>1, <1>10, <2>1, AcceptDoes DEF AskedWaits, Service
    <3> QED BY <1>1, <1>2, <3>1, AcceptRelay
  <2>2. CASE relay_pc \notin rd
    BY <1>3, <1>10, <2>2, AcceptDoes
  <2> QED BY <2>1, <2>2
<1>11. CASE Quiet
  BY <1>3, <1>11 DEF Quiet
<1> QED BY <1>1, <1>4, <1>5, <1>6, <1>7, <1>8, <1>9, <1>10, <1>11, Steps

-----------------------------------------------------------------------------
(* The slots the listeners were asked for, and what they have waiting.     *)
LEMMA RelayPasses ==
  ASSUME ProxyInv, Quiet
  PROVE  SlotInv' /\ AskedWaits'
<1>1. UNCHANGED <<backlog, sess>>
  BY DEF Quiet
<1>2. SlotFree' <=> SlotFree
  BY <1>1 DEF SlotFree, FreeSlots
<1>3. SlotInv /\ AskedWaits
  BY DEF ProxyInv
<1>4. CASE UNCHANGED <<relay_pc, rd>>
  BY <1>1, <1>2, <1>3, <1>4 DEF SlotInv, AskedWaits
<1>5. CASE \E room \in {SlotFree, FALSE} : Select(room)
  <2>a. PICK room \in {SlotFree, FALSE} : Select(room)
    BY <1>5
  <2>b. relay_pc' = "service" /\ rd' = IF room THEN Waiting ELSE {}
    BY <2>a DEF Select
  <2>c. room => SlotFree
    BY Zenon
  <2>1. relay_pc' = "service" /\ (rd' = {} \/ (SlotFree /\ rd' = Waiting))
    BY <2>b, <2>c
  <2>2. \A svc \in Waiting : backlog[svc] # << >>
    BY DEF Waiting
  <2> QED BY <1>1, <1>2, <2>1, <2>2 DEF SlotInv, AskedWaits
<1>6. CASE Served
  BY <1>1, <1>2, <1>3, <1>6 DEF Served, SlotInv, AskedWaits
<1>7. CASE relay_pc' \in {"start", "gone", "select"}
  BY <1>7 DEF SlotInv, AskedWaits
<1> QED BY <1>4, <1>5, <1>6, <1>7
        DEF Quiet, proxy_task_start, SetReady, Deadlines, proxyVars

LEMMA SlotStep ==
  ASSUME ProxyInv, [ProxyNext]_proxyVars
  PROVE  SlotInv' /\ AskedWaits'
<1>1. /\ ProxyTypes /\ OneFlowPerPort /\ AskedWaits /\ SlotInv
      /\ rd \in SUBSET Service /\ backlog \in [Service -> Seq(EntryRec)]
  BY DEF ProxyInv, TableInv, ProxyTypes
<1>2. Accept \/ (RoomKept /\ (UNCHANGED relay \/ Quiet))
  BY <1>1, TypesStep
<1>3. CASE Quiet
  BY <1>3, RelayPasses
<1>4. CASE RoomKept /\ UNCHANGED relay
  <2>1. SlotFree => SlotFree'
    BY <1>4 DEF RoomKept, SlotFree, FreeSlots, Slots
  <2>2. UNCHANGED <<relay_pc, rd>>
    BY <1>4 DEF relay
  <2>3. SlotInv'
    BY <1>1, <2>1, <2>2 DEF SlotInv
  <2>4. \A svc \in Service : backlog[svc] # << >> => backlog'[svc] # << >>
    BY <1>4 DEF RoomKept
  <2>5. AskedWaits'
    BY <1>1, <2>2, <2>4 DEF AskedWaits, Service
  <2> QED BY <2>3, <2>5
<1>5. CASE Accept
  <2>1. /\ relay_pc \in Service /\ rd' = rd
        /\ relay_pc' = (IF relay_pc = "http" THEN "tls" ELSE "deadlines")
        /\ relay_pc \in rd => JustAccepted(relay_pc)
        /\ relay_pc \notin rd => UNCHANGED <<flows, conn, backlog, sess>>
    BY <1>5, AcceptDoes
  <2>2. CASE relay_pc = "tls"
    BY <2>1, <2>2 DEF SlotInv, AskedWaits
  <2>3. CASE relay_pc = "http"
    <3>1. relay_pc' = "tls" /\ (\A svc \in rd : backlog[svc] # << >>)
      BY <1>1, <2>1, <2>3 DEF AskedWaits
    <3>2. backlog'["tls"] = backlog["tls"]
      BY <1>1, <2>1, <2>3 DEF JustAccepted, Service
    <3>3. "http" \notin rd => sess' = sess
      BY <2>1, <2>3
    <3>4. AskedWaits'
      BY <2>1, <3>1, <3>2 DEF AskedWaits
    <3>5. SlotInv'
      BY <1>1, <2>1, <2>3, <3>1, <3>3 DEF SlotInv, SlotFree, FreeSlots
    <3> QED BY <3>4, <3>5
  <2> QED BY <2>1, <2>2, <2>3 DEF Service
<1> QED BY <1>2, <1>3, <1>4, <1>5

LEMMA ProxyStart == ProxyInit => ProxyInv
<1>1. ASSUME ProxyInit PROVE TableInv /\ RelayInv /\ SlotInv /\ AskedWaits
  <2>1. /\ flows = << >> /\ conn = [p \in Ports |-> NoConn] /\ sess = {} /\ relay_pc = "start"
        /\ backlog = [s \in Service |-> << >>]
    BY <1>1 DEF ProxyInit
  <2>2. \A p \in Ports : conn[p].st = "none"
    BY <2>1 DEF NoConn
  <2>3. \A svc \in Service : DOMAIN backlog[svc] = {}
    BY <2>1
  <2>4. TableInv
    BY <1>1, <2>2, TypesStart DEF TableInv, ActiveIsSame, FlowServesConnection, Live
  <2>5. RelayInv
    BY <2>1, <2>2, <2>3 DEF RelayInv, BacklogKnows, SessionKnowsItsSite, LiveOnce, NoneHeld, Live
  <2> QED BY <2>1, <2>4, <2>5 DEF SlotInv, AskedWaits
<1> QED BY <1>1, TypesStart DEF ProxyInv

THEOREM ProxyHolds == ProxySpec => []ProxyInv
<1>1. ASSUME ProxyInv, [ProxyNext]_proxyVars PROVE ProxyInv'
  <2>1. ProxyTypes'
    BY <1>1, TypesStep DEF ProxyInv, TableInv
  <2> QED BY <1>1, <2>1, TableStep, RelayStep, SlotStep DEF ProxyInv
<1> QED BY <1>1, ProxyStart, PTL DEF ProxySpec

-----------------------------------------------------------------------------
(* http_proxy.c:178-185, 312-335: the hooks keep one flow per port of the  *)
(* phone and never more flows than the table has slots.                    *)
THEOREM FlowTableRight == ProxySpec => []OneFlowPerPort
<1>1. ProxyInv => OneFlowPerPort
  BY DEF ProxyInv, TableInv
<1> QED BY <1>1, ProxyHolds, PTL

(* http_proxy.c:312-369: a connection the phone has to the relay keeps an  *)
(* active flow with the address it dialled, whatever else is dialled, ends *)
(* or idles, but for the two ways FlowServesConnection names.              *)
THEOREM FlowServes == ProxySpec => []FlowServesConnection
<1>1. ProxyInv => FlowServesConnection
  BY DEF ProxyInv, TableInv
<1> QED BY <1>1, ProxyHolds, PTL

(* http_proxy.c:835-877: a session connects to the site its phone's        *)
(* connection was dialled to, whatever that port was used for before.      *)
THEOREM SessionsKnow == ProxySpec => []SessionKnowsItsSite
<1>1. ProxyInv => SessionKnowsItsSite
  BY DEF ProxyInv, RelayInv
<1> QED BY <1>1, ProxyHolds, PTL

LEMMA ClosedAfterAccept ==
  ASSUME ProxyInv, [ProxyNext]_proxyVars, NEW p \in Ports, ClosedAtAccept(p),
         p \notin crossed \union evicted
  PROVE  /\ flow_lookup(p, relay_pc) # {}
         /\ SlotFree \/ (relay_pc = "tls" /\ "http" \in rd)
<1>1. relay_pc \in Service /\ relay_pc' # relay_pc /\ Live(p) /\ conn'[p] = NoConn
  BY DEF ClosedAtAccept
<1>2. ProxyTypes /\ OneFlowPerPort /\ AskedWaits /\ SlotInv /\ BacklogKnows /\ FlowServesConnection
  BY DEF ProxyInv, TableInv, RelayInv
<1>3. Accept
  <2>1. Accept \/ UNCHANGED relay \/ Quiet
    BY <1>2, TypesStep
  <2>2. Quiet => conn' = conn
    BY DEF Quiet
  <2>3. conn'[p] # conn[p]
    BY <1>1 DEF Live, NoConn
  <2> QED BY <1>1, <2>1, <2>2, <2>3 DEF relay
<1>4. relay_pc \in rd /\ JustAccepted(relay_pc) /\ backlog[relay_pc] # << >>
  <2>1. conn' # conn
    BY <1>1 DEF Live, NoConn
  <2>2. relay_pc \in rd
    BY <1>3, <2>1, AcceptDoes
  <2> QED BY <1>1, <1>2, <1>3, <2>2, AcceptDoes DEF AskedWaits, Service
<1> DEFINE e == Head(backlog[relay_pc])
<1>5. e \in EntryRec /\ 1 \in DOMAIN backlog[relay_pc] /\ e = backlog[relay_pc][1]
  BY <1>1, <1>2, <1>4, Taken DEF ProxyTypes
<1>6. e.st = "live" /\ conn' = [conn EXCEPT ![e.port] = NoConn]
  BY <1>1, <1>4 DEF JustAccepted, Live, NoConn
<1> HIDE DEF e
<1>7. p = e.port
  BY <1>1, <1>2, <1>6 DEF ProxyTypes, Live, NoConn
<1>8. conn[p] = Conn("relayed", e.ip, relay_pc)
  BY <1>1, <1>2, <1>5, <1>6, <1>7 DEF BacklogKnows
<1>9. flow_lookup(p, relay_pc) # {}
  <2>1. PICK i \in FlowOf(flows, p) :
          Same(flows, i, conn[p].ip, conn[p].svc) /\ flows[i].state = "ACTIVE"
    BY <1>1, <1>2 DEF FlowServesConnection
  <2>2. flows[i].svc = relay_pc
    BY <1>8, <2>1 DEF Same, Conn
  <2> QED BY <2>1, <2>2 DEF flow_lookup
<1>10. SlotFree \/ (relay_pc = "tls" /\ "http" \in rd)
  BY <1>1, <1>2, <1>4 DEF SlotInv, Service
<1> QED BY <1>9, <1>10

(* http_proxy.c:845-877, 928-929, 949-951: what the relay accepts from a   *)
(* phone that still wants it is served, but for want of memory, of a slot  *)
(* the other listener took, or of a flow lost in one of the two ways.      *)
THEOREM RefusedOnlyForWant == ProxySpec => ClosedOnlyForWant
<1>1. ASSUME ProxyInv, [ProxyNext]_proxyVars
      PROVE  [\A p \in Ports : ClosedAtAccept(p) =>
                \/ p \in crossed \union evicted
                \/ /\ flow_lookup(p, relay_pc) # {}
                   /\ SlotFree \/ (relay_pc = "tls" /\ "http" \in rd)]_proxyVars
  BY <1>1, ClosedAfterAccept
<1> QED BY <1>1, ProxyHolds, PTL DEF ProxySpec, ClosedOnlyForWant

-----------------------------------------------------------------------------
(* The checksums, for every width of a word: TLC's is 2 bits, the program's
   16.  To fold a sum once takes off Base - 1 for each Base in it, so a sum
   of words is folded by taking off a multiple of Base - 1.                *)
AllOnes == Base - 1
Sums == 0 .. Base - 2      \* a sum over what is not all zero

LEMMA Divided ==
  ASSUME NEW s \in Nat, NEW k \in Nat, NEW r \in Word, s = k * Base + r
  PROVE  s % Base = r /\ s \div Base = k
<1>1. Base \in Nat /\ Base >= 2 /\ r \in Nat /\ r < Base
  BY BaseAssumption DEF Word
<1> QED BY <1>1

LEMMA FoldTakesOff ==
  ASSUME NEW s \in 0 .. 5 * AllOnes
  PROVE  \/ s < Base /\ Fold(s) = s
         \/ Base <= s /\ s < 2 * Base /\ Fold(s) = s - AllOnes
         \/ 2 * Base <= s /\ s < 3 * Base /\ Fold(s) = s - 2 * AllOnes
         \/ 3 * Base <= s /\ s < 4 * Base /\ Fold(s) = s - 3 * AllOnes
         \/ 4 * Base <= s /\ s < 5 * Base /\ Fold(s) = s - 4 * AllOnes
<1>1. Base \in Nat /\ Base >= 2 /\ s \in Nat /\ s < 5 * Base
  BY BaseAssumption DEF AllOnes
<1>2. CASE s < Base
  <2>1. s \in Word /\ s = 0 * Base + s
    BY <1>1, <1>2 DEF Word
  <2>2. s % Base = s /\ s \div Base = 0
    <3>1. 0 \in Nat
      OBVIOUS
    <3> QED BY <1>1, <2>1, <3>1, Divided
  <2> QED BY <1>1, <1>2, <2>2 DEF Fold
<1>3. ASSUME NEW k \in {1, 2, 3, 4}, k * Base <= s, s < (k + 1) * Base
      PROVE  Fold(s) = s - k * Base + k
  <2> DEFINE r == s - k * Base
  <2>1. r \in Word /\ s = k * Base + r
    BY <1>1, <1>3 DEF Word
  <2> HIDE DEF r
  <2>2. s % Base = r /\ s \div Base = k
    BY <1>1, <2>1, Divided
  <2> QED BY <2>2 DEF Fold, r
<1> QED BY <1>1, <1>2, <1>3 DEF AllOnes

LEMMA GoodMeans ==
  ASSUME NEW t \in 0 .. 5 * AllOnes - 1
  PROVE  Good(t) <=> \E k \in {1, 2, 3, 4} : t = k * AllOnes
<1> DEFINE f == Fold(t)
<1>1. Base \in Nat /\ Base >= 2 /\ t \in Nat /\ t < 5 * (Base - 1)
  BY BaseAssumption DEF AllOnes
<1>2. \E k \in {0, 1, 2, 3, 4} :
        k * Base <= t /\ t < (k + 1) * Base /\ f = t - k * (Base - 1)
  BY <1>1, FoldTakesOff DEF AllOnes
<1>3. f \in 0 .. 5 * AllOnes /\ f \in Nat /\ f <= Base + 3
  BY <1>1, <1>2 DEF AllOnes
<1> HIDE DEF f
<1>4. \E k \in {0, 1, 2, 3, 4} :
        k * Base <= f /\ f < (k + 1) * Base /\ Fold(f) = f - k * (Base - 1)
  BY <1>1, <1>3, FoldTakesOff DEF AllOnes
<1>5. Good(t) <=> Fold(f) = Base - 1
  BY DEF Good, f
<1>6. t = 0 <=> f = 0
  BY <1>1, <1>2
<1>7. Fold(f) = Base - 1 => \E k \in {1, 2, 3, 4} : t = k * (Base - 1)
  <2> SUFFICES ASSUME Fold(f) = Base - 1 PROVE \E k \in {1, 2, 3, 4} : t = k * (Base - 1)
    OBVIOUS
  <2>1. PICK k1 \in {0, 1, 2, 3, 4} : f = t - k1 * (Base - 1)
    BY <1>2
  <2>2. PICK k2 \in {0, 1, 2, 3, 4} : Fold(f) = f - k2 * (Base - 1)
    BY <1>4
  <2> QED BY <1>1, <2>1, <2>2
<1>8. ASSUME NEW k \in {1, 2, 3, 4}, t = k * (Base - 1) PROVE Fold(f) = Base - 1
  BY <1>1, <1>2, <1>3, <1>4, <1>8
<1> QED BY <1>5, <1>7, <1>8 DEF AllOnes

(* One word of the packet is another, and the sum is patched: the total is
   good as before, whatever else is in it, as long as it is not all zero.  *)
LEMMA Patched ==
  ASSUME NEW sum \in Sums, NEW old \in Word, NEW new \in Word,
         NEW rest \in 1 .. 3 * AllOnes, Good(rest + old + sum)
  PROVE  /\ csum_adj(sum, old, new) \in Sums
         /\ Good(rest + new + csum_adj(sum, old, new))
<1> DEFINE x == Compl(sum) + Compl(old) + new
           f == Fold(x)
           g == Fold(f)
           adj == csum_adj(sum, old, new)
<1>1. /\ Base \in Nat /\ Base >= 2
      /\ sum \in Nat /\ sum < Base - 1 /\ old \in Nat /\ old < Base /\ new \in Nat /\ new < Base
      /\ rest \in Nat /\ 1 <= rest /\ rest <= 3 * (Base - 1)
  BY BaseAssumption DEF Word, Sums, AllOnes
<1>2. x = 2 * (Base - 1) - sum - old + new /\ x \in Nat /\ 1 <= x /\ x <= 3 * (Base - 1)
  BY <1>1 DEF Compl
<1>3. x \in 0 .. 5 * AllOnes
  BY <1>1, <1>2 DEF AllOnes
<1> HIDE DEF x
<1>4. \E k \in {0, 1, 2} :
        k * Base <= x /\ x < (k + 1) * Base /\ f = x - k * (Base - 1)
  BY <1>1, <1>2, <1>3, FoldTakesOff DEF AllOnes
<1>5. f \in 0 .. 5 * AllOnes /\ f \in Nat /\ f <= Base
  BY <1>1, <1>2, <1>4 DEF AllOnes
<1> HIDE DEF f
<1>6. \E k \in {0, 1} : k * Base <= f /\ f < (k + 1) * Base /\ g = f - k * (Base - 1)
  BY <1>1, <1>5, FoldTakesOff DEF AllOnes
<1> HIDE DEF g
<1>7. g \in Nat /\ 1 <= g /\ g <= Base - 1 /\ (g = x \/ g = x - (Base - 1) \/ g = x - 2 * (Base - 1))
  BY <1>1, <1>2, <1>4, <1>5, <1>6
<1>8. adj = Base - 1 - g
  <2>1. g \in Word /\ g = 0 * Base + g /\ 0 \in Nat
    BY <1>1, <1>7 DEF Word
  <2>2. g % Base = g
    BY <1>7, <2>1, Divided
  <2>3. adj = Base - 1 - (g % Base)
    BY DEF csum_adj, Compl, adj, g, f, x
  <2> HIDE DEF adj
  <2> QED BY <2>2, <2>3
<1> HIDE DEF adj
<1>9. adj \in Sums
  BY <1>1, <1>7, <1>8 DEF Sums
<1>10. \E k \in {1, 2, 3, 4} : rest + old + sum = k * (Base - 1)
  <2>1. rest + old + sum \in 0 .. 5 * AllOnes - 1
    BY <1>1 DEF AllOnes
  <2> QED BY <2>1, GoodMeans DEF AllOnes
<1>11. \E k \in {1, 2, 3, 4} : rest + new + adj = k * (Base - 1)
  BY <1>1, <1>2, <1>7, <1>8, <1>10
<1>12. Good(rest + new + adj)
  <2>1. rest + new + adj \in 0 .. 5 * AllOnes - 1
    BY <1>1, <1>7, <1>8, <1>9 DEF AllOnes, Sums
  <2> QED BY <1>11, <2>1, GoodMeans DEF AllOnes
<1> QED BY <1>9, <1>12 DEF adj

-----------------------------------------------------------------------------
HeaderSpec == HeaderInit /\ [][HeaderNext]_hdr

Addressed(h) ==
  /\ h.ip \in Word \X Word /\ h.port \in Word /\ h.rest \in Word \ {0}
  /\ h = [ip |-> h.ip, port |-> h.port, rest |-> h.rest, ipsum |-> h.ipsum, tcpsum |-> h.tcpsum]
HeaderInv == Addressed(hdr) /\ hdr.ipsum \in Sums /\ hdr.tcpsum \in Sums /\ Accepted(hdr)

(* The sum that is computed in full is the one patched from no words.      *)
LEMMA Computed ==
  ASSUME NEW part \in 1 .. 4 * AllOnes
  PROVE  LET sum == Compl(Fold(Fold(part))) IN sum \in Sums /\ Good(part + sum)
<1> DEFINE f == Fold(part)
           g == Fold(f)
           sum == Compl(g)
<1>1. Base \in Nat /\ Base >= 2 /\ part \in Nat /\ 1 <= part /\ part <= 4 * (Base - 1)
  BY BaseAssumption DEF AllOnes
<1>2. part \in 0 .. 5 * AllOnes
  BY <1>1 DEF AllOnes
<1>3. \E k \in {0, 1, 2, 3} :
        k * Base <= part /\ part < (k + 1) * Base /\ f = part - k * (Base - 1)
  BY <1>1, <1>2, FoldTakesOff DEF AllOnes
<1>4. f \in 0 .. 5 * AllOnes /\ f \in Nat /\ 1 <= f /\ f <= Base + 2
  BY <1>1, <1>3 DEF AllOnes
<1> HIDE DEF f
<1>5. \E k \in {0, 1, 2, 3, 4} :
        k * Base <= f /\ f < (k + 1) * Base /\ g = f - k * (Base - 1)
  BY <1>1, <1>4, FoldTakesOff DEF AllOnes
<1> HIDE DEF g
<1>6. g \in Nat /\ 1 <= g /\ g <= Base - 1
  BY <1>1, <1>3, <1>4, <1>5
<1>7. sum = Base - 1 - g
  BY DEF Compl
<1> HIDE DEF sum
<1>8. sum \in Sums
  BY <1>1, <1>6, <1>7 DEF Sums
<1>9. \E k \in {1, 2, 3, 4} : part + sum = k * (Base - 1)
  <2>1. PICK k1 \in {0, 1, 2, 3} : f = part - k1 * (Base - 1)
    BY <1>3
  <2>2. PICK k2 \in {0, 1, 2, 3, 4} : g = f - k2 * (Base - 1)
    BY <1>5
  <2> QED BY <1>1, <1>6, <1>7, <2>1, <2>2
<1>10. part + sum \in 0 .. 5 * AllOnes - 1
  BY <1>1, <1>6, <1>7 DEF AllOnes
<1>11. Good(part + sum)
  BY <1>9, <1>10, GoodMeans DEF AllOnes
<1> QED BY <1>8, <1>11 DEF sum, g, f

LEMMA RewrittenRight ==
  ASSUME HeaderInv, NEW ip \in Word \X Word, NEW port \in Word,
         hdr' = rewrite(hdr, ip, port)
  PROVE  HeaderInv'
<1> DEFINE i1 == hdr.ip[1]   i2 == hdr.ip[2]   p == hdr.port   r == hdr.rest
           n1 == ip[1]   n2 == ip[2]
           s1 == csum_adj(hdr.ipsum, i1, n1)
           s2 == csum_adj(s1, i2, n2)
           t1 == csum_adj(hdr.tcpsum, i1, n1)
           t2 == csum_adj(t1, i2, n2)
           t3 == csum_adj(t2, p, port)
<1>1. /\ i1 \in Word /\ i2 \in Word /\ p \in Word /\ n1 \in Word /\ n2 \in Word
      /\ r \in Word \ {0} /\ hdr.ipsum \in Sums /\ hdr.tcpsum \in Sums
      /\ Good(i1 + i2 + r + hdr.ipsum) /\ Good(i1 + i2 + r + p + hdr.tcpsum)
  BY DEF HeaderInv, Addressed, Accepted, Total
<1>2. hdr' = [ip |-> ip, port |-> port, rest |-> r, ipsum |-> s2, tcpsum |-> t3]
  <2>1. hdr' = [hdr EXCEPT !.ip = ip, !.port = port, !.ipsum = s2, !.tcpsum = t3]
    BY DEF rewrite, csum_adj32
  <2>2. hdr = [ip |-> hdr.ip, port |-> hdr.port, rest |-> hdr.rest, ipsum |-> hdr.ipsum,
               tcpsum |-> hdr.tcpsum]
    BY DEF HeaderInv, Addressed
  <2> HIDE DEF s2, t3
  <2> QED BY <2>1, <2>2
<1> HIDE DEF s1, s2, t1, t2, t3, i1, i2, p, r, n1, n2
<1>3. s1 \in Sums /\ Good((i2 + r) + n1 + s1)
  <2>1. i2 + r \in 1 .. 3 * AllOnes /\ (i2 + r) + i1 + hdr.ipsum = i1 + i2 + r + hdr.ipsum
    BY <1>1, BaseAssumption DEF Word, Sums, AllOnes
  <2> QED BY <1>1, <2>1, Patched DEF s1
<1>4. s2 \in Sums /\ Good((n1 + r) + n2 + s2)
  <2>1. n1 + r \in 1 .. 3 * AllOnes /\ (n1 + r) + i2 + s1 = (i2 + r) + n1 + s1
    BY <1>1, <1>3, BaseAssumption DEF Word, Sums, AllOnes
  <2> QED BY <1>1, <1>3, <2>1, Patched DEF s2
<1>5. t1 \in Sums /\ Good((i2 + r + p) + n1 + t1)
  <2>1. i2 + r + p \in 1 .. 3 * AllOnes
    BY <1>1, BaseAssumption DEF Word, AllOnes
  <2>2. (i2 + r + p) + i1 + hdr.tcpsum = i1 + i2 + r + p + hdr.tcpsum
    BY <1>1, BaseAssumption DEF Word, Sums
  <2> QED BY <1>1, <2>1, <2>2, Patched DEF t1
<1>6. t2 \in Sums /\ Good((n1 + r + p) + n2 + t2)
  <2>1. n1 + r + p \in 1 .. 3 * AllOnes
    BY <1>1, BaseAssumption DEF Word, AllOnes
  <2>2. (n1 + r + p) + i2 + t1 = (i2 + r + p) + n1 + t1
    BY <1>1, <1>5, BaseAssumption DEF Word, Sums
  <2> QED BY <1>1, <1>5, <2>1, <2>2, Patched DEF t2
<1>7. t3 \in Sums /\ Good((n1 + n2 + r) + port + t3)
  <2>1. n1 + n2 + r \in 1 .. 3 * AllOnes
    BY <1>1, BaseAssumption DEF Word, AllOnes
  <2>2. (n1 + n2 + r) + p + t2 = (n1 + r + p) + n2 + t2
    BY <1>1, <1>6, BaseAssumption DEF Word, Sums
  <2> QED BY <1>1, <1>6, <2>1, <2>2, Patched DEF t3
<1>8. (n1 + r) + n2 + s2 = n1 + n2 + r + s2
  BY <1>1, <1>4, BaseAssumption DEF Word, Sums
<1>9. ip[1] = n1 /\ ip[2] = n2
  BY DEF n1, n2
<1>10. Accepted(hdr')
  BY <1>2, <1>4, <1>7, <1>8, <1>9 DEF Accepted, Total
<1>11. Addressed(hdr') /\ hdr'.ipsum \in Sums /\ hdr'.tcpsum \in Sums
  BY <1>1, <1>2, <1>4, <1>7 DEF Addressed
<1> QED BY <1>10, <1>11 DEF HeaderInv

(* http_proxy.c:230-285: for words of any width, 16 bits among them, and
   however many rewrites a packet goes through, its receiver finds both
   checksums right; neither is ever all ones.                              *)
THEOREM ChecksumsRight == HeaderSpec => []ChecksumsStayRight
<1>1. HeaderInit => HeaderInv
  <2> SUFFICES ASSUME HeaderInit PROVE HeaderInv
    OBVIOUS
  <2>1. PICK ip \in Word \X Word : \E port \in Word, rest \in Word \ {0} :
          hdr = Sent(ip, port, rest)
    BY DEF HeaderInit
  <2>2. PICK port \in Word : \E rest \in Word \ {0} : hdr = Sent(ip, port, rest)
    BY <2>1
  <2>3. PICK rest \in Word \ {0} : hdr = Sent(ip, port, rest)
    BY <2>2
  <2> DEFINE part == ip[1] + ip[2] + rest
             s == Compl(Fold(Fold(part)))
             t == Compl(Fold(Fold(part + port)))
  <2>4. hdr = [ip |-> ip, port |-> port, rest |-> rest, ipsum |-> s, tcpsum |-> t]
    BY <2>3 DEF Sent
  <2>5. ip[1] \in Word /\ ip[2] \in Word
    OBVIOUS
  <2>6. part \in 1 .. 4 * AllOnes /\ part + port \in 1 .. 4 * AllOnes
    BY <2>5, BaseAssumption DEF Word, AllOnes
  <2>7. s \in Sums /\ Good(part + s)
    BY <2>6, Computed
  <2>8. t \in Sums /\ Good(part + port + t)
    BY <2>6, Computed
  <2> HIDE DEF s, t
  <2>9. Accepted(hdr)
    BY <2>4, <2>7, <2>8 DEF Accepted, Total
  <2>10. Addressed(hdr) /\ hdr.ipsum \in Sums /\ hdr.tcpsum \in Sums
    BY <2>4, <2>7, <2>8 DEF Addressed
  <2> QED BY <2>9, <2>10 DEF HeaderInv
<1>2. HeaderInv /\ [HeaderNext]_hdr => HeaderInv'
  <2> SUFFICES ASSUME HeaderInv, [HeaderNext]_hdr PROVE HeaderInv'
    OBVIOUS
  <2>1. CASE UNCHANGED hdr
    BY <2>1 DEF HeaderInv
  <2>2. ASSUME NEW ip \in Word \X Word, NEW port \in Word,
               rewrite_dst(ip, port) \/ rewrite_src(ip, port)
        PROVE  HeaderInv'
    BY <2>2, RewrittenRight DEF rewrite_dst, rewrite_src
  <2> QED BY <2>1, <2>2 DEF HeaderNext
<1>3. HeaderInv => ChecksumsStayRight
  <2> SUFFICES ASSUME HeaderInv PROVE ChecksumsStayRight
    OBVIOUS
  <2>1. hdr.ipsum \in Word /\ hdr.tcpsum \in Word
    BY BaseAssumption DEF HeaderInv, Sums, Word
  <2>2. hdr \in Packets
    BY <2>1 DEF HeaderInv, Addressed, Packets
  <2> QED BY <2>2 DEF HeaderInv, ChecksumsStayRight
<1> QED BY <1>1, <1>2, <1>3, PTL DEF HeaderSpec

-----------------------------------------------------------------------------
(* Streams that are taken off and passed on piece by piece.                *)
LEMMA Dropped ==
  ASSUME NEW S, NEW s \in Seq(S), NEW n \in 0 .. Len(s)
  PROVE  /\ Drop(s, n) \in Seq(S) /\ Len(Drop(s, n)) = Len(s) - n
         /\ \A k \in 1 .. Len(s) - n : Drop(s, n)[k] = s[n + k]
<1> DEFINE l == Len(s)
           d == SubSeq(s, n + 1, l)
<1>1. l \in Nat /\ n \in Nat /\ n <= l /\ \A i \in 1 .. l : s[i] \in S
  OBVIOUS
<1> HIDE DEF l
<1>2. n + 1 \in Int /\ l \in Int /\ \A i \in n + 1 .. l : s[i] \in S
  BY <1>1
<1>3. /\ d \in Seq(S) /\ Len(d) = IF n + 1 <= l THEN l - (n + 1) + 1 ELSE 0
      /\ \A i \in 1 .. l - (n + 1) + 1 : d[i] = s[(n + 1) + i - 1]
  BY <1>2, SubSeqProperties
<1> HIDE DEF d
<1>4. l - (n + 1) + 1 = l - n /\ (~(n + 1 <= l) => l - n = 0)
  BY <1>1
<1>5. Len(d) = l - n
  BY <1>3, <1>4
<1>6. ASSUME NEW k \in 1 .. l - n PROVE d[k] = s[n + k]
  <2>1. (n + 1) + k - 1 = n + k
    BY <1>1
  <2> QED BY <1>3, <1>4, <2>1
<1> QED BY <1>3, <1>5, <1>6 DEF Drop, d, l

LEMMA DroppedEnds ==
  ASSUME NEW S, NEW s \in Seq(S)
  PROVE  Drop(s, 0) = s /\ Drop(s, Len(s)) = << >>
<1>1. Len(s) \in Nat /\ DOMAIN s = 1 .. Len(s)
  OBVIOUS
<1>2. Drop(s, Len(s)) = << >>
  BY <1>1, Dropped
<1>3. Drop(s, 0) \in Seq(S) /\ Len(Drop(s, 0)) = Len(s) /\ \A k \in 1 .. Len(s) : Drop(s, 0)[k] = s[k]
  BY <1>1, Dropped
<1> QED BY <1>2, <1>3, SeqEqual

(* What is taken from a place in a stream and what is left behind it.      *)
LEMMA TakenOff ==
  ASSUME NEW S, NEW s \in Seq(S), NEW n \in 0 .. Len(s), NEW k \in 0 .. Len(s) - n
  PROVE  /\ SubSeq(s, n + 1, n + k) \in Seq(S) /\ Len(SubSeq(s, n + 1, n + k)) = k
         /\ SubSeq(s, n + 1, n + k) \o Drop(s, n + k) = Drop(s, n)
<1> DEFINE a == SubSeq(s, n + 1, n + k)
           b == Drop(s, n + k)
<1>1. Len(s) \in Nat /\ n \in Nat /\ k \in Nat /\ n + k \in 0 .. Len(s)
  OBVIOUS
<1>2. a \in Seq(S) /\ Len(a) = k /\ \A i \in 1 .. k : a[i] = s[n + i]
  BY <1>1
<1>3. b \in Seq(S) /\ Len(b) = Len(s) - n - k /\ \A i \in 1 .. Len(s) - n - k : b[i] = s[n + k + i]
  BY <1>1, Dropped
<1> HIDE DEF a, b
<1>4. /\ a \o b \in Seq(S) /\ Len(a \o b) = Len(s) - n
      /\ \A i \in 1 .. Len(s) - n : (a \o b)[i] = IF i <= k THEN a[i] ELSE b[i - k]
  <2>1. /\ a \o b \in Seq(S) /\ Len(a \o b) = Len(a) + Len(b)
        /\ \A i \in 1 .. Len(a) + Len(b) : (a \o b)[i] = IF i <= Len(a) THEN a[i] ELSE b[i - Len(a)]
    BY <1>2, <1>3, ConcatProperties
  <2>2. Len(a) = k /\ Len(a) + Len(b) = Len(s) - n
    BY <1>1, <1>2, <1>3
  <2> QED BY <2>1, <2>2
<1>5. ASSUME NEW i \in 1 .. Len(s) - n PROVE (a \o b)[i] = s[n + i]
  <2>1. CASE i <= k
    <3>1. i \in 1 .. k
      BY <1>1, <2>1
    <3> QED BY <1>2, <1>4, <2>1, <3>1
  <2>2. CASE ~(i <= k)
    <3>1. i - k \in 1 .. Len(s) - n - k /\ n + k + (i - k) = n + i
      BY <1>1, <2>2
    <3> QED BY <1>3, <1>4, <2>2, <3>1
  <2> QED BY <2>1, <2>2
<1>6. /\ Drop(s, n) \in Seq(S) /\ Len(Drop(s, n)) = Len(s) - n
      /\ \A i \in 1 .. Len(s) - n : Drop(s, n)[i] = s[n + i]
  BY Dropped
<1>7. a \o b = Drop(s, n)
  BY <1>4, <1>5, <1>6, SeqEqual
<1> QED BY <1>2, <1>7 DEF a, b

LEMMA DroppedFromFirst ==
  ASSUME NEW S, NEW a \in Seq(S), NEW b \in Seq(S), NEW n \in 0 .. Len(a)
  PROVE  Drop(a \o b, n) = Drop(a, n) \o b
<1> DEFINE d == Drop(a, n)
           u == SubSeq(a, 1, n)
<1>1. Len(a) \in Nat /\ Len(b) \in Nat /\ n \in Nat /\ n <= Len(a)
  OBVIOUS
<1>2. d \in Seq(S) /\ Len(d) = Len(a) - n /\ \A k \in 1 .. Len(a) - n : d[k] = a[n + k]
  BY Dropped
<1> HIDE DEF d
<1>3. /\ a \o b \in Seq(S) /\ Len(a \o b) = Len(a) + Len(b)
      /\ \A i \in 1 .. Len(a) + Len(b) : (a \o b)[i] = IF i <= Len(a) THEN a[i] ELSE b[i - Len(a)]
  BY ConcatProperties
<1>4. /\ d \o b \in Seq(S) /\ Len(d \o b) = Len(d) + Len(b)
      /\ \A i \in 1 .. Len(d) + Len(b) : (d \o b)[i] = IF i <= Len(d) THEN d[i] ELSE b[i - Len(d)]
  BY <1>2, ConcatProperties
<1>5. n \in 0 .. Len(a \o b)
  BY <1>1, <1>3
<1> DEFINE e == Drop(a \o b, n)
<1>6. /\ e \in Seq(S) /\ Len(e) = Len(a) + Len(b) - n
      /\ \A k \in 1 .. Len(a) + Len(b) - n : e[k] = (a \o b)[n + k]
  <2> DEFINE t == a \o b
  <2>1. t \in Seq(S) /\ n \in 0 .. Len(t) /\ Len(t) = Len(a) + Len(b)
    BY <1>3, <1>5
  <2> HIDE DEF t
  <2>2. /\ Drop(t, n) \in Seq(S) /\ Len(Drop(t, n)) = Len(t) - n
        /\ \A k \in 1 .. Len(t) - n : Drop(t, n)[k] = t[n + k]
    BY <2>1, Dropped
  <2>3. /\ Drop(t, n) \in Seq(S) /\ Len(Drop(t, n)) = Len(a) + Len(b) - n
        /\ \A k \in 1 .. Len(a) + Len(b) - n : Drop(t, n)[k] = t[n + k]
    BY <2>1, <2>2
  <2> QED BY <2>3 DEF t
<1> HIDE DEF e
<1>7. Len(d) + Len(b) = Len(a) + Len(b) - n /\ Len(e) = Len(d \o b)
  BY <1>1, <1>2, <1>4, <1>6
<1>8. ASSUME NEW k \in 1 .. Len(a) + Len(b) - n PROVE e[k] = (d \o b)[k]
  <2>1. n + k \in 1 .. Len(a) + Len(b) /\ (n + k <= Len(a) <=> k <= Len(d))
    BY <1>1, <1>2
  <2>2. CASE k <= Len(d)
    <3>1. k \in 1 .. Len(a) - n
      BY <1>1, <1>2, <2>2
    <3> QED BY <1>2, <1>3, <1>4, <1>6, <1>7, <2>1, <2>2, <3>1
  <2>3. CASE ~(k <= Len(d))
    <3>1. n + k - Len(a) = k - Len(d)
      BY <1>1, <1>2
    <3> QED BY <1>3, <1>4, <1>6, <1>7, <2>1, <2>3, <3>1
  <2> QED BY <2>2, <2>3
<1>9. e = d \o b
  BY <1>4, <1>6, <1>7, <1>8, SeqEqual
<1> QED BY <1>9 DEF d, e

LEMMA Passed ==
  ASSUME NEW S, NEW a \in Seq(S), NEW b \in Seq(S)
  PROVE  Seqs!IsPrefix(a, a \o b) /\ (b = << >> => a \o b = a)
<1>1. /\ a \o b \in Seq(S) /\ Len(a \o b) = Len(a) + Len(b) /\ Len(a) \in Nat /\ Len(b) \in Nat
      /\ \A i \in 1 .. Len(a) + Len(b) : (a \o b)[i] = IF i <= Len(a) THEN a[i] ELSE b[i - Len(a)]
  BY ConcatProperties
<1> DEFINE t == a \o b
           u == SubSeq(t, 1, Len(a))
<1>2. u \in Seq(S) /\ Len(u) = Len(a) /\ \A i \in 1 .. Len(a) : u[i] = t[i]
  BY <1>1
<1>3. \A i \in 1 .. Len(a) : t[i] = a[i]
  BY <1>1
<1>4. SubSeq(a, 1, Len(a)) = a
  BY <1>1
<1>5. u = a
  BY <1>2, <1>3, SeqEqual
<1>6. Len(a) <= Len(t)
  BY <1>1
<1>7. Seqs!IsPrefix(a, t)
  BY <1>4, <1>5, <1>6 DEF Seqs!IsPrefix
<1> QED BY <1>7, ConcatEmptySeq

(* Every nonempty set of numbers has a first.                              *)
LEMMA FirstOf ==
  ASSUME NEW T, T \subseteq Nat, T # {}
  PROVE  \E x \in T : \A y \in T : x <= y
<1> DEFINE R == {ss \in Nat \X Nat : ss[1] < ss[2]}
<1>1. IsWellFoundedOn(R, Nat)
  BY NatLessThanWellFounded DEF OpToRel
<1> HIDE DEF R
<1>2. PICK x \in T : \A y \in T : ~ (<<y, x>> \in R)
  BY <1>1, WFMin
<1>3. \A y \in T : ~ (y < x)
  BY <1>2 DEF R
<1> QED BY <1>3

-----------------------------------------------------------------------------
(* A session of the relay.                                                 *)
SessionSpec == SessionInit /\ [][SessionNext]_c

Unit == STRING \cup {"h", "GET as asked", "GET name", "GET address", "CONNECT name",
                     "CONNECT address"}
Stages == {"S_HEAD", "S_CONNECTING", "S_REPLY", "S_SPLICE"}
Whys == {"none", "done", "sending CONNECT failed", "no proxy", "connect failed",
         "head too large", "can't parse", "out of memory", "reply too large", "refused",
         "phone closed", "proxy closed after CONNECT", "proxy write error", "phone reset",
         "phone write error", "proxy reset", "timed out"}
SessionRec ==
  [used : BOOLEAN, st : Stages, req : Requests, ans : Answers,
   up : Seq(Unit), up_off : Nat, down : Seq(Unit), down_off : Nat,
   ph_pos : Nat, px_pos : Nat, to_px : Seq(Unit), to_ph : Seq(Unit),
   ph_eof : BOOLEAN, px_eof : BOOLEAN, px_shut : BOOLEAN, late : BOOLEAN, why : Whys]

(* What is still to come: in the buffer, and not yet read.                 *)
UpLeft(s) == Drop(s.up, s.up_off) \o Drop(PhoneStream(s.req), s.ph_pos)
DownLeft(s) == Drop(s.down, s.down_off) \o Drop(s.ans, s.px_pos)

Positions(s) ==
  /\ s.up_off <= Len(s.up) /\ s.ph_pos <= Len(PhoneStream(s.req))
  /\ s.down_off <= Len(s.down) /\ s.px_pos <= Len(s.ans)

(* What has been passed on and what is still to come is what is to be sent. *)
UpRight(s) ==
  /\ s.st # "S_SPLICE" => s.up_off = 0 /\ ~s.ph_eof /\ ~s.px_shut
  /\ s.st \in {"S_HEAD", "S_CONNECTING"} => s.to_px = << >>
  /\ s.st = "S_HEAD" \/ (s.st = "S_CONNECTING" /\ s.req.tls) =>
       UpLeft(s) = PhoneStream(s.req)
  /\ s.st = "S_CONNECTING" /\ ~s.req.tls => UpLeft(s) = ForProxy(s.req)
  /\ s.st \in {"S_REPLY", "S_SPLICE"} => s.to_px \o UpLeft(s) = ForProxy(s.req)
  /\ s.ph_eof => s.ph_pos = Len(PhoneStream(s.req))
  /\ s.px_shut => s.ph_eof /\ s.up = << >>

DownRight(s) ==
  /\ s.st # "S_SPLICE" => s.down_off = 0 /\ ~s.px_eof /\ s.to_ph = << >>
  /\ s.st \in {"S_HEAD", "S_CONNECTING"} => s.down = << >> /\ s.px_pos = 0
  /\ s.st = "S_REPLY" => s.req.tls /\ DownLeft(s) = s.ans /\ ReplyHead(s.down) = {}
  /\ s.st = "S_SPLICE" => s.to_ph \o DownLeft(s) = ForPhone(s.req, s.ans)
  /\ s.px_eof => s.px_pos = Len(s.ans)

(* What RelayedInOrder says of one session.                                *)
InOrder(s) ==
  /\ Seqs!IsPrefix(s.to_px, ForProxy(s.req))
  /\ Seqs!IsPrefix(s.to_ph, ForPhone(s.req, s.ans))
  /\ s.px_shut => s.to_px = ForProxy(s.req)
  /\ s.why = "done" => s.to_ph = ForPhone(s.req, s.ans)

Open(s) == s.used /\ s.why = "none" /\ Positions(s) /\ UpRight(s) /\ DownRight(s)
SessionOK(s) == s \in SessionRec /\ InOrder(s) /\ (s.used => Open(s))

LEMMA Streams ==
  /\ Body \in Seq(Unit) /\ \A a \in Answers : a \in Seq(Unit)
  /\ \A req \in Requests :
       /\ req.size \in Nat /\ req.tls \in BOOLEAN
       /\ Heads(req.size) \in Seq(Unit) /\ Len(Heads(req.size)) = req.size
       /\ PhoneStream(req) \in Seq(Unit) /\ PhoneStream(req) = Heads(req.size) \o Body
       /\ http_rewrite(req) \in Unit /\ tls_sni(req) \in Unit
       /\ ForProxy(req) \in Seq(Unit)
<1>1. Body \in Seq(Unit) /\ \A a \in Answers : a \in Seq(Unit)
  <2>1. STRING \subseteq Unit
    BY DEF Unit
  <2>2. \A a \in Seq(STRING) : a \in Seq(Unit)
    BY <2>1, SeqMonotonic
  <2> QED BY <2>2, SessionAssumption
<1>2. ASSUME NEW req \in Requests
      PROVE  /\ req.size \in Nat /\ req.tls \in BOOLEAN
             /\ Heads(req.size) \in Seq(Unit) /\ Len(Heads(req.size)) = req.size
             /\ PhoneStream(req) \in Seq(Unit) /\ PhoneStream(req) = Heads(req.size) \o Body
             /\ http_rewrite(req) \in Unit /\ tls_sni(req) \in Unit
             /\ ForProxy(req) \in Seq(Unit)
  <2>1. /\ req.size \in Nat /\ req.tls \in BOOLEAN /\ req.host \in {"name", "none"}
        /\ req.target \in {"path", "absolute"}
    BY SessionAssumption
  <2>2. Heads(req.size) \in Seq(Unit) /\ Len(Heads(req.size)) = req.size
    <3>1. "h" \in Unit
      BY DEF Unit
    <3> QED BY <2>1, <3>1 DEF Heads
  <2>3. http_rewrite(req) \in Unit /\ tls_sni(req) \in Unit
    BY <2>1 DEF http_rewrite, tls_sni, Unit
  <2>4. PhoneStream(req) \in Seq(Unit) /\ PhoneStream(req) = Heads(req.size) \o Body
    BY <1>1, <2>2 DEF PhoneStream
  <2>5. ForProxy(req) \in Seq(Unit)
    <3> HIDE DEF Unit
    <3>1. <<http_rewrite(req)>> \in Seq(Unit) /\ <<tls_sni(req)>> \in Seq(Unit)
      BY <2>3
    <3> QED BY <1>1, <2>4, <3>1, ConcatProperties DEF ForProxy
  <2> QED BY <2>1, <2>2, <2>3, <2>4, <2>5
<1> QED BY <1>1, <1>2

LEMMA AnswerEnd ==
  ASSUME NEW a \in Seq(Unit), ReplyHead(a) # {}
  PROVE  /\ ReplyEnd(a) \in ReplyHead(a) /\ ReplyEnd(a) \in 1 .. Len(a)
         /\ \A j \in ReplyHead(a) : ReplyEnd(a) <= j
<1>1. ReplyHead(a) \subseteq Nat /\ ReplyHead(a) \subseteq 1 .. Len(a)
  BY DEF ReplyHead
<1>2. \E k \in ReplyHead(a) : \A j \in ReplyHead(a) : k <= j
  BY <1>1, FirstOf
<1> QED BY <1>1, <1>2 DEF ReplyEnd

LEMMA ForPhoneIs ==
  ASSUME NEW req \in Requests, NEW a \in Answers
  PROVE  /\ ForPhone(req, a) \in Seq(Unit)
         /\ ~req.tls => ForPhone(req, a) = a
         /\ req.tls /\ ReplyHead(a) # {} => ForPhone(req, a) = Drop(a, ReplyEnd(a))
<1>1. a \in Seq(Unit)
  BY Streams
<1>2. CASE req.tls /\ ReplyHead(a) # {}
  <2>1. ReplyEnd(a) \in 0 .. Len(a)
    BY <1>1, <1>2, AnswerEnd
  <2> QED BY <1>1, <1>2, <2>1, Dropped DEF ForPhone
<1>3. CASE ~(req.tls /\ ReplyHead(a) # {})
  BY <1>1, <1>3 DEF ForPhone
<1> QED BY <1>2, <1>3

(* The pieces of a session, typed.                                         *)
LEMMA Pieces ==
  ASSUME NEW s \in SessionRec, Positions(s)
  PROVE  /\ s.req \in Requests /\ s.ans \in Answers /\ s.ans \in Seq(Unit)
         /\ PhoneStream(s.req) \in Seq(Unit) /\ s.ph_pos \in 0 .. Len(PhoneStream(s.req))
         /\ s.px_pos \in 0 .. Len(s.ans)
         /\ s.up \in Seq(Unit) /\ s.up_off \in 0 .. Len(s.up)
         /\ s.down \in Seq(Unit) /\ s.down_off \in 0 .. Len(s.down)
         /\ Drop(s.up, s.up_off) \in Seq(Unit) /\ Drop(PhoneStream(s.req), s.ph_pos) \in Seq(Unit)
         /\ Drop(s.down, s.down_off) \in Seq(Unit) /\ Drop(s.ans, s.px_pos) \in Seq(Unit)
         /\ UpLeft(s) \in Seq(Unit) /\ DownLeft(s) \in Seq(Unit)
         /\ s.to_px \in Seq(Unit) /\ s.to_ph \in Seq(Unit)
<1>1. /\ s.req \in Requests /\ s.ans \in Answers /\ s.up \in Seq(Unit) /\ s.down \in Seq(Unit)
      /\ s.up_off \in Nat /\ s.down_off \in Nat /\ s.ph_pos \in Nat /\ s.px_pos \in Nat
      /\ s.to_px \in Seq(Unit) /\ s.to_ph \in Seq(Unit)
  BY DEF SessionRec
<1>2. s.ans \in Seq(Unit) /\ PhoneStream(s.req) \in Seq(Unit)
  BY <1>1, Streams
<1>3. /\ s.ph_pos \in 0 .. Len(PhoneStream(s.req)) /\ s.px_pos \in 0 .. Len(s.ans)
      /\ s.up_off \in 0 .. Len(s.up) /\ s.down_off \in 0 .. Len(s.down)
  BY <1>1, <1>2 DEF Positions
<1>4. /\ Drop(s.up, s.up_off) \in Seq(Unit) /\ Drop(PhoneStream(s.req), s.ph_pos) \in Seq(Unit)
      /\ Drop(s.down, s.down_off) \in Seq(Unit) /\ Drop(s.ans, s.px_pos) \in Seq(Unit)
  BY <1>1, <1>2, <1>3, Dropped
<1>5. UpLeft(s) \in Seq(Unit) /\ DownLeft(s) \in Seq(Unit)
  BY <1>4, ConcatProperties DEF UpLeft, DownLeft
<1> QED BY <1>1, <1>2, <1>3, <1>4, <1>5

LEMMA NothingLeft ==
  ASSUME NEW s \in SessionRec, Positions(s)
  PROVE  /\ s.up = << >> /\ s.ph_pos = Len(PhoneStream(s.req)) => UpLeft(s) = << >>
         /\ s.down = << >> /\ s.px_pos = Len(s.ans) => DownLeft(s) = << >>
<1>1. << >> \in Seq(Unit) /\ Len(<< >>) = 0 /\ << >> \o << >> = << >>
  BY ConcatEmptySeq
<1>2. Drop(<< >>, 0) = << >>
  BY <1>1, DroppedEnds
<1>3. ASSUME s.up = << >>, s.ph_pos = Len(PhoneStream(s.req)) PROVE UpLeft(s) = << >>
  <2>1. s.up_off = 0
    BY <1>1, <1>3, Pieces
  <2>2. Drop(PhoneStream(s.req), s.ph_pos) = << >>
    BY <1>3, Pieces, DroppedEnds
  <2> QED BY <1>1, <1>2, <1>3, <2>1, <2>2 DEF UpLeft
<1>4. ASSUME s.down = << >>, s.px_pos = Len(s.ans) PROVE DownLeft(s) = << >>
  <2>1. s.down_off = 0
    BY <1>1, <1>4, Pieces
  <2>2. Drop(s.ans, s.px_pos) = << >>
    BY <1>4, Pieces, DroppedEnds
  <2> QED BY <1>1, <1>2, <1>4, <2>1, <2>2 DEF DownLeft
<1> QED BY <1>3, <1>4

(* A session that is open is in order, and may be closed at any time.      *)
LEMMA OpenIsOK ==
  ASSUME NEW s \in SessionRec, Open(s)
  PROVE  SessionOK(s)
<1>1. s.st \in Stages /\ s.req \in Requests /\ s.ans \in Answers
  BY DEF SessionRec
<1>2. /\ s.why = "none" /\ Positions(s) /\ UpRight(s) /\ DownRight(s)
      /\ s.to_px \in Seq(Unit) /\ s.to_ph \in Seq(Unit)
      /\ UpLeft(s) \in Seq(Unit) /\ DownLeft(s) \in Seq(Unit)
  BY Pieces DEF Open
<1>3. ForProxy(s.req) \in Seq(Unit) /\ ForPhone(s.req, s.ans) \in Seq(Unit)
  BY <1>1, Streams, ForPhoneIs
<1>4. << >> \in Seq(Unit) /\ \A t \in Seq(Unit) : Seqs!IsPrefix(<< >>, t)
  <2>1. << >> \in Seq(Unit)
    OBVIOUS
  <2>2. ASSUME NEW t \in Seq(Unit) PROVE Seqs!IsPrefix(<< >>, t)
    <3>1. << >> \o t = t
      BY ConcatEmptySeq
    <3> QED BY <2>1, <3>1, Passed
  <2> QED BY <2>1, <2>2
<1>5. Seqs!IsPrefix(s.to_px, ForProxy(s.req)) /\ (s.px_shut => s.to_px = ForProxy(s.req))
  <2>1. CASE s.st \in {"S_HEAD", "S_CONNECTING"}
    BY <1>2, <1>3, <1>4, <2>1 DEF UpRight
  <2>2. CASE s.st \in {"S_REPLY", "S_SPLICE"}
    <3>1. s.to_px \o UpLeft(s) = ForProxy(s.req)
      BY <1>2, <2>2 DEF UpRight
    <3>2. s.px_shut => UpLeft(s) = << >>
      BY <1>2, NothingLeft DEF UpRight
    <3> QED BY <1>2, <3>1, <3>2, Passed
  <2> QED BY <1>1, <2>1, <2>2 DEF Stages
<1>6. Seqs!IsPrefix(s.to_ph, ForPhone(s.req, s.ans))
  <2>1. CASE s.st # "S_SPLICE"
    BY <1>2, <1>3, <1>4, <2>1 DEF DownRight
  <2>2. CASE s.st = "S_SPLICE"
    BY <1>2, <2>2, Passed DEF DownRight
  <2> QED BY <2>1, <2>2
<1> QED BY <1>2, <1>5, <1>6 DEF SessionOK, InOrder, Open

LEMMA ClosedIsOK ==
  ASSUME NEW s \in SessionRec, InOrder(s), NEW why \in Whys \ {"none", "done"}
  PROVE  SessionOK(sess_closed(s, why))
<1> DEFINE t == sess_closed(s, why)
<1>1. /\ t \in SessionRec /\ t.used = FALSE /\ t.why = why
      /\ t.to_px = s.to_px /\ t.to_ph = s.to_ph /\ t.px_shut = s.px_shut
      /\ t.req = s.req /\ t.ans = s.ans
  BY DEF sess_closed, SessionRec
<1> HIDE DEF t
<1>2. InOrder(t)
  BY <1>1 DEF InOrder
<1> QED BY <1>1, <1>2 DEF SessionOK, t

(* Only the stage changes, and what is left to send is ready to be sent.   *)
ReadyToConnect(s) ==
  /\ s.used /\ s.why = "none" /\ Positions(s) /\ DownRight(s)
  /\ s.st \in {"S_HEAD", "S_CONNECTING"} /\ s.to_px = << >> /\ s.up_off = 0
  /\ ~s.ph_eof /\ ~s.px_shut
  /\ UpLeft(s) = IF s.req.tls THEN PhoneStream(s.req) ELSE ForProxy(s.req)

LEMMA ReadyIsInOrder ==
  ASSUME NEW s \in SessionRec, ReadyToConnect(s)
  PROVE  InOrder(s)
<1>1. s.req \in Requests /\ s.ans \in Answers
  BY DEF SessionRec
<1>2. ForProxy(s.req) \in Seq(Unit) /\ ForPhone(s.req, s.ans) \in Seq(Unit)
  BY <1>1, Streams, ForPhoneIs
<1>3. s.to_px = << >> /\ s.to_ph = << >>
  BY DEF ReadyToConnect, DownRight
<1>4. << >> \in Seq(Unit)
  OBVIOUS
<1>5. << >> \o ForProxy(s.req) = ForProxy(s.req)
  BY <1>2, ConcatEmptySeq
<1>6. << >> \o ForPhone(s.req, s.ans) = ForPhone(s.req, s.ans)
  BY <1>2, ConcatEmptySeq
<1>7. Seqs!IsPrefix(<< >>, ForProxy(s.req))
  BY <1>2, <1>4, <1>5, Passed
<1>8. Seqs!IsPrefix(<< >>, ForPhone(s.req, s.ans))
  BY <1>2, <1>4, <1>6, Passed
<1> QED BY <1>3, <1>7, <1>8 DEF InOrder, ReadyToConnect

LEMMA Connected ==
  ASSUME NEW s \in SessionRec, ReadyToConnect(s), NEW t \in on_connected(s)
  PROVE  SessionOK(t)
<1>1. /\ s.used /\ s.why = "none" /\ Positions(s) /\ DownRight(s)
      /\ s.st \in {"S_HEAD", "S_CONNECTING"} /\ s.to_px = << >> /\ s.up_off = 0
      /\ ~s.ph_eof /\ ~s.px_shut /\ s.to_ph = << >> /\ s.down = << >> /\ s.px_pos = 0
      /\ s.down_off = 0 /\ ~s.px_eof
  BY DEF ReadyToConnect, DownRight
<1>2. /\ s.req \in Requests /\ s.ans \in Answers /\ s.req.tls \in BOOLEAN
      /\ s.ans \in Seq(Unit) /\ PhoneStream(s.req) \in Seq(Unit)
      /\ tls_sni(s.req) \in Unit /\ ForProxy(s.req) \in Seq(Unit)
  BY Streams DEF SessionRec
<1>3. InOrder(s)
  BY ReadyIsInOrder
<1>4. << >> \in Seq(Unit) /\ Drop(<< >>, 0) = << >> /\ << >> \o s.ans = s.ans
      /\ Drop(s.ans, 0) = s.ans
  <2>1. << >> \in Seq(Unit)
    OBVIOUS
  <2> QED BY <1>2, <2>1, DroppedEnds, ConcatEmptySeq
<1>5. CASE s.req.tls /\ t = [s EXCEPT !.st = "S_REPLY", !.down = << >>, !.late = FALSE,
                                      !.to_px = <<tls_sni(s.req)>>]
  <2>1. <<tls_sni(s.req)>> \in Seq(Unit)
    BY <1>2
  <2>2. /\ t \in SessionRec /\ t.st = "S_REPLY" /\ t.down = << >> /\ t.to_px = <<tls_sni(s.req)>>
        /\ t.used = s.used /\ t.why = s.why /\ t.req = s.req /\ t.ans = s.ans /\ t.up = s.up
        /\ t.up_off = s.up_off /\ t.down_off = s.down_off /\ t.ph_pos = s.ph_pos
        /\ t.px_pos = s.px_pos /\ t.to_ph = s.to_ph /\ t.ph_eof = s.ph_eof
        /\ t.px_eof = s.px_eof /\ t.px_shut = s.px_shut
    BY <1>4, <1>5, <2>1 DEF SessionRec, Stages
  <2>3. Positions(t)
    BY <1>1, <2>2 DEF Positions
  <2>4. UpLeft(t) = PhoneStream(s.req)
    BY <1>5, <2>2 DEF UpLeft, ReadyToConnect
  <2>5. t.to_px \o UpLeft(t) = ForProxy(s.req)
    BY <1>5, <2>2, <2>4 DEF ForProxy
  <2>6. UpRight(t)
    BY <1>1, <2>2, <2>5 DEF UpRight
  <2>7. DownLeft(t) = t.ans
    BY <1>1, <1>4, <2>2 DEF DownLeft
  <2>8. ReplyHead(t.down) = {}
    <3>1. Len(<< >>) = 0 /\ 1 .. 0 = {}
      OBVIOUS
    <3> QED BY <2>2, <3>1 DEF ReplyHead
  <2>9. DownRight(t)
    BY <1>1, <1>5, <2>2, <2>7, <2>8 DEF DownRight
  <2> QED BY <1>1, <2>2, <2>3, <2>6, <2>9, OpenIsOK DEF Open
<1>6. CASE ~s.req.tls /\ t = [s EXCEPT !.st = "S_SPLICE", !.up_off = 0, !.late = FALSE]
  <2>2. /\ t \in SessionRec /\ t.st = "S_SPLICE" /\ t.down = s.down /\ t.to_px = s.to_px
        /\ t.used = s.used /\ t.why = s.why /\ t.req = s.req /\ t.ans = s.ans /\ t.up = s.up
        /\ t.up_off = 0 /\ t.down_off = s.down_off /\ t.ph_pos = s.ph_pos
        /\ t.px_pos = s.px_pos /\ t.to_ph = s.to_ph /\ t.ph_eof = s.ph_eof
        /\ t.px_eof = s.px_eof /\ t.px_shut = s.px_shut
    BY <1>6 DEF SessionRec, Stages
  <2>3. Positions(t)
    BY <1>1, <2>2 DEF Positions
  <2>4. UpLeft(t) = ForProxy(s.req)
    BY <1>1, <1>6, <2>2 DEF UpLeft, ReadyToConnect
  <2>5. t.to_px \o UpLeft(t) = ForProxy(s.req)
    BY <1>1, <1>2, <2>2, <2>4, ConcatEmptySeq
  <2>6. UpRight(t)
    BY <1>1, <2>2, <2>5 DEF UpRight
  <2>7. DownLeft(t) = s.ans
    BY <1>1, <1>4, <2>2 DEF DownLeft
  <2>8. ForPhone(s.req, s.ans) = s.ans
    BY <1>2, <1>6, ForPhoneIs
  <2>9. DownRight(t)
    BY <1>1, <1>4, <2>2, <2>7, <2>8 DEF DownRight
  <2> QED BY <1>1, <2>2, <2>3, <2>6, <2>9, OpenIsOK DEF Open
<1>7. CASE t = sess_closed(s, "sending CONNECT failed")
  BY <1>3, <1>7, ClosedIsOK DEF Whys
<1> QED BY <1>5, <1>6, <1>7 DEF on_connected

LEMMA ConnectRight ==
  ASSUME NEW s \in SessionRec, ReadyToConnect(s), NEW t \in start_connect(s)
  PROVE  SessionOK(t)
<1>1. InOrder(s)
  BY ReadyIsInOrder
<1>2. CASE t \in on_connected(s)
  BY <1>2, Connected
<1>3. CASE t = [s EXCEPT !.st = "S_CONNECTING", !.late = FALSE]
  <2>1. /\ t \in SessionRec /\ t.st = "S_CONNECTING" /\ t.down = s.down /\ t.to_px = s.to_px
        /\ t.used = s.used /\ t.why = s.why /\ t.req = s.req /\ t.ans = s.ans /\ t.up = s.up
        /\ t.up_off = s.up_off /\ t.down_off = s.down_off /\ t.ph_pos = s.ph_pos
        /\ t.px_pos = s.px_pos /\ t.to_ph = s.to_ph /\ t.ph_eof = s.ph_eof
        /\ t.px_eof = s.px_eof /\ t.px_shut = s.px_shut
    BY <1>3 DEF SessionRec, Stages
  <2>2. Positions(t) /\ UpLeft(t) = UpLeft(s)
    BY <2>1 DEF Positions, UpLeft, ReadyToConnect
  <2>3. UpRight(t)
    BY <2>1, <2>2 DEF UpRight, ReadyToConnect
  <2>4. DownRight(t)
    BY <2>1 DEF DownRight, ReadyToConnect
  <2>5. t.used /\ t.why = "none"
    BY <2>1 DEF ReadyToConnect
  <2> QED BY <2>1, <2>2, <2>3, <2>4, <2>5, OpenIsOK DEF Open
<1>4. CASE t = sess_closed(s, "connect failed") \/ t = NoProxyAddress(s)
  BY <1>1, <1>4, ClosedIsOK DEF Whys, NoProxyAddress
<1> QED BY <1>2, <1>3, <1>4 DEF start_connect

(* Three parts in a row, whichever two are joined first.                   *)
LEMMA Joined ==
  \A p, q, r \in Seq(Unit) : (p \o q) \o r = p \o (q \o r)
BY ConcatAssociative

(* What a read takes from a stream goes to the end of the buffer.          *)
LEMMA ReadOn ==
  ASSUME NEW buf \in Seq(Unit), NEW str \in Seq(Unit), NEW n \in 0 .. Len(str),
         NEW k \in 0 .. Len(str) - n
  PROVE  /\ buf \o SubSeq(str, n + 1, n + k) \in Seq(Unit) /\ n + k \in 0 .. Len(str)
         /\ (buf \o SubSeq(str, n + 1, n + k)) \o Drop(str, n + k) = buf \o Drop(str, n)
<1> DEFINE a == SubSeq(str, n + 1, n + k)
           d == Drop(str, n + k)
<1>1. n + k \in 0 .. Len(str)
  OBVIOUS
<1>2. a \o d = Drop(str, n)
  BY <1>1, TakenOff
<1>3. a \in Seq(Unit) /\ d \in Seq(Unit)
  BY <1>1, TakenOff, Dropped
<1> HIDE DEF a, d
<1>4. (buf \o a) \o d = buf \o (a \o d)
  BY <1>3, Joined
<1>5. buf \o a \in Seq(Unit)
  BY <1>3, ConcatProperties
<1> QED BY <1>1, <1>2, <1>4, <1>5 DEF a, d

(* The room of a read: what is left of the phone's, or of the proxy's.     *)
LEMMA PhoneRead ==
  ASSUME NEW s \in SessionRec, Positions(s), NEW n, NEW k \in FromPhone(s, n)
  PROVE  k \in Nat /\ k \in 0 .. Len(PhoneStream(s.req)) - s.ph_pos
<1>1. PhoneStream(s.req) \in Seq(Unit) /\ s.ph_pos \in 0 .. Len(PhoneStream(s.req))
  BY Pieces
<1>2. Len(Drop(PhoneStream(s.req), s.ph_pos)) = Len(PhoneStream(s.req)) - s.ph_pos
  BY <1>1, Dropped
<1> QED BY <1>1, <1>2 DEF FromPhone

LEMMA ProxyRead ==
  ASSUME NEW s \in SessionRec, Positions(s), NEW n, NEW k \in FromProxy(s, n)
  PROVE  k \in Nat /\ k \in 0 .. Len(s.ans) - s.px_pos
<1>1. s.ans \in Seq(Unit) /\ s.px_pos \in 0 .. Len(s.ans)
  BY Pieces
<1>2. Len(Drop(s.ans, s.px_pos)) = Len(s.ans) - s.px_pos
  BY <1>1, Dropped
<1> QED BY <1>1, <1>2 DEF FromProxy

LEMMA HeadRead ==
  ASSUME NEW s \in SessionRec, Open(s), s.st = "S_HEAD",
         NEW k \in FromPhone(s, UP_SZ - Len(s.up)),
         NEW r, r = [s EXCEPT !.up = @ \o PhoneTaken(s, k), !.ph_pos = @ + k]
  PROVE  r \in SessionRec /\ Open(r) /\ r.st = "S_HEAD"
<1>1. s.used /\ s.why = "none" /\ Positions(s) /\ UpRight(s) /\ DownRight(s)
  BY DEF Open
<1>2. /\ s.up \in Seq(Unit) /\ PhoneStream(s.req) \in Seq(Unit)
      /\ s.ph_pos \in 0 .. Len(PhoneStream(s.req)) /\ s.req \in Requests
  BY <1>1, Pieces
<1>3. k \in Nat /\ k \in 0 .. Len(PhoneStream(s.req)) - s.ph_pos
  BY <1>1, PhoneRead
<1> DEFINE buf == s.up \o PhoneTaken(s, k)
<1>4. /\ buf \in Seq(Unit) /\ s.ph_pos + k \in 0 .. Len(PhoneStream(s.req))
      /\ buf \o Drop(PhoneStream(s.req), s.ph_pos + k) = s.up \o Drop(PhoneStream(s.req), s.ph_pos)
  BY <1>2, <1>3, ReadOn DEF PhoneTaken
<1>5. s.ph_pos + k \in Nat
  BY <1>2, <1>3
<1> HIDE DEF buf
<1>6. r = [s EXCEPT !.up = buf, !.ph_pos = s.ph_pos + k]
  BY DEF buf
<1>7. /\ r \in SessionRec /\ r.st = s.st /\ r.down = s.down /\ r.to_px = s.to_px
      /\ r.used = s.used /\ r.why = s.why /\ r.req = s.req /\ r.ans = s.ans /\ r.up = buf
      /\ r.up_off = s.up_off /\ r.down_off = s.down_off /\ r.ph_pos = s.ph_pos + k
      /\ r.px_pos = s.px_pos /\ r.to_ph = s.to_ph /\ r.ph_eof = s.ph_eof
      /\ r.px_eof = s.px_eof /\ r.px_shut = s.px_shut
  BY <1>4, <1>5, <1>6 DEF SessionRec
<1>8. Positions(r)
  <2>1. r.up_off = 0 /\ 0 <= Len(buf)
    BY <1>1, <1>4, <1>7 DEF UpRight
  <2> QED BY <1>1, <1>4, <1>7, <2>1 DEF Positions
<1>9. UpLeft(r) = UpLeft(s)
  <2>1. s.up_off = 0 /\ Drop(s.up, 0) = s.up /\ Drop(buf, 0) = buf
    BY <1>1, <1>2, <1>4, DroppedEnds DEF UpRight
  <2> QED BY <1>4, <1>7, <2>1 DEF UpLeft
<1>10. UpRight(r)
  BY <1>1, <1>7, <1>9 DEF UpRight
<1>11. DownRight(r)
  BY <1>1, <1>7 DEF DownRight
<1> QED BY <1>1, <1>7, <1>8, <1>10, <1>11 DEF Open

LEMMA Rewritten ==
  ASSUME NEW s \in SessionRec, Open(s), s.st = "S_HEAD", ~s.req.tls,
         ~(Len(s.up) < s.req.size),
         NEW r, r = [s EXCEPT !.up = <<http_rewrite(s.req)>> \o Drop(@, s.req.size)]
  PROVE  r \in SessionRec /\ ReadyToConnect(r)
<1>1. s.used /\ s.why = "none" /\ Positions(s) /\ UpRight(s) /\ DownRight(s)
  BY DEF Open
<1>2. /\ s.up \in Seq(Unit) /\ PhoneStream(s.req) \in Seq(Unit) /\ s.req \in Requests
      /\ Drop(PhoneStream(s.req), s.ph_pos) \in Seq(Unit)
  BY <1>1, Pieces
<1>3. /\ Body \in Seq(Unit) /\ s.req.size \in Nat
      /\ Heads(s.req.size) \in Seq(Unit) /\ Len(Heads(s.req.size)) = s.req.size
      /\ PhoneStream(s.req) = Heads(s.req.size) \o Body /\ http_rewrite(s.req) \in Unit
  BY <1>2, Streams
<1>4. s.req.size \in 0 .. Len(s.up) /\ s.req.size \in 0 .. Len(Heads(s.req.size))
  BY <1>2, <1>3
<1> DEFINE left == Drop(PhoneStream(s.req), s.ph_pos)
           w == <<http_rewrite(s.req)>>
           d == Drop(s.up, s.req.size)
<1>5. w \in Seq(Unit) /\ d \in Seq(Unit) /\ left \in Seq(Unit)
  BY <1>2, <1>3, <1>4, Dropped
<1> HIDE DEF w, left
<1>6. w \o d \in Seq(Unit)
  BY <1>5, ConcatProperties
<1>7. d \o left = Body
  <2>1. s.up \o left = Heads(s.req.size) \o Body
    <3>1. UpLeft(s) = PhoneStream(s.req) /\ s.up_off = 0 /\ Drop(s.up, 0) = s.up
      BY <1>1, <1>2, DroppedEnds DEF UpRight
    <3> QED BY <1>3, <3>1 DEF UpLeft, left
  <2>2. Drop(s.up \o left, s.req.size) = d \o left
    BY <1>2, <1>4, <1>5, DroppedFromFirst
  <2>3. Drop(Heads(s.req.size) \o Body, s.req.size) = Drop(Heads(s.req.size), s.req.size) \o Body
    BY <1>3, <1>4, DroppedFromFirst
  <2>4. Drop(Heads(s.req.size), s.req.size) = << >>
    BY <1>3, DroppedEnds
  <2>5. << >> \o Body = Body
    BY <1>3, ConcatEmptySeq
  <2> QED BY <2>1, <2>2, <2>3, <2>4, <2>5
<1> HIDE DEF d
<1>8. (w \o d) \o left = w \o Body
  <2>1. (w \o d) \o left = w \o (d \o left)
    BY <1>5, Joined
  <2> QED BY <1>7, <2>1
<1>9. r = [s EXCEPT !.up = w \o d]
  BY DEF w, d
<1>10. /\ r \in SessionRec /\ r.st = s.st /\ r.down = s.down /\ r.to_px = s.to_px
       /\ r.used = s.used /\ r.why = s.why /\ r.req = s.req /\ r.ans = s.ans /\ r.up = w \o d
       /\ r.up_off = s.up_off /\ r.down_off = s.down_off /\ r.ph_pos = s.ph_pos
       /\ r.px_pos = s.px_pos /\ r.to_ph = s.to_ph /\ r.ph_eof = s.ph_eof
       /\ r.px_eof = s.px_eof /\ r.px_shut = s.px_shut
  BY <1>6, <1>9 DEF SessionRec
<1>11. Positions(r)
  <2>1. r.up_off = 0 /\ Len(w \o d) \in Nat
    BY <1>1, <1>6, <1>10 DEF UpRight
  <2>2. r.up_off <= Len(r.up)
    BY <1>10, <2>1
  <2> QED BY <1>1, <1>10, <2>2 DEF Positions
<1>12. UpLeft(r) = ForProxy(r.req)
  <2>1. r.up_off = 0 /\ Drop(w \o d, 0) = w \o d
    BY <1>1, <1>6, <1>10, DroppedEnds DEF UpRight
  <2>2. UpLeft(r) = (w \o d) \o left
    BY <1>10, <2>1 DEF UpLeft, left
  <2> QED BY <1>8, <1>10, <2>2 DEF ForProxy, w
<1>13. DownRight(r)
  BY <1>1, <1>10 DEF DownRight
<1>14. /\ r.used /\ r.why = "none" /\ r.st \in {"S_HEAD", "S_CONNECTING"} /\ r.to_px = << >>
       /\ r.up_off = 0 /\ ~r.ph_eof /\ ~r.px_shut /\ ~r.req.tls
  BY <1>1, <1>10 DEF UpRight
<1> QED BY <1>10, <1>11, <1>12, <1>13, <1>14 DEF ReadyToConnect

LEMMA HeadRight ==
  ASSUME NEW s \in SessionRec, Open(s), s.st = "S_HEAD", NEW t \in head_ready(s)
  PROVE  SessionOK(t)
<1>1. SessionOK(s) /\ InOrder(s)
  BY OpenIsOK DEF SessionOK
<1>2. s.used /\ s.why = "none" /\ Positions(s) /\ UpRight(s) /\ DownRight(s)
  BY DEF Open
<1>3. \A why \in {"head too large", "can't parse", "out of memory"} :
        SessionOK(sess_closed(s, why))
  BY <1>1, ClosedIsOK DEF Whys
<1>4. ASSUME s.req.tls, t \in start_connect(s) PROVE SessionOK(t)
  <2>1. ReadyToConnect(s)
    BY <1>2, <1>4 DEF ReadyToConnect, UpRight
  <2> QED BY <1>4, <2>1, ConnectRight
<1>5. ASSUME ~s.req.tls, ~(Len(s.up) < s.req.size),
             t \in start_connect([s EXCEPT !.up = <<http_rewrite(s.req)>> \o Drop(@, s.req.size)])
      PROVE  SessionOK(t)
  BY <1>5, Rewritten, ConnectRight
<1> QED BY <1>1, <1>3, <1>4, <1>5 DEF head_ready

LEMMA ConnectingRight ==
  ASSUME NEW s \in SessionRec, Open(s), s.st = "S_CONNECTING"
  PROVE  ReadyToConnect(s)
<1>1. s.used /\ s.why = "none" /\ Positions(s) /\ UpRight(s) /\ DownRight(s)
  BY DEF Open
<1>2. s.req.tls \in BOOLEAN
  BY Streams DEF SessionRec
<1> QED BY <1>1, <1>2 DEF ReadyToConnect, UpRight

(* More of an answer does not move the end of its head.                    *)
LEMMA SameEnd ==
  ASSUME NEW a \in Seq(Unit), NEW b \in Seq(Unit), ReplyHead(a) # {}
  PROVE  ReplyHead(a \o b) # {} /\ ReplyEnd(a \o b) = ReplyEnd(a)
<1> DEFINE e == ReplyEnd(a)
           t == a \o b
           f == ReplyEnd(t)
<1>1. /\ t \in Seq(Unit) /\ Len(t) = Len(a) + Len(b) /\ Len(a) \in Nat /\ Len(b) \in Nat
      /\ \A i \in 1 .. Len(a) + Len(b) : t[i] = IF i <= Len(a) THEN a[i] ELSE b[i - Len(a)]
  BY ConcatProperties
<1>2. e \in ReplyHead(a) /\ e \in 1 .. Len(a) /\ \A j \in ReplyHead(a) : e <= j
  BY AnswerEnd
<1> HIDE DEF e, t
<1>3. \A i \in 1 .. Len(a) : i \in 1 .. Len(t) /\ t[i] = a[i]
  BY <1>1
<1>4. e \in ReplyHead(t)
  BY <1>2, <1>3 DEF ReplyHead
<1>5. f \in ReplyHead(t) /\ f \in 1 .. Len(t) /\ \A j \in ReplyHead(t) : f <= j
  BY <1>1, <1>4, AnswerEnd
<1> HIDE DEF f
<1>6. f <= e
  BY <1>4, <1>5
<1>7. f \in 1 .. Len(a)
  BY <1>1, <1>2, <1>5, <1>6
<1>8. f \in ReplyHead(a)
  BY <1>3, <1>5, <1>7 DEF ReplyHead
<1>9. e <= f
  BY <1>2, <1>8
<1>10. e = f
  BY <1>1, <1>2, <1>6, <1>7, <1>9
<1> QED BY <1>4, <1>10 DEF e, f, t

LEMMA ReplyRead ==
  ASSUME NEW s \in SessionRec, Open(s), s.st = "S_REPLY",
         NEW k \in FromProxy(s, DOWN_SZ - 1 - Len(s.down)),
         NEW r, r = [s EXCEPT !.down = @ \o ProxyTaken(s, k), !.px_pos = @ + k]
  PROVE  /\ r \in SessionRec /\ r.st = "S_REPLY" /\ r.used /\ r.why = "none" /\ r.req.tls
         /\ Positions(r) /\ UpRight(r) /\ InOrder(r)
         /\ r.down_off = 0 /\ ~r.px_eof /\ r.to_ph = << >> /\ DownLeft(r) = r.ans
         /\ r.down \o Drop(r.ans, r.px_pos) = r.ans
<1>1. s.used /\ s.why = "none" /\ Positions(s) /\ UpRight(s) /\ DownRight(s)
  BY DEF Open
<1>2. s.down \in Seq(Unit) /\ s.ans \in Seq(Unit) /\ s.px_pos \in 0 .. Len(s.ans)
  BY <1>1, Pieces
<1>3. k \in Nat /\ k \in 0 .. Len(s.ans) - s.px_pos
  BY <1>1, ProxyRead
<1> DEFINE buf == s.down \o ProxyTaken(s, k)
<1>4. /\ buf \in Seq(Unit) /\ s.px_pos + k \in 0 .. Len(s.ans)
      /\ buf \o Drop(s.ans, s.px_pos + k) = s.down \o Drop(s.ans, s.px_pos)
  BY <1>2, <1>3, ReadOn DEF ProxyTaken
<1>5. s.px_pos + k \in Nat
  BY <1>2, <1>3
<1> HIDE DEF buf
<1>6. r = [s EXCEPT !.down = buf, !.px_pos = s.px_pos + k]
  BY DEF buf
<1>7. /\ r \in SessionRec /\ r.st = s.st /\ r.down = buf /\ r.to_px = s.to_px
      /\ r.used = s.used /\ r.why = s.why /\ r.req = s.req /\ r.ans = s.ans /\ r.up = s.up
      /\ r.up_off = s.up_off /\ r.down_off = s.down_off /\ r.ph_pos = s.ph_pos
      /\ r.px_pos = s.px_pos + k /\ r.to_ph = s.to_ph /\ r.ph_eof = s.ph_eof
      /\ r.px_eof = s.px_eof /\ r.px_shut = s.px_shut
  BY <1>4, <1>5, <1>6 DEF SessionRec
<1>8. s.down_off = 0 /\ ~s.px_eof /\ s.to_ph = << >> /\ s.req.tls /\ DownLeft(s) = s.ans
  BY <1>1 DEF DownRight
<1>9. Positions(r)
  BY <1>1, <1>4, <1>7, <1>8 DEF Positions
<1>10. UpRight(r)
  <2>1. UpLeft(r) = UpLeft(s)
    BY <1>7 DEF UpLeft
  <2> QED BY <1>1, <1>7, <2>1 DEF UpRight
<1>11. InOrder(r)
  <2>1. InOrder(s)
    BY OpenIsOK DEF SessionOK
  <2> QED BY <1>7, <2>1 DEF InOrder
<1>12. buf \o Drop(s.ans, s.px_pos + k) = s.ans
  <2>1. Drop(s.down, 0) = s.down
    BY <1>2, DroppedEnds
  <2> QED BY <1>4, <1>8, <2>1 DEF DownLeft
<1>13. DownLeft(r) = s.ans
  <2>1. Drop(buf, 0) = buf
    BY <1>4, DroppedEnds
  <2> QED BY <1>7, <1>8, <1>12, <2>1 DEF DownLeft
<1> QED BY <1>1, <1>7, <1>8, <1>9, <1>10, <1>11, <1>12, <1>13

LEMMA ReplyRight ==
  ASSUME NEW s \in SessionRec, Open(s), s.st = "S_REPLY",
         NEW k \in FromProxy(s, DOWN_SZ - 1 - Len(s.down)),
         NEW r, r = [s EXCEPT !.down = @ \o ProxyTaken(s, k), !.px_pos = @ + k],
         NEW t \in reply_ready(r)
  PROVE  SessionOK(t)
<1>1. /\ r \in SessionRec /\ r.st = "S_REPLY" /\ r.used /\ r.why = "none" /\ r.req.tls
      /\ Positions(r) /\ UpRight(r) /\ InOrder(r)
      /\ r.down_off = 0 /\ ~r.px_eof /\ r.to_ph = << >> /\ DownLeft(r) = r.ans
      /\ r.down \o Drop(r.ans, r.px_pos) = r.ans
  BY ReplyRead
<1> DEFINE e == ReplyEnd(r.down)
<1>2. CASE t = r /\ ReplyHead(r.down) = {}
  <2>1. Open(r)
    BY <1>1, <1>2 DEF Open, DownRight
  <2> QED BY <1>1, <1>2, <2>1, OpenIsOK
<1>3. CASE t = sess_closed(r, "reply too large") \/ t = sess_closed(r, "refused")
  BY <1>1, <1>3, ClosedIsOK DEF Whys
<1>4. CASE /\ ReplyHead(r.down) # {}
           /\ t = [r EXCEPT !.down = Drop(@, e), !.down_off = 0, !.up_off = 0,
                            !.st = "S_SPLICE", !.late = FALSE]
  <2>1. /\ r.req \in Requests /\ r.ans \in Answers /\ r.ans \in Seq(Unit)
        /\ r.down \in Seq(Unit) /\ Drop(r.ans, r.px_pos) \in Seq(Unit)
    BY <1>1, Pieces
  <2>2. e \in 0 .. Len(r.down)
    <3>1. ReplyEnd(r.down) \in 1 .. Len(r.down)
      BY <1>4, <2>1, AnswerEnd
    <3> QED BY <3>1
  <2> DEFINE d == Drop(r.down, e)
             left == Drop(r.ans, r.px_pos)
  <2>3. d \in Seq(Unit) /\ Drop(d, 0) = d
    <3>1. d \in Seq(Unit)
      BY <2>1, <2>2, Dropped
    <3> QED BY <3>1, DroppedEnds
  <2>4. ReplyHead(r.ans) # {} /\ ReplyEnd(r.ans) = e
    <3>1. ReplyHead(r.down \o left) # {} /\ ReplyEnd(r.down \o left) = e
      BY <1>4, <2>1, SameEnd
    <3> QED BY <1>1, <3>1
  <2>5. d \o left = ForPhone(r.req, r.ans)
    <3>1. Drop(r.down \o left, e) = d \o left
      BY <2>1, <2>2, DroppedFromFirst
    <3>2. ForPhone(r.req, r.ans) = Drop(r.ans, e)
      BY <1>1, <2>1, <2>4, ForPhoneIs
    <3> QED BY <1>1, <3>1, <3>2
  <2> HIDE DEF d, e
  <2>6. t = [r EXCEPT !.down = d, !.down_off = 0, !.up_off = 0, !.st = "S_SPLICE", !.late = FALSE]
    BY <1>4 DEF d
  <2>7. r \in SessionRec
    BY <1>1
  <2>8. /\ t \in SessionRec /\ t.st = "S_SPLICE" /\ t.down = d /\ t.to_px = r.to_px
        /\ t.used = r.used /\ t.why = r.why /\ t.req = r.req /\ t.ans = r.ans /\ t.up = r.up
        /\ t.up_off = 0 /\ t.down_off = 0 /\ t.ph_pos = r.ph_pos
        /\ t.px_pos = r.px_pos /\ t.to_ph = r.to_ph /\ t.ph_eof = r.ph_eof
        /\ t.px_eof = r.px_eof /\ t.px_shut = r.px_shut
    BY <2>3, <2>6, <2>7 DEF SessionRec, Stages
  <2>9. Positions(t)
    <3>1. 0 <= Len(d) /\ 0 <= Len(r.up)
      BY <2>3, <1>1, Pieces
    <3> QED BY <1>1, <2>8, <3>1 DEF Positions
  <2>10. UpRight(t)
    <3>1. r.up_off = 0 /\ UpLeft(t) = UpLeft(r)
      BY <1>1, <2>8 DEF UpLeft, UpRight
    <3> QED BY <1>1, <2>8, <3>1 DEF UpRight
  <2>11. DownRight(t)
    <3>1. DownLeft(t) = d \o left
      BY <2>3, <2>8 DEF DownLeft
    <3>2. d \o left \in Seq(Unit)
      BY <2>1, <2>3, ConcatProperties
    <3>3. << >> \o (d \o left) = d \o left
      BY <3>2, ConcatEmptySeq
    <3> QED BY <1>1, <2>5, <2>8, <3>1, <3>3 DEF DownRight
  <2>12. Open(t)
    BY <1>1, <2>8, <2>9, <2>10, <2>11 DEF Open
  <2> QED BY <2>8, <2>12, OpenIsOK
<1> QED BY <1>2, <1>3, <1>4 DEF reply_ready

(* splice(): a part of a buffer is sent.                                   *)
PartSent(done, buf, left, n, k) ==
  /\ done \o SubSeq(buf, n + 1, n + k) \in Seq(Unit)
  /\ n + k \in Nat /\ n + k <= Len(buf)
  /\ Drop(buf, n + k) \o left \in Seq(Unit)
  /\ (done \o SubSeq(buf, n + 1, n + k)) \o (Drop(buf, n + k) \o left)
       = done \o (Drop(buf, n) \o left)
  /\ n + k = Len(buf) => Drop(buf, n + k) = << >>

LEMMA SentOn ==
  ASSUME NEW done \in Seq(Unit), NEW buf \in Seq(Unit), NEW left \in Seq(Unit),
         NEW n \in Nat, n < Len(buf), NEW k \in Sendable(buf, n)
  PROVE  PartSent(done, buf, left, n, k)
<1>1. /\ Len(buf) \in Nat /\ k \in Nat /\ k \in 0 .. Len(buf) - n /\ n \in 0 .. Len(buf)
      /\ n + k \in Nat /\ n + k <= Len(buf) /\ n + k \in 0 .. Len(buf)
  BY DEF Sendable
<1> DEFINE a == SubSeq(buf, n + 1, n + k)
           d == Drop(buf, n + k)
           b == Drop(buf, n)
<1>2. a \o d = b
  BY <1>1, TakenOff
<1>3. a \in Seq(Unit) /\ d \in Seq(Unit)
  BY <1>1, TakenOff, Dropped
<1>4. n + k = Len(buf) => d = << >>
  BY DroppedEnds
<1> HIDE DEF a, d, b
<1>5. d \o left \in Seq(Unit)
  BY <1>3, ConcatProperties
<1>6. done \o a \in Seq(Unit)
  BY <1>3, ConcatProperties
<1>7. (done \o a) \o (d \o left) = done \o (a \o (d \o left))
  <2> DEFINE rest == d \o left
  <2>1. rest \in Seq(Unit)
    BY <1>5
  <2> HIDE DEF rest
  <2>2. (done \o a) \o rest = done \o (a \o rest)
    BY <1>3, <2>1, Joined
  <2> QED BY <2>2 DEF rest
<1>8. (a \o d) \o left = a \o (d \o left)
  BY <1>3, Joined
<1>9. (done \o a) \o (d \o left) = done \o (b \o left)
  BY <1>2, <1>7, <1>8
<1> QED BY <1>1, <1>4, <1>5, <1>6, <1>9 DEF PartSent, a, d, b

LEMMA UpSent ==
  ASSUME NEW s \in SessionRec, Open(s), s.st = "S_SPLICE", s.up_off < Len(s.up),
         NEW k \in Sendable(s.up, s.up_off),
         NEW t, t = [s EXCEPT !.to_px = @ \o SubSeq(s.up, s.up_off + 1, s.up_off + k),
                              !.up_off = @ + k, !.late = FALSE]
  PROVE  /\ t \in SessionRec /\ Open(t) /\ t.st = "S_SPLICE"
         /\ Flushed(t.up_off, s.up) =>
              LET e == [t EXCEPT !.up = << >>, !.up_off = 0]
              IN  e \in SessionRec /\ Open(e) /\ e.st = "S_SPLICE"
<1>1. s.used /\ s.why = "none" /\ Positions(s) /\ UpRight(s) /\ DownRight(s)
  BY DEF Open
<1> DEFINE left == Drop(PhoneStream(s.req), s.ph_pos)
           sent == s.to_px \o SubSeq(s.up, s.up_off + 1, s.up_off + k)
           off == s.up_off + k
           e == [t EXCEPT !.up = << >>, !.up_off = 0]
<1>2. /\ s.up \in Seq(Unit) /\ s.up_off \in Nat /\ left \in Seq(Unit) /\ s.to_px \in Seq(Unit)
      /\ s.req \in Requests /\ s.ans \in Answers
  BY <1>1, Pieces DEF SessionRec
<1> HIDE DEF left
<1>3. /\ sent \in Seq(Unit) /\ off \in Nat /\ off <= Len(s.up) /\ Drop(s.up, off) \o left \in Seq(Unit)
      /\ sent \o (Drop(s.up, off) \o left) = s.to_px \o (Drop(s.up, s.up_off) \o left)
      /\ off = Len(s.up) => Drop(s.up, off) = << >>
  <2>1. PartSent(s.to_px, s.up, left, s.up_off, k)
    BY <1>2, SentOn
  <2> QED BY <2>1 DEF PartSent
<1> HIDE DEF sent, off
<1>4. s.to_px \o (Drop(s.up, s.up_off) \o left) = ForProxy(s.req)
  BY <1>1 DEF UpRight, UpLeft, left
<1>5. t = [s EXCEPT !.to_px = sent, !.up_off = off, !.late = FALSE]
  BY DEF sent, off
<1>6. /\ t \in SessionRec /\ t.st = s.st /\ t.down = s.down /\ t.to_px = sent
      /\ t.used = s.used /\ t.why = s.why /\ t.req = s.req /\ t.ans = s.ans /\ t.up = s.up
      /\ t.up_off = off /\ t.down_off = s.down_off /\ t.ph_pos = s.ph_pos
      /\ t.px_pos = s.px_pos /\ t.to_ph = s.to_ph /\ t.ph_eof = s.ph_eof
      /\ t.px_eof = s.px_eof /\ t.px_shut = s.px_shut
  BY <1>3, <1>5 DEF SessionRec
<1>7. Len(s.up) # 0 /\ s.up # << >>
  <2>1. Len(s.up) \in Nat /\ Len(<< >>) = 0
    BY <1>2
  <2>2. Len(s.up) # 0
    BY <1>2, <2>1
  <2> QED BY <2>1, <2>2
<1>8. ~s.px_shut
  BY <1>1, <1>7 DEF UpRight
<1>9. Open(t)
  <2>1. Positions(t)
    BY <1>1, <1>3, <1>6 DEF Positions
  <2>2. UpLeft(t) = Drop(s.up, off) \o left
    BY <1>6 DEF UpLeft, left
  <2>3. UpRight(t)
    BY <1>1, <1>3, <1>4, <1>6, <1>8, <2>2 DEF UpRight
  <2>4. DownLeft(t) = DownLeft(s)
    BY <1>6 DEF DownLeft
  <2>5. DownRight(t)
    BY <1>1, <1>6, <2>4 DEF DownRight
  <2> QED BY <1>1, <1>6, <2>1, <2>3, <2>5 DEF Open
<1>10. ASSUME Flushed(t.up_off, s.up) PROVE e \in SessionRec /\ Open(e) /\ e.st = "S_SPLICE"
  <2>1. Drop(s.up, off) = << >>
    BY <1>3, <1>6, <1>10 DEF Flushed
  <2>2. << >> \in Seq(Unit) /\ Len(<< >>) = 0 /\ 0 \in Nat
    OBVIOUS
  <2>3. Drop(<< >>, 0) = << >>
    BY <2>2, DroppedEnds
  <2>4. t \in SessionRec
    BY <1>6
  <2>5. e \in SessionRec
    BY <2>2, <2>4 DEF SessionRec
  <2>6. /\ e.st = s.st /\ e.down = s.down /\ e.to_px = sent
        /\ e.used = s.used /\ e.why = s.why /\ e.req = s.req /\ e.ans = s.ans /\ e.up = << >>
        /\ e.up_off = 0 /\ e.down_off = s.down_off /\ e.ph_pos = s.ph_pos
        /\ e.px_pos = s.px_pos /\ e.to_ph = s.to_ph /\ e.ph_eof = s.ph_eof
        /\ e.px_eof = s.px_eof /\ e.px_shut = s.px_shut
    BY <1>6, <2>4 DEF SessionRec
  <2>7. Positions(e)
    BY <1>1, <2>2, <2>6 DEF Positions
  <2>8. UpLeft(e) = Drop(s.up, off) \o left
    BY <2>1, <2>3, <2>6 DEF UpLeft, left
  <2>9. UpRight(e)
    BY <1>1, <1>3, <1>4, <1>8, <2>6, <2>8 DEF UpRight
  <2>10. DownLeft(e) = DownLeft(s)
    BY <2>6 DEF DownLeft
  <2>11. DownRight(e)
    BY <1>1, <2>6, <2>10 DEF DownRight
  <2> QED BY <1>1, <2>5, <2>6, <2>7, <2>9, <2>11 DEF Open
<1> QED BY <1>6, <1>9, <1>10

(* A buffer that is empty is filled from its stream.                       *)
LEMMA Refilled ==
  ASSUME NEW done \in Seq(Unit), NEW str \in Seq(Unit), NEW n \in 0 .. Len(str),
         NEW k \in 0 .. Len(str) - n
  PROVE  /\ SubSeq(str, n + 1, n + k) \in Seq(Unit) /\ n + k \in Nat /\ n + k <= Len(str)
         /\ Drop(SubSeq(str, n + 1, n + k), 0) \o Drop(str, n + k) = Drop(<< >>, 0) \o Drop(str, n)
<1> DEFINE a == SubSeq(str, n + 1, n + k)
           d == Drop(str, n + k)
           b == Drop(str, n)
<1>1. n + k \in Nat /\ n + k <= Len(str) /\ n + k \in 0 .. Len(str) /\ << >> \in Seq(Unit)
  OBVIOUS
<1>2. a \o d = b
  BY <1>1, TakenOff
<1>3. a \in Seq(Unit) /\ b \in Seq(Unit)
  BY <1>1, TakenOff, Dropped
<1> HIDE DEF a, d, b
<1>4. Drop(a, 0) = a /\ Drop(<< >>, 0) = << >>
  BY <1>1, <1>3, DroppedEnds
<1>5. << >> \o b = b
  BY <1>3, ConcatEmptySeq
<1> QED BY <1>1, <1>2, <1>3, <1>4, <1>5 DEF a, d, b

LEMMA UpHalfRight ==
  ASSUME NEW s \in SessionRec, Open(s), s.st = "S_SPLICE", NEW t \in UpHalf(s)
  PROVE  t \in SessionRec /\ SessionOK(t) /\ (t.used => Open(t) /\ t.st = "S_SPLICE")
<1> DEFINE Goal(r) == r \in SessionRec /\ SessionOK(r) /\ (r.used => Open(r) /\ r.st = "S_SPLICE")
<1>1. s.used /\ s.why = "none" /\ Positions(s) /\ UpRight(s) /\ DownRight(s) /\ InOrder(s)
  BY OpenIsOK DEF Open, SessionOK
<1>2. \A r \in SessionRec : Open(r) /\ r.st = "S_SPLICE" => Goal(r)
  BY OpenIsOK
<1>3. \A why \in Whys \ {"none", "done"} : Goal(sess_closed(s, why))
  <2>1. ASSUME NEW why \in Whys \ {"none", "done"} PROVE Goal(sess_closed(s, why))
    <3>1. SessionOK(sess_closed(s, why))
      BY <1>1, ClosedIsOK
    <3> QED BY <3>1 DEF SessionOK, sess_closed, SessionRec
  <2> QED BY <2>1
<1>4. ASSUME s.up_off < Len(s.up) PROVE Goal(t)
  <2> DEFINE sent(k) == [s EXCEPT !.to_px = @ \o SubSeq(s.up, s.up_off + 1, s.up_off + k),
                                  !.up_off = @ + k, !.late = FALSE]
  <2>1. CASE t = s \/ t = sess_closed(s, "proxy write error")
    BY <1>2, <1>3, <2>1 DEF Whys
  <2>2. ASSUME NEW k \in Sendable(s.up, s.up_off),
               t = IF Flushed(sent(k).up_off, s.up)
                   THEN [sent(k) EXCEPT !.up = << >>, !.up_off = 0] ELSE sent(k)
        PROVE  Goal(t)
    <3>1. /\ sent(k) \in SessionRec /\ Open(sent(k)) /\ sent(k).st = "S_SPLICE"
          /\ Flushed(sent(k).up_off, s.up) =>
               LET e == [sent(k) EXCEPT !.up = << >>, !.up_off = 0]
               IN  e \in SessionRec /\ Open(e) /\ e.st = "S_SPLICE"
      BY <1>4, UpSent
    <3> HIDE DEF sent
    <3> QED BY <1>2, <2>2, <3>1
  <2>3. \/ t = s \/ t = sess_closed(s, "proxy write error")
        \/ \E k \in Sendable(s.up, s.up_off) :
             t = IF Flushed(sent(k).up_off, s.up)
                 THEN [sent(k) EXCEPT !.up = << >>, !.up_off = 0] ELSE sent(k)
    BY <1>4 DEF UpHalf
  <2> HIDE DEF sent, Goal
  <2> QED BY <2>1, <2>2, <2>3
<1>5. ASSUME NEW k \in FromPhone(s, UP_SZ), s.up = << >>, ~s.ph_eof,
             t = [s EXCEPT !.up = PhoneTaken(s, k), !.up_off = 0, !.late = FALSE, !.ph_pos = @ + k]
      PROVE  Goal(t)
  <2> DEFINE str == PhoneStream(s.req)
             got == PhoneTaken(s, k)
  <2>1. /\ str \in Seq(Unit) /\ s.ph_pos \in 0 .. Len(str) /\ s.to_px \in Seq(Unit)
        /\ k \in 0 .. Len(str) - s.ph_pos /\ s.up_off \in 0 .. Len(s.up)
    BY <1>1, <1>5, Pieces, PhoneRead
  <2> HIDE DEF str
  <2>2. s.up_off = 0
    BY <1>5, <2>1
  <2>3. /\ got \in Seq(Unit) /\ s.ph_pos + k \in Nat /\ s.ph_pos + k <= Len(str)
        /\ Drop(got, 0) \o Drop(str, s.ph_pos + k) = Drop(<< >>, 0) \o Drop(str, s.ph_pos)
    BY <2>1, Refilled DEF PhoneTaken, str
  <2> HIDE DEF got
  <2>4. t = [s EXCEPT !.up = got, !.up_off = 0, !.late = FALSE, !.ph_pos = s.ph_pos + k]
    BY <1>5 DEF got
  <2>5. /\ t \in SessionRec /\ t.st = s.st /\ t.down = s.down /\ t.to_px = s.to_px
        /\ t.used = s.used /\ t.why = s.why /\ t.req = s.req /\ t.ans = s.ans /\ t.up = got
        /\ t.up_off = 0 /\ t.down_off = s.down_off /\ t.ph_pos = s.ph_pos + k
        /\ t.px_pos = s.px_pos /\ t.to_ph = s.to_ph /\ t.ph_eof = s.ph_eof
        /\ t.px_eof = s.px_eof /\ t.px_shut = s.px_shut
    BY <2>3, <2>4 DEF SessionRec
  <2>6. UpLeft(t) = UpLeft(s)
    BY <1>5, <2>2, <2>3, <2>5 DEF UpLeft, str
  <2>7. Positions(t)
    <3>1. 0 <= Len(got)
      BY <2>3
    <3> QED BY <1>1, <2>3, <2>5, <3>1 DEF Positions, str
  <2>8. UpRight(t)
    BY <1>1, <1>5, <2>5, <2>6 DEF UpRight
  <2>9. DownLeft(t) = DownLeft(s)
    BY <2>5 DEF DownLeft
  <2>10. DownRight(t)
    BY <1>1, <2>5, <2>9 DEF DownRight
  <2>11. Open(t)
    BY <1>1, <2>5, <2>7, <2>8, <2>10 DEF Open
  <2> QED BY <1>2, <2>5, <2>11
<1>6. ASSUME s.ph_pos = Len(PhoneStream(s.req)), t = [s EXCEPT !.ph_eof = TRUE] PROVE Goal(t)
  <2>1. /\ t \in SessionRec /\ t.st = s.st /\ t.down = s.down /\ t.to_px = s.to_px
        /\ t.used = s.used /\ t.why = s.why /\ t.req = s.req /\ t.ans = s.ans /\ t.up = s.up
        /\ t.up_off = s.up_off /\ t.down_off = s.down_off /\ t.ph_pos = s.ph_pos
        /\ t.px_pos = s.px_pos /\ t.to_ph = s.to_ph /\ t.ph_eof = TRUE
        /\ t.px_eof = s.px_eof /\ t.px_shut = s.px_shut
    BY <1>6 DEF SessionRec
  <2>2. UpLeft(t) = UpLeft(s) /\ DownLeft(t) = DownLeft(s)
    BY <2>1 DEF UpLeft, DownLeft
  <2>3. Positions(t) /\ DownRight(t)
    BY <1>1, <2>1, <2>2 DEF Positions, DownRight
  <2>4. UpRight(t)
    BY <1>1, <1>6, <2>1, <2>2 DEF UpRight
  <2>5. Open(t)
    BY <1>1, <2>1, <2>3, <2>4 DEF Open
  <2> QED BY <1>2, <2>1, <2>5
<1>7. ASSUME t = s \/ t = sess_closed(s, "phone reset") PROVE Goal(t)
  BY <1>2, <1>3, <1>7 DEF Whys
<1> DEFINE Ended == s.ph_pos = Len(PhoneStream(s.req)) /\ t = [s EXCEPT !.ph_eof = TRUE]
           Filled == /\ s.up = << >> /\ ~s.ph_eof
                     /\ \E k \in FromPhone(s, UP_SZ) :
                          t = [s EXCEPT !.up = PhoneTaken(s, k), !.up_off = 0, !.late = FALSE,
                                        !.ph_pos = @ + k]
<1>8. ASSUME ~(s.up_off < Len(s.up))
      PROVE  t = s \/ t = sess_closed(s, "phone reset") \/ Ended \/ Filled
  BY <1>8 DEF UpHalf
<1> HIDE DEF Goal
<1>9. Ended => Goal(t)
  BY <1>6
<1>10. Filled => Goal(t)
  BY <1>5
<1> HIDE DEF Ended, Filled
<1>11. Goal(t)
  BY <1>4, <1>7, <1>8, <1>9, <1>10
<1> QED BY <1>11 DEF Goal

LEMMA DownSent ==
  ASSUME NEW s \in SessionRec, Open(s), s.st = "S_SPLICE", s.down_off < Len(s.down),
         NEW k \in Sendable(s.down, s.down_off),
         NEW t, t = [s EXCEPT !.to_ph = @ \o SubSeq(s.down, s.down_off + 1, s.down_off + k),
                              !.down_off = @ + k, !.late = FALSE]
  PROVE  /\ t \in SessionRec /\ Open(t) /\ t.st = "S_SPLICE"
         /\ Flushed(t.down_off, s.down) =>
              LET e == [t EXCEPT !.down = << >>, !.down_off = 0]
              IN  e \in SessionRec /\ Open(e) /\ e.st = "S_SPLICE"
<1>1. s.used /\ s.why = "none" /\ Positions(s) /\ UpRight(s) /\ DownRight(s)
  BY DEF Open
<1> DEFINE left == Drop(s.ans, s.px_pos)
           sent == s.to_ph \o SubSeq(s.down, s.down_off + 1, s.down_off + k)
           off == s.down_off + k
           e == [t EXCEPT !.down = << >>, !.down_off = 0]
<1>2. /\ s.down \in Seq(Unit) /\ s.down_off \in Nat /\ left \in Seq(Unit) /\ s.to_ph \in Seq(Unit)
      /\ s.req \in Requests /\ s.ans \in Answers
  BY <1>1, Pieces DEF SessionRec
<1> HIDE DEF left
<1>3. /\ sent \in Seq(Unit) /\ off \in Nat /\ off <= Len(s.down)
      /\ Drop(s.down, off) \o left \in Seq(Unit)
      /\ sent \o (Drop(s.down, off) \o left) = s.to_ph \o (Drop(s.down, s.down_off) \o left)
      /\ off = Len(s.down) => Drop(s.down, off) = << >>
  <2>1. PartSent(s.to_ph, s.down, left, s.down_off, k)
    BY <1>2, SentOn
  <2> QED BY <2>1 DEF PartSent
<1> HIDE DEF sent, off
<1>4. s.to_ph \o (Drop(s.down, s.down_off) \o left) = ForPhone(s.req, s.ans)
  BY <1>1 DEF DownRight, DownLeft, left
<1>5. t = [s EXCEPT !.to_ph = sent, !.down_off = off, !.late = FALSE]
  BY DEF sent, off
<1>6. /\ t \in SessionRec /\ t.st = s.st /\ t.down = s.down /\ t.to_px = s.to_px
      /\ t.used = s.used /\ t.why = s.why /\ t.req = s.req /\ t.ans = s.ans /\ t.up = s.up
      /\ t.up_off = s.up_off /\ t.down_off = off /\ t.ph_pos = s.ph_pos
      /\ t.px_pos = s.px_pos /\ t.to_ph = sent /\ t.ph_eof = s.ph_eof
      /\ t.px_eof = s.px_eof /\ t.px_shut = s.px_shut
  BY <1>3, <1>5 DEF SessionRec
<1>7. Open(t)
  <2>1. Positions(t)
    BY <1>1, <1>3, <1>6 DEF Positions
  <2>2. UpLeft(t) = UpLeft(s)
    BY <1>6 DEF UpLeft
  <2>3. UpRight(t)
    BY <1>1, <1>6, <2>2 DEF UpRight
  <2>4. DownLeft(t) = Drop(s.down, off) \o left
    BY <1>6 DEF DownLeft, left
  <2>5. DownRight(t)
    BY <1>1, <1>3, <1>4, <1>6, <2>4 DEF DownRight
  <2> QED BY <1>1, <1>6, <2>1, <2>3, <2>5 DEF Open
<1>8. ASSUME Flushed(t.down_off, s.down) PROVE e \in SessionRec /\ Open(e) /\ e.st = "S_SPLICE"
  <2>1. Drop(s.down, off) = << >>
    BY <1>3, <1>6, <1>8 DEF Flushed
  <2>2. << >> \in Seq(Unit) /\ Len(<< >>) = 0 /\ 0 \in Nat
    OBVIOUS
  <2>3. Drop(<< >>, 0) = << >>
    BY <2>2, DroppedEnds
  <2>4. t \in SessionRec
    BY <1>6
  <2>5. e \in SessionRec
    BY <2>2, <2>4 DEF SessionRec
  <2>6. /\ e.st = s.st /\ e.down = << >> /\ e.to_px = s.to_px
        /\ e.used = s.used /\ e.why = s.why /\ e.req = s.req /\ e.ans = s.ans /\ e.up = s.up
        /\ e.up_off = s.up_off /\ e.down_off = 0 /\ e.ph_pos = s.ph_pos
        /\ e.px_pos = s.px_pos /\ e.to_ph = sent /\ e.ph_eof = s.ph_eof
        /\ e.px_eof = s.px_eof /\ e.px_shut = s.px_shut
    BY <1>6, <2>4 DEF SessionRec
  <2>7. Positions(e)
    BY <1>1, <2>2, <2>6 DEF Positions
  <2>8. UpLeft(e) = UpLeft(s)
    BY <2>6 DEF UpLeft
  <2>9. UpRight(e)
    BY <1>1, <2>6, <2>8 DEF UpRight
  <2>10. DownLeft(e) = Drop(s.down, off) \o left
    BY <2>1, <2>3, <2>6 DEF DownLeft, left
  <2>11. DownRight(e)
    BY <1>1, <1>3, <1>4, <2>6, <2>10 DEF DownRight
  <2> QED BY <1>1, <2>5, <2>6, <2>7, <2>9, <2>11 DEF Open
<1> QED BY <1>6, <1>7, <1>8

LEMMA DownHalfRight ==
  ASSUME NEW s \in SessionRec, Open(s), s.st = "S_SPLICE", NEW t \in DownHalf(s)
  PROVE  t \in SessionRec /\ SessionOK(t) /\ (t.used => Open(t) /\ t.st = "S_SPLICE")
<1> DEFINE Goal(r) == r \in SessionRec /\ SessionOK(r) /\ (r.used => Open(r) /\ r.st = "S_SPLICE")
<1>1. s.used /\ s.why = "none" /\ Positions(s) /\ UpRight(s) /\ DownRight(s) /\ InOrder(s)
  BY OpenIsOK DEF Open, SessionOK
<1>2. \A r \in SessionRec : Open(r) /\ r.st = "S_SPLICE" => Goal(r)
  BY OpenIsOK
<1>3. \A why \in Whys \ {"none", "done"} : Goal(sess_closed(s, why))
  <2>1. ASSUME NEW why \in Whys \ {"none", "done"} PROVE Goal(sess_closed(s, why))
    <3>1. SessionOK(sess_closed(s, why))
      BY <1>1, ClosedIsOK
    <3> QED BY <3>1 DEF SessionOK, sess_closed, SessionRec
  <2> QED BY <2>1
<1>4. ASSUME s.down_off < Len(s.down) PROVE Goal(t)
  <2> DEFINE sent(k) == [s EXCEPT !.to_ph = @ \o SubSeq(s.down, s.down_off + 1, s.down_off + k),
                                  !.down_off = @ + k, !.late = FALSE]
  <2>1. CASE t = s \/ t = sess_closed(s, "phone write error")
    BY <1>2, <1>3, <2>1 DEF Whys
  <2>2. ASSUME NEW k \in Sendable(s.down, s.down_off),
               t = IF Flushed(sent(k).down_off, s.down)
                   THEN [sent(k) EXCEPT !.down = << >>, !.down_off = 0] ELSE sent(k)
        PROVE  Goal(t)
    <3>1. /\ sent(k) \in SessionRec /\ Open(sent(k)) /\ sent(k).st = "S_SPLICE"
          /\ Flushed(sent(k).down_off, s.down) =>
               LET e == [sent(k) EXCEPT !.down = << >>, !.down_off = 0]
               IN  e \in SessionRec /\ Open(e) /\ e.st = "S_SPLICE"
      BY <1>4, DownSent
    <3> HIDE DEF sent
    <3> QED BY <1>2, <2>2, <3>1
  <2>3. \/ t = s \/ t = sess_closed(s, "phone write error")
        \/ \E k \in Sendable(s.down, s.down_off) :
             t = IF Flushed(sent(k).down_off, s.down)
                 THEN [sent(k) EXCEPT !.down = << >>, !.down_off = 0] ELSE sent(k)
    BY <1>4 DEF DownHalf
  <2> HIDE DEF sent, Goal
  <2> QED BY <2>1, <2>2, <2>3
<1>5. ASSUME NEW k \in FromProxy(s, DOWN_SZ), s.down = << >>, ~s.px_eof,
             t = [s EXCEPT !.down = ProxyTaken(s, k), !.down_off = 0, !.late = FALSE,
                           !.px_pos = @ + k]
      PROVE  Goal(t)
  <2> DEFINE got == ProxyTaken(s, k)
  <2>1. /\ s.ans \in Seq(Unit) /\ s.px_pos \in 0 .. Len(s.ans) /\ s.to_ph \in Seq(Unit)
        /\ k \in 0 .. Len(s.ans) - s.px_pos /\ s.down_off \in 0 .. Len(s.down)
    BY <1>1, <1>5, Pieces, ProxyRead
  <2>2. s.down_off = 0
    BY <1>5, <2>1
  <2>3. /\ got \in Seq(Unit) /\ s.px_pos + k \in Nat /\ s.px_pos + k <= Len(s.ans)
        /\ Drop(got, 0) \o Drop(s.ans, s.px_pos + k) = Drop(<< >>, 0) \o Drop(s.ans, s.px_pos)
    BY <2>1, Refilled DEF ProxyTaken
  <2> HIDE DEF got
  <2>4. t = [s EXCEPT !.down = got, !.down_off = 0, !.late = FALSE, !.px_pos = s.px_pos + k]
    BY <1>5 DEF got
  <2>5. /\ t \in SessionRec /\ t.st = s.st /\ t.down = got /\ t.to_px = s.to_px
        /\ t.used = s.used /\ t.why = s.why /\ t.req = s.req /\ t.ans = s.ans /\ t.up = s.up
        /\ t.up_off = s.up_off /\ t.down_off = 0 /\ t.ph_pos = s.ph_pos
        /\ t.px_pos = s.px_pos + k /\ t.to_ph = s.to_ph /\ t.ph_eof = s.ph_eof
        /\ t.px_eof = s.px_eof /\ t.px_shut = s.px_shut
    BY <2>3, <2>4 DEF SessionRec
  <2>6. DownLeft(t) = DownLeft(s)
    BY <1>5, <2>2, <2>3, <2>5 DEF DownLeft
  <2>7. Positions(t)
    <3>1. 0 <= Len(got)
      BY <2>3
    <3> QED BY <1>1, <2>3, <2>5, <3>1 DEF Positions
  <2>8. DownRight(t)
    BY <1>1, <1>5, <2>5, <2>6 DEF DownRight
  <2>9. UpLeft(t) = UpLeft(s)
    BY <2>5 DEF UpLeft
  <2>10. UpRight(t)
    BY <1>1, <2>5, <2>9 DEF UpRight
  <2>11. Open(t)
    BY <1>1, <2>5, <2>7, <2>8, <2>10 DEF Open
  <2> QED BY <1>2, <2>5, <2>11
<1>6. ASSUME s.px_pos = Len(s.ans), t = [s EXCEPT !.px_eof = TRUE] PROVE Goal(t)
  <2>1. /\ t \in SessionRec /\ t.st = s.st /\ t.down = s.down /\ t.to_px = s.to_px
        /\ t.used = s.used /\ t.why = s.why /\ t.req = s.req /\ t.ans = s.ans /\ t.up = s.up
        /\ t.up_off = s.up_off /\ t.down_off = s.down_off /\ t.ph_pos = s.ph_pos
        /\ t.px_pos = s.px_pos /\ t.to_ph = s.to_ph /\ t.ph_eof = s.ph_eof
        /\ t.px_eof = TRUE /\ t.px_shut = s.px_shut
    BY <1>6 DEF SessionRec
  <2>2. UpLeft(t) = UpLeft(s) /\ DownLeft(t) = DownLeft(s)
    BY <2>1 DEF UpLeft, DownLeft
  <2>3. Positions(t) /\ UpRight(t)
    BY <1>1, <2>1, <2>2 DEF Positions, UpRight
  <2>4. DownRight(t)
    BY <1>1, <1>6, <2>1, <2>2 DEF DownRight
  <2>5. Open(t)
    BY <1>1, <2>1, <2>3, <2>4 DEF Open
  <2> QED BY <1>2, <2>1, <2>5
<1>7. ASSUME t = s \/ t = sess_closed(s, "proxy reset") PROVE Goal(t)
  BY <1>2, <1>3, <1>7 DEF Whys
<1> DEFINE Ended == s.px_pos = Len(s.ans) /\ t = [s EXCEPT !.px_eof = TRUE]
           Filled == /\ s.down = << >> /\ ~s.px_eof
                     /\ \E k \in FromProxy(s, DOWN_SZ) :
                          t = [s EXCEPT !.down = ProxyTaken(s, k), !.down_off = 0, !.late = FALSE,
                                        !.px_pos = @ + k]
<1>8. ASSUME ~(s.down_off < Len(s.down))
      PROVE  t = s \/ t = sess_closed(s, "proxy reset") \/ Ended \/ Filled
  BY <1>8 DEF DownHalf
<1> HIDE DEF Goal
<1>9. Ended => Goal(t)
  BY <1>6
<1>10. Filled => Goal(t)
  BY <1>5
<1> HIDE DEF Ended, Filled
<1>11. Goal(t)
  BY <1>4, <1>7, <1>8, <1>9, <1>10
<1> QED BY <1>11 DEF Goal

LEMMA FinishRight ==
  ASSUME NEW s \in SessionRec, Open(s), s.st = "S_SPLICE"
  PROVE  SessionOK(Finish(s))
<1> DEFINE shut == IF s.ph_eof /\ s.up = << >> THEN [s EXCEPT !.px_shut = TRUE] ELSE s
<1>1. s.used /\ s.why = "none" /\ Positions(s) /\ UpRight(s) /\ DownRight(s)
  BY DEF Open
<1>2. shut \in SessionRec /\ Open(shut) /\ shut.st = "S_SPLICE"
  <2>1. CASE s.ph_eof /\ s.up = << >>
    <3> DEFINE t == [s EXCEPT !.px_shut = TRUE]
    <3>1. /\ t \in SessionRec /\ t.st = s.st /\ t.down = s.down /\ t.to_px = s.to_px
          /\ t.used = s.used /\ t.why = s.why /\ t.req = s.req /\ t.ans = s.ans /\ t.up = s.up
          /\ t.up_off = s.up_off /\ t.down_off = s.down_off /\ t.ph_pos = s.ph_pos
          /\ t.px_pos = s.px_pos /\ t.to_ph = s.to_ph /\ t.ph_eof = s.ph_eof
          /\ t.px_eof = s.px_eof /\ t.px_shut = TRUE
      BY DEF SessionRec
    <3> HIDE DEF t
    <3>2. UpLeft(t) = UpLeft(s) /\ DownLeft(t) = DownLeft(s)
      BY <3>1 DEF UpLeft, DownLeft
    <3>3. Positions(t) /\ DownRight(t)
      BY <1>1, <3>1, <3>2 DEF Positions, DownRight
    <3>4. UpRight(t)
      BY <1>1, <2>1, <3>1, <3>2 DEF UpRight
    <3>5. Open(t) /\ t.st = "S_SPLICE"
      BY <1>1, <3>1, <3>3, <3>4 DEF Open
    <3> QED BY <2>1, <3>1, <3>5 DEF t
  <2>2. CASE ~(s.ph_eof /\ s.up = << >>)
    BY <2>2
  <2> QED BY <2>1, <2>2
<1> HIDE DEF shut
<1>3. CASE shut.px_eof /\ shut.down = << >>
  <2>1. /\ shut.why = "none" /\ Positions(shut) /\ DownRight(shut) /\ InOrder(shut)
        /\ shut.to_ph \in Seq(Unit)
    BY <1>2, OpenIsOK DEF Open, SessionOK, SessionRec
  <2>2. DownLeft(shut) = << >>
    BY <1>2, <1>3, <2>1, NothingLeft DEF DownRight
  <2>3. shut.to_ph \o << >> = shut.to_ph
    BY <2>1, ConcatEmptySeq
  <2>4. shut.to_ph = ForPhone(shut.req, shut.ans)
    BY <1>2, <2>1, <2>2, <2>3 DEF DownRight
  <2> DEFINE t == sess_closed(shut, "done")
  <2>5. /\ t \in SessionRec /\ t.used = FALSE /\ t.why = "done"
        /\ t.to_px = shut.to_px /\ t.to_ph = shut.to_ph /\ t.px_shut = shut.px_shut
        /\ t.req = shut.req /\ t.ans = shut.ans
    BY <1>2 DEF sess_closed, SessionRec, Whys
  <2> HIDE DEF t
  <2>6. InOrder(t)
    BY <2>1, <2>4, <2>5 DEF InOrder
  <2>7. SessionOK(t)
    BY <2>5, <2>6 DEF SessionOK
  <2>8. Finish(s) = t
    <3>1. s.px_eof = shut.px_eof /\ s.down = shut.down
      BY DEF shut, SessionRec
    <3> QED BY <1>3, <3>1 DEF Finish, shut, t
  <2> QED BY <2>7, <2>8
<1>4. CASE ~(shut.px_eof /\ shut.down = << >>)
  <2>1. s.px_eof = shut.px_eof /\ s.down = shut.down
    BY DEF shut, SessionRec
  <2>2. Finish(s) = shut
    BY <1>4, <2>1 DEF Finish, shut
  <2> QED BY <1>2, <2>2, OpenIsOK
<1> QED BY <1>3, <1>4

-----------------------------------------------------------------------------
SInv == SessionOK(c)

LEMMA SessionStart ==
  ASSUME NEW req \in Requests, NEW ans \in Answers
  PROVE  SessionOK(Session(req, ans))
<1> DEFINE s == Session(req, ans)
<1>1. << >> \in Seq(Unit) /\ Len(<< >>) = 0 /\ 0 \in Nat /\ 1 .. 0 = {}
  OBVIOUS
<1>2. /\ ans \in Seq(Unit) /\ PhoneStream(req) \in Seq(Unit)
  BY Streams
<1>3. /\ s \in SessionRec /\ s.used = TRUE /\ s.st = "S_HEAD" /\ s.req = req /\ s.ans = ans
      /\ s.up = << >> /\ s.up_off = 0 /\ s.down = << >> /\ s.down_off = 0 /\ s.ph_pos = 0
      /\ s.px_pos = 0 /\ s.to_px = << >> /\ s.to_ph = << >> /\ s.ph_eof = FALSE
      /\ s.px_eof = FALSE /\ s.px_shut = FALSE /\ s.why = "none"
  BY <1>1 DEF Session, SessionRec, Stages, Whys
<1> HIDE DEF s
<1>4. Positions(s)
  <2>1. 0 <= Len(ans) /\ 0 <= Len(PhoneStream(req))
    BY <1>2
  <2> QED BY <1>1, <1>3, <2>1 DEF Positions
<1>5. UpLeft(s) = PhoneStream(req)
  <2>1. Drop(<< >>, 0) = << >> /\ Drop(PhoneStream(req), 0) = PhoneStream(req)
    BY <1>1, <1>2, DroppedEnds
  <2>2. << >> \o PhoneStream(req) = PhoneStream(req)
    BY <1>2, ConcatEmptySeq
  <2> QED BY <1>3, <2>1, <2>2 DEF UpLeft
<1>6. UpRight(s)
  BY <1>3, <1>5 DEF UpRight
<1>7. DownRight(s)
  BY <1>3 DEF DownRight
<1>8. Open(s)
  BY <1>3, <1>4, <1>6, <1>7 DEF Open
<1> QED BY <1>3, <1>8, OpenIsOK DEF s

LEMMA SessionStep == SInv /\ [SessionNext]_c => SInv'
<1> SUFFICES ASSUME SessionOK(c), [SessionNext]_c
             PROVE  SessionOK(c')
  BY DEF SInv
<1>1. c \in SessionRec /\ InOrder(c) /\ (c.used => Open(c))
  BY DEF SessionOK
<1>2. \A why \in Whys \ {"none", "done"} : SessionOK(sess_closed(c, why))
  BY <1>1, ClosedIsOK
<1>3. CASE ServiceHead
  <2>1. c.used /\ c.st = "S_HEAD" /\ Open(c)
    BY <1>1, <1>3 DEF ServiceHead
  <2>2. CASE c' = sess_closed(c, "phone closed")
    BY <1>2, <2>2 DEF Whys
  <2>3. ASSUME NEW k \in FromPhone(c, UP_SZ - Len(c.up)),
               c' \in head_ready([c EXCEPT !.up = @ \o PhoneTaken(c, k), !.ph_pos = @ + k])
        PROVE  SessionOK(c')
    <3> DEFINE r == [c EXCEPT !.up = @ \o PhoneTaken(c, k), !.ph_pos = @ + k]
    <3>1. r \in SessionRec /\ Open(r) /\ r.st = "S_HEAD"
      BY <1>1, <2>1, HeadRead
    <3>2. c' \in head_ready(r)
      BY <2>3
    <3> HIDE DEF r
    <3> QED BY <3>1, <3>2, HeadRight
  <2> QED BY <1>3, <2>2, <2>3 DEF ServiceHead
<1>4. CASE ServiceConnecting
  <2>1. c.used /\ c.st = "S_CONNECTING" /\ Open(c)
    BY <1>1, <1>4 DEF ServiceConnecting
  <2>2. CASE c' = sess_closed(c, "connect failed")
    BY <1>2, <2>2 DEF Whys
  <2>3. CASE c' \in on_connected(c)
    BY <1>1, <2>1, <2>3, ConnectingRight, Connected
  <2> QED BY <1>4, <2>2, <2>3 DEF ServiceConnecting
<1>5. CASE ServiceReply
  <2>1. c.used /\ c.st = "S_REPLY" /\ Open(c)
    BY <1>1, <1>5 DEF ServiceReply
  <2>2. CASE c' = sess_closed(c, "proxy closed after CONNECT")
    BY <1>2, <2>2 DEF Whys
  <2>3. ASSUME NEW k \in FromProxy(c, DOWN_SZ - 1 - Len(c.down)),
               c' \in reply_ready([c EXCEPT !.down = @ \o ProxyTaken(c, k), !.px_pos = @ + k])
        PROVE  SessionOK(c')
    <3> DEFINE r == [c EXCEPT !.down = @ \o ProxyTaken(c, k), !.px_pos = @ + k]
    <3>1. c' \in reply_ready(r)
      BY <2>3
    <3>2. \A t \in reply_ready(r) : SessionOK(t)
      BY <1>1, <2>1, ReplyRight
    <3> HIDE DEF r
    <3> QED BY <3>1, <3>2
  <2> QED BY <1>5, <2>2, <2>3 DEF ServiceReply
<1>6. CASE splice
  <2>1. c.used /\ c.st = "S_SPLICE" /\ Open(c)
    BY <1>1, <1>6 DEF splice
  <2>2. PICK s \in UpHalf(c) :
          IF ~s.used THEN c' = s
          ELSE \E t \in DownHalf(s) : c' = IF t.used THEN Finish(t) ELSE t
    BY <1>6 DEF splice
  <2>3. s \in SessionRec /\ SessionOK(s) /\ (s.used => Open(s) /\ s.st = "S_SPLICE")
    BY <1>1, <2>1, UpHalfRight
  <2>4. CASE ~s.used
    BY <2>2, <2>3, <2>4
  <2>5. CASE s.used
    <3>1. PICK t \in DownHalf(s) : c' = IF t.used THEN Finish(t) ELSE t
      BY <2>2, <2>5
    <3>2. t \in SessionRec /\ SessionOK(t) /\ (t.used => Open(t) /\ t.st = "S_SPLICE")
      BY <2>3, <2>5, DownHalfRight
    <3> QED BY <3>1, <3>2, FinishRight
  <2> QED BY <2>4, <2>5
<1>7. CASE TimePasses
  <2> DEFINE t == [c EXCEPT !.late = TRUE]
  <2>1. c.used /\ Open(c) /\ c' = t
    BY <1>1, <1>7 DEF TimePasses
  <2>2. /\ t \in SessionRec /\ t.st = c.st /\ t.down = c.down /\ t.to_px = c.to_px
        /\ t.used = c.used /\ t.why = c.why /\ t.req = c.req /\ t.ans = c.ans /\ t.up = c.up
        /\ t.up_off = c.up_off /\ t.down_off = c.down_off /\ t.ph_pos = c.ph_pos
        /\ t.px_pos = c.px_pos /\ t.to_ph = c.to_ph /\ t.ph_eof = c.ph_eof
        /\ t.px_eof = c.px_eof /\ t.px_shut = c.px_shut
    BY <1>1 DEF SessionRec
  <2> HIDE DEF t
  <2>3. UpLeft(t) = UpLeft(c) /\ DownLeft(t) = DownLeft(c)
    BY <2>2 DEF UpLeft, DownLeft
  <2>4. Open(t)
    BY <2>1, <2>2, <2>3 DEF Open, Positions, UpRight, DownRight
  <2> QED BY <2>1, <2>2, <2>4, OpenIsOK
<1>8. CASE DeadlineClose
  BY <1>2, <1>8 DEF DeadlineClose, Whys
<1>9. CASE UNCHANGED c
  BY <1>9
<1> QED BY <1>3, <1>4, <1>5, <1>6, <1>7, <1>8, <1>9 DEF SessionNext

(* http_proxy.c:667-769: however the transfers of a session are cut up, and
   wherever it is closed, each end has received a prefix of what it is to
   receive, the end of the phone's stream is passed on only behind its last
   byte, and a session that is done has delivered the whole answer. *)
THEOREM RelayedRight == SessionSpec => []RelayedInOrder
<1>1. SessionInit => SInv
  BY SessionStart DEF SessionInit, SInv
<1>2. SInv => RelayedInOrder
  BY DEF SInv, SessionOK, InOrder, RelayedInOrder
<1> QED BY <1>1, <1>2, SessionStep, PTL DEF SessionSpec
=============================================================================
