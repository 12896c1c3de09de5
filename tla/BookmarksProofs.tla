---------------------------- MODULE BookmarksProofs ----------------------------
(***************************************************************************)
(* Proofs about Bookmarks, for any BM_MAX, any inputs and any number of    *)
(* changes, failing writes and power cuts.                                 *)
(***************************************************************************)
EXTENDS Bookmarks, FiniteSetTheorems, SequenceTheorems, TLAPS

BmSpec == BmInit /\ [][BmNext]_bmVars

Entry == [url : {in.host : in \in Inputs},
          scheme : {in.scheme : in \in Inputs} \cup {"http"}]

BmTypes ==
  /\ bm_nvs \in BOOLEAN /\ bm_count \in Nat /\ nvs_count \in 0 .. BM_MAX
  /\ slot \in [Slots -> Entry \cup {Absent}]
  /\ op.kind \in {"idle", "set", "remove"} /\ (op.kind = "idle" => op = Idle)
  /\ page.at = "form" => page.index \in Int

(* The count on flash covers only entries that are there, and is the one in
   RAM or, where the commit of a new entry failed, one more.               *)
Counted ==
  /\ \A i \in Slots : i < nvs_count => slot[i] \in Entry
  /\ bm_nvs => nvs_count \in {bm_count, bm_count + 1}
  /\ ~bm_nvs => bm_count = 0 /\ op = Idle

SetOp == [kind : {"set"}, pc : {"entry", "count", "commit"}, append : BOOLEAN,
          index : Slots, entry : Entry, before : Seq(Entry)]
RemoveOp == [kind : {"remove"}, pc : {"count", "shift", "erase", "commit"},
             index : Slots, last : Slots, j : Slots, before : Seq(Entry)]

(* In the middle of a set all but its own entry is as it was.              *)
SetUnderWay ==
  op.kind = "set" =>
    /\ op \in SetOp /\ Len(op.before) = bm_count
    /\ IF op.append THEN op.index = bm_count ELSE op.index < bm_count
    /\ \A k \in 1 .. bm_count : k # op.index + 1 => slot[k - 1] = op.before[k]
    /\ op.pc = "entry" /\ ~op.append => slot[op.index] = op.before[op.index + 1]
    /\ op.pc # "entry" => slot[op.index] = op.entry
    /\ op.pc = "count" => op.append
    /\ op.pc = "commit" /\ op.append => nvs_count = op.index + 1

(* In the middle of a remove the entries from its index to j have moved up. *)
RemoveUnderWay ==
  op.kind = "remove" =>
    /\ op \in RemoveOp /\ Len(op.before) = op.last + 1
    /\ op.index <= op.j /\ op.j <= op.last
    /\ op.pc = "count" => bm_count = op.last + 1 /\ op.j = op.index
    /\ op.pc # "count" => bm_count = op.last /\ nvs_count = op.last
    /\ op.pc = "shift" => op.j < op.last
    /\ op.pc \in {"erase", "commit"} => op.j = op.last
    /\ \A i \in 0 .. op.last :
         IF i \in op.index .. op.j - 1 THEN slot[i] = op.before[i + 2]
         ELSE op.pc # "commit" \/ i < op.last => slot[i] = op.before[i + 1]

ListIsAsked == op = Idle => asked = IF bm_nvs THEN Listed(bm_count) ELSE << >>

BmInv == BmTypes /\ Counted /\ SetUnderWay /\ RemoveUnderWay /\ ListIsAsked

-----------------------------------------------------------------------------
(* The list.                                                               *)
LEMMA EntryIsThere == \A e \in Entry : e # Absent
<1> SUFFICES ASSUME NEW e \in Entry, e = Absent PROVE FALSE
  OBVIOUS
<1>1. DOMAIN e = {"url", "scheme"} /\ DOMAIN Absent = {"url"}
  BY DEF Entry, Absent
<1> QED BY <1>1

LEMMA ListedIs ==
  ASSUME BmTypes, Counted, bm_nvs
  PROVE  /\ bm_count \in 0 .. BM_MAX /\ Listed(bm_count) \in Seq(Entry)
         /\ Len(Listed(bm_count)) = bm_count
         /\ \A k \in 1 .. bm_count : Listed(bm_count)[k] = slot[k - 1] /\ slot[k - 1] \in Entry
<1>1. bm_count \in Nat /\ nvs_count \in 0 .. BM_MAX /\ BM_MAX \in Nat /\ bm_count <= nvs_count
  BY BmAssumption DEF BmTypes, Counted
<1>2. \A k \in 1 .. bm_count : k - 1 \in Slots /\ k - 1 < nvs_count
  BY <1>1 DEF Slots
<1>3. \A k \in 1 .. bm_count : slot[k - 1] \in Entry
  BY <1>2 DEF Counted
<1> QED BY <1>1, <1>3 DEF Listed

LEMMA Rendered ==
  ASSUME BmTypes, Counted
  PROVE  bm_render_links = IF bm_nvs THEN Listed(bm_count) ELSE << >>
<1>1. bm_count \in Nat
  BY DEF BmTypes
<1>2. CASE ~bm_nvs
  <2>1. Readable = {}
    BY <1>2 DEF Readable, bookmarks_count, Counted
  <2>2. Cardinality(Readable) = 0
    BY <2>1, FS_EmptySet
  <2> QED BY <1>2, <2>2 DEF bm_render_links
<1>3. CASE bm_nvs
  <2>1. \A i \in 0 .. bm_count - 1 : bookmarks_get(i) = slot[i] /\ slot[i] # Absent
    <3>1. ASSUME NEW i \in 0 .. bm_count - 1 PROVE slot[i] \in Entry
      <4>1. i + 1 \in 1 .. bm_count /\ (i + 1) - 1 = i
        BY <1>1
      <4> QED BY <1>3, <4>1, ListedIs
    <3> QED BY <1>1, <1>3, <3>1, EntryIsThere DEF bookmarks_get
  <2>2. Readable = 0 .. bm_count - 1
    BY <2>1 DEF Readable, bookmarks_count
  <2>3. Cardinality(Readable) = bm_count
    BY <1>1, <2>2, FS_Interval
  <2>4. ASSUME NEW i \in Readable PROVE LinksBefore(i) = i
    <3>1. {j \in Readable : j < i} = 0 .. i - 1 /\ i \in Nat
      BY <1>1, <2>2, <2>4
    <3>2. Cardinality(0 .. i - 1) = i
      BY <3>1, FS_Interval
    <3> QED BY <3>1, <3>2 DEF LinksBefore
  <2>5. ASSUME NEW k \in 1 .. bm_count
        PROVE  bookmarks_get(CHOOSE i \in Readable : LinksBefore(i) = k - 1) = slot[k - 1]
    <3>1. k - 1 \in Readable /\ k - 1 \in 0 .. bm_count - 1
      BY <1>1, <2>2, <2>5
    <3>2. (CHOOSE i \in Readable : LinksBefore(i) = k - 1) = k - 1
      BY <2>4, <3>1
    <3> QED BY <2>1, <3>1, <3>2
  <2> QED BY <1>3, <2>3, <2>5 DEF bm_render_links, Listed
<1> QED BY <1>2, <1>3

-----------------------------------------------------------------------------
(* Requests that change nothing, and those that begin a change.            *)
LEMMA Unmoved ==
  ASSUME BmInv, UNCHANGED <<bm_nvs, bm_count, nvs_count, slot, op, asked>>,
         page'.at = "form" => page'.index \in Int
  PROVE  BmInv'
BY DEF BmInv, BmTypes, Counted, SetUnderWay, RemoveUnderWay, ListIsAsked, Listed

(* A request that is refused, a change that is given up: idle, the list as asked. *)
LEMMA BackToIdle ==
  ASSUME BmTypes, Counted, op' = Idle, UNCHANGED <<bm_nvs, bm_count, nvs_count, slot, page>>,
         asked' = IF bm_nvs THEN Listed(bm_count) ELSE << >>
  PROVE  BmInv'
<1>1. op'.kind = "idle"
  BY DEF Idle
<1>2. BmTypes' /\ Counted'
  BY <1>1 DEF BmTypes, Counted
<1>3. SetUnderWay' /\ RemoveUnderWay' /\ ListIsAsked'
  BY <1>1 DEF SetUnderWay, RemoveUnderWay, ListIsAsked, Listed
<1> QED BY <1>2, <1>3 DEF BmInv

LEMMA Normalized == \A in \in Inputs : normalize_url(in) \in Entry
<1> SUFFICES ASSUME NEW in \in Inputs PROVE normalize_url(in) \in Entry
  OBVIOUS
<1> DEFINE scheme == IF in.scheme = "none" THEN "http" ELSE in.scheme
<1>1. in.host \in {i.host : i \in Inputs} /\ scheme \in {i.scheme : i \in Inputs} \cup {"http"}
  OBVIOUS
<1>2. normalize_url(in) = [url |-> in.host, scheme |-> scheme]
  BY DEF normalize_url
<1> HIDE DEF scheme
<1> QED BY <1>1, <1>2 DEF Entry

LEMMA SaveBegins ==
  ASSUME BmInv, NEW in \in Inputs, handler_bm_save(in)
  PROVE  BmInv'
<1>1. /\ op = Idle /\ UNCHANGED <<bm_nvs, bm_count, nvs_count, slot, asked, page>>
      /\ BmTypes /\ Counted /\ ListIsAsked
  BY DEF handler_bm_save, bookmarks_set, flash, BmInv
<1> DEFINE index == page.index
           i == IF index < 0 THEN bm_count ELSE index
           o == [kind |-> "set", pc |-> "entry", append |-> index < 0, index |-> i,
                 entry |-> normalize_url(in), before |-> bm_render_links]
<1>2. CASE op' = Idle
  BY <1>1, <1>2, BackToIdle DEF ListIsAsked
<1>3. CASE /\ bm_nvs /\ op' = o
           /\ IF index < 0 THEN bm_count < BM_MAX ELSE index < bm_count
  <2>1. index \in Int /\ bm_count \in 0 .. BM_MAX /\ BM_MAX \in Nat
    BY <1>1, <1>3, ListedIs, BmAssumption DEF BmTypes, handler_bm_save
  <2>2. i \in Slots /\ (index < 0) \in BOOLEAN
    BY <1>3, <2>1 DEF Slots
  <2>3. /\ bm_render_links \in Seq(Entry) /\ Len(bm_render_links) = bm_count
        /\ \A k \in 1 .. bm_count : bm_render_links[k] = slot[k - 1]
    BY <1>1, <1>3, Rendered, ListedIs
  <2>4. normalize_url(in) \in Entry
    BY Normalized
  <2>5. IF index < 0 THEN i = bm_count ELSE i < bm_count
    BY <1>3
  <2>6. ~(index < 0) => i = index /\ slot[i] = bm_render_links[i + 1]
    <3> SUFFICES ASSUME ~(index < 0) PROVE slot[index] = bm_render_links[index + 1]
      OBVIOUS
    <3>1. index + 1 \in 1 .. bm_count /\ (index + 1) - 1 = index
      BY <1>3, <2>1
    <3> QED BY <2>3, <3>1
  <2> DEFINE apnd == index < 0
  <2> HIDE DEF index, i, apnd
  <2>7. o \in SetOp
    BY <2>2, <2>3, <2>4 DEF SetOp, apnd
  <2>8. BmTypes' /\ Counted'
    BY <1>1, <1>3 DEF BmTypes, Counted
  <2>9. /\ o.kind = "set" /\ o.pc = "entry" /\ o.index = i
        /\ o.before = bm_render_links /\ o.append = apnd
    BY DEF apnd
  <2>10. IF o.append THEN o.index = bm_count ELSE o.index < bm_count
    BY <2>5, <2>9 DEF apnd
  <2>11. ~o.append => slot[o.index] = o.before[o.index + 1]
    BY <2>6, <2>9 DEF apnd
  <2> HIDE DEF o
  <2>12. SetUnderWay'
    BY <1>1, <1>3, <2>3, <2>7, <2>9, <2>10, <2>11 DEF SetUnderWay
  <2>13. RemoveUnderWay' /\ ListIsAsked'
    BY <1>3, <2>9 DEF RemoveUnderWay, ListIsAsked, Idle
  <2> QED BY <2>8, <2>12, <2>13 DEF BmInv
<1> QED BY <1>2, <1>3 DEF handler_bm_save, bookmarks_set

LEMMA DelBegins ==
  ASSUME BmInv, NEW index \in Slots, handler_bm_del(index)
  PROVE  BmInv'
<1>1. /\ op = Idle /\ UNCHANGED <<bm_nvs, bm_count, nvs_count, slot, asked, page>>
      /\ BmTypes /\ Counted /\ ListIsAsked
  BY DEF handler_bm_del, bookmarks_remove, flash, BmInv
<1> DEFINE o == [kind |-> "remove", pc |-> "count", index |-> index,
                 last |-> bm_count - 1, j |-> index, before |-> bm_render_links]
<1>2. CASE op' = Idle
  BY <1>1, <1>2, BackToIdle DEF ListIsAsked
<1>3. CASE bm_nvs /\ index < bm_count /\ op' = o
  <2>1. index \in Nat /\ bm_count \in 0 .. BM_MAX /\ BM_MAX \in Nat
    BY <1>1, <1>3, ListedIs, BmAssumption DEF Slots
  <2>2. bm_count - 1 \in Slots /\ index <= bm_count - 1
    BY <1>3, <2>1 DEF Slots
  <2>3. /\ bm_render_links \in Seq(Entry) /\ Len(bm_render_links) = bm_count
        /\ \A k \in 1 .. bm_count : bm_render_links[k] = slot[k - 1]
    BY <1>1, <1>3, Rendered, ListedIs
  <2>4. \A k \in 0 .. bm_count - 1 : slot[k] = bm_render_links[k + 1]
    <3>1. ASSUME NEW k \in 0 .. bm_count - 1 PROVE slot[k] = bm_render_links[k + 1]
      <4>1. k + 1 \in 1 .. bm_count /\ (k + 1) - 1 = k
        BY <2>1
      <4> QED BY <2>3, <4>1
    <3> QED BY <3>1
  <2>5. o \in RemoveOp
    BY <2>2, <2>3 DEF RemoveOp
  <2>6. /\ o.kind = "remove" /\ o.pc = "count" /\ o.index = index /\ o.j = index
        /\ o.before = bm_render_links /\ o.last = bm_count - 1
    OBVIOUS
  <2> HIDE DEF o
  <2>7. BmTypes' /\ Counted'
    BY <1>1, <1>3, <2>6 DEF BmTypes, Counted
  <2>8. o.index .. o.j - 1 = {}
    BY <2>1, <2>6
  <2>9. RemoveUnderWay'
    BY <1>1, <1>3, <2>1, <2>2, <2>3, <2>4, <2>5, <2>6, <2>8 DEF RemoveUnderWay
  <2>10. SetUnderWay' /\ ListIsAsked'
    BY <1>3, <2>6 DEF SetUnderWay, ListIsAsked, Idle
  <2> QED BY <2>7, <2>9, <2>10 DEF BmInv
<1> QED BY <1>2, <1>3 DEF handler_bm_del, bookmarks_remove

-----------------------------------------------------------------------------
(* The steps of a set.                                                     *)
LEMMA EntrySet ==
  ASSUME BmInv, SetEntry
  PROVE  BmInv'
<1> DEFINE i == op.index
           pc == IF op.append THEN "count" ELSE "commit"
<1>1. /\ op.kind = "set" /\ op.pc = "entry"
      /\ slot' = [slot EXCEPT ![i] = op.entry] /\ op' = [op EXCEPT !.pc = pc]
      /\ UNCHANGED <<bm_nvs, bm_count, nvs_count, asked, page>>
  BY DEF SetEntry, Setting
<1>2. BmTypes /\ Counted /\ SetUnderWay
  BY DEF BmInv
<1>3. /\ op \in SetOp /\ op.entry \in Entry /\ i \in Slots /\ bm_nvs
      /\ op' \in SetOp /\ op'.kind = "set" /\ op'.pc = pc /\ op'.index = i
      /\ op'.append = op.append /\ op'.entry = op.entry /\ op'.before = op.before
  <2>1. op \in SetOp /\ bm_nvs
    BY <1>1, <1>2 DEF SetUnderWay, Counted, Idle
  <2> QED BY <1>1, <2>1 DEF SetOp
<1>4. /\ slot' \in [Slots -> Entry \cup {Absent}]
      /\ \A k \in Slots : slot'[k] = IF k = i THEN op.entry ELSE slot[k]
  BY <1>1, <1>2, <1>3 DEF BmTypes
<1>5. BmTypes'
  BY <1>1, <1>2, <1>3, <1>4 DEF BmTypes
<1>6. Counted'
  BY <1>1, <1>2, <1>3, <1>4 DEF Counted
<1>7. \A k \in 1 .. bm_count : k # i + 1 => slot'[k - 1] = slot[k - 1]
  <2>1. bm_count \in 0 .. BM_MAX
    BY <1>2, <1>3, ListedIs
  <2>2. \A k \in 1 .. bm_count : k - 1 \in Slots /\ (k # i + 1 => k - 1 # i)
    BY <1>3, <2>1, BmAssumption DEF Slots
  <2> QED BY <1>4, <2>2
<1>8. SetUnderWay'
  BY <1>1, <1>2, <1>3, <1>4, <1>7 DEF SetUnderWay
<1>9. RemoveUnderWay' /\ ListIsAsked'
  BY <1>3 DEF RemoveUnderWay, ListIsAsked, Idle
<1> QED BY <1>5, <1>6, <1>8, <1>9 DEF BmInv

LEMMA CountSet ==
  ASSUME BmInv, SetCount
  PROVE  BmInv'
<1>1. /\ op.kind = "set" /\ op.pc = "count" /\ nvs_count' = op.index + 1
      /\ op' = [op EXCEPT !.pc = "commit"]
      /\ UNCHANGED <<bm_nvs, bm_count, slot, asked, page>>
  BY DEF SetCount, Setting
<1>2. BmTypes /\ Counted /\ SetUnderWay
  BY DEF BmInv
<1>3. /\ op \in SetOp /\ op.entry \in Entry /\ op.index \in Slots /\ bm_nvs /\ op.append
      /\ op' \in SetOp /\ op'.kind = "set" /\ op'.pc = "commit" /\ op'.index = op.index
      /\ op'.append = op.append /\ op'.entry = op.entry /\ op'.before = op.before
  <2>1. op \in SetOp /\ bm_nvs /\ op.append
    BY <1>1, <1>2 DEF SetUnderWay, Counted, Idle
  <2> QED BY <1>1, <2>1 DEF SetOp
<1>4. op.index = bm_count /\ slot[op.index] \in Entry
  BY <1>1, <1>2, <1>3 DEF SetUnderWay
<1>5. nvs_count' = bm_count + 1 /\ nvs_count' \in 0 .. BM_MAX
  BY <1>1, <1>3, <1>4, BmAssumption DEF Slots
<1>6. BmTypes'
  BY <1>1, <1>2, <1>3, <1>5 DEF BmTypes
<1>7. Counted'
  <2>1. ASSUME NEW k \in Slots, k < nvs_count' PROVE slot[k] \in Entry
    <3>1. k = bm_count \/ k < nvs_count
      BY <1>2, <1>3, <1>5, <2>1 DEF Counted, BmTypes, Slots
    <3> QED BY <1>2, <1>4, <2>1, <3>1 DEF Counted
  <2> QED BY <1>1, <1>3, <1>5, <2>1 DEF Counted
<1>8. SetUnderWay'
  BY <1>1, <1>2, <1>3 DEF SetUnderWay
<1>9. RemoveUnderWay' /\ ListIsAsked'
  BY <1>3 DEF RemoveUnderWay, ListIsAsked, Idle
<1> QED BY <1>6, <1>7, <1>8, <1>9 DEF BmInv

(* What is written is the list with the entry put in.                      *)
LEMMA WrittenIsAfterSet ==
  ASSUME BmTypes, Counted, SetUnderWay, op.kind = "set", op.pc = "commit"
  PROVE  AfterSet = Listed(IF op.append THEN op.index + 1 ELSE bm_count)
<1>1. /\ bm_nvs /\ op.before \in Seq(Entry) /\ Len(op.before) = bm_count
      /\ op.entry \in Entry /\ op.index \in Nat /\ bm_count \in Nat
      /\ op.append \in BOOLEAN /\ slot[op.index] = op.entry
      /\ \A k \in 1 .. bm_count : k # op.index + 1 => slot[k - 1] = op.before[k]
      /\ IF op.append THEN op.index = bm_count ELSE op.index < bm_count
  <2>1. op \in SetOp /\ bm_nvs /\ slot[op.index] = op.entry
    BY DEF SetUnderWay, Counted, Idle
  <2> QED BY <2>1 DEF SetUnderWay, SetOp, BmTypes, Slots
<1>2. CASE op.append
  <2> DEFINE s == Append(op.before, op.entry)
  <2>1. /\ s \in Seq(Entry) /\ Len(s) = bm_count + 1
        /\ \A k \in 1 .. bm_count : s[k] = op.before[k]
        /\ s[bm_count + 1] = op.entry
    BY <1>1, AppendProperties
  <2>2. AfterSet = s
    BY <1>2 DEF AfterSet
  <2> HIDE DEF s
  <2>3. s = [k \in 1 .. bm_count + 1 |-> s[k]]
    BY <2>1
  <2>4. ASSUME NEW k \in 1 .. bm_count + 1 PROVE s[k] = slot[k - 1]
    <3>1. CASE k = bm_count + 1
      <4>1. k - 1 = op.index
        BY <1>1, <1>2, <3>1
      <4> QED BY <1>1, <2>1, <3>1, <4>1
    <3>2. CASE k # bm_count + 1
      <4>1. k \in 1 .. bm_count /\ k # op.index + 1
        BY <1>1, <1>2, <3>2
      <4> QED BY <1>1, <2>1, <4>1
    <3> QED BY <3>1, <3>2
  <2>5. Listed(bm_count + 1) = [k \in 1 .. bm_count + 1 |-> slot[k - 1]]
    BY DEF Listed
  <2>6. s = Listed(bm_count + 1)
    BY <2>3, <2>4, <2>5
  <2> QED BY <1>1, <1>2, <2>2, <2>6
<1>3. CASE ~op.append
  <2> DEFINE s == [op.before EXCEPT ![op.index + 1] = op.entry]
  <2>1. s = [k \in 1 .. bm_count |-> IF k = op.index + 1 THEN op.entry ELSE op.before[k]]
    BY <1>1, <1>3
  <2>2. \A k \in 1 .. bm_count : k = op.index + 1 => k - 1 = op.index
    BY <1>1
  <2>3. s = Listed(bm_count)
    BY <1>1, <2>1, <2>2 DEF Listed
  <2> QED BY <1>3, <2>3 DEF AfterSet
<1> QED BY <1>1, <1>2, <1>3

LEMMA CommitSet ==
  ASSUME BmInv, SetCommit
  PROVE  BmInv'
<1> DEFINE n == IF op.append THEN op.index + 1 ELSE bm_count
<1>1. /\ op.kind = "set" /\ op.pc = "commit" /\ op' = Idle
      /\ bm_count' = n /\ asked' = AfterSet
      /\ UNCHANGED <<bm_nvs, nvs_count, slot, page>>
  BY DEF SetCommit, Setting, flash
<1>2. BmTypes /\ Counted /\ SetUnderWay
  BY DEF BmInv
<1>3. asked' = Listed(n)
  BY <1>1, <1>2, WrittenIsAfterSet
<1>4. bm_nvs /\ n \in Nat /\ nvs_count \in {n, n + 1}
  <2>1. op \in SetOp /\ bm_nvs /\ (op.append => nvs_count = op.index + 1)
    BY <1>1, <1>2 DEF SetUnderWay, Counted, Idle
  <2>2. op.index \in Nat /\ op.append \in BOOLEAN
    BY <2>1 DEF SetOp, Slots
  <2> QED BY <1>2, <2>1, <2>2 DEF BmTypes, Counted
<1> HIDE DEF n
<1>5. op'.kind = "idle"
  BY <1>1 DEF Idle
<1>6. BmTypes'
  BY <1>1, <1>2, <1>4, <1>5 DEF BmTypes
<1>7. Counted'
  BY <1>1, <1>2, <1>4 DEF Counted
<1>8. SetUnderWay' /\ RemoveUnderWay'
  BY <1>5 DEF SetUnderWay, RemoveUnderWay
<1>9. ListIsAsked'
  BY <1>1, <1>3, <1>4 DEF ListIsAsked, Listed
<1> QED BY <1>6, <1>7, <1>8, <1>9 DEF BmInv

-----------------------------------------------------------------------------
(* The steps of a remove.                                                  *)
LEMMA RemoveFacts ==
  ASSUME BmTypes, Counted, RemoveUnderWay, op.kind = "remove"
  PROVE  /\ bm_nvs /\ op \in RemoveOp /\ op.before \in Seq(Entry) /\ Len(op.before) = op.last + 1
         /\ op.index \in Nat /\ op.j \in Nat /\ op.last \in Nat
         /\ op.index <= op.j /\ op.j <= op.last /\ op.last < BM_MAX /\ BM_MAX \in Nat
         /\ \A i \in 0 .. op.last : i \in Slots /\ op.before[i + 1] \in Entry
<1>1. /\ bm_nvs /\ op \in RemoveOp /\ Len(op.before) = op.last + 1
      /\ op.index <= op.j /\ op.j <= op.last
  BY DEF RemoveUnderWay, Counted, Idle
<1>2. /\ op.before \in Seq(Entry) /\ op.index \in Nat /\ op.j \in Nat /\ op.last \in Nat
      /\ op.last < BM_MAX /\ BM_MAX \in Nat
  BY <1>1, BmAssumption DEF RemoveOp, Slots
<1>3. ASSUME NEW i \in 0 .. op.last PROVE i \in Slots /\ op.before[i + 1] \in Entry
  <2>1. i + 1 \in 1 .. Len(op.before)
    BY <1>1, <1>2
  <2> QED BY <1>2, <2>1 DEF Slots
<1> QED BY <1>1, <1>2, <1>3

LEMMA CountRemoved ==
  ASSUME BmInv, RemoveCount
  PROVE  BmInv'
<1> DEFINE pc == NextShift(op.j)
<1>1. /\ op.kind = "remove" /\ op.pc = "count" /\ nvs_count' = op.last /\ bm_count' = op.last
      /\ op' = [op EXCEPT !.pc = pc]
      /\ UNCHANGED <<bm_nvs, slot, asked, page>>
  BY DEF RemoveCount, Removing
<1>2. BmTypes /\ Counted /\ RemoveUnderWay
  BY DEF BmInv
<1>3. pc = IF op.j < op.last THEN "shift" ELSE "erase"
  BY DEF NextShift
<1> HIDE DEF pc
<1>4. /\ bm_nvs /\ op \in RemoveOp /\ op.index <= op.j /\ op.j <= op.last
      /\ op.j \in Nat /\ op.last \in Nat /\ op.last < BM_MAX /\ BM_MAX \in Nat
  BY <1>1, <1>2, RemoveFacts
<1>5. /\ op' \in RemoveOp /\ op'.kind = "remove" /\ op'.pc = pc /\ op'.index = op.index
      /\ op'.last = op.last /\ op'.j = op.j /\ op'.before = op.before
  <2>1. pc \in {"count", "shift", "erase", "commit"}
    BY <1>3
  <2> QED BY <1>1, <1>4, <2>1 DEF RemoveOp
<1>6. nvs_count' \in 0 .. BM_MAX /\ bm_count' \in Nat /\ nvs_count' <= nvs_count
  <2>1. bm_count = op.last + 1 /\ nvs_count \in {bm_count, bm_count + 1}
    BY <1>1, <1>2, <1>4 DEF RemoveUnderWay, Counted
  <2> QED BY <1>1, <1>4, <2>1
<1>7. BmTypes'
  BY <1>1, <1>2, <1>5, <1>6 DEF BmTypes
<1>8. Counted'
  <2>1. \A i \in Slots : i < nvs_count' => i < nvs_count
    BY <1>2, <1>6 DEF Slots, BmTypes
  <2> QED BY <1>1, <1>2, <1>4, <1>6, <2>1 DEF Counted
<1>9. RemoveUnderWay'
  BY <1>1, <1>2, <1>3, <1>4, <1>5 DEF RemoveUnderWay
<1>10. SetUnderWay' /\ ListIsAsked'
  BY <1>5 DEF SetUnderWay, ListIsAsked, Idle
<1> QED BY <1>7, <1>8, <1>9, <1>10 DEF BmInv

LEMMA ShiftOne ==
  ASSUME BmInv, Shift
  PROVE  BmInv'
<1> DEFINE j == op.j
           pc == NextShift(op.j + 1)
<1>1. /\ op.kind = "remove" /\ op.pc = "shift"
      /\ slot' = IF slot[j + 1] = Absent THEN slot ELSE [slot EXCEPT ![j] = slot[j + 1]]
      /\ op' = [op EXCEPT !.j = j + 1, !.pc = pc]
      /\ UNCHANGED <<bm_nvs, bm_count, nvs_count, asked, page>>
  BY DEF Shift, Removing
<1>2. BmTypes /\ Counted /\ RemoveUnderWay
  BY DEF BmInv
<1>3. pc = IF j + 1 < op.last THEN "shift" ELSE "erase"
  BY DEF NextShift
<1> HIDE DEF pc
<1>4. /\ bm_nvs /\ op \in RemoveOp /\ op.index \in Nat /\ j \in Nat /\ op.last \in Nat
      /\ op.index <= j /\ j < op.last /\ op.last < BM_MAX /\ BM_MAX \in Nat
      /\ \A i \in 0 .. op.last : i \in Slots /\ op.before[i + 1] \in Entry
  BY <1>1, <1>2, RemoveFacts DEF RemoveUnderWay
<1>5. /\ op' \in RemoveOp /\ op'.kind = "remove" /\ op'.pc = pc /\ op'.index = op.index
      /\ op'.last = op.last /\ op'.j = j + 1 /\ op'.before = op.before
  <2>1. pc \in {"count", "shift", "erase", "commit"} /\ j + 1 \in Slots
    BY <1>3, <1>4 DEF Slots
  <2> QED BY <1>1, <1>4, <2>1 DEF RemoveOp
<1>6. slot[j + 1] = op.before[j + 2] /\ slot[j + 1] \in Entry
  <2>1. j + 1 \in 0 .. op.last /\ j + 1 \notin op.index .. j - 1 /\ (j + 1) + 1 = j + 2
    BY <1>4
  <2>2. slot[j + 1] = op.before[(j + 1) + 1]
    BY <1>1, <1>2, <2>1 DEF RemoveUnderWay
  <2> QED BY <1>4, <2>1, <2>2
<1>7. slot' = [slot EXCEPT ![j] = op.before[j + 2]]
  <2>1. slot[j + 1] # Absent
    BY <1>6, EntryIsThere
  <2> QED BY <1>1, <1>6, <2>1
<1>8. /\ slot' \in [Slots -> Entry \cup {Absent}]
      /\ \A i \in Slots : slot'[i] = IF i = j THEN op.before[j + 2] ELSE slot[i]
  BY <1>2, <1>6, <1>7 DEF BmTypes
<1>9. BmTypes'
  BY <1>1, <1>2, <1>5, <1>8 DEF BmTypes
<1>10. Counted'
  BY <1>1, <1>2, <1>4, <1>6, <1>8 DEF Counted
<1>11. ASSUME NEW i \in 0 .. op.last
       PROVE  IF i \in op.index .. j THEN slot'[i] = op.before[i + 2]
              ELSE slot'[i] = op.before[i + 1]
  <2>1. IF i \in op.index .. j - 1 THEN slot[i] = op.before[i + 2]
        ELSE slot[i] = op.before[i + 1]
    BY <1>1, <1>2, <1>11 DEF RemoveUnderWay
  <2>2. i \in Slots
    BY <1>4
  <2>3. CASE i = j
    <3>1. i \in op.index .. j
      BY <1>4, <2>3
    <3> QED BY <1>8, <2>2, <2>3, <3>1
  <2>4. CASE i # j
    <3>1. i \in op.index .. j <=> i \in op.index .. j - 1
      BY <1>4, <2>4
    <3> QED BY <1>8, <2>1, <2>2, <2>4, <3>1
  <2> QED BY <2>3, <2>4
<1>12. RemoveUnderWay'
  <2>1. op'.index .. op'.j - 1 = op.index .. j
    BY <1>4, <1>5
  <2>2. bm_count' = op.last /\ nvs_count' = op.last /\ Len(op'.before) = op'.last + 1
    BY <1>1, <1>2, <1>5 DEF RemoveUnderWay
  <2>3. op'.index <= op'.j /\ op'.j <= op'.last
    BY <1>4, <1>5
  <2>4. /\ op'.pc = "shift" => op'.j < op'.last
        /\ op'.pc = "erase" => op'.j = op'.last
        /\ op'.pc # "count" /\ op'.pc # "commit"
    BY <1>3, <1>4, <1>5
  <2> QED BY <1>5, <1>11, <2>1, <2>2, <2>3, <2>4 DEF RemoveUnderWay
<1>13. SetUnderWay' /\ ListIsAsked'
  BY <1>5 DEF SetUnderWay, ListIsAsked, Idle
<1> QED BY <1>9, <1>10, <1>12, <1>13 DEF BmInv

(* The key of the last entry is erased, or is left behind unread.          *)
LEMMA ErasedOrLeft ==
  ASSUME BmInv, op.kind = "remove", op.pc = "erase", op' = [op EXCEPT !.pc = "commit"],
         slot' \in {slot, [slot EXCEPT ![op.last] = Absent]},
         UNCHANGED <<bm_nvs, bm_count, nvs_count, asked, page>>
  PROVE  BmInv'
<1>1. BmTypes /\ Counted /\ RemoveUnderWay
  BY DEF BmInv
<1>2. /\ bm_nvs /\ op \in RemoveOp /\ op.last \in Nat /\ op.j = op.last
      /\ bm_count = op.last /\ nvs_count = op.last
      /\ \A i \in 0 .. op.last : i \in Slots
  BY <1>1, RemoveFacts DEF RemoveUnderWay
<1>3. /\ op' \in RemoveOp /\ op'.kind = "remove" /\ op'.pc = "commit" /\ op'.index = op.index
      /\ op'.last = op.last /\ op'.j = op.j /\ op'.before = op.before
  BY <1>2 DEF RemoveOp
<1>4. /\ slot' \in [Slots -> Entry \cup {Absent}]
      /\ \A i \in Slots : i # op.last => slot'[i] = slot[i]
  BY <1>1 DEF BmTypes
<1>5. BmTypes'
  BY <1>1, <1>3, <1>4 DEF BmTypes
<1>6. Counted'
  BY <1>1, <1>2, <1>4 DEF Counted
<1>7. ASSUME NEW i \in 0 .. op.last
      PROVE  IF i \in op.index .. op.j - 1 THEN slot'[i] = op.before[i + 2]
             ELSE i < op.last => slot'[i] = op.before[i + 1]
  <2>1. i \in Slots /\ (i \in op.index .. op.j - 1 => i # op.last) /\ (i < op.last => i # op.last)
    BY <1>2
  <2>2. IF i \in op.index .. op.j - 1 THEN slot[i] = op.before[i + 2]
        ELSE slot[i] = op.before[i + 1]
    BY <1>1, <1>7 DEF RemoveUnderWay
  <2> QED BY <1>4, <2>1, <2>2
<1>8. RemoveUnderWay'
  BY <1>1, <1>2, <1>3, <1>7 DEF RemoveUnderWay
<1>9. SetUnderWay' /\ ListIsAsked'
  BY <1>3 DEF SetUnderWay, ListIsAsked, Idle
<1> QED BY <1>5, <1>6, <1>8, <1>9 DEF BmInv

(* What is left is the list without the entry.                             *)
LEMMA LeftIsAfterRemove ==
  ASSUME BmTypes, Counted, RemoveUnderWay, op.kind = "remove", op.pc = "commit"
  PROVE  AfterRemove = Listed(bm_count)
<1> DEFINE b == op.before
           x == op.index
           l == op.last
           s == SubSeq(b, 1, x)
           u == SubSeq(b, x + 2, Len(b))
<1>1. /\ b \in Seq(Entry) /\ Len(b) = l + 1 /\ x \in Nat /\ l \in Nat /\ x <= l
      /\ bm_count = l /\ op.j = l
  BY RemoveFacts DEF RemoveUnderWay
<1>2. \A i \in 0 .. l - 1 : slot[i] = IF i >= x THEN b[i + 2] ELSE b[i + 1]
  <2>1. ASSUME NEW i \in 0 .. l - 1 PROVE slot[i] = IF i >= x THEN b[i + 2] ELSE b[i + 1]
    <3>1. i \in 0 .. op.last /\ i < op.last /\ (i \in op.index .. op.j - 1 <=> i >= x)
      BY <1>1
    <3> QED BY <3>1 DEF RemoveUnderWay
  <2> QED BY <2>1
<1> HIDE DEF b, x, l
<1>3. /\ s \in Seq(Entry) /\ Len(s) = x /\ \A k \in 1 .. x : s[k] = b[k]
  <2>1. 1 \in Int /\ x \in Int /\ \A k \in 1 .. x : k \in 1 .. Len(b)
    BY <1>1
  <2> QED BY <1>1, <2>1
<1>4. /\ u \in Seq(Entry) /\ Len(u) = l - x /\ \A k \in 1 .. l - x : u[k] = b[x + 1 + k]
  BY <1>1
<1> HIDE DEF s, u
<1> DEFINE a == s \o u
<1>5. /\ a \in Seq(Entry) /\ Len(a) = l
      /\ \A k \in 1 .. l : a[k] = IF k <= x THEN s[k] ELSE u[k - x]
  <2>1. /\ s \o u \in Seq(Entry) /\ Len(s \o u) = Len(s) + Len(u)
        /\ \A k \in 1 .. Len(s) + Len(u) : (s \o u)[k] = IF k <= Len(s) THEN s[k] ELSE u[k - Len(s)]
    BY <1>3, <1>4, ConcatProperties
  <2>2. Len(s) = x /\ Len(u) = l - x /\ x + (l - x) = l
    BY <1>1, <1>3, <1>4
  <2> QED BY <2>1, <2>2
<1>6. AfterRemove = a
  BY DEF AfterRemove, a, s, u, b, x
<1> HIDE DEF a
<1>7. ASSUME NEW k \in 1 .. l PROVE a[k] = slot[k - 1]
  <2>1. k - 1 \in 0 .. l - 1 /\ (k - 1) + 1 = k /\ (k - 1) + 2 = k + 1
    BY <1>1
  <2>2. CASE k <= x
    <3>1. ~(k - 1 >= x) /\ k \in 1 .. x
      BY <1>1, <2>2
    <3> QED BY <1>2, <1>3, <1>5, <2>1, <2>2, <3>1
  <2>3. CASE ~(k <= x)
    <3>1. k - 1 >= x /\ k - x \in 1 .. l - x /\ x + 1 + (k - x) = k + 1
      BY <1>1, <2>3
    <3> QED BY <1>2, <1>4, <1>5, <2>1, <2>3, <3>1
  <2> QED BY <2>2, <2>3
<1>8. a = [k \in 1 .. l |-> a[k]]
  BY <1>5
<1>9. Listed(l) = [k \in 1 .. l |-> slot[k - 1]]
  BY DEF Listed
<1> QED BY <1>1, <1>6, <1>7, <1>8, <1>9

LEMMA CommitRemoved ==
  ASSUME BmInv, RemoveCommit
  PROVE  BmInv'
<1>1. /\ op.kind = "remove" /\ op.pc = "commit" /\ op' = Idle /\ asked' = AfterRemove
      /\ UNCHANGED <<bm_nvs, bm_count, nvs_count, slot, page>>
  BY DEF RemoveCommit, Removing, flash
<1>2. BmTypes /\ Counted /\ RemoveUnderWay
  BY DEF BmInv
<1>3. bm_nvs /\ asked' = Listed(bm_count)
  BY <1>1, <1>2, RemoveFacts, LeftIsAfterRemove
<1> QED BY <1>1, <1>2, <1>3, BackToIdle

-----------------------------------------------------------------------------
(* Faults.                                                                 *)
LEMMA FailedWrite ==
  ASSUME BmInv, WriteFails
  PROVE  BmInv'
<1>1. BmTypes /\ Counted
  BY DEF BmInv
<1>2. CASE /\ Removing("erase") /\ op' = [op EXCEPT !.pc = "commit"]
           /\ UNCHANGED <<asked, bm_nvs, page, bm_count, flash>>
  BY <1>2, ErasedOrLeft DEF Removing, flash
<1>3. CASE /\ op' = Idle /\ asked' = bm_render_links
           /\ UNCHANGED <<bm_nvs, page, bm_count, flash>>
  BY <1>1, <1>3, Rendered, BackToIdle DEF flash
<1> QED BY <1>2, <1>3 DEF WriteFails

LEMMA Rebooted ==
  ASSUME BmInv, bookmarks_init
  PROVE  BmInv'
<1>1. BmTypes /\ Counted
  BY DEF BmInv
<1>2. op' = Idle /\ UNCHANGED <<nvs_count, slot, page>>
  BY DEF bookmarks_init, flash
<1>3. PICK opened \in BOOLEAN :
        /\ bm_nvs' = opened
        /\ bm_count' = IF ~opened THEN 0 ELSE IF nvs_count > BM_MAX THEN BM_MAX ELSE nvs_count
  BY DEF bookmarks_init
<1>4. asked' = IF bm_nvs' THEN Listed(bm_count') ELSE << >>
  BY DEF bookmarks_init
<1>5. nvs_count \in 0 .. BM_MAX /\ BM_MAX \in Nat /\ ~(nvs_count > BM_MAX)
  BY <1>1, BmAssumption DEF BmTypes
<1>6. bm_nvs' \in BOOLEAN /\ bm_count' = (IF bm_nvs' THEN nvs_count ELSE 0) /\ bm_count' \in Nat
  <2>1. CASE opened
    BY <1>3, <1>5, <2>1
  <2>2. CASE ~opened
    BY <1>3, <2>2
  <2> QED BY <2>1, <2>2
<1>7. op'.kind = "idle"
  BY <1>2 DEF Idle
<1>8. BmTypes'
  BY <1>1, <1>2, <1>6, <1>7 DEF BmTypes
<1>9. Counted'
  BY <1>1, <1>2, <1>6 DEF Counted
<1>10. SetUnderWay' /\ RemoveUnderWay'
  BY <1>7 DEF SetUnderWay, RemoveUnderWay
<1>11. ListIsAsked'
  BY <1>2, <1>4 DEF ListIsAsked, Listed
<1> QED BY <1>8, <1>9, <1>10, <1>11 DEF BmInv

-----------------------------------------------------------------------------
LEMMA BmStart == BmInit => BmInv
<1> SUFFICES ASSUME BmInit PROVE BmInv
  OBVIOUS
<1>1. op = Idle /\ op.kind = "idle" /\ page.at = "none"
  BY DEF BmInit, Idle, NoPage
<1>2. 0 \in 0 .. BM_MAX /\ bm_count = 0 /\ nvs_count = 0 /\ bm_nvs
  BY BmAssumption DEF BmInit
<1>3. BmTypes
  BY <1>1, <1>2 DEF BmInit, BmTypes
<1>4. Counted
  BY <1>2, BmAssumption DEF Counted, Slots
<1>5. SetUnderWay /\ RemoveUnderWay
  BY <1>1 DEF SetUnderWay, RemoveUnderWay
<1>6. ListIsAsked
  BY <1>2 DEF BmInit, ListIsAsked, Listed
<1> QED BY <1>3, <1>4, <1>5, <1>6 DEF BmInv

LEMMA BmStep == BmInv /\ [BmNext]_bmVars => BmInv'
<1> SUFFICES ASSUME BmInv, [BmNext]_bmVars PROVE BmInv'
  OBVIOUS
<1>1. CASE handler_bm_get
  <2>1. /\ UNCHANGED <<bm_nvs, bm_count, nvs_count, slot, op, asked>>
        /\ page'.at = "list"
    BY <1>1 DEF handler_bm_get, flash, List
  <2> QED BY <2>1, Unmoved
<1>2. ASSUME NEW index \in -1 .. BM_MAX, handler_bm_edit(index) PROVE BmInv'
  <2>1. UNCHANGED <<bm_nvs, bm_count, nvs_count, slot, op, asked>>
    BY <1>2 DEF handler_bm_edit, flash
  <2>2. page' \in {Form(index), Form(-1), List(bookmarks_count)}
    BY <1>2 DEF handler_bm_edit
  <2>3. page'.at = "form" => page'.index \in {index, -1}
    BY <2>2 DEF Form, List
  <2>4. index \in Int /\ -1 \in Int
    BY BmAssumption
  <2> QED BY <2>1, <2>3, <2>4, Unmoved
<1>3. ASSUME NEW in \in Inputs, handler_bm_save(in) PROVE BmInv'
  BY <1>3, SaveBegins
<1>4. ASSUME NEW k \in Slots, handler_bm_del(k) PROVE BmInv'
  BY <1>4, DelBegins
<1>5. CASE SetEntry \/ SetCount \/ SetCommit
  BY <1>5, EntrySet, CountSet, CommitSet
<1>6. CASE Erase
  BY <1>6, ErasedOrLeft DEF Erase, Removing
<1>7. CASE RemoveCount \/ Shift \/ RemoveCommit
  BY <1>7, CountRemoved, ShiftOne, CommitRemoved
<1>8. CASE WriteFails \/ bookmarks_init
  BY <1>8, FailedWrite, Rebooted
<1>9. CASE UNCHANGED bmVars
  <2>1. UNCHANGED <<bm_nvs, bm_count, nvs_count, slot, op, asked, page>>
    BY <1>9 DEF bmVars, flash
  <2> QED BY <2>1, Unmoved DEF BmInv, BmTypes
<1> QED BY <1>1, <1>2, <1>3, <1>4, <1>5, <1>6, <1>7, <1>8, <1>9 DEF BmNext

(* bookmarks.c:203-285: whatever was entered, edited and deleted, and whichever
   NVS call of it failed or lost its power, the pages show the list the
   requests add up to, and flash has its length - or one entry more, which no
   page shows.                                                             *)
THEOREM ListShown == BmSpec => []ListAsAsked
<1>1. BmInv => ListAsAsked
  BY Rendered DEF BmInv, ListAsAsked, ListIsAsked, Counted
<1> QED BY <1>1, BmStart, BmStep, PTL DEF BmSpec

(* bookmarks.c:227-228, 247-249: a power cut between any two NVS calls finds no
   missing entry within the count on flash, and all entries but the one that
   is being changed (and the last one, when one is deleted).               *)
LEMMA CutLosesOne == BmInv => InterruptedChange
<1> SUFFICES ASSUME BmInv PROVE InterruptedChange
  OBVIOUS
<1>1. BmTypes /\ Counted /\ SetUnderWay /\ RemoveUnderWay
  BY DEF BmInv
<1>2. Absent \notin OnFlash
  <2> SUFFICES ASSUME NEW i \in Slots, i < nvs_count, slot[i] = Absent PROVE FALSE
    BY DEF OnFlash
  <2> QED BY <1>1, EntryIsThere DEF Counted
<1>3. ASSUME op.kind = "set", NEW k \in DOMAIN op.before
      PROVE  k \in DOMAIN Listed(nvs_count) /\ Listed(nvs_count)[k] \in
               {op.before[k]} \union IF k = op.index + 1 THEN {op.entry} ELSE {}
  <2>1. op \in SetOp /\ bm_nvs /\ Len(op.before) = bm_count
    BY <1>1, <1>3 DEF SetUnderWay, Counted, Idle
  <2>2. k \in 1 .. bm_count /\ bm_count \in Nat /\ op.index \in Nat /\ op.append \in BOOLEAN
    BY <1>1, <1>3, <2>1 DEF SetOp, Slots, BmTypes
  <2>3. nvs_count \in Nat /\ bm_count <= nvs_count
    BY <1>1, <2>1, <2>2, BmAssumption DEF Counted, BmTypes
  <2>4. k \in DOMAIN Listed(nvs_count) /\ Listed(nvs_count)[k] = slot[k - 1]
    BY <2>2, <2>3 DEF Listed
  <2>5. CASE k # op.index + 1
    BY <1>1, <1>3, <2>2, <2>4, <2>5 DEF SetUnderWay
  <2>6. CASE k = op.index + 1
    <3>1. k - 1 = op.index /\ ~op.append
      BY <1>1, <1>3, <2>2, <2>6 DEF SetUnderWay
    <3>2. slot[op.index] = op.entry \/ slot[op.index] = op.before[k]
      BY <1>1, <1>3, <2>6, <3>1 DEF SetUnderWay
    <3> QED BY <2>4, <2>6, <3>1, <3>2
  <2> QED BY <2>5, <2>6
<1>4. ASSUME op.kind = "remove", NEW k \in DOMAIN op.before
      PROVE  op.before[k] \in OnFlash \/ k \in {op.index + 1, op.last + 1}
  <2> SUFFICES ASSUME k # op.index + 1, k # op.last + 1 PROVE op.before[k] \in OnFlash
    OBVIOUS
  <2>1. /\ op.before \in Seq(Entry) /\ Len(op.before) = op.last + 1 /\ op.last \in Nat
        /\ op.index \in Nat /\ op.j \in Nat /\ op.j <= op.last /\ bm_nvs
        /\ \A i \in 0 .. op.last : i \in Slots
    BY <1>1, <1>4, RemoveFacts
  <2>2. k \in 1 .. op.last
    BY <1>4, <2>1
  <2>3. nvs_count \in Nat /\ op.last <= nvs_count
    BY <1>1, <1>4, <2>1, BmAssumption DEF RemoveUnderWay, Counted, BmTypes
  <2>4. \A i \in 0 .. op.last - 1 : slot[i] \in OnFlash
    BY <2>1, <2>3 DEF OnFlash
  <2>5. CASE k - 2 \in op.index .. op.j - 1
    <3>1. k - 2 \in 0 .. op.last - 1 /\ k - 2 \in 0 .. op.last /\ (k - 2) + 2 = k
      BY <2>1, <2>2, <2>5
    <3>2. slot[k - 2] = op.before[(k - 2) + 2]
      BY <1>1, <1>4, <2>5, <3>1 DEF RemoveUnderWay
    <3> QED BY <2>4, <3>1, <3>2
  <2>6. CASE k - 2 \notin op.index .. op.j - 1
    <3>1. /\ k - 1 \in 0 .. op.last - 1 /\ k - 1 \in 0 .. op.last /\ k - 1 < op.last
          /\ (k - 1) + 1 = k
      BY <2>1, <2>2
    <3>2. k - 1 \notin op.index .. op.j - 1
      BY <2>1, <2>2, <2>6
    <3>3. slot[k - 1] = op.before[(k - 1) + 1]
      BY <1>1, <1>4, <3>1, <3>2 DEF RemoveUnderWay
    <3> QED BY <2>4, <3>1, <3>3
  <2> QED BY <2>5, <2>6
<1> QED BY <1>2, <1>3, <1>4 DEF InterruptedChange

(* bookmarks.c:227-228, 247-249: at every moment, a power cut or a failed write
   in the middle of any change included, the count on flash covers no missing
   entry and at most the one entry that is being changed is lost - and, in a
   delete, the last one of the list.                                       *)
THEOREM PowerCutLosesOne == BmSpec => []InterruptedChange
<1> QED BY BmStart, BmStep, CutLosesOne, PTL DEF BmSpec
=============================================================================
