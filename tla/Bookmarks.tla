------------------------------ MODULE Bookmarks ------------------------------
(***************************************************************************)
(* bookmarks.c: a list kept in NVS as one key per entry and a count, with  *)
(* a power cut or a failing write between any two NVS calls, and the pages *)
(* of web_ui.c that change it.  All of it runs in the HTTP server's task,  *)
(* one request at a time.                                                  *)
(***************************************************************************)
EXTENDS Integers, Sequences, FiniteSets

CONSTANTS BM_MAX,
          Inputs,              \* addresses a form may hold: [scheme, host, fits, bare]
          MaxBmOps, MaxBmFaults \* bounds: changes; failing calls and power cuts

ASSUME BmAssumption ==
  /\ BM_MAX \in Nat \ {0} /\ MaxBmOps \in Nat /\ MaxBmFaults \in Nat
  /\ Inputs \subseteq [scheme : {"none", "http", "https", "other"}, host : STRING,
                       fits : BOOLEAN, bare : BOOLEAN]

VARIABLES
  bm_nvs,               \* the namespace is open
  bm_count,             \* RAM
  nvs_count, slot,      \* flash: the count, the entry of each key
  op,                   \* the change being made
  page,                 \* the page the browser shows, old or not
  asked,                \* ghost: the list the user has asked for
  ops, faults

flash == <<nvs_count, slot>>
bmVars == <<bm_nvs, bm_count, flash, op, page, asked, ops, faults>>

Absent == [url |-> "absent"]
Idle == [kind |-> "idle"]
Slots == 0 .. BM_MAX - 1
NoPage == [at |-> "none"]
List(n) == [at |-> "list", count |-> n]
Form(index) == [at |-> "form", index |-> index]

BmInit ==
  /\ bm_nvs = TRUE /\ bm_count = 0
  /\ nvs_count = 0 /\ slot = [i \in Slots |-> Absent]
  /\ op = Idle /\ page = NoPage /\ asked = << >>
  /\ ops = 0 /\ faults = 0

bookmarks_count == bm_count
bookmarks_get(i) == IF bm_nvs /\ i >= 0 /\ i < bm_count THEN slot[i] ELSE Absent

\* The links of the status page in the list's order; entries that cannot be
\* read are left out.
Listed(count) == [k \in 1 .. count |-> slot[k - 1]]
Readable == {i \in 0 .. bookmarks_count - 1 : bookmarks_get(i) # Absent}
LinksBefore(i) == Cardinality({j \in Readable : j < i})
bm_render_links ==
  [k \in 1 .. Cardinality(Readable) |->
     bookmarks_get(CHOOSE i \in Readable : LinksBefore(i) = k - 1)]

\* The list with its numbers, and the form of an entry or of a new one.
handler_bm_get ==
  /\ op = Idle /\ page' = List(bookmarks_count)
  /\ UNCHANGED <<bm_nvs, bm_count, flash, op, asked, ops, faults>>

handler_bm_edit(index) ==
  /\ op = Idle
  /\ page' = IF bookmarks_get(index) # Absent THEN Form(index)
             ELSE IF bookmarks_count < BM_MAX THEN Form(-1)
             ELSE List(bookmarks_count)
  /\ UNCHANGED <<bm_nvs, bm_count, flash, op, asked, ops, faults>>

\* normalize_url() and is_bare_host().
Accepts(in) ==
  /\ in.fits
  /\ in.scheme # "other"
  /\ in.scheme = "none" => in.bare
normalize_url(in) ==
  [url |-> in.host, scheme |-> IF in.scheme = "none" THEN "http" ELSE in.scheme]

-----------------------------------------------------------------------------
(* bookmarks_set(): entry, count if it is a new one, commit. *)

\* Index -1 is a new entry.
bookmarks_set(index, in) ==
  /\ op = Idle /\ ops < MaxBmOps /\ ops' = ops + 1
  /\ IF /\ bm_nvs /\ Accepts(in)
        /\ IF index < 0 THEN bm_count < BM_MAX ELSE index < bm_count
     THEN op' = [kind |-> "set", pc |-> "entry", append |-> index < 0,
                 index |-> IF index < 0 THEN bm_count ELSE index,
                 entry |-> normalize_url(in), before |-> bm_render_links]
     ELSE op' = Idle
  /\ UNCHANGED <<bm_nvs, bm_count, flash, page, asked, faults>>

\* The browser goes on with the page it has.
handler_bm_save(in) == page.at = "form" /\ bookmarks_set(page.index, in)

\* What a set makes of the list it started from.
AfterSet == IF op.append THEN Append(op.before, op.entry)
            ELSE [op.before EXCEPT ![op.index + 1] = op.entry]

Setting(pc) == op.kind = "set" /\ op.pc = pc

SetEntry ==
  /\ Setting("entry")
  /\ slot' = [slot EXCEPT ![op.index] = op.entry]
  /\ op' = [op EXCEPT !.pc = IF op.append THEN "count" ELSE "commit"]
  /\ UNCHANGED <<bm_nvs, page, bm_count, nvs_count, asked, ops, faults>>

SetCount ==
  /\ Setting("count")
  /\ nvs_count' = op.index + 1
  /\ op' = [op EXCEPT !.pc = "commit"]
  /\ UNCHANGED <<bm_nvs, page, bm_count, slot, asked, ops, faults>>

SetCommit ==
  /\ Setting("commit")
  /\ bm_count' = IF op.append THEN op.index + 1 ELSE bm_count
  /\ asked' = AfterSet
  /\ op' = Idle
  /\ UNCHANGED <<bm_nvs, page, flash, ops, faults>>

-----------------------------------------------------------------------------
(* bookmarks_remove(): count, the entries above one by one, erase, commit. *)

bookmarks_remove(index) ==
  /\ op = Idle /\ ops < MaxBmOps /\ ops' = ops + 1
  /\ op' = IF bm_nvs /\ index >= 0 /\ index < bm_count
           THEN [kind |-> "remove", pc |-> "count", index |-> index,
                 last |-> bm_count - 1, j |-> index, before |-> bm_render_links]
           ELSE Idle
  /\ UNCHANGED <<bm_nvs, bm_count, flash, page, asked, faults>>

handler_bm_del(k) == page.at = "list" /\ k < page.count /\ bookmarks_remove(k)

AfterRemove ==
  SubSeq(op.before, 1, op.index) \o SubSeq(op.before, op.index + 2, Len(op.before))

Removing(pc) == op.kind = "remove" /\ op.pc = pc
NextShift(j) == IF j < op.last THEN "shift" ELSE "erase"

\* Mutant: the count is left to the end, as in the set.
RemoveCount_last ==
  /\ Removing("count")
  /\ op' = [op EXCEPT !.pc = NextShift(op.j)]
  /\ UNCHANGED <<bm_nvs, page, bm_count, flash, asked, ops, faults>>

RemoveCount ==
  /\ Removing("count")
  /\ nvs_count' = op.last /\ bm_count' = op.last
  /\ op' = [op EXCEPT !.pc = NextShift(op.j)]
  /\ UNCHANGED <<bm_nvs, page, slot, asked, ops, faults>>

\* Mutant: the entries move up from the far end.
Shift_backwards ==
  /\ Removing("shift")
  /\ LET j == op.last - 1 - (op.j - op.index)
     IN  slot' = [slot EXCEPT ![j] = slot[j + 1]]
  /\ op' = [op EXCEPT !.j = @ + 1, !.pc = NextShift(op.j + 1)]
  /\ UNCHANGED <<bm_nvs, page, bm_count, nvs_count, asked, ops, faults>>

Shift ==
  /\ Removing("shift")
  /\ slot' = IF slot[op.j + 1] = Absent THEN slot
             ELSE [slot EXCEPT ![op.j] = slot[op.j + 1]]
  /\ op' = [op EXCEPT !.j = @ + 1, !.pc = NextShift(op.j + 1)]
  /\ UNCHANGED <<bm_nvs, page, bm_count, nvs_count, asked, ops, faults>>

Erase ==
  /\ Removing("erase")
  /\ slot' = [slot EXCEPT ![op.last] = Absent]
  /\ op' = [op EXCEPT !.pc = "commit"]
  /\ UNCHANGED <<bm_nvs, page, bm_count, nvs_count, asked, ops, faults>>

RemoveCommit ==
  /\ Removing("commit")
  /\ asked' = AfterRemove
  /\ op' = Idle
  /\ UNCHANGED <<bm_nvs, page, bm_count, flash, ops, faults>>

-----------------------------------------------------------------------------
(* Faults.  After one the list the user sees is what there is. *)

\* An NVS call of the change fails and the change is given up; the key of a
\* removed entry that is not erased (260, 276) stays behind and nothing more.
WriteFails ==
  /\ op # Idle /\ faults < MaxBmFaults /\ faults' = faults + 1
  /\ IF Removing("erase")
     THEN op' = [op EXCEPT !.pc = "commit"] /\ UNCHANGED asked
     ELSE op' = Idle /\ asked' = bm_render_links
  /\ UNCHANGED <<bm_nvs, page, bm_count, flash, ops>>

\* Power goes and comes back: bookmarks_init().
bookmarks_init ==
  /\ faults < MaxBmFaults /\ faults' = faults + 1
  /\ op' = Idle
  /\ \E opened \in BOOLEAN :
       /\ bm_nvs' = opened
       /\ bm_count' = IF ~opened THEN 0
                      ELSE IF nvs_count > BM_MAX THEN BM_MAX ELSE nvs_count
  /\ asked' = IF bm_nvs' THEN Listed(bm_count') ELSE << >>
  /\ UNCHANGED <<flash, page, ops>>

BmNext ==
  \/ handler_bm_get \/ \E index \in -1 .. BM_MAX : handler_bm_edit(index)
  \/ \E in \in Inputs : handler_bm_save(in)
  \/ \E k \in Slots : handler_bm_del(k)
  \/ SetEntry \/ SetCount \/ SetCommit
  \/ RemoveCount \/ Shift \/ Erase \/ RemoveCommit
  \/ WriteFails \/ bookmarks_init

-----------------------------------------------------------------------------
(* bookmarks.c:203-285: between requests the pages list what was asked for, in
   its order, and it is what flash would give after a reboot - or one entry
   less, if the commit of a new one failed. *)
ListAsAsked ==
  op = Idle => /\ bm_render_links = asked
               /\ bm_nvs => nvs_count \in {bm_count, bm_count + 1}

OnFlash == {slot[i] : i \in {k \in Slots : k < nvs_count}}

(* bookmarks.c:227-228, 247-249: at no moment, power cut or not, does the count
   on flash include an entry that is not there, and a power cut in the middle
   of a change costs no entry but the one that is changed - and, in the middle
   of a delete, the last one of the list. *)
InterruptedChange ==
  /\ Absent \notin OnFlash
  /\ op.kind = "set" =>
       \A k \in DOMAIN op.before :
         k \in DOMAIN Listed(nvs_count) /\ Listed(nvs_count)[k] \in
           {op.before[k]} \union IF k = op.index + 1 THEN {op.entry} ELSE {}
  /\ op.kind = "remove" =>
       \A k \in DOMAIN op.before :
         op.before[k] \in OnFlash \/ k \in {op.index + 1, op.last + 1}
=============================================================================
