---------------------------- MODULE BridgeProofs ----------------------------
(***************************************************************************)
(* Proofs about Bridge, for any networks, any bounds and any mailbox.      *)
(***************************************************************************)
EXTENDS Bridge, SequenceTheorems, TLAPS

(* NatFollows is inductive once the mailbox count is a number.             *)
NatInv == mbox \in Nat /\ NatFollows

\* The steps that neither change a link nor touch NAPT or the mailbox.
NatFrame == UNCHANGED <<service, wifi_connected, mbox, tcp_pc, ev_pc, napt_on>>

LEMMA NatFrameStep == ASSUME NatInv, NatFrame PROVE NatInv'
BY DEF NatInv, NatFrame, NatFollows, ppp_link_up

(* A post leaves a message that will make NAPT follow.                     *)
LEMMA NatPost == ASSUME NatInv, update_nat PROVE NatInv'
BY DEF NatInv, NatFollows, update_nat

(* The tasks of gateway.c and the list API.                                *)
LEMMA NatOthers ==
  ASSUME NatInv, KickWakes \/ EditList PROVE NatInv'
<1>1. CASE KickWakes
  BY <1>1, NatFrameStep DEF KickWakes, NatFrame, evVars
<1>2. CASE EditList
  <2>1. CASE \E s \in Ssids : handler_wifi_add(s)
    BY <2>1, NatFrameStep
       DEF handler_wifi_add, wifi_list_add, Edit, EditStep, NatFrame, evVars
  <2>2. CASE UNCHANGED gwVars /\ \E s \in Ssids : wifi_list_remove(s)
    BY <2>2, NatFrameStep
       DEF wifi_list_remove, Edit, EditStep, NatFrame, gwVars, evVars
  <2>3. CASE UNCHANGED gwVars /\ (wifi_list_clear \/ Leave)
    BY <2>3, NatFrameStep
       DEF wifi_list_clear, Leave, Edit, EditStep, NatFrame, gwVars, evVars
  <2> QED BY <1>2, <2>1, <2>2, <2>3 DEF EditList
<1> QED BY <1>1, <1>2

LEMMA NatLink == ASSUME NatInv, LinkEvent \/ BtTask PROVE NatInv'
<1> USE DEF WifiUnchanged, evVars
<1>1. CASE Claims \/ GivesUp
  BY <1>1, NatFrameStep DEF Claims, GivesUp, BtStep, Link!Claim, Link!Release, NatFrame
<1>2. CASE RfcommOpened \/ RfcommClosed
  <2>1. UNCHANGED <<wifi_connected, mbox, tcp_pc, ev_pc, napt_on>>
    BY <1>2 DEF RfcommOpened, RfcommClosed, BtStep
  <2>2. ppp_link_up' = ppp_link_up
    BY <1>2 DEF RfcommOpened, RfcommClosed, Link!Offer, Link!Release, ppp_link_up
  <2> QED BY <2>1, <2>2 DEF NatInv, NatFollows
<1>3. CASE PppUp \/ PppDown \/ CloseServed
  BY <1>3 DEF PppUp, PppDown, CloseServed, TcpStep, BtStep, NatInv, NatFollows
<1>4. CASE CloseReturns
  <2>1. UNCHANGED <<wifi_connected, mbox, tcp_pc, ev_pc, napt_on>>
    BY <1>4 DEF CloseReturns, BtStep
  <2>2. ppp_link_up' = ppp_link_up
    BY <1>4 DEF CloseReturns, Link!Withdraw, ppp_link_up
  <2> QED BY <2>1, <2>2 DEF NatInv, NatFollows
<1>5. CASE ClosedShown
  BY <1>5, NatPost DEF ClosedShown
<1> QED BY <1>1, <1>2, <1>3, <1>4, <1>5 DEF LinkEvent, BtTask

LEMMA NatTcpip == ASSUME NatInv, TcpipTask PROVE NatInv'
<1> USE DEF WifiUnchanged, evVars
<1>1. CASE gw_on_ppp_up \/ gw_on_ppp_down
  BY <1>1, NatPost DEF gw_on_ppp_up, gw_on_ppp_down
<1>2. CASE PppShown
  BY <1>2 DEF PppShown, TcpStep, NatInv, NatFollows, ppp_link_up
<1>3. CASE update_nat_lwip_ctx
  BY <1>3 DEF update_nat_lwip_ctx, TcpStep, NatInv, NatFollows, ppp_link_up
<1> QED BY <1>1, <1>2, <1>3 DEF TcpipTask

(* wifi_multi.c: only the disconnect and the address change wifi_connected *)
(* and each is on its way to update_nat().                                 *)
LEMMA NatWifi ==
  ASSUME NatInv, UNCHANGED gwVars,
         \/ Driver \/ EventTask \/ CycleChecks \/ BeginScan \/ RetryWakes
         \/ Watchdog \/ Recovery
  PROVE  NatInv'
<1>1. UNCHANGED <<tcp_pc, napt_on>>
  BY DEF gwVars
<1>2. CASE Driver
  BY <1>1, <1>2, NatFrameStep
     DEF Driver, ScanEnds, Connects, ConnectFails, LinkLost, DriverStep, NatFrame,
         evVars
<1>3. CASE CycleChecks \/ BeginScan \/ RetryWakes
  BY <1>1, <1>3, NatFrameStep DEF CycleChecks, BeginScan, RetryWakes, NatFrame, evVars
<1>4. CASE Watchdog \/ Recovery
  BY <1>1, <1>4, NatFrameStep
     DEF Watchdog, Recovery, ResetDown, ResetCycle, ResetUp, RecoveryStep, NatFrame,
         evVars
<1>5. CASE ScanDone \/ CandidatesFound \/ wifi_try_candidate \/ TryConnects
  <2>1. UNCHANGED <<service, wifi_connected, mbox>>
    BY <1>5 DEF ScanDone, CandidatesFound, wifi_try_candidate, TryConnects, Event, EvStep
  <2>2. ev_pc \in {"idle", "scanned", "try", "connect"}
    BY <1>5 DEF ScanDone, CandidatesFound, wifi_try_candidate, TryConnects, Event, EvStep
  <2> QED BY <1>1, <2>1, <2>2 DEF NatInv, NatFollows, ppp_link_up
<1>6. CASE Disconnected \/ GotIp
  <2>1. ev_pc' \in {"ignored", "disconnected", "got_ip"}
    BY <1>6 DEF Disconnected, GotIp
  <2>2. UNCHANGED mbox
    BY <1>6 DEF Disconnected, GotIp, Event
  <2> QED BY <2>1, <2>2 DEF NatInv, NatFollows
<1>7. CASE EvRead
  BY <1>7, NatPost DEF EvRead
<1>8. CASE EvShow \/ CandidateLost \/ NetworkLost \/ BridgeLost \/ NothingToDo
  <2>1. UNCHANGED <<service, wifi_connected, mbox>>
    BY <1>8 DEF EvShow, CandidateLost, NetworkLost, BridgeLost, NothingToDo,
                EvAct, EvStep
  <2>2. ev_pc \in {"bridge", "wait_bt", "act"}
    BY <1>8 DEF EvShow, CandidateLost, NetworkLost, BridgeLost, NothingToDo,
                EvAct, EvStep
  <2> QED BY <1>1, <2>1, <2>2 DEF NatInv, NatFollows, ppp_link_up
<1> QED BY <1>2, <1>3, <1>4, <1>5, <1>6, <1>7, <1>8 DEF EventTask

LEMMA NatStep == NatInv /\ [Next]_vars => NatInv'
<1> SUFFICES ASSUME NatInv, [Next]_vars PROVE NatInv'
  OBVIOUS
<1>1. CASE UNCHANGED vars
  BY <1>1, NatFrameStep DEF vars, wifiVars, gwVars, evVars, NatFrame
<1>2. CASE Next
  BY <1>2, NatOthers, NatLink, NatTcpip, NatWifi DEF Next, Wifi
<1> QED BY <1>1, <1>2

(* NAPT is on exactly while PPP and WiFi are both up, or an update that    *)
(* makes it so is on its way: no interleaving of the three tasks that call *)
(* update_nat() leaves it behind (ppp_link.c, wifi_multi.c, gateway.c).    *)
THEOREM NatIsRight == Spec => []NatFollows
<1>1. Init => NatInv
  <2> SUFFICES ASSUME Init PROVE NatInv
    OBVIOUS
  <2>1. service = "none" /\ mbox = 0 /\ napt_on = FALSE
    BY DEF Init, WifiInit, Link!Init
  <2>2. (ppp_link_up /\ wifi_connected) = FALSE
    BY <2>1 DEF ppp_link_up
  <2> QED BY <2>1, <2>2 DEF NatInv, NatFollows
<1>2. NatInv => NatFollows
  BY DEF NatInv
<1> QED BY <1>1, <1>2, NatStep, PTL DEF Spec

-----------------------------------------------------------------------------
(* The types, in five parts: what the hooks and the tcpip task use, the    *)
(* list, the connect cycle, the event task with the driver, and the counts *)
(* that are bounded together.                                              *)
GwType ==
  /\ app_state \in AppStates /\ bt_connected \in BOOLEAN
  /\ service \in {"none", "ready", "up"} /\ owner \in Owners \cup {Nobody}
  /\ mbox \in 0..MboxSize
  /\ wifi_kick_running \in BOOLEAN /\ napt_on \in BOOLEAN
  /\ bt_pc \in {"loop", "close", "closing", "closed"}
  /\ tcp_pc \in {"idle", "up", "down", "bridge", "no_wifi", "wait_bt", "kick"}

ListType ==
  /\ saved \in SUBSET Ssids
  /\ edit_pc \in {"idle", "removed", "cleared"} /\ emptied \in BOOLEAN

CycleType ==
  /\ wifi_cur_ssid \in Ssids \cup {NoSsid}
  /\ wifi_connected \in BOOLEAN /\ wifi_ignore_disconnect \in BOOLEAN
  /\ wifi_retries \in 0..MaxRetries /\ scan_in_progress \in BOOLEAN
  /\ cands \in Seq(Ssids) /\ cand_attempts \in 0..(MaxAttempts - 1)
  /\ wifi_retry_running \in BOOLEAN

RadioType ==
  /\ recovery \in {"none", "created", "down", "clean"}
  /\ ev_pc \in {"idle", "scanned", "try", "connect", "ignored", "disconnected",
                "act", "got_ip", "bridge", "wait_bt"}
  /\ ev_st \in AppStates
  /\ radio \in {"idle", "connecting", "up", "off"} /\ scanning \in BOOLEAN
  /\ evq \in Seq(Events) /\ reset_raced \in BOOLEAN

CountType ==
  /\ {edits, races} \subseteq Nat /\ edits + races <= MaxUpsets
  /\ {checking, begins} \subseteq Nat /\ checking + begins <= MaxBegins

LEMMA TypeParts == TypeOK <=> GwType /\ ListType /\ CycleType /\ RadioType /\ CountType
BY DEF TypeOK, GwType, ListType, CycleType, RadioType, CountType

LEMMA TypeAfter ==
  ASSUME GwType', ListType', CycleType', RadioType', CountType' PROVE TypeOK'
BY DEF TypeOK, GwType, ListType, CycleType, RadioType, CountType

(* The event task tries a candidate only while there is one, and runs no   *)
(* handler while a soft reset has them unregistered.                       *)
Places ==
  /\ ev_pc = "try" => cands # <<>>
  /\ recovery \in {"down", "clean"} => ev_pc = "idle"

(* The bounds are positive numbers.                                        *)
LEMMA Bounds ==
  /\ MaxRetries \in Nat /\ MaxRetries > 0 /\ MaxAttempts \in Nat /\ MaxAttempts > 0
  /\ MboxSize \in Nat /\ MboxSize > 0 /\ MaxBegins \in Nat /\ MaxBegins > 0
  /\ MaxUpsets \in Nat
BY WifiMultiAssumption

(* What the helpers of the connect cycle do to the types.                  *)
LEMMA NatSmaller ==
  ASSUME NEW a \in Nat, NEW m \in Nat PROVE Smaller(a, m) \in 0..m
BY DEF Smaller

LEMMA FailedType ==
  ASSUME CycleType, NEW st \in AppStates, wifi_cycle_failed(st)
  PROVE  /\ app_state' \in AppStates /\ wifi_retries' \in 0..MaxRetries
         /\ wifi_retry_running' \in BOOLEAN
<1>1. wifi_retries + 1 \in Nat
  BY DEF CycleType
<1>2. wifi_retries' \in 0..MaxRetries
  BY <1>1, NatSmaller, Bounds DEF wifi_cycle_failed
<1>3. app_state' \in AppStates /\ wifi_retry_running' \in BOOLEAN
  BY DEF wifi_cycle_failed, wifi_schedule_retry, AppStates, CycleType
<1> QED BY <1>2, <1>3

LEMMA ShowingType ==
  ASSUME app_state \in AppStates
  PROVE  /\ Showing("WIFI_SCANNING") \in AppStates
         /\ Showing("WIFI_CONNECTING") \in AppStates
BY DEF Showing, AppStates

LEMMA CandidatesType ==
  ASSUME saved \in SUBSET Ssids, NEW list \in Candidates
  PROVE  list \in Seq(Ssids)
<1>1. PICK n \in 0..Cardinality(saved) : list \in [1..n -> saved]
  BY DEF Candidates
<1>2. n \in Nat
  OBVIOUS
<1>3. list \in [1..n -> Ssids]
  BY <1>1
<1> QED BY <1>2, <1>3

LEMMA TailNotEmpty ==
  ASSUME NEW s \in Seq(Ssids), Len(s) > 1 PROVE Tail(s) # <<>>
<1>1. Len(s) \in Nat /\ s # <<>>
  OBVIOUS
<1>2. Len(Tail(s)) = Len(s) - 1
  BY <1>1, HeadTailProperties
<1>3. Len(Tail(s)) # 0
  BY <1>1, <1>2
<1> QED BY <1>3, EmptySeq

LEMMA ChecksType ==
  ASSUME CountType, app_state \in AppStates, UNCHANGED edits, BeginChecks
  PROVE  app_state' \in AppStates /\ CountType'
<1>1. app_state' \in AppStates
  BY DEF BeginChecks, AppStates
<1>2. CASE UNCHANGED beginVars
  BY <1>1, <1>2 DEF beginVars, CountType
<1>3. CASE /\ checking + begins < MaxBegins /\ checking' = checking + 1
           /\ UNCHANGED <<begins, races>>
  BY <1>1, <1>3, Bounds DEF CountType
<1> QED BY <1>2, <1>3 DEF BeginChecks

(* The hooks of gateway.c change none of the WiFi side's state.            *)
LEMMA GwFrame ==
  ASSUME TypeOK, WifiUnchanged, UNCHANGED beginVars
  PROVE  ListType' /\ CycleType' /\ RadioType' /\ CountType'
BY TypeParts
   DEF WifiUnchanged, ListType, CycleType, RadioType, CountType, listVars, candVars,
       evVars, radioVars, beginVars

LEMMA PostType == ASSUME mbox \in 0..MboxSize, update_nat PROVE mbox' \in 0..MboxSize
BY Bounds DEF update_nat

LEMMA TypeBt == ASSUME TypeOK, BtTask \/ Claims \/ GivesUp \/ RfcommOpened \/ RfcommClosed
                PROVE  TypeOK'
<1>1. ListType' /\ CycleType' /\ RadioType' /\ CountType'
  BY GwFrame
     DEF BtTask, Claims, GivesUp, RfcommOpened, RfcommClosed, CloseServed, CloseReturns,
         ClosedShown, BtStep, beginVars
<1>2. GwType'
  <2> USE TypeParts DEF GwType, BtStep
  <2>1. CASE Claims
    BY <2>1 DEF Claims, Link!Claim
  <2>2. CASE GivesUp \/ RfcommClosed
    BY <2>2 DEF GivesUp, RfcommClosed, Link!Release
  <2>3. CASE RfcommOpened
    BY <2>3 DEF RfcommOpened, Link!Offer
  <2>4. CASE CloseServed
    BY <2>4 DEF CloseServed, Link!Down
  <2>5. CASE CloseReturns
    BY <2>5 DEF CloseReturns, Link!Withdraw
  <2>6. CASE ClosedShown
    BY <2>6, PostType DEF ClosedShown, AppStates
  <2> QED BY <2>1, <2>2, <2>3, <2>4, <2>5, <2>6 DEF BtTask
<1> QED BY <1>1, <1>2, TypeAfter

LEMMA TypeTcpip == ASSUME TypeOK, TcpipTask \/ PppUp \/ PppDown PROVE TypeOK'
<1>1. ListType' /\ CycleType' /\ RadioType' /\ CountType'
  BY GwFrame
     DEF TcpipTask, PppUp, PppDown, gw_on_ppp_up, gw_on_ppp_down, PppShown,
         update_nat_lwip_ctx, TcpStep, beginVars
<1>2. GwType'
  <2> USE TypeParts DEF GwType, TcpStep
  <2>1. CASE PppUp \/ PppDown
    BY <2>1 DEF PppUp, PppDown, Link!Up, Link!Down
  <2>2. CASE gw_on_ppp_up \/ gw_on_ppp_down
    BY <2>2, PostType DEF gw_on_ppp_up, gw_on_ppp_down
  <2>3. CASE PppShown
    BY <2>3 DEF PppShown, AppStates
  <2>4. CASE update_nat_lwip_ctx
    <3>1. mbox' \in 0..MboxSize
      BY <2>4, Bounds DEF update_nat_lwip_ctx
    <3>2. napt_on' \in BOOLEAN
      BY <2>4 DEF update_nat_lwip_ctx
    <3> QED BY <3>1, <3>2, <2>4 DEF update_nat_lwip_ctx
  <2> QED BY <2>1, <2>2, <2>3, <2>4 DEF TcpipTask
<1> QED BY <1>1, <1>2, TypeAfter

(* A step that touches only the list and what its edits do to the driver.  *)
LEMMA DisconnectType ==
  ASSUME RadioType, esp_wifi_disconnect
  PROVE  /\ radio' \in {"idle", "connecting", "up", "off"} /\ scanning' \in BOOLEAN
         /\ evq' \in Seq(Events)
<1>1. "disconnected" \in Events
  BY DEF Events
<1>2. evq' \in Seq(Events)
  BY <1>1, AppendProperties DEF esp_wifi_disconnect, RadioType
<1> QED BY <1>2 DEF esp_wifi_disconnect, RadioType

LEMMA TypeEdit == ASSUME TypeOK, EditList PROVE TypeOK'
<1>1. /\ UNCHANGED <<bt_connected, service, mbox, owner, bt_pc, tcp_pc, napt_on>>
      /\ wifi_kick_running' \in BOOLEAN
  BY TypeParts DEF EditList, handler_wifi_add, wifi_list_add, wifi_list_remove, wifi_list_clear,
         Leave, Edit, EditStep, gwVars, GwType
<1>2. UNCHANGED <<wifi_connected, wifi_retries, scan_in_progress, cands, cand_attempts,
                  wifi_retry_running, recovery, ev_pc, ev_st, checking, begins, races,
                  reset_raced>>
  BY DEF EditList, handler_wifi_add, wifi_list_add, wifi_list_remove, wifi_list_clear,
         Leave, Edit, EditStep, candVars, evVars, beginVars
<1>3. CASE Leave
  <2>1. UNCHANGED <<saved, edits, emptied, wifi_cur_ssid, wifi_ignore_disconnect>>
    BY <1>3 DEF Leave
  <2>2. edit_pc' = "idle"
    BY <1>3 DEF Leave
  <2>3. app_state' \in AppStates
    BY <1>3, TypeParts DEF Leave, AppStates, GwType
  <2>4. /\ radio' \in {"idle", "connecting", "up", "off"} /\ scanning' \in BOOLEAN
        /\ evq' \in Seq(Events)
    BY <1>3, TypeParts, DisconnectType DEF Leave, radioVars, RadioType
  <2>5. GwType' /\ ListType'
    BY <1>1, <2>1, <2>2, <2>3, TypeParts DEF GwType, ListType
  <2>6. CycleType' /\ RadioType' /\ CountType'
    BY <1>2, <2>1, <2>4, TypeParts DEF CycleType, RadioType, CountType
  <2> QED BY <2>5, <2>6, TypeAfter
<1>4. CASE \E to \in {"idle", "removed", "cleared"} : Edit(to)
  <2>1. UNCHANGED <<app_state, radio, scanning, evq>>
    BY <1>4 DEF Edit, radioVars
  <2>2. CountType'
    BY <1>2, <1>4, TypeParts, Bounds DEF Edit, CountType
  <2>3. emptied' \in BOOLEAN /\ edit_pc' \in {"idle", "removed", "cleared"}
    BY <1>4, TypeParts DEF Edit, ListType
  <2>4. saved' \in SUBSET Ssids
    BY <1>4, TypeParts
       DEF EditList, handler_wifi_add, wifi_list_add, wifi_list_remove, wifi_list_clear,
           Leave, ListType
  <2>5. wifi_cur_ssid' \in Ssids \cup {NoSsid} /\ wifi_ignore_disconnect' \in BOOLEAN
    BY TypeParts
       DEF EditList, handler_wifi_add, wifi_list_add, wifi_list_remove, wifi_list_clear,
           Leave, CycleType
  <2>6. GwType' /\ ListType'
    BY <1>1, <2>1, <2>3, <2>4, TypeParts DEF GwType, ListType
  <2>7. CycleType' /\ RadioType'
    BY <1>2, <2>1, <2>5, TypeParts DEF CycleType, RadioType
  <2> QED BY <2>2, <2>6, <2>7, TypeAfter
<1> QED BY <1>3, <1>4
        DEF EditList, handler_wifi_add, wifi_list_add, wifi_list_remove, wifi_list_clear

(* The driver, the event task and the tasks of wifi_multi.c.               *)
LEMMA TypeDriver == ASSUME TypeOK, Driver, UNCHANGED gwVars PROVE TypeOK'
<1>1. GwType' /\ ListType' /\ CycleType' /\ CountType'
  BY TypeParts
     DEF Driver, ScanEnds, Connects, ConnectFails, LinkLost, DriverStep, GwType, ListType,
         CycleType, CountType, gwVars, listVars, candVars, beginVars
<1>2. evq' \in Seq(Events)
  BY TypeParts, AppendProperties
     DEF Driver, ScanEnds, Connects, ConnectFails, LinkLost, Post, RadioType, Events
<1>3. RadioType'
  BY <1>2, TypeParts
     DEF Driver, ScanEnds, Connects, ConnectFails, LinkLost, DriverStep, RadioType, evVars
<1> QED BY <1>1, <1>3, TypeAfter

LEMMA TypeKick ==
  ASSUME TypeOK, KickWakes \/ (RetryWakes /\ UNCHANGED gwVars) PROVE TypeOK'
<1>1. ListType' /\ RadioType' /\ UNCHANGED edits
  BY TypeParts DEF KickWakes, RetryWakes, ListType, RadioType, listVars, evVars, radioVars
<1>2. app_state' \in AppStates /\ CountType'
  <2>1. CASE BeginChecks
    BY <1>1, <2>1, TypeParts, ChecksType DEF GwType
  <2>2. CASE UNCHANGED <<app_state, beginVars>>
    BY <1>1, <2>2, TypeParts DEF GwType, CountType, beginVars
  <2> QED BY <2>1, <2>2 DEF KickWakes, RetryWakes
<1>3. GwType'
  BY <1>2, TypeParts DEF KickWakes, RetryWakes, GwType, gwVars
<1>4. CycleType'
  BY TypeParts DEF KickWakes, RetryWakes, CycleType, candVars
<1> QED BY <1>1, <1>2, <1>3, <1>4, TypeAfter

LEMMA TypeChecks == ASSUME TypeOK, CycleChecks, UNCHANGED gwVars PROVE TypeOK'
<1>1. GwType' /\ ListType' /\ RadioType'
  BY TypeParts
     DEF CycleChecks, GwType, ListType, RadioType, gwVars, listVars, evVars, radioVars
<1>2. CycleType'
  BY TypeParts DEF CycleChecks, wifi_schedule_retry, CycleType, candVars
<1>3. CountType'
  <2>1. /\ UNCHANGED edits /\ checking > 0 /\ checking' = checking - 1
        /\ begins' = begins \/ begins' = begins + 1
    BY DEF CycleChecks, listVars
  <2>2. races' = races \/ (edits + races < MaxUpsets /\ races' = races + 1)
    BY DEF CycleChecks
  <2> QED BY <2>1, <2>2, TypeParts, Bounds DEF CountType
<1> QED BY <1>1, <1>2, <1>3, TypeAfter

LEMMA TypeBegin == ASSUME TypeOK, BeginScan, UNCHANGED gwVars PROVE TypeOK'
<1>1. CountType'
  <2>1. begins > 0 /\ begins' = begins - 1 /\ UNCHANGED <<checking, races, edits>>
    BY DEF BeginScan, listVars
  <2> QED BY <2>1, TypeParts, Bounds DEF CountType
<1>2. /\ app_state' \in AppStates /\ wifi_retries' \in 0..MaxRetries
      /\ wifi_retry_running' \in BOOLEAN
  BY TypeParts, ShowingType, FailedType DEF BeginScan, GwType, CycleType
<1>3. scan_in_progress' \in BOOLEAN /\ scanning' \in BOOLEAN
  BY TypeParts DEF BeginScan, RadioType
<1>4. ListType' /\ RadioType'
  BY <1>3, TypeParts DEF BeginScan, ListType, RadioType, listVars, evVars
<1>5. GwType' /\ CycleType'
  BY <1>2, <1>3, TypeParts DEF BeginScan, GwType, CycleType, gwVars, candVars
<1> QED BY <1>1, <1>4, <1>5, TypeAfter

LEMMA TypeReset ==
  ASSUME TypeOK, Watchdog \/ Recovery, UNCHANGED gwVars PROVE TypeOK'
<1>1. ListType'
  BY TypeParts
     DEF Watchdog, Recovery, ResetDown, ResetCycle, ResetUp, RecoveryStep, ListType, listVars
<1>2. <<>> \in Seq(Ssids) /\ <<>> \in Seq(Events)
  OBVIOUS
<1>3. RadioType'
  BY <1>2, TypeParts
     DEF Watchdog, Recovery, ResetDown, ResetCycle, ResetUp, RecoveryStep, RadioType,
         evVars, radioVars, CycleType
<1>4. app_state' \in AppStates /\ CountType'
  <2>1. UNCHANGED edits
    BY DEF Watchdog, Recovery, ResetDown, ResetCycle, ResetUp, RecoveryStep, listVars
  <2>2. CASE BeginChecks
    BY <2>1, <2>2, TypeParts, ChecksType DEF GwType
  <2>3. CASE UNCHANGED <<app_state, beginVars>>
    BY <2>1, <2>3, TypeParts DEF GwType, CountType, beginVars
  <2> QED BY <2>2, <2>3 DEF Watchdog, Recovery, ResetDown, ResetCycle, ResetUp
<1>5. /\ scan_in_progress' \in BOOLEAN /\ cands' \in Seq(Ssids)
      /\ UNCHANGED wifi_retry_running
  BY <1>2, TypeParts
     DEF Watchdog, Recovery, ResetDown, ResetCycle, ResetUp, CycleType
<1>6. GwType' /\ CycleType'
  BY <1>4, <1>5, TypeParts
     DEF Watchdog, Recovery, ResetDown, ResetCycle, ResetUp, RecoveryStep, GwType,
         CycleType, gwVars
<1> QED BY <1>1, <1>3, <1>4, <1>6, TypeAfter

(* The handler of a scan, in its four steps.                               *)
LEMMA TypeScan ==
  ASSUME TypeOK, Places, UNCHANGED gwVars,
         ScanDone \/ CandidatesFound \/ wifi_try_candidate \/ TryConnects
  PROVE  TypeOK'
<1>1. UNCHANGED <<bt_connected, service, mbox, saved, edits, edit_pc, emptied, recovery,
                  checking, begins, races, reset_raced, wifi_connected,
                  wifi_ignore_disconnect, ev_st>>
  BY DEF ScanDone, CandidatesFound, wifi_try_candidate, TryConnects, Event, EvStep,
         listVars, beginVars
<1>2. evq' \in Seq(Events)
  BY TypeParts, HeadTailProperties
     DEF ScanDone, CandidatesFound, wifi_try_candidate, TryConnects, Event, EvStep, RadioType
<1>3. ev_pc' \in {"idle", "scanned", "try", "connect"}
  BY DEF ScanDone, CandidatesFound, wifi_try_candidate, TryConnects
<1>4. /\ cands' \in Seq(Ssids) /\ cand_attempts' \in 0..(MaxAttempts - 1)
      /\ wifi_cur_ssid' \in Ssids \cup {NoSsid}
      /\ app_state' \in AppStates /\ wifi_retry_running' \in BOOLEAN
      /\ wifi_retries' \in 0..MaxRetries /\ scan_in_progress' \in BOOLEAN
      /\ radio' \in {"idle", "connecting", "up", "off"} /\ scanning' \in BOOLEAN
  <2>1. CASE ScanDone
    BY <2>1, TypeParts DEF ScanDone, candVars, radioVars, GwType, CycleType, RadioType
  <2>2. CASE CandidatesFound
    <3>1. PICK list \in Candidates :
            /\ cands' = list
            /\ \/ wifi_cycle_failed(app_state) /\ UNCHANGED cand_attempts
               \/ /\ cand_attempts' = 0
                  /\ UNCHANGED <<app_state, wifi_retries, wifi_retry_running>>
      BY <2>2 DEF CandidatesFound
    <3>2. list \in Seq(Ssids)
      BY TypeParts, CandidatesType DEF ListType
    <3>3. /\ app_state' \in AppStates /\ wifi_retries' \in 0..MaxRetries
          /\ wifi_retry_running' \in BOOLEAN
      BY <3>1, TypeParts, FailedType DEF GwType, CycleType
    <3>4. 0 \in 0..(MaxAttempts - 1)
      BY Bounds
    <3> QED BY <2>2, <3>1, <3>2, <3>3, <3>4, TypeParts
            DEF CandidatesFound, EvStep, radioVars, CycleType, RadioType
  <2>3. CASE wifi_try_candidate
    <3>1. cands \in Seq(Ssids) /\ cands # <<>> /\ <<>> \in Seq(Ssids)
      BY <2>3, TypeParts DEF wifi_try_candidate, EvStep, Places, CycleType
    <3>2. Head(cands) \in Ssids
      BY <3>1
    <3>3. cands' \in Seq(Ssids) /\ wifi_cur_ssid' \in Ssids \cup {NoSsid}
      BY <2>3, <3>1, <3>2, TypeParts DEF wifi_try_candidate, CycleType
    <3>4. app_state' \in AppStates /\ wifi_retry_running' \in BOOLEAN
      BY <2>3, TypeParts, ShowingType
         DEF wifi_try_candidate, wifi_schedule_retry, GwType, CycleType
    <3> QED BY <2>3, <3>3, <3>4, TypeParts
            DEF wifi_try_candidate, EvStep, radioVars, CycleType, RadioType
  <2>4. CASE TryConnects
    BY <2>4, TypeParts
       DEF TryConnects, EvStep, esp_wifi_connect, candVars, GwType, CycleType, RadioType
  <2> QED BY <2>1, <2>2, <2>3, <2>4
<1>5. GwType' /\ ListType' /\ CountType'
  BY <1>1, <1>4, TypeParts DEF GwType, ListType, CountType, gwVars
<1>6. CycleType' /\ RadioType'
  BY <1>1, <1>2, <1>3, <1>4, TypeParts DEF CycleType, RadioType
<1> QED BY <1>5, <1>6, TypeAfter

LEMMA TypeLinkEvents == ASSUME TypeOK, Disconnected \/ GotIp, UNCHANGED gwVars PROVE TypeOK'
<1>1. evq' \in Seq(Events)
  BY TypeParts, HeadTailProperties DEF Disconnected, GotIp, Event, RadioType
<1>2. UNCHANGED <<bt_connected, service, mbox, saved, edits, edit_pc, emptied, recovery,
                  checking, begins, races, reset_raced, app_state, scan_in_progress,
                  wifi_retry_running, ev_st, radio, scanning>>
  BY DEF Disconnected, GotIp, Event, listVars, beginVars, radioVars
<1>3. <<>> \in Seq(Ssids) /\ 0 \in 0..MaxRetries
  BY Bounds
<1>4. /\ wifi_connected' \in BOOLEAN /\ wifi_ignore_disconnect' \in BOOLEAN
      /\ wifi_retries' \in 0..MaxRetries /\ cands' \in Seq(Ssids)
      /\ cand_attempts' = cand_attempts /\ wifi_cur_ssid' = wifi_cur_ssid
      /\ ev_pc' \in {"ignored", "disconnected", "got_ip"}
  BY <1>3, TypeParts
     DEF Disconnected, GotIp, Drop_candidates, candVars, CycleType
<1>5. GwType' /\ ListType' /\ CountType'
  BY <1>2, TypeParts DEF GwType, ListType, CountType, gwVars
<1>6. CycleType' /\ RadioType'
  BY <1>1, <1>2, <1>4, TypeParts DEF CycleType, RadioType
<1> QED BY <1>5, <1>6, TypeAfter

LEMMA TypeRead == ASSUME TypeOK, EvRead \/ EvShow, UNCHANGED gwVars PROVE TypeOK'
<1>1. mbox' \in 0..MboxSize
  BY TypeParts, PostType DEF EvRead, EvShow, GwType
<1>2. /\ app_state' \in AppStates /\ ev_st' \in AppStates
      /\ ev_pc' \in {"idle", "act", "bridge", "wait_bt"}
  BY TypeParts DEF EvRead, EvShow, EvStep, GwType, RadioType, AppStates
<1>3. GwType' /\ ListType' /\ CycleType' /\ CountType'
  BY <1>1, <1>2, TypeParts
     DEF EvRead, EvShow, EvStep, GwType, ListType, CycleType, CountType, gwVars, listVars,
         candVars, beginVars
<1>4. RadioType'
  BY <1>2, TypeParts DEF EvRead, EvShow, EvStep, RadioType, radioVars
<1> QED BY <1>3, <1>4, TypeAfter

LEMMA TypeAct ==
  ASSUME TypeOK, CandidateLost \/ NetworkLost \/ BridgeLost \/ NothingToDo,
         UNCHANGED gwVars
  PROVE  TypeOK'
<1>1. UNCHANGED <<bt_connected, service, mbox, saved, edits, edit_pc, emptied, recovery,
                  checking, begins, races, reset_raced, wifi_connected,
                  wifi_ignore_disconnect, scan_in_progress, evq>>
  BY DEF CandidateLost, NetworkLost, BridgeLost, NothingToDo, EvAct, EvStep, listVars,
         beginVars
<1>2. ev_pc' \in {"idle", "try"} /\ ev_st' = "WAIT_BT"
  BY DEF CandidateLost, NetworkLost, BridgeLost, NothingToDo, EvAct
<1>3. 0 \in 0..MaxRetries /\ 0 \in 0..(MaxAttempts - 1) /\ <<>> \in Seq(Ssids)
  BY Bounds
<1>4. /\ cands' \in Seq(Ssids) /\ cand_attempts' \in 0..(MaxAttempts - 1)
      /\ wifi_cur_ssid' \in Ssids \cup {NoSsid}
      /\ app_state' \in AppStates /\ wifi_retry_running' \in BOOLEAN
      /\ wifi_retries' \in 0..MaxRetries
      /\ radio' \in {"idle", "connecting", "up", "off"} /\ scanning' \in BOOLEAN
  <2>1. CASE Drop_candidates /\ wifi_schedule_retry
             /\ UNCHANGED <<app_state, wifi_retries, radioVars>>
    BY <1>3, <2>1, TypeParts
       DEF Drop_candidates, wifi_schedule_retry, radioVars, GwType, CycleType, RadioType
  <2>2. CASE /\ cand_attempts + 1 < MaxAttempts /\ cand_attempts' = cand_attempts + 1
             /\ esp_wifi_connect
             /\ UNCHANGED <<app_state, wifi_cur_ssid, wifi_retries, cands,
                            wifi_retry_running>>
    <3>1. cand_attempts' \in 0..(MaxAttempts - 1)
      BY <2>2, TypeParts, Bounds DEF CycleType
    <3>2. radio' \in {"idle", "connecting", "up", "off"} /\ scanning' \in BOOLEAN
      BY <2>2, TypeParts DEF esp_wifi_connect, RadioType
    <3> QED BY <2>2, <3>1, <3>2, TypeParts DEF GwType, CycleType
  <2>3. CASE /\ Len(cands) > 1 /\ cands' = Tail(cands) /\ cand_attempts' = 0
             /\ UNCHANGED <<app_state, wifi_cur_ssid, wifi_retries, wifi_retry_running,
                            radioVars>>
    <3>1. cands \in Seq(Ssids) /\ Tail(cands) \in Seq(Ssids)
      BY <2>3, TypeParts DEF CycleType
    <3> QED BY <1>3, <2>3, <3>1, TypeParts DEF radioVars, GwType, CycleType, RadioType
  <2>4. CASE /\ cands' = <<>> /\ cand_attempts' = 0 /\ wifi_cycle_failed(app_state)
             /\ UNCHANGED <<wifi_cur_ssid, radioVars>>
    BY <1>3, <2>4, TypeParts, FailedType DEF radioVars, GwType, CycleType, RadioType
  <2>5. CASE NetworkLost
    BY <2>5, TypeParts, FailedType
       DEF NetworkLost, candVars, radioVars, GwType, CycleType, RadioType
  <2>6. CASE BridgeLost
    BY <1>3, <2>6, TypeParts
       DEF BridgeLost, Drop_candidates, wifi_schedule_retry, candVars, radioVars, GwType,
           CycleType, RadioType, AppStates
  <2>7. CASE NothingToDo
    BY <2>7, TypeParts DEF NothingToDo, candVars, radioVars, GwType, CycleType, RadioType
  <2> QED BY <2>1, <2>2, <2>3, <2>4, <2>5, <2>6, <2>7 DEF CandidateLost
<1>5. GwType' /\ ListType' /\ CountType'
  BY <1>1, <1>4, TypeParts DEF GwType, ListType, CountType, gwVars
<1>6. "WAIT_BT" \in AppStates
  BY DEF AppStates
<1>7. CycleType' /\ RadioType'
  BY <1>1, <1>2, <1>4, <1>6, TypeParts DEF CycleType, RadioType
<1> QED BY <1>5, <1>7, TypeAfter

LEMMA TypeStep == TypeOK /\ Places /\ [Next]_vars => TypeOK'
<1> SUFFICES ASSUME TypeOK, Places, [Next]_vars PROVE TypeOK'
  OBVIOUS
<1>1. CASE UNCHANGED vars
  <2>1. GwType' /\ ListType' /\ CountType'
    BY <1>1, TypeParts
       DEF vars, wifiVars, gwVars, listVars, beginVars, GwType, ListType, CountType
  <2>2. CycleType' /\ RadioType'
    BY <1>1, TypeParts
       DEF vars, wifiVars, candVars, beginVars, evVars, radioVars, CycleType, RadioType
  <2> QED BY <2>1, <2>2, TypeAfter
<1>2. CASE UNCHANGED gwVars /\ EventTask
  BY <1>2, TypeScan, TypeLinkEvents, TypeRead, TypeAct DEF EventTask
<1>3. CASE Next
  BY <1>2, <1>3, TypeBt, TypeTcpip, TypeEdit, TypeDriver, TypeKick, TypeChecks, TypeBegin,
     TypeReset DEF Next, LinkEvent, Wifi
<1> QED BY <1>1, <1>3

LEMMA PlacesFrame ==
  ASSUME Places, UNCHANGED <<ev_pc, cands, recovery>> PROVE Places'
BY DEF Places

LEMMA PlacesStep == TypeOK /\ Places /\ [Next]_vars => Places'
<1> SUFFICES ASSUME TypeOK, Places, [Next]_vars PROVE Places'
  OBVIOUS
<1>1. CASE UNCHANGED vars
  BY <1>1, PlacesFrame DEF vars, wifiVars, evVars, candVars
<1>2. CASE LinkEvent \/ BtTask \/ TcpipTask
  BY <1>2, PlacesFrame
     DEF LinkEvent, BtTask, TcpipTask, Claims, GivesUp, RfcommOpened, RfcommClosed,
         CloseServed, CloseReturns, ClosedShown, BtStep, PppUp, PppDown, gw_on_ppp_up,
         gw_on_ppp_down, PppShown, update_nat_lwip_ctx, TcpStep, WifiUnchanged, evVars,
         candVars
<1>3. CASE KickWakes \/ RetryWakes \/ CycleChecks
  BY <1>3, PlacesFrame DEF KickWakes, RetryWakes, CycleChecks, evVars, candVars
<1>4. CASE BeginScan
  BY <1>4, PlacesFrame DEF BeginScan, evVars, candVars
<1>5. CASE EditList
  BY <1>5, PlacesFrame
     DEF EditList, handler_wifi_add, wifi_list_add, wifi_list_remove, wifi_list_clear,
         Leave, Edit, EditStep, evVars, candVars
<1>6. CASE Driver
  BY <1>6, PlacesFrame
     DEF Driver, ScanEnds, Connects, ConnectFails, LinkLost, DriverStep, evVars, candVars
<1>7. CASE Watchdog \/ Recovery
  BY <1>7
     DEF Watchdog, Recovery, ResetDown, ResetCycle, ResetUp, RecoveryStep, evVars, Places
<1>8. CASE EventTask
  <2>1. UNCHANGED recovery /\ (recovery \in {"none", "created"} \/ ev_pc # "idle")
    BY <1>8
       DEF EventTask, ScanDone, Disconnected, GotIp, Event, CandidatesFound,
           wifi_try_candidate, TryConnects, EvRead, EvShow, CandidateLost, NetworkLost,
           BridgeLost, NothingToDo, EvAct, EvStep
  <2>2. recovery \notin {"down", "clean"}
    BY <2>1 DEF Places
  <2>3. ev_pc' = "try" => cands' # <<>>
    <3>1. CASE CandidatesFound
      BY <3>1 DEF CandidatesFound
    <3>2. CASE CandidateLost
      <4>1. ASSUME Len(cands) > 1, cands' = Tail(cands) PROVE cands' # <<>>
        <5>1. cands \in Seq(Ssids)
          BY DEF TypeOK
        <5> QED BY <4>1, <5>1, TailNotEmpty
      <4> QED BY <3>2, <4>1 DEF CandidateLost, EvAct
    <3>3. CASE ev_pc' # "try"
      BY <3>3
    <3> QED BY <1>8, <3>1, <3>2, <3>3
            DEF EventTask, ScanDone, Disconnected, GotIp, wifi_try_candidate, TryConnects,
                EvRead, EvShow, NetworkLost, BridgeLost, NothingToDo, EvAct
  <2> QED BY <2>1, <2>2, <2>3 DEF Places
<1> QED BY <1>1, <1>2, <1>3, <1>4, <1>5, <1>6, <1>7, <1>8 DEF Next, Wifi

LEMMA TypeInit == Init => TypeOK /\ Places
<1> SUFFICES ASSUME Init PROVE TypeOK /\ Places
  OBVIOUS
<1>0. /\ 0 \in 0..MboxSize /\ 0 \in 0..MaxRetries /\ 0 \in 0..(MaxAttempts - 1)
  BY Bounds
<1>1. GwType
  <2>1. app_state \in AppStates
    BY DEF Init, WifiInit, AppStates
  <2> QED BY <1>0, <2>1 DEF Init, WifiInit, Link!Init, GwType
<1>2. ListType
  BY <1>0 DEF Init, WifiInit, ListType
<1>3. CycleType
  <2>1. <<>> \in Seq(Ssids)
    OBVIOUS
  <2> QED BY <1>0, <2>1 DEF Init, WifiInit, CycleType
<1>4. RadioType
  <2>1. <<>> \in Seq(Events)
    OBVIOUS
  <2> QED BY <2>1 DEF Init, WifiInit, RadioType, AppStates
<1>5. CountType
  BY Bounds DEF Init, WifiInit, CountType
<1>6. Places
  BY DEF Init, WifiInit, Places
<1> QED BY <1>1, <1>2, <1>3, <1>4, <1>5, <1>6, TypeParts

(* Every variable keeps to its declaration: the mailbox to its room, the   *)
(* retries and attempts to their limits, and each task to the places a     *)
(* handler has (gateway.c, wifi_multi.c).                                  *)
THEOREM BridgeTypes == Spec => []TypeOK
<1> QED BY TypeInit, TypeStep, PlacesStep, PTL DEF Spec

-----------------------------------------------------------------------------
(* The event queue: what is in it, and which link event came last.         *)
In(q, e) == \E i \in DOMAIN q : q[i] = e

LinkEvents == {"disconnected", "got_ip"}
NoLink(q)  == \A i \in DOMAIN q : q[i] \notin LinkEvents

LastLink(q, i) == /\ i \in DOMAIN q /\ q[i] \in LinkEvents
                  /\ \A j \in DOMAIN q : j > i => q[j] \notin LinkEvents

\* The last link event queued tells what the driver, in state r, has.
LinkIs(q, r) == \A i \in DOMAIN q : LastLink(q, i) => (q[i] = "got_ip" <=> r = "up")

\* At most one event of each kind, and the address before the disconnect.
Ordered(q) ==
  \A i, j \in DOMAIN q : q[i] \in LinkEvents /\ q[j] \in LinkEvents =>
     /\ q[i] = q[j] => i = j
     /\ q[i] = "got_ip" /\ q[j] = "disconnected" => i < j

(* The entries of a queue to which an event is appended ...                *)
LEMMA AppendEntries ==
  ASSUME NEW q \in Seq(Events), NEW e \in Events
  PROVE  /\ DOMAIN Append(q, e) = DOMAIN q \cup {Len(q) + 1}
         /\ \A i \in DOMAIN q :
               i \in Nat /\ i < Len(q) + 1 /\ Append(q, e)[i] = q[i]
         /\ Append(q, e)[Len(q) + 1] = e
         /\ Len(q) \in Nat
BY AppendProperties

(* ... and of one whose first event is taken.                              *)
LEMMA TailEntries ==
  ASSUME NEW q \in Seq(Events), q # <<>>
  PROVE  /\ \A i \in DOMAIN Tail(q) :
               i \in Nat /\ i + 1 \in DOMAIN q /\ Tail(q)[i] = q[i + 1]
         /\ \A i \in DOMAIN q :
               i \in Nat /\ i >= 1
               /\ (i > 1 => i - 1 \in DOMAIN Tail(q) /\ Tail(q)[i - 1] = q[i])
         /\ 1 \in DOMAIN q /\ q[1] = Head(q)
<1>1. Tail(q) \in Seq(Events) /\ Len(Tail(q)) = Len(q) - 1
  BY HeadTailProperties
<1>2. Len(q) \in Nat /\ Len(q) > 0 /\ DOMAIN q = 1..Len(q)
  BY EmptySeq
<1>3. DOMAIN Tail(q) = 1..(Len(q) - 1)
  BY <1>1
<1>4. \A i \in 1..(Len(q) - 1) : Tail(q)[i] = q[i + 1]
  BY <1>1
<1>5. q[1] = Head(q)
  OBVIOUS
<1> QED BY <1>2, <1>3, <1>4, <1>5

LEMMA InAppend ==
  ASSUME NEW q \in Seq(Events), NEW e \in Events, NEW x
  PROVE  In(Append(q, e), x) <=> In(q, x) \/ x = e
BY AppendEntries DEF In

LEMMA InTail ==
  ASSUME NEW q \in Seq(Events), q # <<>>, NEW x
  PROVE  /\ In(Tail(q), x) => In(q, x)
         /\ In(q, x) /\ Head(q) # x => In(Tail(q), x)
<1>1. In(Tail(q), x) => In(q, x)
  BY TailEntries DEF In
<1>2. ASSUME In(q, x), Head(q) # x PROVE In(Tail(q), x)
  <2>1. PICK i \in DOMAIN q : q[i] = x
    BY <1>2 DEF In
  <2>2. i \in Nat /\ i > 1
    BY <1>2, <2>1, TailEntries
  <2> QED BY <2>1, <2>2, TailEntries DEF In
<1> QED BY <1>1, <1>2

LEMMA NoLinkIn ==
  ASSUME NEW q PROVE NoLink(q) <=> ~In(q, "disconnected") /\ ~In(q, "got_ip")
BY DEF NoLink, In, LinkEvents

(* What the driver reports last is what it has.                            *)
LEMMA LinkIsAppend ==
  ASSUME NEW q \in Seq(Events), NEW r, LinkIs(q, r)
  PROVE  LinkIs(Append(q, "scan_done"), r)
<1>1. "scan_done" \in Events /\ "scan_done" \notin LinkEvents
  BY DEF Events, LinkEvents
<1> SUFFICES ASSUME NEW i \in DOMAIN Append(q, "scan_done"),
                    LastLink(Append(q, "scan_done"), i)
             PROVE  Append(q, "scan_done")[i] = "got_ip" <=> r = "up"
  BY DEF LinkIs
<1>2. i \in DOMAIN q
  BY <1>1, AppendEntries DEF LastLink
<1>3. LastLink(q, i)
  BY <1>1, <1>2, AppendEntries DEF LastLink
<1> QED BY <1>1, <1>2, <1>3, AppendEntries DEF LinkIs

LEMMA LinkIsReported ==
  ASSUME NEW q \in Seq(Events), NEW e \in LinkEvents, NEW r, e = "got_ip" <=> r = "up"
  PROVE  LinkIs(Append(q, e), r)
<1>1. e \in Events
  BY DEF Events, LinkEvents
<1> SUFFICES ASSUME NEW i \in DOMAIN Append(q, e), LastLink(Append(q, e), i)
             PROVE  Append(q, e)[i] = e
  BY DEF LinkIs
<1> QED BY <1>1, AppendEntries DEF LastLink

LEMMA LinkIsTail ==
  ASSUME NEW q \in Seq(Events), q # <<>>, NEW r, LinkIs(q, r)
  PROVE  /\ LinkIs(Tail(q), r)
         /\ Head(q) \in LinkEvents /\ NoLink(Tail(q)) =>
               (Head(q) = "got_ip" <=> r = "up")
<1>1. ASSUME NEW i \in DOMAIN Tail(q), LastLink(Tail(q), i)
      PROVE  Tail(q)[i] = "got_ip" <=> r = "up"
  <2>1. LastLink(q, i + 1)
    <3>1. i \in Nat /\ i + 1 \in DOMAIN q /\ q[i + 1] \in LinkEvents
      BY <1>1, TailEntries DEF LastLink
    <3>2. ASSUME NEW j \in DOMAIN q, j > i + 1 PROVE q[j] \notin LinkEvents
      <4>1. j \in Nat /\ j > 1 /\ j - 1 > i
        BY <3>1, <3>2, TailEntries
      <4> QED BY <1>1, <4>1, TailEntries DEF LastLink
    <3> QED BY <3>1, <3>2 DEF LastLink
  <2> QED BY <1>1, <2>1, TailEntries DEF LinkIs, LastLink
<1>2. ASSUME Head(q) \in LinkEvents, NoLink(Tail(q))
      PROVE  Head(q) = "got_ip" <=> r = "up"
  <2>1. LastLink(q, 1)
    BY <1>2, TailEntries DEF LastLink, NoLink
  <2> QED BY <2>1, TailEntries DEF LinkIs, LastLink
<1> QED BY <1>1, <1>2 DEF LinkIs

LEMMA OrderedAppend ==
  ASSUME NEW q \in Seq(Events), Ordered(q), NEW e \in Events,
         e = "disconnected" => ~In(q, "disconnected"),
         e = "got_ip" => NoLink(q)
  PROVE  Ordered(Append(q, e))
<1> SUFFICES ASSUME NEW i \in DOMAIN Append(q, e), NEW j \in DOMAIN Append(q, e),
                    Append(q, e)[i] \in LinkEvents, Append(q, e)[j] \in LinkEvents
             PROVE  /\ Append(q, e)[i] = Append(q, e)[j] => i = j
                    /\ Append(q, e)[i] = "got_ip" /\ Append(q, e)[j] = "disconnected"
                         => i < j
  BY DEF Ordered
<1>1. CASE i \in DOMAIN q /\ j \in DOMAIN q
  BY <1>1, AppendEntries DEF Ordered
<1>2. CASE i \in DOMAIN q /\ j = Len(q) + 1
  BY <1>2, AppendEntries DEF In, NoLink, LinkEvents
<1>3. CASE i = Len(q) + 1 /\ j \in DOMAIN q
  BY <1>3, AppendEntries DEF In, NoLink, LinkEvents
<1>4. CASE i = Len(q) + 1 /\ j = Len(q) + 1
  BY <1>4, AppendEntries
<1> QED BY <1>1, <1>2, <1>3, <1>4, AppendEntries

LEMMA OrderedTail ==
  ASSUME NEW q \in Seq(Events), q # <<>>, Ordered(q)
  PROVE  /\ Ordered(Tail(q))
         /\ Head(q) \in LinkEvents => ~In(Tail(q), Head(q))
         /\ Head(q) = "disconnected" => ~In(Tail(q), "got_ip")
<1>1. Ordered(Tail(q))
  BY TailEntries DEF Ordered
<1>2. ASSUME Head(q) \in LinkEvents PROVE ~In(Tail(q), Head(q))
  BY <1>2, TailEntries DEF Ordered, In
<1>3. ASSUME Head(q) = "disconnected" PROVE ~In(Tail(q), "got_ip")
  BY <1>3, TailEntries DEF Ordered, In, LinkEvents
<1> QED BY <1>1, <1>2, <1>3

-----------------------------------------------------------------------------
(* wifi_connected follows the driver.  What is inductive is that the last  *)
(* link event in the queue tells what the driver has; with no such event   *)
(* left, wifi_connected does.  A soft reset takes the queue away, and only *)
(* what it took an established connection from may be wrong afterwards.    *)
DriverInv ==
  /\ LinkIs(evq, radio)
  /\ NoLink(evq) => /\ radio = "up" => wifi_connected
                    /\ wifi_connected /\ ~reset_raced => radio = "up"
  /\ recovery \in {"down", "clean"} <=> radio = "off"
  /\ radio = "off" => evq = <<>> /\ ev_pc = "idle" /\ ~scanning

LEMMA DriverFrame ==
  ASSUME DriverInv, UNCHANGED <<evq, wifi_connected, reset_raced, recovery>>,
         radio' = "up" <=> radio = "up", radio' = "off" <=> radio = "off",
         radio = "off" => ev_pc' = "idle" /\ ~scanning'
  PROVE  DriverInv'
<1>1. LinkIs(evq, radio)'
  BY DEF DriverInv, LinkIs, LastLink
<1>2. NoLink(evq)' <=> NoLink(evq)
  BY DEF NoLink
<1> QED BY <1>1, <1>2 DEF DriverInv

(* esp_wifi_disconnect() reports what it does.                             *)
LEMMA DriverDisconnect ==
  ASSUME TypeOK, DriverInv, esp_wifi_disconnect,
         UNCHANGED <<wifi_connected, reset_raced, recovery, ev_pc>>
  PROVE  DriverInv'
<1>1. CASE Associated
  <2>1. evq' = Append(evq, "disconnected") /\ radio' = "idle"
    BY <1>1 DEF esp_wifi_disconnect
  <2>2. evq \in Seq(Events) /\ "disconnected" \in Events /\ "disconnected" \in LinkEvents
    BY DEF TypeOK, Events, LinkEvents
  <2>3. LinkIs(evq, radio)'
    BY <2>1, <2>2, LinkIsReported
  <2>4. ~NoLink(evq')
    BY <2>1, <2>2, InAppend, NoLinkIn
  <2> QED BY <1>1, <2>1, <2>3, <2>4 DEF DriverInv, Associated
<1>2. CASE ~Associated
  BY <1>2, DriverFrame DEF esp_wifi_disconnect, DriverInv
<1> QED BY <1>1, <1>2

LEMMA DriverEvents == ASSUME TypeOK, DriverInv, Driver PROVE DriverInv'
<1>0. /\ UNCHANGED <<wifi_connected, reset_raced, recovery, ev_pc>>
      /\ evq \in Seq(Events) /\ Events = {"scan_done", "disconnected", "got_ip"}
  BY DEF Driver, ScanEnds, Connects, ConnectFails, LinkLost, DriverStep, evVars, TypeOK,
         Events
<1>1. CASE ScanEnds
  <2>1. evq' = Append(evq, "scan_done") /\ radio' = radio
    BY <1>1 DEF ScanEnds, Post
  <2>2. LinkIs(evq, radio)'
    BY <1>0, <2>1, LinkIsAppend DEF DriverInv
  <2>3. NoLink(evq)' <=> NoLink(evq)
    BY <1>0, <2>1, InAppend, NoLinkIn
  <2>4. radio # "off"
    BY <1>1 DEF ScanEnds, DriverInv
  <2> QED BY <1>0, <2>1, <2>2, <2>3, <2>4 DEF DriverInv
<1>2. CASE Connects
  <2>1. evq' = Append(evq, "got_ip") /\ radio' = "up" /\ radio = "connecting"
    BY <1>2 DEF Connects, Post
  <2>2. LinkIs(evq, radio)'
    BY <1>0, <2>1, LinkIsReported DEF LinkEvents
  <2>3. ~NoLink(evq')
    BY <1>0, <2>1, InAppend, NoLinkIn
  <2> QED BY <1>0, <2>1, <2>2, <2>3 DEF DriverInv
<1>3. CASE ConnectFails \/ LinkLost
  <2>1. evq' = Append(evq, "disconnected") /\ radio' = "idle" /\ radio # "off"
    BY <1>3 DEF ConnectFails, LinkLost, Post
  <2>2. LinkIs(evq, radio)'
    BY <1>0, <2>1, LinkIsReported DEF LinkEvents
  <2>3. ~NoLink(evq')
    BY <1>0, <2>1, InAppend, NoLinkIn
  <2> QED BY <1>0, <2>1, <2>2, <2>3 DEF DriverInv
<1> QED BY <1>1, <1>2, <1>3 DEF Driver

(* Taking an event.  The handler of a link event sets wifi_connected to    *)
(* what that event says.                                                   *)
LEMMA DriverTake ==
  ASSUME TypeOK, DriverInv, Disconnected \/ GotIp \/ ScanDone PROVE DriverInv'
<1>0. /\ evq \in Seq(Events) /\ evq # <<>> /\ evq' = Tail(evq)
      /\ recovery \in {"none", "created"} /\ UNCHANGED <<recovery, reset_raced>>
      /\ radio # "off"
  BY DEF Disconnected, GotIp, ScanDone, Event, TypeOK, DriverInv
<1>1. LinkIs(evq', radio)
  BY <1>0, LinkIsTail DEF DriverInv
<1>2. CASE Disconnected
  <2>1. Head(evq) = "disconnected" /\ wifi_connected' = FALSE /\ radio' = radio
    BY <1>2 DEF Disconnected, Event, radioVars
  <2>2. NoLink(evq') => radio # "up"
    BY <1>0, <2>1, LinkIsTail DEF DriverInv, LinkEvents
  <2> QED BY <1>0, <1>1, <2>1, <2>2 DEF DriverInv
<1>3. CASE GotIp
  <2>1. Head(evq) = "got_ip" /\ wifi_connected' = TRUE /\ radio' = radio
    BY <1>3 DEF GotIp, Event, radioVars
  <2>2. NoLink(evq') => radio = "up"
    BY <1>0, <2>1, LinkIsTail DEF DriverInv, LinkEvents
  <2> QED BY <1>0, <1>1, <2>1, <2>2 DEF DriverInv
<1>4. CASE ScanDone
  <2>1. Head(evq) = "scan_done" /\ UNCHANGED <<wifi_connected, radio>>
    BY <1>4 DEF ScanDone, Event, radioVars
  <2>2. NoLink(evq') => NoLink(evq)
    BY <1>0, <2>1, InTail, NoLinkIn
  <2> QED BY <1>0, <1>1, <2>1, <2>2 DEF DriverInv
<1> QED BY <1>2, <1>3, <1>4

LEMMA DriverHandler ==
  ASSUME DriverInv,
         \/ CandidatesFound \/ wifi_try_candidate \/ TryConnects \/ EvRead \/ EvShow
         \/ CandidateLost \/ NetworkLost \/ BridgeLost \/ NothingToDo
  PROVE  DriverInv'
<1>1. ev_pc # "idle" /\ UNCHANGED <<evq, wifi_connected, reset_raced, recovery>>
  BY DEF CandidatesFound, wifi_try_candidate, TryConnects, EvRead, EvShow, CandidateLost,
         NetworkLost, BridgeLost, NothingToDo, EvAct, EvStep
<1>2. (radio' = "up" <=> radio = "up") /\ (radio' = "off" <=> radio = "off")
  BY DEF CandidatesFound, wifi_try_candidate, TryConnects, EvRead, EvShow, CandidateLost,
         NetworkLost, BridgeLost, NothingToDo, esp_wifi_connect, radioVars
<1> QED BY <1>1, <1>2, DriverFrame DEF DriverInv

LEMMA DriverReset == ASSUME DriverInv, Watchdog \/ Recovery PROVE DriverInv'
<1>1. CASE Watchdog
  BY <1>1 DEF Watchdog, RecoveryStep, radioVars, evVars, DriverInv, LinkIs, LastLink, NoLink
<1>2. CASE ResetDown
  <2>1. /\ radio' = "off" /\ evq' = <<>> /\ ev_pc' = "idle" /\ scanning' = FALSE
        /\ recovery' = "down"
    BY <1>2 DEF ResetDown, RecoveryStep, evVars
  <2>2. reset_raced' \/ ~wifi_connected'
    BY <1>2 DEF ResetDown, RecoveryStep
  <2> QED BY <2>1, <2>2 DEF DriverInv, LinkIs, LastLink, NoLink
<1>3. CASE ResetCycle
  BY <1>3 DEF ResetCycle, RecoveryStep, radioVars, evVars, DriverInv, LinkIs, LastLink,
              NoLink
<1>4. CASE ResetUp
  <2>1. recovery = "clean" /\ radio = "off" /\ evq = <<>>
    BY <1>4 DEF ResetUp, RecoveryStep, DriverInv
  <2>2. /\ radio' = "idle" /\ recovery' = "none"
        /\ UNCHANGED <<evq, wifi_connected, reset_raced>>
    BY <1>4 DEF ResetUp, RecoveryStep
  <2> QED BY <2>1, <2>2 DEF DriverInv, LinkIs, LastLink, NoLink
<1> QED BY <1>1, <1>2, <1>3, <1>4 DEF Recovery

LEMMA DriverStays == TypeOK /\ DriverInv /\ [Next]_vars => DriverInv'
<1> SUFFICES ASSUME TypeOK, DriverInv, [Next]_vars PROVE DriverInv'
  OBVIOUS
<1>1. CASE UNCHANGED vars
  BY <1>1, DriverFrame DEF vars, wifiVars, evVars, radioVars, DriverInv
<1>2. CASE LinkEvent \/ BtTask \/ TcpipTask \/ KickWakes
  <2>1. UNCHANGED <<evq, wifi_connected, reset_raced, recovery, radio, scanning, ev_pc>>
    BY <1>2 DEF LinkEvent, BtTask, TcpipTask, Claims, GivesUp, RfcommOpened, RfcommClosed,
         CloseServed, CloseReturns, ClosedShown, BtStep, PppUp, PppDown, gw_on_ppp_up,
         gw_on_ppp_down, PppShown, update_nat_lwip_ctx, TcpStep, KickWakes,
         WifiUnchanged, radioVars, evVars
  <2> QED BY <2>1, DriverFrame DEF DriverInv
<1>3. CASE EditList
  <2>1. UNCHANGED <<wifi_connected, reset_raced, recovery, ev_pc>>
    BY <1>3 DEF EditList, handler_wifi_add, wifi_list_add, wifi_list_remove,
                wifi_list_clear, Leave, Edit, EditStep, evVars
  <2>2. esp_wifi_disconnect \/ UNCHANGED <<evq, radio, scanning>>
    BY <1>3 DEF EditList, handler_wifi_add, wifi_list_add, wifi_list_remove,
                wifi_list_clear, Leave, Edit, radioVars
  <2> QED BY <2>1, <2>2, DriverFrame, DriverDisconnect DEF DriverInv
<1>4. CASE CycleChecks \/ BeginScan \/ RetryWakes
  <2>1. UNCHANGED <<evq, wifi_connected, reset_raced, recovery, radio, ev_pc>>
    BY <1>4 DEF CycleChecks, BeginScan, RetryWakes, evVars, radioVars
  <2>2. radio = "off" => UNCHANGED scanning
    BY <1>4 DEF CycleChecks, BeginScan, RetryWakes, radioVars
  <2> QED BY <2>1, <2>2, DriverFrame DEF DriverInv
<1> QED BY <1>1, <1>2, <1>3, <1>4, DriverEvents, DriverTake, DriverHandler, DriverReset
        DEF Next, Wifi, EventTask

(* Once the events are handled wifi_connected is what the driver has, for  *)
(* any interleaving of list edits, ignored disconnects, soft resets and    *)
(* connect cycles (wifi_multi.c:498-504, 570-574, 635-655), unless a soft  *)
(* reset took down a connection made after the watchdog had looked.        *)
THEOREM ConnectedIsKnown == Spec => []ConnectedIsReal
<1>1. Init => DriverInv
  BY DEF Init, WifiInit, DriverInv, LinkIs, LastLink, NoLink
<1>2. DriverInv => ConnectedIsReal
  BY DEF DriverInv, ConnectedIsReal, NoLink
<1> QED BY <1>1, <1>2, TypeInit, TypeStep, PlacesStep, DriverStays, PTL DEF Spec

-----------------------------------------------------------------------------
(* Reconnecting forever.  HandlerInv is what the event task knows while it *)
(* handles an event, LostInv what keeps a lost bridge going.               *)
Lost == app_state = "BRIDGE_NO_WIFI"
Got  == ev_pc \in {"got_ip", "bridge", "wait_bt"}

HandlerInv ==
  /\ wifi_connected /\ Lost => Got
  /\ ev_pc \in {"ignored", "disconnected", "act"} => ~wifi_connected
  /\ Got => cands = <<>>
  /\ ev_pc \in {"try", "connect"} => cands # <<>>
  /\ ev_pc = "act" /\ Lost => ev_st = "BRIDGE_NO_WIFI"
  /\ scan_in_progress => scanning \/ In(evq, "scan_done") \/ recovery = "down"
  /\ recovery = "clean" => ~scan_in_progress /\ cands = <<>>
  /\ ~emptied => ~wifi_ignore_disconnect /\ ev_pc # "ignored"
  /\ ~emptied /\ Lost => saved # {}

UnderWay ==
  \/ wifi_retry_running \/ checking > 0 \/ begins > 0
  \/ scan_in_progress \/ cands # <<>>
  \/ recovery # "none" \/ ev_pc # "idle"

LostInv ==
  ~emptied /\ Lost => UnderWay /\ (cands # <<>> => AttemptPending)

(* Tasks that leave the event task, the driver and the list alone.         *)
LEMMA LostFrame ==
  ASSUME HandlerInv, LostInv,
         UNCHANGED <<wifi_connected, ev_pc, ev_st, cands, scan_in_progress, scanning, evq,
                     recovery, radio, emptied, wifi_ignore_disconnect, saved>>,
         Lost' => Lost,
         Lost /\ ~emptied /\ (wifi_retry_running \/ checking > 0 \/ begins > 0) => UnderWay'
  PROVE  HandlerInv' /\ LostInv'
<1>1. HandlerInv'
  BY DEF HandlerInv, Got, In
<1>2. AttemptPending' <=> AttemptPending
  BY DEF AttemptPending, InQueue
<1>3. Lost /\ ~emptied => UnderWay'
  BY DEF LostInv, UnderWay
<1> QED BY <1>1, <1>2, <1>3 DEF LostInv

LEMMA LostOthers ==
  ASSUME HandlerInv, LostInv, LinkEvent \/ BtTask \/ TcpipTask
  PROVE  HandlerInv' /\ LostInv'
<1>1. WifiUnchanged /\ UNCHANGED beginVars
  BY DEF LinkEvent, BtTask, TcpipTask, Claims, GivesUp, RfcommOpened, RfcommClosed,
         CloseServed, CloseReturns, ClosedShown, BtStep, PppUp, PppDown, gw_on_ppp_up,
         gw_on_ppp_down, PppShown, update_nat_lwip_ctx, TcpStep, beginVars
<1>2. Lost' => Lost
  BY DEF LinkEvent, BtTask, TcpipTask, Claims, GivesUp, RfcommOpened, RfcommClosed,
         CloseServed, CloseReturns, ClosedShown, BtStep, PppUp, PppDown, gw_on_ppp_up,
         gw_on_ppp_down, PppShown, update_nat_lwip_ctx, TcpStep, Lost
<1> QED BY <1>1, <1>2, LostFrame
        DEF WifiUnchanged, listVars, candVars, evVars, radioVars, beginVars, UnderWay

(* A task that wants a cycle is checked, unless WiFi is connected.          *)
LEMMA ChecksKeep ==
  ASSUME BeginChecks, checking \in Nat, saved # {}
  PROVE  /\ UNCHANGED <<app_state, begins>>
         /\ checking > 0 \/ ~wifi_connected => checking' > 0
BY DEF BeginChecks, beginVars

LEMMA LostKick ==
  ASSUME TypeOK, HandlerInv, LostInv, KickWakes PROVE HandlerInv' /\ LostInv'
<1>1. checking \in Nat
  BY DEF TypeOK
<1>2. UNCHANGED <<app_state, checking, begins>> \/ (saved # {} /\ BeginChecks)
  BY DEF KickWakes, beginVars
<1>3. UNCHANGED <<app_state, begins>> /\ (checking > 0 => checking' > 0)
  BY <1>1, <1>2, ChecksKeep
<1> QED BY <1>3, LostFrame
        DEF KickWakes, listVars, candVars, evVars, radioVars, Lost, UnderWay

LEMMA LostRetry ==
  ASSUME TypeOK, HandlerInv, LostInv, RetryWakes PROVE HandlerInv' /\ LostInv'
<1>1. UNCHANGED <<wifi_connected, ev_pc, ev_st, cands, scan_in_progress, scanning, evq,
                  recovery, radio, emptied, wifi_ignore_disconnect, saved>>
  BY DEF RetryWakes, listVars, candVars, evVars, radioVars
<1>2. checking \in Nat
  BY DEF TypeOK
<1>3. UNCHANGED app_state
  BY <1>2, ChecksKeep DEF RetryWakes
<1>4. ASSUME Lost, ~emptied PROVE UnderWay'
  <2>1. CASE wifi_connected
    BY <1>1, <1>4, <2>1 DEF HandlerInv, Got, UnderWay
  <2>2. CASE ~wifi_connected
    <3>1. saved # {} /\ BeginChecks
      BY <1>4, <2>2 DEF HandlerInv, RetryWakes
    <3> QED BY <1>2, <2>2, <3>1, ChecksKeep DEF UnderWay
  <2> QED BY <2>1, <2>2
<1> QED BY <1>1, <1>3, <1>4, LostFrame DEF Lost

(* A task that finds a cycle under way leaves the bridge to it; one that   *)
(* passes goes on to scan, or asks for a retry.                            *)
LEMMA LostChecks ==
  ASSUME TypeOK, HandlerInv, LostInv, CycleChecks PROVE HandlerInv' /\ LostInv'
<1>1. UNCHANGED <<wifi_connected, ev_pc, ev_st, cands, scan_in_progress, scanning, evq,
                  recovery, radio, emptied, wifi_ignore_disconnect, saved, app_state>>
  BY DEF CycleChecks, listVars, candVars, evVars, radioVars
<1>2. begins \in Nat
  BY DEF TypeOK
<1>3. InCycle \/ wifi_retry_running' \/ begins' > 0
  BY <1>2 DEF CycleChecks, wifi_schedule_retry
<1>4. UnderWay'
  BY <1>1, <1>3 DEF InCycle, UnderWay
<1> QED BY <1>1, <1>4, LostFrame DEF Lost

(* A failed cycle of a lost bridge asks for the next one.                  *)
LEMMA FailedKeeps ==
  ASSUME NEW st, wifi_cycle_failed(st), Lost' PROVE st = "BRIDGE_NO_WIFI" /\ wifi_retry_running'
BY DEF wifi_cycle_failed, wifi_schedule_retry, Lost

LEMMA LostBegin ==
  ASSUME TypeOK, HandlerInv, LostInv, DriverInv, BeginScan PROVE HandlerInv' /\ LostInv'
<1>1. UNCHANGED <<wifi_connected, ev_pc, ev_st, cands, evq, recovery, radio, emptied,
                  wifi_ignore_disconnect, saved>>
  BY DEF BeginScan, listVars, candVars, evVars
<1>2. Lost' => Lost /\ (wifi_retry_running' \/ scan_in_progress')
  BY FailedKeeps DEF BeginScan, Showing, Lost
<1>3. scan_in_progress' => scanning' /\ recovery # "clean"
  BY DEF BeginScan, DriverInv
<1>4. HandlerInv'
  BY <1>1, <1>2, <1>3 DEF HandlerInv, Got, In, Lost
<1>5. AttemptPending' <=> AttemptPending
  BY <1>1 DEF AttemptPending, InQueue
<1> QED BY <1>1, <1>2, <1>4, <1>5 DEF LostInv, UnderWay

(* Outcomes of a scan or an attempt.                                       *)
LEMMA LostDriver ==
  ASSUME TypeOK, HandlerInv, LostInv, Driver PROVE HandlerInv' /\ LostInv'
<1>1. UNCHANGED <<wifi_connected, ev_pc, ev_st, cands, scan_in_progress, recovery, emptied,
                  wifi_ignore_disconnect, saved, app_state, wifi_retry_running, checking,
                  begins>>
  BY DEF Driver, ScanEnds, Connects, ConnectFails, LinkLost, DriverStep, listVars,
         candVars, evVars, beginVars
<1>2. PICK e \in Events :
        /\ evq' = Append(evq, e)
        /\ \/ e = "scan_done" /\ radio' = radio
           \/ e \in LinkEvents /\ UNCHANGED scanning
  BY DEF Driver, ScanEnds, Connects, ConnectFails, LinkLost, Post, Events, LinkEvents
<1>3. \A x : In(evq', x) <=> In(evq, x) \/ x = e
  BY <1>2, InAppend DEF TypeOK
<1>5. scanning => scanning' \/ In(evq', "scan_done")
  BY <1>2, <1>3
<1>6. AttemptPending => AttemptPending'
  BY <1>1, <1>2, <1>3 DEF AttemptPending, InQueue, In, LinkEvents
<1>7. HandlerInv'
  BY <1>1, <1>3, <1>5 DEF HandlerInv, Got, Lost
<1> QED BY <1>1, <1>6, <1>7 DEF LostInv, UnderWay, Lost

(* A connection asked for while not connected has an outcome to come.      *)
LEMMA ConnectPending ==
  ASSUME TypeOK, DriverInv, ~wifi_connected, radio # "off", esp_wifi_connect
  PROVE  radio' = "connecting" \/ In(evq, "disconnected") \/ In(evq, "got_ip")
<1>1. radio = "up" => ~NoLink(evq)
  BY DEF DriverInv
<1> QED BY <1>1, NoLinkIn DEF esp_wifi_connect, TypeOK

(* The handler of a scan, in its steps: the flag, the candidates, what is   *)
(* shown of the first one, and its attempt.                                *)
LEMMA LostScanDone ==
  ASSUME TypeOK, HandlerInv, LostInv, ScanDone PROVE HandlerInv' /\ LostInv'
<1>1. /\ UNCHANGED <<wifi_connected, ev_st, recovery, emptied, wifi_ignore_disconnect,
                     saved, app_state, cands, wifi_retry_running, checking, begins, radio>>
      /\ ev_pc = "idle" /\ ev_pc' = (IF scan_in_progress THEN "scanned" ELSE "idle")
      /\ scan_in_progress' = FALSE
      /\ evq \in Seq(Events) /\ evq # <<>> /\ evq' = Tail(evq) /\ Head(evq) = "scan_done"
  BY DEF ScanDone, Event, listVars, candVars, beginVars, radioVars, TypeOK
<1>2. \A x : x # "scan_done" => (In(evq', x) <=> In(evq, x))
  BY <1>1, InTail
<1>3. HandlerInv'
  BY <1>1 DEF HandlerInv, Got, Lost
<1>4. AttemptPending => AttemptPending'
  BY <1>1, <1>2 DEF AttemptPending, InQueue, In
<1>5. UnderWay => UnderWay'
  BY <1>1 DEF UnderWay
<1> QED BY <1>1, <1>3, <1>4, <1>5 DEF LostInv, Lost

\* What the steps of a handler leave alone.
HandlerFrame ==
  UNCHANGED <<wifi_connected, scan_in_progress, scanning, evq, recovery, emptied,
              wifi_ignore_disconnect, saved>>

LEMMA LostCandidates ==
  ASSUME TypeOK, DriverInv, HandlerInv, LostInv, CandidatesFound \/ wifi_try_candidate
  PROVE  HandlerInv' /\ LostInv'
<1>1. HandlerFrame
  BY DEF CandidatesFound, wifi_try_candidate, EvStep, HandlerFrame, listVars, radioVars
<1>2. /\ ev_pc \in {"scanned", "try"} /\ ev_pc' \in {"idle", "try", "connect"}
      /\ UNCHANGED ev_st
  BY DEF CandidatesFound, wifi_try_candidate, EvStep
<1>3. Lost' => Lost
  BY FailedKeeps DEF CandidatesFound, wifi_try_candidate, Showing, Lost
<1>4. ASSUME Lost' PROVE \/ cands' = <<>> /\ wifi_retry_running'
                         \/ cands' # <<>> /\ ev_pc' \in {"try", "connect"}
  <2>1. CASE CandidatesFound
    BY <1>4, <2>1, FailedKeeps DEF CandidatesFound
  <2>2. CASE wifi_try_candidate
    BY <1>2, <2>2 DEF wifi_try_candidate, wifi_schedule_retry, EvStep, HandlerInv
  <2> QED BY <2>1, <2>2
<1>5. ev_pc' \in {"try", "connect"} => cands' # <<>>
  BY <1>2 DEF CandidatesFound, wifi_try_candidate, EvStep, HandlerInv
<1>6. recovery # "clean"
  BY <1>2 DEF DriverInv
<1>7. HandlerInv'
  BY <1>1, <1>2, <1>3, <1>5, <1>6 DEF HandlerInv, HandlerFrame, Got, In
<1> QED BY <1>4, <1>7 DEF LostInv, UnderWay, AttemptPending

LEMMA LostConnect ==
  ASSUME TypeOK, DriverInv, HandlerInv, LostInv, TryConnects PROVE HandlerInv' /\ LostInv'
<1>1. /\ HandlerFrame
      /\ ev_pc = "connect" /\ ev_pc' = "idle" /\ UNCHANGED <<app_state, cands, ev_st>>
  BY DEF TryConnects, EvStep, HandlerFrame, listVars, candVars, esp_wifi_connect
<1>2. cands # <<>> /\ radio # "off"
  BY <1>1 DEF HandlerInv, DriverInv
<1>3. HandlerInv'
  BY <1>1 DEF HandlerInv, HandlerFrame, Got, Lost, In
<1>4. ASSUME Lost PROVE AttemptPending'
  <2>1. ~wifi_connected
    BY <1>1, <1>4 DEF HandlerInv, Got
  <2>2. radio' = "connecting" \/ In(evq, "disconnected") \/ In(evq, "got_ip")
    BY <1>2, <2>1, ConnectPending DEF TryConnects
  <2> QED BY <1>1, <2>2 DEF AttemptPending, InQueue, In, HandlerFrame
<1> QED BY <1>1, <1>2, <1>3, <1>4 DEF LostInv, UnderWay, Lost

LEMMA LostTake ==
  ASSUME TypeOK, HandlerInv, LostInv, Disconnected \/ GotIp PROVE HandlerInv' /\ LostInv'
<1>1. /\ UNCHANGED <<app_state, scan_in_progress, scanning, recovery, emptied, saved,
                     wifi_retry_running, radio>>
      /\ ev_pc = "idle"
      /\ evq \in Seq(Events) /\ evq # <<>> /\ evq' = Tail(evq)
      /\ Head(evq) # "scan_done"
  BY DEF Disconnected, GotIp, Event, listVars, radioVars, TypeOK
<1>2. In(evq, "scan_done") => In(evq', "scan_done")
  BY <1>1, InTail
<1>3. CASE Disconnected
  <2>1. /\ wifi_connected' = FALSE /\ wifi_ignore_disconnect' = FALSE
        /\ cands' = cands
        /\ ev_pc' = IF wifi_ignore_disconnect THEN "ignored" ELSE "disconnected"
    BY <1>3 DEF Disconnected, candVars
  <2>2. HandlerInv'
    BY <1>1, <1>2, <2>1 DEF HandlerInv, Got, Lost
  <2>3. ~emptied => ev_pc' = "disconnected"
    BY <2>1 DEF HandlerInv
  <2> QED BY <1>1, <2>2, <2>3 DEF LostInv, UnderWay, AttemptPending, Lost
<1>4. CASE GotIp
  <2>1. /\ ev_pc' = "got_ip" /\ cands' = <<>>
        /\ UNCHANGED wifi_ignore_disconnect
    BY <1>4 DEF GotIp, Drop_candidates
  <2>2. HandlerInv'
    BY <1>1, <1>2, <2>1 DEF HandlerInv, Got, Lost
  <2> QED BY <1>1, <2>1, <2>2 DEF LostInv, UnderWay, Lost
<1> QED BY <1>3, <1>4

LEMMA LostRead ==
  ASSUME TypeOK, HandlerInv, LostInv, EvRead \/ EvShow PROVE HandlerInv' /\ LostInv'
<1>1. UNCHANGED <<wifi_connected, cands, scan_in_progress, scanning, evq, recovery, radio,
                  emptied, wifi_ignore_disconnect, saved, wifi_retry_running>>
  BY DEF EvRead, EvShow, EvStep, listVars, candVars, radioVars
<1>2. CASE EvRead
  <2>1. UNCHANGED app_state
    BY <1>2 DEF EvRead
  <2>2. \/ ev_pc = "ignored" /\ ev_pc' = "idle"
        \/ ev_pc = "disconnected" /\ ev_pc' = "act" /\ ev_st' = app_state
        \/ ev_pc = "got_ip" /\ ev_pc' \in {"bridge", "wait_bt"}
    BY <1>2 DEF EvRead, EvStep
  <2>3. HandlerInv'
    BY <1>1, <2>1, <2>2 DEF HandlerInv, Got, Lost, In
  <2>4. ASSUME ~emptied, Lost PROVE UnderWay' /\ (cands' # <<>> => AttemptPending')
    BY <1>1, <2>2, <2>4 DEF HandlerInv, UnderWay, AttemptPending, Got
  <2> QED BY <1>1, <2>1, <2>3, <2>4 DEF LostInv, Lost
<1>3. CASE EvShow
  <2>1. ~Lost' /\ ev_pc' = "idle"
    BY <1>3 DEF EvShow, Lost
  <2>2. HandlerInv'
    BY <1>1, <2>1 DEF HandlerInv, Got, In
  <2> QED BY <2>1, <2>2 DEF LostInv
<1> QED BY <1>2, <1>3

LEMMA LostAct ==
  ASSUME TypeOK, DriverInv, HandlerInv, LostInv,
         CandidateLost \/ NetworkLost \/ BridgeLost \/ NothingToDo
  PROVE  HandlerInv' /\ LostInv'
<1>1. /\ UNCHANGED <<wifi_connected, scan_in_progress, scanning, evq, recovery,
                     emptied, wifi_ignore_disconnect, saved>>
      /\ ev_pc = "act" /\ ev_pc' \in {"idle", "try"}
  BY DEF CandidateLost, NetworkLost, BridgeLost, NothingToDo, EvAct, EvStep, listVars,
         esp_wifi_connect, radioVars
<1>2. ~wifi_connected /\ radio # "off"
  BY <1>1 DEF HandlerInv, DriverInv
<1>3. \A e : In(evq', e) <=> In(evq, e)
  BY <1>1 DEF In
<1>4. Lost' => saved # {} \/ Lost
  BY FailedKeeps
     DEF CandidateLost, NetworkLost, BridgeLost, NothingToDo, Lost
<1>5. recovery # "clean"
  BY <1>1 DEF DriverInv
<1>8. ev_pc' = "try" => cands' # <<>>
  <2> SUFFICES ASSUME ev_pc' = "try" PROVE cands' # <<>>
    OBVIOUS
  <2>1. Len(cands) > 1 /\ cands' = Tail(cands)
    BY DEF CandidateLost, NetworkLost, BridgeLost, NothingToDo, EvAct
  <2> QED BY <2>1, TailNotEmpty DEF TypeOK
<1>6. HandlerInv'
  BY <1>1, <1>2, <1>3, <1>4, <1>5, <1>8 DEF HandlerInv, Got
<1>7. ASSUME Lost', ~emptied
      PROVE  \/ cands' = <<>> /\ wifi_retry_running'
             \/ cands' # <<>> /\ AttemptPending'
  <2>1. CASE CandidateLost
    <3>1. CASE Drop_candidates /\ wifi_schedule_retry
      BY <3>1 DEF Drop_candidates, wifi_schedule_retry
    <3>2. CASE cands # <<>> /\ esp_wifi_connect /\ UNCHANGED cands
      BY <1>2, <1>3, <3>2, ConnectPending DEF AttemptPending, InQueue, In
    <3>3. CASE ev_pc' = "try"
      BY <1>8, <3>3 DEF AttemptPending
    <3>4. CASE cands' = <<>> /\ wifi_cycle_failed(app_state)
      BY <1>7, <3>4, FailedKeeps
    <3> QED BY <2>1, <3>1, <3>2, <3>3, <3>4 DEF CandidateLost, EvAct
  <2>2. CASE NetworkLost
    BY <1>7, <2>2, FailedKeeps DEF NetworkLost, candVars
  <2>3. CASE BridgeLost
    BY <1>7, <2>3 DEF BridgeLost, Drop_candidates, wifi_schedule_retry, Lost
  <2>4. CASE NothingToDo
    BY <1>1, <1>7, <2>4 DEF NothingToDo, MidCycle, HandlerInv, Lost
  <2> QED BY <2>1, <2>2, <2>3, <2>4
<1> QED BY <1>1, <1>6, <1>7 DEF LostInv, UnderWay

LEMMA LostReset ==
  ASSUME TypeOK, DriverInv, HandlerInv, LostInv, Watchdog \/ Recovery
  PROVE  HandlerInv' /\ LostInv'
<1>1. UNCHANGED <<wifi_connected, ev_pc, ev_st, emptied, wifi_ignore_disconnect, saved>>
  BY DEF Watchdog, Recovery, ResetDown, ResetCycle, ResetUp, RecoveryStep, listVars, evVars
<1>2. CASE Watchdog
  <2>1. /\ recovery' = "created" /\ recovery = "none"
        /\ UNCHANGED <<app_state, scan_in_progress, cands, scanning, evq>>
    BY <1>2 DEF Watchdog, RecoveryStep, radioVars
  <2>2. HandlerInv'
    BY <1>1, <2>1 DEF HandlerInv, Got, In, Lost
  <2> QED BY <2>1, <2>2 DEF LostInv, UnderWay, AttemptPending
<1>3. CASE ResetDown
  <2>1. recovery' = "down" /\ UNCHANGED <<app_state, scan_in_progress, cands>>
    BY <1>3 DEF ResetDown, RecoveryStep
  <2>2. HandlerInv'
    BY <1>1, <2>1 DEF HandlerInv, Got, In, Lost
  <2> QED BY <2>1, <2>2 DEF LostInv, UnderWay, AttemptPending
<1>4. CASE ResetCycle
  <2>1. /\ recovery' = "clean" /\ scan_in_progress' = FALSE /\ cands' = <<>>
        /\ UNCHANGED app_state /\ ev_pc = "idle"
    BY <1>4 DEF ResetCycle, RecoveryStep, DriverInv
  <2>2. HandlerInv'
    BY <1>1, <2>1 DEF HandlerInv, Got, In, Lost
  <2> QED BY <2>1, <2>2 DEF LostInv, UnderWay
<1>5. CASE ResetUp
  <2>1. /\ recovery = "clean" /\ recovery' = "none"
        /\ UNCHANGED <<scan_in_progress, cands>>
        /\ checking \in Nat
    BY <1>5 DEF ResetUp, RecoveryStep, TypeOK
  <2>2. ev_pc = "idle" /\ cands = <<>> /\ ~scan_in_progress
    BY <2>1 DEF HandlerInv, DriverInv
  <2>3. IF saved = {} THEN UNCHANGED app_state ELSE BeginChecks
    BY <1>5 DEF ResetUp
  <2>4. UNCHANGED app_state
    BY <2>1, <2>3, ChecksKeep
  <2>5. HandlerInv'
    BY <1>1, <2>1, <2>2, <2>4 DEF HandlerInv, Got, Lost
  <2>6. ASSUME Lost, ~emptied PROVE checking' > 0
    <3>1. saved # {} /\ ~wifi_connected
      BY <2>2, <2>6 DEF HandlerInv, Got
    <3> QED BY <2>1, <2>3, <3>1, ChecksKeep
  <2> QED BY <1>1, <2>1, <2>2, <2>4, <2>5, <2>6 DEF LostInv, UnderWay, Lost
<1> QED BY <1>2, <1>3, <1>4, <1>5 DEF Recovery

(* The list API.  What leaves the list empty is remembered in emptied, and *)
(* only wifi_list_clear() asks for a disconnect to be ignored.             *)
LEMMA LostEdit ==
  ASSUME TypeOK, HandlerInv, LostInv, EditList PROVE HandlerInv' /\ LostInv'
<1>1. UNCHANGED <<wifi_connected, ev_pc, ev_st, cands, scan_in_progress, scanning,
                  recovery, wifi_retry_running, checking, begins>>
  BY DEF EditList, handler_wifi_add, wifi_list_add, wifi_list_remove, wifi_list_clear,
         Leave, Edit, EditStep, radioVars, candVars, evVars, beginVars, esp_wifi_disconnect
<1>2. Lost' => Lost
  BY DEF EditList, handler_wifi_add, wifi_list_add, wifi_list_remove, wifi_list_clear,
         Leave, Edit, Lost
<1>3. \/ UNCHANGED <<radio, evq>>
      \/ /\ evq' = Append(evq, "disconnected")
         /\ radio' = "idle"
  BY DEF EditList, handler_wifi_add, wifi_list_add, wifi_list_remove, wifi_list_clear,
         Leave, Edit, radioVars, esp_wifi_disconnect
<1>0. evq \in Seq(Events) /\ "disconnected" \in Events
  BY DEF TypeOK, Events
<1>4. \A e \in Events : In(evq, e) => In(evq', e)
  BY <1>0, <1>3, InAppend DEF In
<1>5. radio' = radio \/ In(evq', "disconnected")
  BY <1>0, <1>3, InAppend DEF In
<1>6. ~emptied' => ~emptied /\ (UNCHANGED saved \/ saved' # {})
                   /\ UNCHANGED wifi_ignore_disconnect
  BY DEF EditList, handler_wifi_add, wifi_list_add, wifi_list_remove, wifi_list_clear,
         Leave, Edit, TypeOK
<1>7. HandlerInv'
  BY <1>1, <1>2, <1>4, <1>6 DEF HandlerInv, Got, Events
<1>8. AttemptPending => AttemptPending'
  BY <1>1, <1>4, <1>5 DEF AttemptPending, InQueue, In, Events
<1> QED BY <1>1, <1>2, <1>6, <1>7, <1>8 DEF LostInv, UnderWay

LEMMA LostStays ==
  TypeOK /\ DriverInv /\ HandlerInv /\ LostInv /\ [Next]_vars => HandlerInv' /\ LostInv'
<1> SUFFICES ASSUME TypeOK, DriverInv, HandlerInv, LostInv, [Next]_vars
             PROVE  HandlerInv' /\ LostInv'
  OBVIOUS
<1>1. CASE UNCHANGED vars
  BY <1>1, LostFrame
     DEF vars, wifiVars, listVars, candVars, evVars, radioVars, beginVars, Lost, UnderWay
<1>2. CASE EventTask
  BY <1>2, LostScanDone, LostCandidates, LostConnect, LostTake, LostRead, LostAct
     DEF EventTask
<1>3. CASE Next
  BY <1>2, <1>3, LostOthers, LostKick, LostRetry, LostChecks, LostBegin, LostDriver, LostReset,
     LostEdit
     DEF Next, Wifi
<1> QED BY <1>1, <1>3

(* "PPP up, WiFi lost: reconnecting forever" (gateway.h:63, wifi_multi.c:  *)
(* 272-273, 297-299): as long as no change leaves the list empty, a lost   *)
(* bridge always has a retry task, a cycle, an event or a soft reset on    *)
(* its way to the next attempt, whichever task finds a cycle already under *)
(* way and gives up its own, and however many of them run at once.         *)
THEOREM ReconnectsForever == Spec => []ReconnectingForever
<1>1. Init => DriverInv /\ HandlerInv /\ LostInv
  BY DEF Init, WifiInit, DriverInv, LinkIs, LastLink, NoLink, HandlerInv, LostInv, Lost, Got
<1>2. DriverInv /\ HandlerInv /\ LostInv => ReconnectingForever
  BY DEF HandlerInv, LostInv, UnderWay, ReconnectingForever, Lost, InQueue, In
<1> QED BY <1>1, <1>2, TypeInit, TypeStep, PlacesStep, DriverStays, LostStays, PTL DEF Spec

-----------------------------------------------------------------------------
(* A candidate's attempt always comes to an end.  While nobody changes the *)
(* list and no task passes the checks with a cycle under way, a cycle owns *)
(* the driver: what is queued is the outcome of its one attempt.           *)
Handling == ev_pc \in {"disconnected", "act", "try", "connect"}
Alone    == edits = 0 /\ races = 0

ListPart ==
  /\ edit_pc = "idle" /\ ~emptied
  /\ saved # {} => app_state # "NO_WIFI" /\ tcp_pc # "no_wifi"

(* Only one of three looks for candidates: a task past the checks, the     *)
(* scan, or the handler that has cleared scan_in_progress.                 *)
BeginPart ==
  /\ begins = 0 \/ (begins = 1 /\ ~scan_in_progress)
  /\ ev_pc = "scanned" => begins = 0 /\ ~scan_in_progress
  /\ begins > 0 \/ scan_in_progress \/ ev_pc = "scanned" =>
       cands = <<>> /\ ~wifi_connected

CandPart ==
  cands # <<>> =>
    /\ saved # {} /\ ~wifi_connected
    /\ ev_pc # "try" => app_state # "WIFI_SCANNING"
    /\ ev_pc = "act" => ev_st \notin {"WIFI_SCANNING", "NO_WIFI"}
    /\ radio = "idle" => In(evq, "disconnected") \/ Handling

OutcomePart ==
  /\ Ordered(evq)
  /\ radio = "connecting" => cands # <<>> /\ NoLink(evq)
  /\ radio = "up" => ~In(evq, "disconnected")
  /\ In(evq, "got_ip") => cands # <<>>
  /\ In(evq, "disconnected") => radio = "idle" /\ (cands # <<>> \/ wifi_connected)
  /\ Handling => radio = "idle" /\ NoLink(evq)

CycleInv == Alone => ListPart /\ BeginPart /\ CandPart /\ OutcomePart

\* All that the proof of a step may use.
CycleHyp ==
  TypeOK /\ DriverInv /\ HandlerInv /\ Alone /\ ListPart /\ BeginPart /\ CandPart
         /\ OutcomePart

CycleGoal == ListPart /\ BeginPart /\ CandPart /\ OutcomePart

(* Steps that leave the cycle alone and show neither scanning nor the lack *)
(* of a list.                                                              *)
LEMMA CycleFrame ==
  ASSUME CycleHyp,
         UNCHANGED <<edit_pc, emptied, saved, begins, scan_in_progress, cands,
                     wifi_connected, ev_pc, ev_st, evq, radio>>,
         saved # {} => app_state' # "NO_WIFI" /\ tcp_pc' # "no_wifi",
         app_state' = "WIFI_SCANNING" => app_state = "WIFI_SCANNING"
  PROVE  CycleGoal'
<1>1. ListPart' /\ BeginPart'
  BY DEF CycleHyp, ListPart, BeginPart
<1>2. CandPart'
  BY DEF CycleHyp, CandPart, In, Handling
<1>3. OutcomePart'
  BY DEF CycleHyp, OutcomePart, In, Handling, NoLink, Ordered
<1> QED BY <1>1, <1>2, <1>3 DEF CycleGoal

LEMMA CycleOthers ==
  ASSUME CycleHyp, LinkEvent \/ BtTask \/ TcpipTask PROVE CycleGoal'
<1>1. WifiUnchanged /\ UNCHANGED beginVars
  BY DEF LinkEvent, BtTask, TcpipTask, Claims, GivesUp, RfcommOpened, RfcommClosed,
         CloseServed, CloseReturns, ClosedShown, BtStep, PppUp, PppDown, gw_on_ppp_up,
         gw_on_ppp_down, PppShown, update_nat_lwip_ctx, TcpStep, beginVars
<1>2. ASSUME saved # {} PROVE app_state' # "NO_WIFI" /\ tcp_pc' # "no_wifi"
  BY <1>2
     DEF LinkEvent, BtTask, TcpipTask, Claims, GivesUp, RfcommOpened, RfcommClosed,
         CloseServed, CloseReturns, ClosedShown, BtStep, PppUp, PppDown, gw_on_ppp_up,
         gw_on_ppp_down, PppShown, update_nat_lwip_ctx, TcpStep, CycleHyp, ListPart
<1>3. app_state' = "WIFI_SCANNING" => app_state = "WIFI_SCANNING"
  BY DEF LinkEvent, BtTask, TcpipTask, Claims, GivesUp, RfcommOpened, RfcommClosed,
         CloseServed, CloseReturns, ClosedShown, BtStep, PppUp, PppDown, gw_on_ppp_up,
         gw_on_ppp_down, PppShown, update_nat_lwip_ctx, TcpStep
<1> QED BY <1>1, <1>2, <1>3, CycleFrame
        DEF WifiUnchanged, listVars, candVars, evVars, radioVars, beginVars

(* wifi_connect_begin(), to where the checks are passed.                   *)
LEMMA CycleKickRetry ==
  ASSUME CycleHyp, KickWakes \/ (RetryWakes /\ UNCHANGED gwVars) PROVE CycleGoal'
<1>1. UNCHANGED <<edit_pc, emptied, saved, tcp_pc, scan_in_progress, cands,
                  wifi_connected, ev_pc, ev_st, evq, radio>>
  BY DEF KickWakes, RetryWakes, gwVars, listVars, candVars, evVars, radioVars
<1>2. UNCHANGED begins /\ (saved # {} => UNCHANGED app_state)
      /\ (UNCHANGED app_state \/ app_state' = "NO_WIFI")
  BY DEF KickWakes, RetryWakes, BeginChecks, beginVars
<1> QED BY <1>1, <1>2, CycleFrame DEF CycleHyp, ListPart

(* A task that passes saw no scan and no candidates, and there were none   *)
(* to be missed.                                                           *)
LEMMA CycleEnters ==
  ASSUME CycleHyp, Alone', CycleChecks, UNCHANGED gwVars PROVE CycleGoal'
<1>1. UNCHANGED <<edit_pc, emptied, saved, app_state, tcp_pc, scan_in_progress, cands,
                  wifi_connected, ev_pc, ev_st, evq, radio>>
  BY DEF CycleChecks, gwVars, listVars, candVars, evVars, radioVars
<1>2. races = 0 /\ races' = 0
  BY DEF Alone, CycleHyp
<1>3. UNCHANGED begins \/ (begins' = begins + 1 /\ ~InCycle /\ ~CycleUnseen)
  BY <1>2 DEF CycleChecks
<1>4. CASE UNCHANGED begins
  BY <1>1, <1>4, CycleFrame DEF CycleHyp, ListPart
<1>5. CASE begins' = begins + 1 /\ ~InCycle /\ ~CycleUnseen
  <2>1. begins = 0 /\ begins' = 1
    BY <1>5 DEF CycleUnseen, CycleHyp, BeginPart
  <2>2. cands = <<>> /\ ~scan_in_progress /\ ~wifi_connected /\ ev_pc # "scanned"
    BY <1>5 DEF CycleUnseen, InCycle
  <2>3. ListPart' /\ BeginPart' /\ CandPart'
    BY <1>1, <2>1, <2>2 DEF CycleHyp, ListPart, BeginPart, CandPart
  <2>4. OutcomePart'
    BY <1>1 DEF CycleHyp, OutcomePart, In, Handling, NoLink, Ordered
  <2> QED BY <2>3, <2>4 DEF CycleGoal
<1> QED BY <1>3, <1>4, <1>5

(* The task scans, or is refused.                                          *)
LEMMA CycleBegin ==
  ASSUME CycleHyp, BeginScan, UNCHANGED gwVars PROVE CycleGoal'
<1>1. UNCHANGED <<edit_pc, emptied, saved, tcp_pc, cands, wifi_connected, ev_pc, ev_st,
                  evq, radio>>
  BY DEF BeginScan, gwVars, listVars, candVars, evVars
<1>2. begins = 1 /\ begins' = 0 /\ cands = <<>> /\ ~wifi_connected
      /\ ev_pc # "scanned"
  BY DEF BeginScan, CycleHyp, BeginPart
<1>3. saved # {} => app_state' # "NO_WIFI"
  BY DEF BeginScan, wifi_cycle_failed, Showing, CycleHyp, ListPart
<1>4. ListPart' /\ BeginPart' /\ CandPart'
  BY <1>1, <1>2, <1>3 DEF ListPart, BeginPart, CandPart, CycleHyp
<1>5. OutcomePart'
  BY <1>1 DEF CycleHyp, OutcomePart, In, Handling, NoLink, Ordered
<1> QED BY <1>4, <1>5 DEF CycleGoal

(* A network in range is a saved one.                                      *)
LEMMA CandidateSaved ==
  ASSUME NEW list \in Candidates, list # <<>> PROVE saved # {}
<1>1. PICK n \in 0..Cardinality(saved) : list \in [1..n -> saved]
  BY DEF Candidates
<1>2. CASE n = 0
  BY <1>1, <1>2
<1>3. CASE n > 0
  <2>1. list[1] \in saved
    BY <1>1, <1>3
  <2> QED BY <2>1
<1> QED BY <1>2, <1>3

(* The driver's outcomes.                                                  *)
LEMMA CycleDriver ==
  ASSUME CycleHyp, Driver, UNCHANGED gwVars PROVE CycleGoal'
<1>1. UNCHANGED <<edit_pc, emptied, saved, tcp_pc, app_state, begins, scan_in_progress,
                  cands, wifi_connected, ev_pc, ev_st>>
  BY DEF Driver, ScanEnds, Connects, ConnectFails, LinkLost, DriverStep, gwVars, listVars,
         candVars, evVars, beginVars
<1>2. evq \in Seq(Events) /\ Events = {"scan_done", "disconnected", "got_ip"}
  BY DEF CycleHyp, TypeOK, Events
<1>3. NoLink(evq) <=> ~In(evq, "disconnected") /\ ~In(evq, "got_ip")
  BY NoLinkIn
<1>4. NoLink(evq') <=> ~In(evq', "disconnected") /\ ~In(evq', "got_ip")
  BY NoLinkIn
<1>5. ListPart' /\ BeginPart'
  BY <1>1 DEF CycleHyp, ListPart, BeginPart
<1>6. CASE ScanEnds
  <2>1. evq' = Append(evq, "scan_done") /\ radio' = radio
    BY <1>6 DEF ScanEnds, Post
  <2>2. \A x \in LinkEvents : In(evq', x) <=> In(evq, x)
    BY <1>2, <2>1, InAppend DEF LinkEvents
  <2>3. Ordered(evq')
    BY <1>2, <2>1, OrderedAppend DEF CycleHyp, OutcomePart
  <2>4. CandPart' /\ OutcomePart'
    BY <1>1, <1>3, <1>4, <2>1, <2>2, <2>3
       DEF CandPart, OutcomePart, CycleHyp, LinkEvents, Handling
  <2> QED BY <1>5, <2>4 DEF CycleGoal
<1>7. CASE Connects
  <2>1. evq' = Append(evq, "got_ip") /\ radio = "connecting" /\ radio' = "up"
    BY <1>7 DEF Connects, Post
  <2>2. cands # <<>> /\ NoLink(evq) /\ ~Handling
    BY <2>1 DEF CycleHyp, OutcomePart
  <2>3. In(evq', "got_ip") /\ ~In(evq', "disconnected")
    BY <1>2, <1>3, <2>1, <2>2, InAppend
  <2>4. Ordered(evq')
    BY <1>2, <2>1, <2>2, OrderedAppend DEF CycleHyp, OutcomePart
  <2>5. CandPart' /\ OutcomePart'
    BY <1>1, <2>1, <2>2, <2>3, <2>4 DEF CandPart, OutcomePart, CycleHyp, Handling
  <2> QED BY <1>5, <2>5 DEF CycleGoal
<1>8. CASE ConnectFails \/ LinkLost
  <2>1. /\ evq' = Append(evq, "disconnected") /\ radio \in {"connecting", "up"}
        /\ radio' = "idle"
    BY <1>8 DEF ConnectFails, LinkLost, Post
  <2>2. ~In(evq, "disconnected") /\ ~Handling
    BY <1>3, <2>1 DEF CycleHyp, OutcomePart
  <2>3. cands # <<>> \/ wifi_connected
    BY <1>3, <2>1, <2>2 DEF CycleHyp, OutcomePart, DriverInv
  <2>4. In(evq', "disconnected") /\ (In(evq', "got_ip") <=> In(evq, "got_ip"))
    BY <1>2, <2>1, InAppend
  <2>5. Ordered(evq')
    BY <1>2, <2>1, <2>2, OrderedAppend DEF CycleHyp, OutcomePart
  <2>6. CandPart' /\ OutcomePart'
    BY <1>1, <2>1, <2>2, <2>3, <2>4, <2>5 DEF CandPart, OutcomePart, CycleHyp, Handling
  <2> QED BY <1>5, <2>6 DEF CycleGoal
<1> QED BY <1>6, <1>7, <1>8 DEF Driver

LEMMA CycleTake ==
  ASSUME CycleHyp, Disconnected \/ GotIp, UNCHANGED gwVars PROVE CycleGoal'
<1>1. /\ UNCHANGED <<edit_pc, emptied, saved, tcp_pc, app_state, begins,
                     scan_in_progress, radio, ev_st>>
      /\ ev_pc = "idle" /\ evq # <<>> /\ evq' = Tail(evq)
  BY DEF Disconnected, GotIp, Event, gwVars, listVars, beginVars, radioVars
<1>2. evq \in Seq(Events)
  BY DEF CycleHyp, TypeOK
<1>3. NoLink(evq) <=> ~In(evq, "disconnected") /\ ~In(evq, "got_ip")
  BY NoLinkIn
<1>4. NoLink(evq') <=> ~In(evq', "disconnected") /\ ~In(evq', "got_ip")
  BY NoLinkIn
<1>5. Ordered(evq')
  BY <1>1, <1>2, OrderedTail DEF CycleHyp, OutcomePart
<1>6. In(evq, Head(evq))
  BY <1>1, <1>2, TailEntries DEF In
<1>7. ListPart'
  BY <1>1 DEF CycleHyp, ListPart
<1>8. CASE Disconnected
  <2>1. Head(evq) = "disconnected" /\ wifi_connected' = FALSE /\ cands' = cands
    BY <1>8 DEF Disconnected, Event, candVars
  <2>2. ev_pc' = "disconnected"
    BY <1>8 DEF Disconnected, CycleHyp, ListPart, HandlerInv
  <2>3. ~In(evq', "disconnected") /\ ~In(evq', "got_ip")
    BY <1>1, <1>2, <2>1, OrderedTail DEF CycleHyp, OutcomePart, LinkEvents
  <2>4. radio = "idle"
    BY <1>6, <2>1 DEF CycleHyp, OutcomePart
  <2>5. BeginPart' /\ CandPart'
    BY <1>1, <2>1, <2>2 DEF BeginPart, CandPart, CycleHyp, Handling
  <2>6. OutcomePart'
    BY <1>1, <1>4, <1>5, <2>3, <2>4 DEF OutcomePart, Handling
  <2> QED BY <1>7, <2>5, <2>6 DEF CycleGoal
<1>9. CASE GotIp
  <2>1. Head(evq) = "got_ip" /\ wifi_connected' = TRUE /\ cands' = <<>>
        /\ ev_pc' = "got_ip"
    BY <1>9 DEF GotIp, Event, Drop_candidates
  <2>2. cands # <<>> /\ ~(radio = "connecting")
    BY <1>3, <1>6, <2>1 DEF CycleHyp, OutcomePart
  <2>3. ~In(evq', "got_ip")
    BY <1>1, <1>2, <2>1, OrderedTail DEF CycleHyp, OutcomePart, LinkEvents
  <2>4. In(evq', "disconnected") => In(evq, "disconnected")
    BY <1>1, <1>2, InTail
  <2>5. BeginPart' /\ CandPart' /\ OutcomePart'
    BY <1>1, <1>5, <2>1, <2>2, <2>3, <2>4
       DEF BeginPart, CandPart, OutcomePart, CycleHyp, Handling
  <2> QED BY <1>7, <2>5 DEF CycleGoal
<1> QED BY <1>8, <1>9

(* The handler of a scan.  While it looks for candidates the driver is     *)
(* idle and no outcome is on its way.                                      *)
LEMMA CycleScanDone ==
  ASSUME CycleHyp, ScanDone, UNCHANGED gwVars PROVE CycleGoal'
<1>1. /\ UNCHANGED <<edit_pc, emptied, saved, tcp_pc, app_state, begins, cands,
                     wifi_connected, ev_st, radio>>
      /\ ev_pc = "idle" /\ ev_pc' = (IF scan_in_progress THEN "scanned" ELSE "idle")
      /\ scan_in_progress' = FALSE
      /\ evq # <<>> /\ evq' = Tail(evq) /\ Head(evq) = "scan_done"
  BY DEF ScanDone, Event, gwVars, listVars, beginVars, candVars, radioVars
<1>2. evq \in Seq(Events)
  BY DEF CycleHyp, TypeOK
<1>3. \A x \in LinkEvents : In(evq', x) <=> In(evq, x)
  BY <1>1, <1>2, InTail DEF LinkEvents
<1>4. NoLink(evq') <=> NoLink(evq)
  BY <1>3, NoLinkIn DEF LinkEvents
<1>5. Ordered(evq')
  BY <1>1, <1>2, OrderedTail DEF CycleHyp, OutcomePart
<1>6. ListPart' /\ BeginPart'
  BY <1>1 DEF CycleHyp, ListPart, BeginPart
<1>7. CandPart' /\ OutcomePart'
  BY <1>1, <1>3, <1>4, <1>5
     DEF CycleHyp, CandPart, OutcomePart, Handling, LinkEvents
<1> QED BY <1>6, <1>7 DEF CycleGoal

LEMMA CycleFound ==
  ASSUME CycleHyp, CandidatesFound, UNCHANGED gwVars PROVE CycleGoal'
<1>1. /\ UNCHANGED <<edit_pc, emptied, saved, tcp_pc, begins, scan_in_progress,
                     wifi_connected, ev_st, evq, radio>>
      /\ ev_pc = "scanned" /\ ev_pc' \in {"idle", "try"}
  BY DEF CandidatesFound, EvStep, gwVars, listVars, beginVars, radioVars
<1>2. begins = 0 /\ ~scan_in_progress /\ cands = <<>> /\ ~wifi_connected
  BY <1>1 DEF CycleHyp, BeginPart
<1>3. ~In(evq, "got_ip") /\ ~In(evq, "disconnected") /\ NoLink(evq)
  BY <1>2, NoLinkIn DEF CycleHyp, OutcomePart
<1>4. radio = "idle"
  BY <1>1, <1>2, <1>3 DEF CycleHyp, OutcomePart, DriverInv, TypeOK
<1>5. \/ cands' = <<>> /\ ev_pc' = "idle"
      \/ cands' # <<>> /\ ev_pc' = "try" /\ saved # {}
  BY CandidateSaved DEF CandidatesFound
<1>6. saved # {} => app_state' # "NO_WIFI"
  BY DEF CandidatesFound, wifi_cycle_failed, CycleHyp, ListPart
<1>7. ListPart' /\ BeginPart'
  BY <1>1, <1>2, <1>5, <1>6 DEF CycleHyp, ListPart, BeginPart
<1>8. CandPart'
  BY <1>1, <1>2, <1>5 DEF CandPart, Handling
<1>9. OutcomePart'
  BY <1>1, <1>3, <1>4 DEF CycleHyp, OutcomePart, In, Handling, NoLink, Ordered
<1> QED BY <1>7, <1>8, <1>9 DEF CycleGoal

LEMMA CycleTry ==
  ASSUME CycleHyp, wifi_try_candidate, UNCHANGED gwVars PROVE CycleGoal'
<1>1. /\ UNCHANGED <<edit_pc, emptied, saved, tcp_pc, begins, scan_in_progress,
                     wifi_connected, ev_st, evq, radio>>
      /\ ev_pc = "try"
  BY DEF wifi_try_candidate, EvStep, gwVars, listVars, beginVars, radioVars
<1>2. \/ cands' = <<>> /\ ev_pc' = "idle" /\ UNCHANGED app_state
      \/ /\ UNCHANGED cands /\ ev_pc' = "connect"
         /\ app_state' \notin {"WIFI_SCANNING", "NO_WIFI"}
  BY DEF wifi_try_candidate, Showing
<1>3. cands # <<>> /\ radio = "idle" /\ NoLink(evq)
  BY <1>1 DEF CycleHyp, HandlerInv, OutcomePart, Handling
<1>4. ListPart' /\ BeginPart' /\ CandPart'
  BY <1>1, <1>2, <1>3 DEF CycleHyp, ListPart, BeginPart, CandPart, Handling
<1>5. ~In(evq, "got_ip") /\ ~In(evq, "disconnected")
  BY <1>3, NoLinkIn
<1>6. OutcomePart'
  BY <1>1, <1>3, <1>5 DEF CycleHyp, OutcomePart, In, Handling, NoLink, Ordered
<1> QED BY <1>4, <1>6 DEF CycleGoal

LEMMA CycleConnects ==
  ASSUME CycleHyp, TryConnects, UNCHANGED gwVars PROVE CycleGoal'
<1>1. /\ UNCHANGED <<edit_pc, emptied, saved, tcp_pc, app_state, begins,
                     scan_in_progress, cands, wifi_connected, ev_st, evq>>
      /\ ev_pc = "connect" /\ ev_pc' = "idle"
  BY DEF TryConnects, EvStep, gwVars, listVars, beginVars, candVars
<1>2. cands # <<>> /\ radio = "idle" /\ NoLink(evq)
  BY <1>1 DEF CycleHyp, HandlerInv, OutcomePart, Handling
<1>3. radio' = "connecting"
  BY <1>2 DEF TryConnects, esp_wifi_connect
<1>4. ListPart' /\ BeginPart' /\ CandPart'
  BY <1>1, <1>3 DEF CycleHyp, ListPart, BeginPart, CandPart
<1>5. ~In(evq, "got_ip") /\ ~In(evq, "disconnected")
  BY <1>2, NoLinkIn
<1>6. OutcomePart'
  BY <1>1, <1>2, <1>3, <1>5 DEF CycleHyp, OutcomePart, In, Handling, NoLink, Ordered
<1> QED BY <1>4, <1>6 DEF CycleGoal

LEMMA CycleRead ==
  ASSUME CycleHyp, EvRead \/ EvShow, UNCHANGED gwVars PROVE CycleGoal'
<1>1. UNCHANGED <<edit_pc, emptied, saved, tcp_pc, begins, scan_in_progress, cands,
                  wifi_connected, evq, radio>>
  BY DEF EvRead, EvShow, EvStep, gwVars, listVars, beginVars, candVars, radioVars
<1>2. /\ app_state' \notin {"NO_WIFI", "WIFI_SCANNING"} \/ UNCHANGED app_state
  BY DEF EvRead, EvShow
<1>3. /\ \/ ev_pc = "disconnected" /\ ev_pc' = "act" /\ ev_st' = app_state
         \/ ~Handling /\ ev_pc' \in {"idle", "bridge", "wait_bt"}
      /\ ev_pc # "try"
  BY DEF EvRead, EvShow, EvStep, Handling
<1>4. ListPart' /\ BeginPart'
  BY <1>1, <1>2, <1>3 DEF CycleHyp, ListPart, BeginPart
<1>5. CandPart'
  BY <1>1, <1>2, <1>3 DEF CycleHyp, CandPart, ListPart, Handling, In
<1>6. OutcomePart'
  BY <1>1, <1>3 DEF CycleHyp, OutcomePart, Handling, In, NoLink, Ordered
<1> QED BY <1>4, <1>5, <1>6 DEF CycleGoal

(* The handler of a disconnect: the same candidate, the next one, or none. *)
LEMMA CycleAct ==
  ASSUME CycleHyp, CandidateLost \/ NetworkLost \/ BridgeLost \/ NothingToDo,
         UNCHANGED gwVars
  PROVE  CycleGoal'
<1>1. /\ UNCHANGED <<edit_pc, emptied, saved, tcp_pc, begins, scan_in_progress,
                     wifi_connected, evq>>
      /\ ev_pc = "act" /\ ev_pc' \in {"idle", "try"}
  BY DEF CandidateLost, NetworkLost, BridgeLost, NothingToDo, EvAct, EvStep, gwVars,
         listVars, beginVars
<1>2. radio = "idle" /\ ~In(evq, "disconnected") /\ ~In(evq, "got_ip") /\ NoLink(evq)
  BY <1>1, NoLinkIn DEF CycleHyp, OutcomePart, Handling
<1>3. saved # {} => app_state' # "NO_WIFI"
  BY DEF CandidateLost, NetworkLost, BridgeLost, NothingToDo, wifi_cycle_failed,
         CycleHyp, ListPart
<1>4. ListPart'
  BY <1>1, <1>3 DEF CycleHyp, ListPart
<1>5. \/ cands' = <<>> /\ radio' = "idle" /\ ev_pc' = "idle"
      \/ /\ cands # <<>> /\ cands' # <<>> /\ UNCHANGED app_state
         /\ \/ radio' = "connecting" /\ ev_pc' = "idle"
            \/ radio' = "idle" /\ ev_pc' = "try"
  <2>1. CASE CandidateLost
    <3>1. CASE Drop_candidates /\ UNCHANGED radioVars /\ EvAct("idle")
      BY <1>2, <3>1 DEF Drop_candidates, radioVars, EvAct
    <3>2. CASE /\ cands # <<>> /\ esp_wifi_connect /\ UNCHANGED <<app_state, cands>>
               /\ EvAct("idle")
      BY <1>2, <3>2 DEF esp_wifi_connect, EvAct
    <3>3. CASE /\ Len(cands) > 1 /\ cands' = Tail(cands) /\ UNCHANGED radioVars
               /\ EvAct("try") /\ UNCHANGED app_state
      <4>1. cands \in Seq(Ssids) /\ cands # <<>>
        BY <2>1 DEF CandidateLost, CycleHyp, TypeOK
      <4>2. Tail(cands) # <<>>
        BY <3>3, <4>1, TailNotEmpty
      <4> QED BY <1>2, <3>3, <4>1, <4>2 DEF EvAct, radioVars
    <3>4. CASE cands' = <<>> /\ UNCHANGED radioVars /\ EvAct("idle")
      BY <1>2, <3>4 DEF radioVars, EvAct
    <3> QED BY <2>1, <3>1, <3>2, <3>3, <3>4 DEF CandidateLost
  <2>2. CASE NetworkLost
    BY <1>2, <2>2 DEF NetworkLost, EvAct, candVars, radioVars
  <2>3. CASE BridgeLost
    <3>1. saved = {} => cands = <<>>
      BY DEF CycleHyp, CandPart
    <3> QED BY <1>2, <2>3, <3>1
            DEF BridgeLost, EvAct, Drop_candidates, candVars, radioVars
  <2>4. CASE NothingToDo
    <3>1. cands = <<>>
      BY <1>1, <2>4
         DEF NothingToDo, MidCycle, CycleHyp, CandPart, TypeOK, AppStates
    <3> QED BY <1>2, <2>4, <3>1 DEF NothingToDo, EvAct, candVars, radioVars
  <2> QED BY <2>1, <2>2, <2>3, <2>4
<1>6. BeginPart'
  BY <1>1, <1>5 DEF CycleHyp, BeginPart
<1>7. CandPart'
  BY <1>1, <1>5 DEF CycleHyp, CandPart, Handling
<1>8. OutcomePart'
  BY <1>1, <1>2, <1>5 DEF CycleHyp, OutcomePart, Handling, In, NoLink, Ordered
<1> QED BY <1>4, <1>6, <1>7, <1>8 DEF CycleGoal

LEMMA CycleReset ==
  ASSUME CycleHyp, Watchdog \/ Recovery, UNCHANGED gwVars PROVE CycleGoal'
<1>1. UNCHANGED <<edit_pc, emptied, saved, tcp_pc, wifi_connected, ev_pc, ev_st>>
  BY DEF Watchdog, Recovery, ResetDown, ResetCycle, ResetUp, RecoveryStep, gwVars, listVars,
         evVars
<1>2. CASE Watchdog
  BY <1>1, <1>2, CycleFrame
     DEF Watchdog, beginVars, radioVars, CycleHyp, ListPart
<1>3. CASE ResetDown
  <2>1. /\ radio' = "off" /\ evq' = <<>> /\ ev_pc = "idle"
        /\ UNCHANGED <<app_state, scan_in_progress, cands, begins>>
    BY <1>3 DEF ResetDown, beginVars
  <2>2. ListPart' /\ BeginPart' /\ CandPart'
    BY <1>1, <2>1 DEF CycleHyp, ListPart, BeginPart, CandPart
  <2>3. OutcomePart'
    BY <1>1, <2>1 DEF OutcomePart, Handling, In, NoLink, Ordered
  <2> QED BY <2>2, <2>3 DEF CycleGoal
<1>4. CASE ResetCycle
  <2>1. /\ scan_in_progress' = FALSE /\ cands' = <<>>
        /\ radio = "off" /\ evq = <<>> /\ ev_pc = "idle"
        /\ UNCHANGED <<app_state, radio, evq, begins>>
    BY <1>4 DEF ResetCycle, RecoveryStep, beginVars, radioVars, CycleHyp, DriverInv
  <2>2. ListPart' /\ BeginPart' /\ CandPart'
    BY <1>1, <2>1 DEF CycleHyp, ListPart, BeginPart, CandPart
  <2>3. OutcomePart'
    BY <1>1, <2>1 DEF OutcomePart, Handling, In, NoLink, Ordered
  <2> QED BY <2>2, <2>3 DEF CycleGoal
<1>5. CASE ResetUp
  <2>1. /\ radio' = "idle" /\ evq = <<>> /\ ev_pc = "idle" /\ cands = <<>>
        /\ ~scan_in_progress
        /\ UNCHANGED <<evq, scan_in_progress, cands>>
    BY <1>5 DEF ResetUp, RecoveryStep, CycleHyp, DriverInv, HandlerInv
  <2>2. UNCHANGED begins /\ (saved # {} => UNCHANGED app_state)
    BY <1>5 DEF ResetUp, BeginChecks, beginVars
  <2>3. ListPart'
    BY <1>1, <2>2 DEF CycleHyp, ListPart
  <2>4. BeginPart'
    BY <1>1, <2>1, <2>2 DEF CycleHyp, BeginPart
  <2>5. CandPart' /\ OutcomePart'
    BY <1>1, <2>1 DEF CandPart, OutcomePart, Handling, In, NoLink, Ordered
  <2> QED BY <2>3, <2>4, <2>5 DEF CycleGoal
<1> QED BY <1>2, <1>3, <1>4, <1>5 DEF Recovery

LEMMA CycleStays ==
  TypeOK /\ DriverInv /\ HandlerInv /\ CycleInv /\ [Next]_vars => CycleInv'
<1> SUFFICES ASSUME TypeOK, DriverInv, HandlerInv, CycleInv, [Next]_vars, Alone'
             PROVE  CycleGoal'
  BY DEF CycleInv, CycleGoal
<1>1. Alone
  <2>1. edits \in Nat /\ races \in Nat
    BY DEF TypeOK
  <2>2. CASE UNCHANGED vars
    BY <2>2 DEF vars, wifiVars, listVars, beginVars, Alone
  <2>3. CASE LinkEvent \/ BtTask \/ TcpipTask
    BY <2>3
       DEF LinkEvent, BtTask, TcpipTask, Claims, GivesUp, RfcommOpened, RfcommClosed,
           CloseServed, CloseReturns, ClosedShown, BtStep, PppUp, PppDown, gw_on_ppp_up,
           gw_on_ppp_down, PppShown, update_nat_lwip_ctx, TcpStep, WifiUnchanged, listVars,
           beginVars, Alone
  <2>4. CASE EditList
    BY <2>1, <2>4
       DEF EditList, handler_wifi_add, wifi_list_add, wifi_list_remove, wifi_list_clear,
           Leave, Edit, EditStep, listVars, beginVars, Alone
  <2>5. CASE KickWakes \/ CycleChecks \/ BeginScan \/ RetryWakes \/ Watchdog \/ Recovery
    <3>1. UNCHANGED edits
      BY <2>5 DEF KickWakes, CycleChecks, BeginScan, RetryWakes, Watchdog, Recovery,
                  ResetDown, ResetCycle, ResetUp, RecoveryStep, listVars
    <3>2. UNCHANGED races \/ races' = races + 1
      BY <2>5 DEF KickWakes, CycleChecks, BeginScan, RetryWakes, Watchdog, Recovery,
                  ResetDown, ResetCycle, ResetUp, BeginChecks, beginVars
    <3> QED BY <2>1, <3>1, <3>2 DEF Alone
  <2>6. CASE Driver \/ EventTask
    BY <2>6
       DEF Driver, ScanEnds, Connects, ConnectFails, LinkLost, DriverStep, EventTask, ScanDone,
           CandidatesFound, wifi_try_candidate, TryConnects, Disconnected, GotIp, Event,
           EvRead, EvShow, CandidateLost, NetworkLost, BridgeLost, NothingToDo, EvAct, EvStep,
           listVars, beginVars, Alone
  <2> QED BY <2>2, <2>3, <2>4, <2>5, <2>6 DEF Next, Wifi
<1>2. CycleHyp
  BY <1>1 DEF CycleHyp, CycleInv
<1>3. CASE UNCHANGED vars
  BY <1>2, <1>3, CycleFrame
     DEF vars, wifiVars, gwVars, listVars, candVars, evVars, radioVars, beginVars, CycleHyp,
         ListPart
<1>4. ~EditList
  <2>1. edits + 1 # 0
    BY DEF TypeOK
  <2> QED BY <1>2, <2>1
          DEF EditList, handler_wifi_add, wifi_list_add, wifi_list_remove, wifi_list_clear,
              Leave, Edit, Alone, CycleHyp, ListPart
<1>5. CASE EventTask /\ UNCHANGED gwVars
  BY <1>2, <1>5, CycleScanDone, CycleFound, CycleTry, CycleConnects, CycleTake, CycleRead,
     CycleAct DEF EventTask
<1>6. CASE Next
  BY <1>2, <1>4, <1>5, <1>6, CycleOthers, CycleKickRetry, CycleEnters, CycleBegin, CycleDriver,
     CycleReset
     DEF Next, Wifi
<1> QED BY <1>3, <1>6

(* A candidate that is being tried comes to an end the event handler acts  *)
(* on, so that cand_count is never left behind, where it would keep        *)
(* wifi_connect_begin() from ever scanning again (wifi_multi.c:264):       *)
(* whatever PPP, dials, soft resets and losses come in between, while the  *)
(* list is left alone and the checks of 259-264 are not passed with a      *)
(* cycle they do not see, which they are by a second task before the first *)
(* is at 280, between a scan's flag (342) and its candidates (369), and    *)
(* when WiFi connects (571-575) after 259 has looked.                      *)
THEOREM CycleStaysAlive == Spec => []CycleAlive
<1>1. Init => DriverInv /\ HandlerInv /\ LostInv /\ CycleInv
  <2> SUFFICES ASSUME Init PROVE DriverInv /\ HandlerInv /\ LostInv /\ CycleInv
    OBVIOUS
  <2>1. DriverInv /\ HandlerInv /\ LostInv
    BY DEF Init, WifiInit, DriverInv, LinkIs, LastLink, NoLink, HandlerInv, LostInv, Lost,
           Got
  <2>2. ListPart /\ BeginPart /\ CandPart
    BY DEF Init, WifiInit, ListPart, BeginPart, CandPart
  <2>3. OutcomePart
    BY DEF Init, WifiInit, OutcomePart, Ordered, In, Handling
  <2> QED BY <2>1, <2>2, <2>3 DEF CycleInv
<1>2. TypeOK /\ DriverInv /\ HandlerInv /\ CycleInv => CycleAlive
  <2> SUFFICES ASSUME TypeOK, DriverInv, HandlerInv, CycleInv, cands # <<>>, Alone
               PROVE  AttemptPending
    BY DEF CycleAlive, Alone
  <2>1. CandPart /\ OutcomePart
    BY DEF CycleInv
  <2>2. CASE radio = "up"
    <3>1. ~NoLink(evq)
      BY <2>1, <2>2 DEF DriverInv, CandPart
    <3> QED BY <3>1, NoLinkIn DEF AttemptPending, InQueue, In
  <2>3. CASE radio = "off"
    BY <2>3 DEF DriverInv, HandlerInv, AttemptPending
  <2>4. CASE radio \in {"idle", "connecting"}
    BY <2>1, <2>4 DEF CandPart, AttemptPending, InQueue, In, Handling
  <2> QED BY <2>2, <2>3, <2>4 DEF TypeOK
<1> QED BY <1>1, <1>2, TypeInit, TypeStep, PlacesStep, DriverStays, LostStays, CycleStays, PTL
        DEF Spec
=============================================================================
