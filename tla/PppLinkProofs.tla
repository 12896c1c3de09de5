---------------------------- MODULE PppLinkProofs ----------------------------
(***************************************************************************)
(* Proofs about PppLink, for any sets of phones, channels and pcbs.        *)
(***************************************************************************)
EXTENDS PppLink, SequenceTheorems, TLAPS

(* Every step keeps every variable in its type.                            *)
LEMMA TypeStep == TypeOK /\ [Next]_vars => TypeOK'
<1> SUFFICES ASSUME TypeOK PROVE [Next]_vars => TypeOK'
  OBVIOUS
<1> USE DEF TypeOK, ChanType, GapType, ClaimType, AutoType, PppType, BtType,
            PcbType, CallType, GwType, rfcommVars, gapVars, claimVars,
            autoVars, pppVars, btVars, lwipVars, gwVars, history
<1>1. CASE UNCHANGED vars
  BY <1>1 DEF vars
<1>2. ASSUME NEW c \in Cids, NEW p \in Phones, IncomingBusy(c, p)
      PROVE  TypeOK'
  BY <1>2 DEF IncomingBusy, IncomingEvent, ChanStates
<1>3. ASSUME NEW c \in Cids, NEW p \in Phones, IncomingAccept(c, p)
      PROVE  TypeOK'
  BY <1>3 DEF IncomingAccept, IncomingEvent, Claim, ChanStates
<1>4. ASSUME NEW c \in Cids, NEW p \in Phones, IncomingHold(c, p)
      PROVE  TypeOK'
  <2>1. (GapType /\ AutoType)'
    BY <1>4 DEF IncomingHold, auto_begin
  <2>2. (ChanType /\ ClaimType /\ PppType /\ BtType /\ PcbType /\ CallType /\ GwType)'
    BY <1>4 DEF IncomingHold, IncomingEvent, Claim, ChanStates
  <2> QED BY <2>1, <2>2
<1>5. ASSUME NEW c \in Cids, Declined(c) PROVE TypeOK'
  BY <1>5 DEF Declined, SetChan, ChanStates
<1>6. ASSUME NEW c \in Cids, OpenFailed(c) PROVE TypeOK'
  <2>1. (ClaimType /\ AutoType)'
    BY <1>6 DEF OpenFailed, auto_release, Unclaim
  <2>2. (ChanType /\ GapType /\ PppType /\ BtType /\ PcbType /\ CallType /\ GwType)'
    BY <1>6 DEF OpenFailed, SetChan, ChanStates
  <2> QED BY <2>1, <2>2
<1>7. ASSUME NEW c \in Cids, Opened(c) PROVE TypeOK'
  <2>1. (PcbType /\ CallType)'
    BY <1>7 DEF Opened, Call, Messages
  <2>2. (ChanType /\ GapType /\ ClaimType /\ AutoType /\ PppType /\ BtType /\ GwType)'
    BY <1>7 DEF Opened, Call, SetChan, ChanStates, BtPcs
  <2> QED BY <2>1, <2>2
<1>8. ASSUME NEW c \in Cids, ClosedOther(c) PROVE TypeOK'
  BY <1>8 DEF ClosedOther, ClosedEvent, SetChan, ChanStates
<1>9. ASSUME NEW c \in Cids, ClosedHeld(c) PROVE TypeOK'
  <2>1. (ClaimType /\ AutoType)'
    BY <1>9 DEF ClosedHeld, ClosedEvent, auto_release, Unclaim
  <2>2. (ChanType /\ GapType /\ PppType /\ BtType /\ PcbType /\ CallType /\ GwType)'
    BY <1>9 DEF ClosedHeld, ClosedEvent, SetChan, ChanStates
  <2> QED BY <2>1, <2>2
<1>10. ASSUME NEW c \in Cids, ClosedSession(c) PROVE TypeOK'
  <2>1. (PppType /\ BtType /\ PcbType /\ CallType /\ GwType)'
    BY <1>10 DEF ClosedSession, ClosedEvent, gw_on_rfcomm_closed, BtPcs
  <2>2. (ChanType /\ GapType /\ ClaimType /\ AutoType)'
    BY <1>10 DEF ClosedSession, ClosedEvent, SetChan, ChanStates, Unclaim
  <2> QED BY <2>1, <2>2
<1>11. ASSUME NEW c \in Cids, DataPacket(c) PROVE TypeOK'
  <2>1. PcbType'
    BY <1>11 DEF DataPacket, Messages
  <2>2. (ChanType /\ GapType /\ ClaimType /\ AutoType /\ PppType /\ BtType /\ CallType /\ GwType)'
    BY <1>11 DEF DataPacket
  <2> QED BY <2>1, <2>2
<1>12. ASSUME NEW a \in BOOLEAN, NameReply(a) PROVE TypeOK'
  <2>1. (ChanType /\ GapType /\ AutoType)'
    BY <1>12 DEF NameReply, auto_decide, auto_release, SetChan, ChanStates
  <2>2. (ClaimType /\ PppType /\ BtType /\ PcbType /\ CallType /\ GwType)'
    BY <1>12 DEF NameReply
  <2> QED BY <2>1, <2>2
<1>13. ASSUME NEW p \in Phones, LinkDown(p) PROVE TypeOK'
  BY <1>13 DEF LinkDown
<1>14. ASSUME NEW p \in Phones, NEW r \in BOOLEAN, SecurityLevel(p, r)
       PROVE  TypeOK'
  <2>1. (GapType /\ AutoType)'
    BY <1>14 DEF SecurityLevel, auto_fail, auto_release
  <2>2. (ChanType /\ ClaimType)'
    BY <1>14 DEF SecurityLevel, auto_fail, SetChan, ChanStates, Unclaim
  <2>3. (PppType /\ BtType /\ PcbType /\ CallType /\ GwType)'
    BY <1>14 DEF SecurityLevel
  <2> QED BY <2>1, <2>2, <2>3
<1>15. CASE BtTask
  <2>1. CASE CreateFailed
    BY <2>1 DEF CreateFailed, StartFailed, Returned, BackToLoop, NoCall, BtPcs,
                SetChan, ChanStates, Unclaim
  <2>2. CASE Created
    <3>1. (PppType /\ BtType /\ PcbType /\ CallType)'
      BY <2>2 DEF Created, Call, BtPcs, Messages
    <3>2. (ChanType /\ GapType /\ ClaimType /\ AutoType /\ GwType)'
      BY <2>2 DEF Created
    <3> QED BY <3>1, <3>2
  <2>3. CASE Listening
    BY <2>3 DEF Listening, Returned, BackToLoop, NoCall, BtPcs, gw_on_rfcomm_opened
  <2>4. CASE ListenFailed
    <3>1. (PppType /\ BtType /\ PcbType /\ CallType)'
      BY <2>4 DEF ListenFailed, Call, BtPcs, Messages
    <3>2. (ChanType /\ GapType /\ ClaimType /\ AutoType /\ GwType)'
      BY <2>4 DEF ListenFailed
    <3> QED BY <3>1, <3>2
  <2>5. CASE Aborted
    BY <2>5 DEF Aborted, StartFailed, Returned, BackToLoop, NoCall, BtPcs,
                SetChan, ChanStates, Unclaim
  <2>6. CASE StopClose
    <3>1. (PppType /\ BtType /\ PcbType /\ CallType)'
      BY <2>6 DEF StopClose, Call, BtPcs, Messages
    <3>2. (ChanType /\ GapType /\ ClaimType /\ AutoType /\ GwType)'
      BY <2>6 DEF StopClose
    <3> QED BY <3>1, <3>2
  <2>7. CASE Stopped
    BY <2>7 DEF Stopped, Returned, BackToLoop, NoCall, BtPcs, gw_on_rfcomm_closed
  <2> QED BY <1>15, <2>1, <2>2, <2>3, <2>4, <2>5, <2>6, <2>7 DEF BtTask
<1>16. CASE ReopenTimer
  BY <1>16 DEF ReopenTimer
<1>17. CASE TcpipTask
  <2>1. ASSUME NEW o \in {"input", "create", "listen", "close"}, Serve(o)
        PROVE  /\ mbox' \in Seq(Messages) /\ Head(mbox).pcb \in Pcbs \cup {NULL}
               /\ (ChanType /\ GapType /\ ClaimType /\ AutoType /\ BtType)'
               /\ ppp' \in Pcbs \cup {NULL} /\ ppp_teardown' \in BOOLEAN
               /\ bt_connected' \in BOOLEAN /\ visible' \in BOOLEAN
               /\ reopen_timer' \in BOOLEAN /\ early' \in BOOLEAN
    <3>1. Head(mbox) \in Messages /\ Tail(mbox) \in Seq(Messages)
      BY <2>1 DEF Serve
    <3>2. Head(mbox).pcb \in Pcbs \cup {NULL}
      BY <3>1 DEF Messages
    <3> QED BY <2>1, <3>1, <3>2 DEF Serve
  <2>2. CASE TouchFreed
    BY <2>1, <2>2 DEF TouchFreed
  <2>3. CASE ServeInput
    BY <2>1, <2>3 DEF ServeInput, Phases
  <2>4. CASE ServeCreate
    BY <2>1, <2>4 DEF ServeCreate, Phases
  <2>5. CASE ServeListen
    BY <2>1, <2>5 DEF ServeListen, Phases
  <2>6. CASE ServeClose
    BY <2>1, <2>6 DEF ServeClose, StatusDown, Phases
  <2>7. CASE StatusEnd
    <3>1. PcbType' /\ CallType'
      BY <2>7 DEF StatusEnd, NoCallback, Phases
    <3>2. (ChanType /\ GapType /\ ClaimType /\ AutoType /\ PppType /\ BtType /\ GwType)'
      BY <2>7 DEF StatusEnd
    <3> QED BY <3>1, <3>2
  <2> QED BY <1>17, <2>2, <2>3, <2>4, <2>5, <2>6, <2>7 DEF TcpipTask
<1>18. ASSUME NEW p \in Pcbs, PppUp(p) PROVE TypeOK'
  BY <1>18 DEF PppUp
<1>19. ASSUME NEW p \in Pcbs, PppDies(p) PROVE TypeOK'
  <2>1. (PcbType /\ CallType /\ PppType)'
    BY <1>19 DEF PppDies, StatusDown, Phases
  <2>2. (ChanType /\ GapType /\ ClaimType /\ AutoType /\ BtType /\ GwType)'
    BY <1>19 DEF PppDies
  <2> QED BY <2>1, <2>2
<1> QED
  BY <1>1, <1>2, <1>3, <1>4, <1>5, <1>6, <1>7, <1>8, <1>9, <1>10, <1>11, <1>12,
     <1>13, <1>14, <1>15, <1>16, <1>17, <1>18, <1>19
     DEF Next, Incoming, ChannelEvent, LinkEvent, PppEvent

LEMMA InitTypeOK == Init => TypeOK
<1> SUFFICES ASSUME Init PROVE TypeOK
    OBVIOUS
<1>1. ChanType /\ GapType /\ ClaimType /\ AutoType /\ PppType /\ GwType
    BY DEF Init, ChanType, GapType, ClaimType, AutoType, PppType, GwType,
           ChanStates
<1>2. BtType /\ PcbType
    BY DEF Init, BtType, PcbType, BtPcs, Phases
<1>3. CallType
    BY DEF Init, CallType, NoCall, NoCallback
<1> QED BY <1>1, <1>2, <1>3 DEF TypeOK

(* Every variable keeps its type (the declarations of ppp_link.c).         *)
THEOREM TypeCorrect == Spec => []TypeOK
<1> QED BY InitTypeOK, TypeStep, PTL DEF Spec

-----------------------------------------------------------------------------
(* The claim on the bridge and the auto security decision.  To be          *)
(* inductive they need to know which channel the accept is held for, that  *)
(* the held phone is the one the answers are matched against, and which    *)
(* channel a handler blocked in a pppapi call is working for.              *)
HeldChannel ==
  /\ \A c \in Cids : chan[c] = "incoming" <=> c = auto_cid
  /\ auto_cid # NoCid => peer[auto_cid] = auto_addr

HandlerChannel ==
  /\ bt_pc \in {"create", "listen", "abort"} =>
       bt_cid \in Cids /\ chan[bt_cid] = "open"
  /\ bt_pc \in {"stop", "close"} => active_cid = NoCid

ClaimInv == /\ TypeOK
            /\ ClaimMatchesChannel /\ AutoModeDecision
            /\ HeldChannel /\ HandlerChannel

\* What most steps leave alone.
ClaimFrame == UNCHANGED <<chan, peer, level, link_mode, session_active,
                          active_cid, auto_cid, auto_addr, bt_pc, bt_cid>>

ClaimParts == ClaimMatchesChannel /\ AutoModeDecision /\ HeldChannel
              /\ HandlerChannel

LEMMA ClaimFrameStep == ASSUME ClaimInv, ClaimFrame PROVE ClaimParts'
BY DEF ClaimInv, ClaimFrame, ClaimParts, ClaimMatchesChannel, AutoModeDecision,
       HeldChannel, HandlerChannel

LEMMA OtherSteps ==
  ReopenTimer \/ TcpipTask \/ PppEvent \/ UNCHANGED vars
    \/ (\E c \in Cids : DataPacket(c)) => ClaimFrame
<1> USE DEF ClaimFrame, rfcommVars, gapVars, claimVars, autoVars, btVars
<1>1. ReopenTimer => ClaimFrame
  BY DEF ReopenTimer
<1>2. TcpipTask => ClaimFrame
  BY DEF TcpipTask, TouchFreed, ServeInput, ServeCreate, ServeListen, ServeClose,
         StatusEnd, Serve
<1>3. PppEvent => ClaimFrame
  BY DEF PppEvent, PppUp, PppDies
<1>4. UNCHANGED vars => ClaimFrame
  BY DEF vars
<1>5. ASSUME NEW c \in Cids, DataPacket(c) PROVE ClaimFrame
  BY <1>5 DEF DataPacket
<1> QED BY <1>1, <1>2, <1>3, <1>4, <1>5

LEMMA ClaimEvents ==
  ClaimInv /\ (Incoming \/ ChannelEvent \/ LinkEvent) => ClaimParts'
<1> SUFFICES ASSUME ClaimInv
             PROVE  Incoming \/ ChannelEvent \/ LinkEvent => ClaimParts'
  OBVIOUS
<1> DEFINE P == ClaimMatchesChannel /\ AutoModeDecision /\ HeldChannel
                /\ HandlerChannel
<1> USE PppLinkAssumption DEF ClaimMatchesChannel, AutoModeDecision, HeldChannel,
      HandlerChannel
<1>0. /\ ChanType /\ ClaimType /\ AutoType /\ BtType /\ GapType /\ P
  BY DEF ClaimInv, TypeOK
<1> USE <1>0 DEF ChanType, ClaimType, AutoType, BtType, GapType, ChanStates
<1>2. ASSUME NEW c \in Cids, NEW p \in Phones, IncomingBusy(c, p) PROVE P'
  BY <1>2 DEF IncomingBusy, IncomingEvent, claimVars, autoVars, gapVars, btVars
<1>3. ASSUME NEW c \in Cids, NEW p \in Phones, IncomingAccept(c, p) PROVE P'
  BY <1>3 DEF IncomingAccept, IncomingEvent, Claim, autoVars, gapVars, btVars
<1>4. ASSUME NEW c \in Cids, NEW p \in Phones, IncomingHold(c, p) PROVE P'
  BY <1>4 DEF IncomingHold, IncomingEvent, Claim, auto_begin, btVars
<1>5. ASSUME NEW c \in Cids, Declined(c) PROVE P'
  BY <1>5 DEF Declined, SetChan, claimVars, autoVars, gapVars, btVars
<1>6. ASSUME NEW c \in Cids, OpenFailed(c) PROVE P'
  BY <1>6 DEF OpenFailed, SetChan, auto_release, Unclaim, claimVars, autoVars,
              gapVars, btVars
<1>7. ASSUME NEW c \in Cids, Opened(c) PROVE P'
  BY <1>7 DEF Opened, SetChan, Call, claimVars, autoVars, gapVars
<1>8. ASSUME NEW c \in Cids, ClosedOther(c) PROVE P'
  BY <1>8 DEF ClosedOther, ClosedEvent, SetChan, claimVars, autoVars, gapVars,
              btVars
<1>9. ASSUME NEW c \in Cids, ClosedHeld(c) PROVE P'
  BY <1>9 DEF ClosedHeld, ClosedEvent, SetChan, auto_release, Unclaim, gapVars,
              btVars
<1>10. ASSUME NEW c \in Cids, ClosedSession(c) PROVE P'
  BY <1>10 DEF ClosedSession, ClosedEvent, SetChan, Unclaim, autoVars, gapVars,
               btVars
<1>11. ASSUME NEW a \in BOOLEAN, NameReply(a) PROVE P'
  BY <1>11 DEF NameReply, auto_decide, auto_release, SetChan, claimVars,
               autoVars, rfcommVars, btVars
<1>12. ASSUME NEW p \in Phones, LinkDown(p) PROVE P'
  BY <1>12 DEF LinkDown, rfcommVars, claimVars, autoVars, btVars
<1>13. ASSUME NEW p \in Phones, NEW r \in BOOLEAN, SecurityLevel(p, r) PROVE P'
  BY <1>13 DEF SecurityLevel, auto_fail, auto_release, SetChan, Unclaim,
               rfcommVars, claimVars, autoVars, btVars
<1>14. (\E c \in Cids : DataPacket(c)) => ClaimParts'
  BY OtherSteps, ClaimFrameStep
<1>15. P' => ClaimParts'
  BY DEF ClaimParts
<1> HIDE <1>0 DEF P
<1> QED
  BY <1>2, <1>3, <1>4, <1>5, <1>6, <1>7, <1>8, <1>9, <1>10, <1>11, <1>12, <1>13,
     <1>14, <1>15 DEF Incoming, ChannelEvent, LinkEvent

LEMMA ClaimTask == ClaimInv /\ BtTask => ClaimParts'
<1> SUFFICES ASSUME ClaimInv PROVE BtTask => ClaimParts'
  OBVIOUS
<1>0. /\ ChanType /\ ClaimType /\ AutoType /\ BtType
      /\ ClaimMatchesChannel /\ AutoModeDecision /\ HeldChannel /\ HandlerChannel
  BY DEF ClaimInv, TypeOK
<1>1. ASSUME bt_pc \in {"create", "abort"}, bt_pc' = "loop",
             chan' = [chan EXCEPT ![bt_cid] = "closing"], Unclaim,
             UNCHANGED <<peer, level, link_mode, auto_cid, auto_addr>>
      PROVE  ClaimParts'
  BY <1>0, <1>1, PppLinkAssumption
     DEF ClaimParts, ClaimMatchesChannel, AutoModeDecision, HeldChannel,
         HandlerChannel, Unclaim, ChanType, ClaimType, AutoType, ChanStates
<1>2. CASE CreateFailed
  BY <1>1, <1>2 DEF CreateFailed, StartFailed, Returned, BackToLoop, SetChan,
     gapVars, autoVars
<1>3. CASE Aborted
  BY <1>1, <1>3 DEF Aborted, StartFailed, Returned, BackToLoop, SetChan, gapVars,
     autoVars
<1>4. ASSUME UNCHANGED <<chan, peer, level, link_mode, session_active,
                         active_cid, auto_cid, auto_addr>>,
             HandlerChannel'
      PROVE  ClaimParts'
  BY <1>0, <1>4 DEF ClaimParts, ClaimMatchesChannel, AutoModeDecision,
                    HeldChannel
<1>5. CASE Created \/ ListenFailed
  <2>1. UNCHANGED <<chan, peer, level, link_mode, session_active, active_cid,
                    auto_cid, auto_addr, bt_cid>>
    BY <1>5 DEF Created, ListenFailed, rfcommVars, gapVars, claimVars, autoVars
  <2>2. bt_pc \in {"create", "listen"} /\ bt_pc' \in {"listen", "abort"}
    BY <1>5 DEF Created, ListenFailed, Returned, Call
  <2>3. HandlerChannel'
    BY <1>0, <2>1, <2>2 DEF HandlerChannel
  <2> QED BY <1>4, <2>1, <2>3
<1>6. CASE StopClose
  <2>1. UNCHANGED <<chan, peer, level, link_mode, session_active, active_cid,
                    auto_cid, auto_addr, bt_cid>>
    BY <1>6 DEF StopClose, rfcommVars, gapVars, claimVars, autoVars
  <2>2. bt_pc = "stop" /\ bt_pc' = "close"
    BY <1>6 DEF StopClose, Call
  <2>3. HandlerChannel'
    BY <1>0, <2>1, <2>2 DEF HandlerChannel
  <2> QED BY <1>4, <2>1, <2>3
<1>7. CASE Listening \/ Stopped
  <2>1. UNCHANGED <<chan, peer, level, link_mode, session_active, active_cid,
                    auto_cid, auto_addr>>
    BY <1>7 DEF Listening, Stopped, rfcommVars, gapVars, claimVars, autoVars
  <2>2. bt_pc' = "loop"
    BY <1>7 DEF Listening, Stopped, BackToLoop
  <2>3. HandlerChannel'
    BY <2>2 DEF HandlerChannel
  <2> QED BY <1>4, <2>1, <2>3
<1> QED BY <1>2, <1>3, <1>5, <1>6, <1>7 DEF BtTask

LEMMA ClaimStep == ClaimInv /\ [Next]_vars => ClaimInv'
BY TypeStep, ClaimEvents, ClaimTask, OtherSteps, ClaimFrameStep
   DEF ClaimInv, ClaimParts, Next

LEMMA ClaimInvariant == Spec => []ClaimInv
<1>1. Init => ClaimInv
  <2> SUFFICES ASSUME Init PROVE ClaimInv
    OBVIOUS
  <2>1. TypeOK
    BY InitTypeOK
  <2>2. ClaimMatchesChannel /\ AutoModeDecision /\ HeldChannel /\ HandlerChannel
    BY PppLinkAssumption DEF Init, ClaimMatchesChannel, AutoModeDecision,
       HeldChannel, HandlerChannel
  <2> QED BY <2>1, <2>2 DEF ClaimInv
<1> QED BY <1>1, ClaimStep, PTL DEF Spec

(* The bridge is never busy for a channel RFCOMM no longer holds for it,   *)
(* and no channel but the claimed one was accepted (session_active and     *)
(* active_cid of ppp_link.c).                                              *)
THEOREM ClaimIsReal == Spec => []ClaimMatchesChannel
BY ClaimInvariant, PTL DEF ClaimInv

(* In auto mode no phone is let in but a known model or over an            *)
(* authenticated, encrypted link (auto_decide, auto_hci_handler).          *)
THEOREM AutoModeIsSafe == Spec => []AutoModeDecision
BY ClaimInvariant, PTL DEF ClaimInv

-----------------------------------------------------------------------------
(* The pcb and its session.  What the tcpip task may find depends on where *)
(* the BTstack task is: the call it waits for is the last message of the   *)
(* mailbox, and everything before it is data for the pcb of the session.   *)

\* Every pcb that is not free is p.
Only(p) == \A q \in Pcbs : phase[q] # "free" => q = p
AllFree == \A q \in Pcbs : phase[q] = "free"

MineOnly     == \A i \in 1..Len(mbox) : mbox[i].op # "create" => mbox[i].pcb = ppp
InputsBefore == \A i \in 1..(Len(mbox) - 1) : mbox[i].op = "input"
InputsOnly   == MineOnly /\ \A i \in 1..Len(mbox) : mbox[i].op = "input"
CallLast(o)  == /\ api.st = "wait" /\ MineOnly /\ InputsBefore
                /\ mbox # <<>> /\ mbox[Len(mbox)].op = o

\* The tcpip task is in no callback, or in one that is not of a close.
NotClosing == tc = NoCallback \/ (tc = [pcb |-> ppp, closing |-> FALSE] /\ phase[ppp] = "dead")
Done(st) == api.st = st /\ mbox = <<>> /\ tc = NoCallback

NobodyServed == ppp = NULL /\ mbox = <<>> /\ AllFree /\ tc = NoCallback

InLoop ==
  /\ api = NoCall
  /\ \/ NobodyServed /\ (session_active => chan[active_cid] # "open")
     \/ /\ ppp # NULL /\ session_active /\ chan[active_cid] = "open"
        /\ InputsOnly /\ \A i \in 1..Len(mbox) : mbox[i].cid = active_cid
        /\ Only(ppp) /\ NotClosing
        /\ phase[ppp] \in {"listening", "open"} <=> tc = NoCallback
        /\ phase[ppp] # "free"

InCreate ==
  /\ ppp = NULL /\ tc = NoCallback
  /\ \/ CallLast("create") /\ Len(mbox) = 1 /\ AllFree
     \/ Done("ok") /\ api.pcb \in Pcbs /\ Only(api.pcb) /\ phase[api.pcb] = "dead"
     \/ Done("err") /\ AllFree

InListen ==
  /\ ppp # NULL /\ Only(ppp) /\ tc = NoCallback
  /\ \/ CallLast("listen") /\ phase[ppp] = "dead"
     \/ Done("ok") /\ phase[ppp] = "listening"
     \/ Done("err") /\ phase[ppp] = "dead"

InStop ==
  /\ ppp # NULL /\ Only(ppp) /\ phase[ppp] # "free"
  /\ api = NoCall /\ InputsOnly /\ NotClosing

InClosing ==
  /\ ppp # NULL /\ Only(ppp)
  /\ \/ CallLast("close") /\ phase[ppp] # "free" /\ NotClosing
     \/ /\ api.st = "wait" /\ mbox = <<>>
        /\ tc = [pcb |-> ppp, closing |-> TRUE] /\ phase[ppp] = "dead"
     \/ Done("ok") /\ AllFree

\* After an early free nothing is left to run but the use of the freed pcb.
FreedEarly ==
  early => /\ bt_pc \in {"abort", "close"} /\ ppp # NULL
           /\ CallLast("close") /\ AllFree /\ ~ppp_up_flag /\ tc = NoCallback

PcbCases ==
  ~early => /\ ~fault
            /\ bt_pc = "loop"   => InLoop
            /\ bt_pc = "create" => InCreate
            /\ bt_pc = "listen" => InListen
            /\ bt_pc = "stop"   => InStop
            /\ bt_pc \in {"abort", "close"} => InClosing

UpIsOpen == ppp_up_flag => ppp # NULL /\ phase[ppp] = "open"
TeardownMarked == ppp_teardown <=> bt_pc \in {"abort", "close"}

PcbInv == /\ ClaimInv /\ TeardownMarked /\ UpIsOpen
          /\ fault => early /\ bt_pc \in {"abort", "close"}
          /\ ~fault => FreedEarly
          /\ PcbCases

PcbParts == /\ TeardownMarked /\ UpIsOpen
            /\ fault => early /\ bt_pc \in {"abort", "close"}
            /\ ~fault => FreedEarly
            /\ PcbCases

\* What the events of the run loop leave alone.
PcbFrame == UNCHANGED <<ppp, ppp_teardown, ppp_up_flag, bt_pc, phase, mbox, api, tc,
                        early, fault>>

LEMMA LoopIsServing ==
  ASSUME PcbInv, ~fault, bt_pc = "loop" PROVE ~early /\ InLoop
BY DEF PcbInv, PcbCases, FreedEarly

(* An event that leaves a served channel open and opens no other.          *)
LEMMA LoopKeeps ==
  ASSUME PcbInv, ~fault, bt_pc = "loop", PcbFrame,
         ppp # NULL => /\ UNCHANGED <<session_active, active_cid>>
                       /\ chan'[active_cid] = "open",
         ppp = NULL => (session_active' => chan'[active_cid'] # "open")
  PROVE  PcbParts'
<1>1. ~early /\ InLoop
  BY LoopIsServing
<1>2. InLoop'
  <2>1. CASE NobodyServed
    BY <2>1, <1>1 DEF InLoop, NobodyServed, PcbFrame, AllFree
  <2>2. CASE ~NobodyServed
    BY <2>2, <1>1 DEF InLoop, PcbFrame, InputsOnly, MineOnly, Only, NotClosing
  <2> QED BY <2>1, <2>2
<1>3. (TeardownMarked /\ UpIsOpen)'
  BY DEF PcbInv, TeardownMarked, UpIsOpen, PcbFrame
<1> QED BY <1>1, <1>2, <1>3 DEF PcbParts, PcbFrame, PcbCases, FreedEarly

\* With nobody served no pcb exists; a served channel is the claimed one.
LEMMA ServedIsClaimed ==
  ASSUME PcbInv, ~fault, bt_pc = "loop"
  PROVE  /\ ppp # NULL => session_active /\ active_cid \in Cids /\ chan[active_cid] = "open"
         /\ ppp = NULL => (session_active => chan[active_cid] # "open")
         /\ auto_cid # NoCid => chan[auto_cid] = "incoming"
         /\ session_active <=> active_cid # NoCid
         /\ active_cid \in Cids \cup {NoCid} /\ auto_cid \in Cids \cup {NoCid}
         /\ chan \in [Cids -> ChanStates]
<1>1. ~early /\ InLoop
  BY LoopIsServing
<1>2. /\ active_cid \in Cids \cup {NoCid} /\ auto_cid \in Cids \cup {NoCid}
      /\ chan \in [Cids -> ChanStates]
  BY DEF PcbInv, ClaimInv, TypeOK, ClaimType, AutoType, ChanType
<1>3. /\ session_active <=> active_cid # NoCid
      /\ auto_cid # NoCid => chan[auto_cid] = "incoming"
  BY <1>2 DEF PcbInv, ClaimInv, ClaimMatchesChannel, HeldChannel
<1> QED BY <1>1, <1>2, <1>3 DEF InLoop, NobodyServed

LEMMA PcbIncoming == ASSUME PcbInv, ~fault, Incoming PROVE PcbParts'
<1>1. PICK c \in Cids, p \in Phones :
        IncomingBusy(c, p) \/ IncomingAccept(c, p) \/ IncomingHold(c, p)
  BY DEF Incoming
<1>2. bt_pc = "loop" /\ chan[c] = "idle" /\ PcbFrame
  BY <1>1 DEF IncomingBusy, IncomingAccept, IncomingHold, IncomingEvent, PcbFrame,
              pppVars, btVars, lwipVars, history
<1>3. CASE IncomingBusy(c, p)
  BY <1>2, <1>3, ServedIsClaimed, LoopKeeps DEF IncomingBusy, claimVars
<1>4. CASE IncomingAccept(c, p) \/ IncomingHold(c, p)
  BY <1>2, <1>4, ServedIsClaimed, LoopKeeps DEF IncomingAccept, IncomingHold, Claim
<1> QED BY <1>1, <1>3, <1>4

LEMMA PcbLinkEvent == ASSUME PcbInv, ~fault, LinkEvent PROVE PcbParts'
<1>1. bt_pc = "loop" /\ PcbFrame
  BY DEF LinkEvent, NameReply, LinkDown, SecurityLevel, PcbFrame, pppVars, btVars,
         lwipVars, history
<1>2. CASE \E a \in BOOLEAN : NameReply(a)
  <2>1. UNCHANGED <<session_active, active_cid>>
    BY <1>2 DEF NameReply, claimVars
  <2>2. \/ UNCHANGED chan
        \/ auto_cid # NoCid /\ chan' = [chan EXCEPT ![auto_cid] = "accepted"]
    BY <1>2 DEF NameReply, auto_decide, SetChan, rfcommVars
  <2> QED BY <1>1, <2>1, <2>2, ServedIsClaimed, LoopKeeps, PppLinkAssumption
<1>3. CASE \E p \in Phones : LinkDown(p)
  BY <1>1, <1>3, ServedIsClaimed, LoopKeeps DEF LinkDown, rfcommVars, claimVars
<1>4. CASE \E p \in Phones, r \in BOOLEAN : SecurityLevel(p, r)
  <2>1. \/ UNCHANGED <<chan, session_active, active_cid>>
        \/ /\ auto_cid # NoCid /\ chan' = [chan EXCEPT ![auto_cid] = "accepted"]
           /\ UNCHANGED <<session_active, active_cid>>
        \/ /\ auto_cid # NoCid /\ chan' = [chan EXCEPT ![auto_cid] = "declined"]
           /\ IF active_cid = auto_cid THEN Unclaim
              ELSE UNCHANGED <<session_active, active_cid>>
    BY <1>4 DEF SecurityLevel, auto_fail, SetChan, rfcommVars, claimVars
  <2> QED BY <1>1, <2>1, ServedIsClaimed, LoopKeeps, PppLinkAssumption DEF Unclaim
<1> QED BY <1>2, <1>3, <1>4 DEF LinkEvent

(* Channel events of the run loop that leave lwIP alone.                   *)
LEMMA PcbChannel ==
  ASSUME PcbInv, ~fault, NEW c \in Cids,
         Declined(c) \/ OpenFailed(c) \/ ClosedOther(c) \/ ClosedHeld(c)
  PROVE  PcbParts'
<1>1. bt_pc = "loop" /\ PcbFrame
  BY DEF Declined, OpenFailed, ClosedOther, ClosedHeld, ClosedEvent, PcbFrame,
         pppVars, btVars, lwipVars, history
<1>2. chan' = [chan EXCEPT ![c] = "idle"]
  BY DEF Declined, OpenFailed, ClosedOther, ClosedHeld, ClosedEvent, SetChan
<1>3. \/ UNCHANGED <<session_active, active_cid>> /\ (c # active_cid \/ chan[c] = "declined")
      \/ Unclaim /\ active_cid = NoCid
      \/ Unclaim /\ c = active_cid /\ chan[c] # "open"
  BY ServedIsClaimed, <1>1
     DEF Declined, OpenFailed, ClosedOther, ClosedHeld, ClosedEvent, claimVars
<1> QED BY <1>1, <1>2, <1>3, ServedIsClaimed, LoopKeeps, PppLinkAssumption DEF Unclaim

(* The mailbox.                                                            *)
LEMMA AppendEntries ==
  ASSUME NEW S, NEW s \in Seq(S), NEW e \in S
  PROVE  /\ Len(Append(s, e)) = Len(s) + 1 /\ Len(s) \in Nat /\ Append(s, e) # <<>>
         /\ \A i \in 1..Len(s) : Append(s, e)[i] = s[i]
         /\ Append(s, e)[Len(s) + 1] = e
OBVIOUS

LEMMA TailEntries ==
  ASSUME NEW S, NEW s \in Seq(S), s # <<>>
  PROVE  /\ Len(Tail(s)) = Len(s) - 1 /\ Len(s) \in Nat \ {0}
         /\ Head(s) = s[1] /\ s[1] \in S
         /\ \A i \in 1..(Len(s) - 1) : Tail(s)[i] = s[i + 1]
         /\ Tail(s) = <<>> <=> Len(s) = 1
<1>1. /\ Len(s) \in Nat \ {0} /\ Head(s) = s[1] /\ s[1] \in S
      /\ Tail(s) \in Seq(S) /\ Len(Tail(s)) = Len(s) - 1
  OBVIOUS
<1>2. \A i \in 1..(Len(s) - 1) : Tail(s)[i] = s[i + 1]
  BY <1>1
<1>3. Tail(s) = <<>> <=> Len(Tail(s)) = 0
  BY <1>1, EmptySeq
<1> QED BY <1>1, <1>2, <1>3

LEMMA MailType == ASSUME PcbInv PROVE mbox \in Seq(Messages)
BY DEF PcbInv, ClaimInv, TypeOK, PcbType

(* A call posted behind data of the session.                               *)
LEMMA PostCall ==
  ASSUME PcbInv, InputsOnly, NEW m \in Messages, mbox' = Append(mbox, m),
         m.op # "create" => m.pcb = ppp', mbox = <<>> \/ ppp' = ppp,
         api'.st = "wait"
  PROVE  CallLast(m.op)'
<1>1. /\ Len(mbox') = Len(mbox) + 1 /\ Len(mbox) \in Nat /\ mbox' # <<>>
      /\ \A i \in 1..Len(mbox) : mbox'[i] = mbox[i]
      /\ mbox'[Len(mbox) + 1] = m
  BY MailType, AppendEntries
<1>2. mbox = <<>> => Len(mbox) = 0
  OBVIOUS
<1>3. MineOnly'
  BY <1>1, <1>2 DEF MineOnly, InputsOnly
<1>4. InputsBefore'
  BY <1>1 DEF InputsBefore, InputsOnly
<1> QED BY <1>1, <1>3, <1>4 DEF CallLast

(* Serving the mailbox the BTstack task waits at the end of.               *)
LEMMA ServeCalled ==
  ASSUME PcbInv, NEW k, CallLast(k), NEW o, Serve(o)
  PROVE  /\ o = "input" => /\ k # "input" => /\ MineOnly' /\ InputsBefore' /\ mbox' # <<>>
                                             /\ mbox'[Len(mbox')].op = k
                           /\ Head(mbox).pcb = ppp
         /\ o # "input" => o = k /\ mbox' = <<>> /\ (k # "create" => Head(mbox).pcb = ppp)
<1>1. /\ Len(mbox') = Len(mbox) - 1 /\ Len(mbox) \in Nat \ {0}
      /\ Head(mbox) = mbox[1]
      /\ \A i \in 1..(Len(mbox) - 1) : mbox'[i] = mbox[i + 1]
      /\ mbox' = <<>> <=> Len(mbox) = 1
  BY MailType, TailEntries DEF Serve
<1>2. mbox[1].op = o /\ ppp' = ppp
  BY <1>1 DEF Serve
<1>3. CASE Len(mbox) = 1
  BY <1>1, <1>2, <1>3 DEF CallLast, MineOnly
<1>4. CASE Len(mbox) # 1
  <2>1. o = "input"
    BY <1>1, <1>2, <1>4 DEF CallLast, InputsBefore
  <2>2. MineOnly' /\ InputsBefore'
    BY <1>1, <1>2, <1>4 DEF CallLast, InputsBefore, MineOnly
  <2>3. mbox'[Len(mbox')] = mbox[Len(mbox)]
    BY <1>1, <1>4
  <2> QED BY <1>1, <1>2, <1>4, <2>1, <2>2, <2>3 DEF CallLast, MineOnly
<1> QED BY <1>3, <1>4

(* Serving a mailbox with nothing but data.                                *)
LEMMA ServeData ==
  ASSUME PcbInv, InputsOnly, NEW o, Serve(o)
  PROVE  /\ o = "input" /\ Head(mbox).pcb = ppp /\ InputsOnly'
         /\ (\A i \in 1..Len(mbox) : mbox[i].cid = active_cid)
              => (\A i \in 1..Len(mbox') : mbox'[i].cid = active_cid)
<1>1. /\ Len(mbox') = Len(mbox) - 1 /\ Len(mbox) \in Nat \ {0}
      /\ Head(mbox) = mbox[1]
      /\ \A i \in 1..(Len(mbox) - 1) : mbox'[i] = mbox[i + 1]
  BY MailType, TailEntries DEF Serve
<1>2. mbox[1].op = o /\ ppp' = ppp
  BY <1>1 DEF Serve
<1> QED BY <1>1, <1>2 DEF InputsOnly, MineOnly

(* The events of the run loop that reach lwIP.                             *)
LEMMA PcbOpened == ASSUME PcbInv, ~fault, NEW c \in Cids, Opened(c) PROVE PcbParts'
<1>1. bt_pc = "loop" /\ chan[c] = "accepted" /\ ~early /\ InLoop
  BY LoopIsServing DEF Opened
<1>2. active_cid = c
  BY <1>1 DEF PcbInv, ClaimInv, ClaimMatchesChannel
<1>3. NobodyServed
  BY <1>1, <1>2 DEF InLoop
<1>4. /\ bt_cid' = c /\ bt_pc' = "create" /\ api' = [st |-> "wait", pcb |-> NULL]
      /\ UNCHANGED <<ppp, ppp_teardown, ppp_up_flag, phase, tc, early, fault>>
      /\ mbox' = Append(mbox, [op |-> "create", pcb |-> NULL, cid |-> c])
  BY DEF Opened, Call, pppVars, history
<1>5. InputsOnly
  BY <1>3 DEF NobodyServed, InputsOnly, MineOnly
<1>6. [op |-> "create", pcb |-> NULL, cid |-> c] \in Messages
  BY DEF Messages
<1>7. CallLast("create")' /\ Len(mbox') = 1
  BY <1>3, <1>4, <1>5, <1>6, PostCall DEF NobodyServed
<1>8. InCreate'
  BY <1>3, <1>4, <1>7 DEF InCreate, NobodyServed, AllFree
<1>9. (TeardownMarked /\ UpIsOpen)'
  BY <1>1, <1>4 DEF PcbInv, TeardownMarked, UpIsOpen
<1> QED BY <1>1, <1>4, <1>8, <1>9 DEF PcbInv, PcbParts, PcbCases, FreedEarly

LEMMA PcbClosedSession ==
  ASSUME PcbInv, ~fault, NEW c \in Cids, ClosedSession(c) PROVE PcbParts'
<1>1. bt_pc = "loop" /\ ~early /\ InLoop
  BY LoopIsServing DEF ClosedSession, ClosedEvent
<1>2. /\ UNCHANGED <<ppp, ppp_teardown, phase, mbox, api, tc, early, fault>>
      /\ ~session_active'
  BY DEF ClosedSession, ClosedEvent, Unclaim, pppVars, history
<1>3. CASE ppp # NULL
  <2>1. bt_pc' = "stop" /\ UNCHANGED ppp_up_flag
    BY <1>3 DEF ClosedSession, pppVars
  <2>2. InStop'
    BY <1>1, <1>2, <1>3, <2>1
       DEF InLoop, InStop, NobodyServed, InputsOnly, MineOnly, Only, NotClosing
  <2>3. (TeardownMarked /\ UpIsOpen)'
    BY <1>1, <1>2, <2>1 DEF PcbInv, TeardownMarked, UpIsOpen
  <2> QED BY <1>1, <1>2, <2>1, <2>2, <2>3 DEF PcbInv, PcbParts, PcbCases, FreedEarly
<1>4. CASE ppp = NULL
  <2>1. bt_pc' = bt_pc /\ ~ppp_up_flag' /\ ~ppp_up_flag /\ ppp_up_flag' \in BOOLEAN
        /\ ppp_up_flag \in BOOLEAN
    BY <1>4 DEF ClosedSession, btVars, PcbInv, UpIsOpen, ClaimInv, TypeOK, PppType
  <2>2. PcbFrame
    BY <1>2, <2>1 DEF PcbFrame
  <2> QED BY <1>1, <1>2, <1>4, <2>2, LoopKeeps
<1> QED BY <1>3, <1>4

LEMMA PcbData == ASSUME PcbInv, ~fault, NEW c \in Cids, DataPacket(c) PROVE PcbParts'
<1>1. bt_pc = "loop" /\ ~early /\ InLoop /\ ppp # NULL /\ c = active_cid
  BY LoopIsServing DEF DataPacket
<1>2. /\ UNCHANGED <<ppp, ppp_teardown, ppp_up_flag, bt_pc, phase, api, tc, early,
                     fault, session_active, active_cid, chan>>
      /\ mbox' = Append(mbox, [op |-> "input", pcb |-> ppp, cid |-> c])
  BY DEF DataPacket, pppVars, btVars, history, claimVars, rfcommVars
<1>3. [op |-> "input", pcb |-> ppp, cid |-> c] \in Messages
  BY DEF Messages, PcbInv, ClaimInv, TypeOK, PppType
<1>4. /\ Len(mbox') = Len(mbox) + 1 /\ Len(mbox) \in Nat
      /\ \A i \in 1..Len(mbox) : mbox'[i] = mbox[i]
      /\ mbox'[Len(mbox) + 1] = [op |-> "input", pcb |-> ppp, cid |-> c]
  BY <1>2, <1>3, MailType, AppendEntries
<1>5. InputsOnly /\ \A i \in 1..Len(mbox) : mbox[i].cid = active_cid
  BY <1>1 DEF InLoop, NobodyServed
<1>6. (InputsOnly /\ \A i \in 1..Len(mbox) : mbox[i].cid = active_cid)'
  BY <1>1, <1>2, <1>4, <1>5 DEF InputsOnly, MineOnly
<1>7. InLoop'
  BY <1>1, <1>2, <1>6 DEF InLoop, NobodyServed, Only, NotClosing
<1>8. (TeardownMarked /\ UpIsOpen)'
  BY <1>2 DEF PcbInv, TeardownMarked, UpIsOpen
<1> QED BY <1>1, <1>2, <1>7, <1>8 DEF PcbInv, PcbParts, PcbCases, FreedEarly

(* A step that moves nothing these parts speak of.                         *)
LEMMA PcbSame ==
  ASSUME PcbInv, PcbFrame, UNCHANGED <<chan, session_active, active_cid>>
  PROVE  PcbParts'
<1>1. (InLoop <=> InLoop') /\ (InCreate <=> InCreate') /\ (InListen <=> InListen')
      /\ (InStop <=> InStop') /\ (InClosing <=> InClosing')
  BY DEF PcbFrame, InLoop, InCreate, InListen, InStop, InClosing, NobodyServed,
         InputsOnly, MineOnly, CallLast, InputsBefore, Only, AllFree, NotClosing, Done
<1>2. (TeardownMarked /\ UpIsOpen)'
  BY DEF PcbInv, TeardownMarked, UpIsOpen, PcbFrame
<1>3. FreedEarly => FreedEarly'
  BY DEF FreedEarly, PcbFrame, CallLast, MineOnly, InputsBefore, AllFree
<1> QED BY <1>1, <1>2, <1>3 DEF PcbInv, PcbParts, PcbFrame, PcbCases

\* The BTstack task still waits for the close after an early free.
LEMMA TaskNotEarly == ASSUME PcbInv, ~fault, BtTask PROVE ~early
<1> SUFFICES ASSUME early PROVE FALSE
  OBVIOUS
<1>1. bt_pc \in {"abort", "close"} /\ api.st = "wait"
  BY DEF PcbInv, FreedEarly, CallLast
<1> QED BY <1>1 DEF BtTask, CreateFailed, Created, Listening, ListenFailed,
                    Aborted, StopClose, Stopped, Returned

(* The BTstack task comes back from a call, or makes the one of a stop.    *)
LEMMA PcbBtTask == ASSUME PcbInv, ~fault, BtTask PROVE PcbParts'
<1>0. /\ TeardownMarked /\ UpIsOpen /\ FreedEarly /\ PcbCases
      /\ ppp \in Pcbs \cup {NULL} /\ ppp_up_flag \in BOOLEAN
      /\ bt_cid \in Cids \cup {NoCid} /\ api.pcb \in Pcbs \cup {NULL}
  BY DEF PcbInv, ClaimInv, TypeOK, PppType, BtType, CallType
<1>1. ~early
  BY TaskNotEarly
<1>2. CASE CreateFailed \/ Aborted
  <2>1. mbox = <<>> /\ tc = NoCallback /\ AllFree /\ ~ppp_up_flag
    <3>1. CASE CreateFailed
      BY <1>0, <1>1, <3>1 DEF CreateFailed, Returned, PcbCases, InCreate, CallLast,
         Done, UpIsOpen
    <3>2. CASE Aborted
      BY <1>0, <1>1, <3>2 DEF Aborted, Returned, PcbCases, InClosing, CallLast,
         Done, UpIsOpen, AllFree
    <3> QED BY <1>2, <3>1, <3>2
  <2>2. /\ ppp' = NULL /\ bt_pc' = "loop" /\ api' = NoCall /\ ~session_active'
        /\ UNCHANGED <<ppp_up_flag, phase, mbox, tc, early, fault>>
    BY <1>2 DEF CreateFailed, Aborted, StartFailed, Unclaim, BackToLoop, history
  <2>3. ~ppp_teardown'
    BY <1>0, <1>2 DEF CreateFailed, Aborted, Returned, TeardownMarked
  <2> QED BY <1>1, <2>1, <2>2, <2>3 DEF PcbInv, PcbParts, PcbCases, FreedEarly,
          InLoop, NobodyServed, AllFree, TeardownMarked, UpIsOpen
<1>3. CASE Created
  <2>1. /\ bt_pc = "create" /\ ppp = NULL /\ mbox = <<>> /\ tc = NoCallback
        /\ api.pcb \in Pcbs /\ Only(api.pcb) /\ phase[api.pcb] = "dead"
    BY <1>0, <1>1, <1>3 DEF Created, Returned, PcbCases, InCreate, CallLast, Done
  <2>2. /\ ppp' = api.pcb /\ bt_pc' = "listen" /\ api'.st = "wait"
        /\ mbox' = Append(mbox, [op |-> "listen", pcb |-> api.pcb, cid |-> bt_cid])
        /\ UNCHANGED <<ppp_teardown, ppp_up_flag, phase, tc, early, fault>>
    BY <1>3 DEF Created, Call, history
  <2>3. [op |-> "listen", pcb |-> api.pcb, cid |-> bt_cid] \in Messages
    BY <1>0 DEF Messages
  <2>4. CallLast("listen")'
    BY <2>1, <2>2, <2>3, PostCall DEF InputsOnly, MineOnly
  <2>5. InListen'
    BY <2>1, <2>2, <2>4, PppLinkAssumption DEF InListen, Only
  <2>6. (TeardownMarked /\ UpIsOpen)'
    BY <1>0, <2>1, <2>2 DEF TeardownMarked, UpIsOpen
  <2> QED BY <1>1, <2>2, <2>5, <2>6 DEF PcbInv, PcbParts, PcbCases, FreedEarly
<1>4. CASE Listening
  <2>1. /\ bt_pc = "listen" /\ ppp # NULL /\ Only(ppp) /\ mbox = <<>>
        /\ tc = NoCallback /\ phase[ppp] = "listening"
    BY <1>0, <1>1, <1>4 DEF Listening, Returned, PcbCases, InListen, CallLast, Done
  <2>2. session_active /\ chan[active_cid] = "open"
    BY <2>1, PppLinkAssumption
       DEF PcbInv, ClaimInv, ClaimMatchesChannel, HandlerChannel
  <2>3. /\ bt_pc' = "loop" /\ api' = NoCall
        /\ UNCHANGED <<chan, session_active, active_cid, ppp, ppp_teardown,
                       ppp_up_flag, phase, mbox, tc, early, fault>>
    BY <1>4 DEF Listening, BackToLoop, rfcommVars, claimVars, pppVars, history
  <2>4. InLoop'
    BY <2>1, <2>2, <2>3 DEF InLoop, InputsOnly, MineOnly, Only, NotClosing
  <2>5. (TeardownMarked /\ UpIsOpen)'
    BY <1>0, <2>1, <2>3 DEF TeardownMarked, UpIsOpen
  <2> QED BY <1>1, <2>3, <2>4, <2>5 DEF PcbInv, PcbParts, PcbCases, FreedEarly
<1>5. CASE ListenFailed \/ StopClose
  <2>1. /\ ppp # NULL /\ Only(ppp) /\ phase[ppp] # "free" /\ InputsOnly /\ NotClosing
    <3>1. CASE ListenFailed
      BY <1>0, <1>1, <3>1 DEF ListenFailed, Returned, PcbCases, InListen, CallLast,
         Done, InputsOnly, MineOnly, NotClosing
    <3>2. CASE StopClose
      BY <1>0, <1>1, <3>2 DEF StopClose, PcbCases, InStop
    <3> QED BY <1>5, <3>1, <3>2
  <2>2. /\ bt_pc' \in {"abort", "close"} /\ api'.st = "wait" /\ ppp_teardown' = TRUE
        /\ mbox' = Append(mbox, [op |-> "close", pcb |-> ppp, cid |-> bt_cid])
        /\ UNCHANGED <<ppp, ppp_up_flag, phase, tc, early, fault>>
    BY <1>5 DEF ListenFailed, StopClose, Call, history
  <2>3. [op |-> "close", pcb |-> ppp, cid |-> bt_cid] \in Messages
    BY <1>0 DEF Messages
  <2>4. CallLast("close")'
    BY <2>1, <2>2, <2>3, PostCall
  <2>5. InClosing'
    BY <2>1, <2>2, <2>4 DEF InClosing, Only, NotClosing
  <2>6. (TeardownMarked /\ UpIsOpen)'
    BY <1>0, <2>2 DEF TeardownMarked, UpIsOpen
  <2> QED BY <1>1, <2>2, <2>5, <2>6 DEF PcbInv, PcbParts, PcbCases, FreedEarly
<1>6. CASE Stopped
  <2>1. bt_pc = "close" /\ mbox = <<>> /\ tc = NoCallback /\ AllFree
    BY <1>0, <1>1, <1>6 DEF Stopped, Returned, PcbCases, InClosing, CallLast, Done
  <2>2. ~session_active
    BY <2>1 DEF PcbInv, ClaimInv, ClaimMatchesChannel, HandlerChannel
  <2>3. /\ ppp' = NULL /\ bt_pc' = "loop" /\ api' = NoCall /\ ~session_active'
        /\ ~ppp_teardown' /\ ~ppp_up_flag'
        /\ UNCHANGED <<phase, mbox, tc, early, fault>>
    BY <1>6, <2>2 DEF Stopped, BackToLoop, claimVars, history
  <2> QED BY <1>1, <2>1, <2>3 DEF PcbInv, PcbParts, PcbCases, FreedEarly,
          InLoop, NobodyServed, AllFree, TeardownMarked, UpIsOpen
<1> QED BY <1>2, <1>3, <1>4, <1>5, <1>6 DEF BtTask

(* The tcpip task never meets a free pcb but after an early free.          *)
LEMMA ServedState ==
  ASSUME PcbInv, ~fault, NEW o, Serve(o)
  PROVE  /\ UNCHANGED <<chan, session_active, active_cid, ppp, ppp_teardown, bt_pc, early>>
         /\ tc = NoCallback /\ mbox # <<>> /\ ppp \in Pcbs \cup {NULL}
         /\ TeardownMarked' /\ phase \in [Pcbs -> Phases]
         /\ \/ early /\ FreedEarly
            \/ ~early /\ PcbCases
BY DEF Serve, PcbInv, rfcommVars, claimVars, btVars, TeardownMarked, ClaimInv, TypeOK,
       PcbType, PppType

LEMMA PcbServeInput == ASSUME PcbInv, ~fault, ServeInput PROVE PcbParts'
<1>1. /\ UNCHANGED <<chan, session_active, active_cid, ppp, ppp_teardown, bt_pc, early>>
      /\ tc = NoCallback /\ mbox # <<>> /\ ppp \in Pcbs \cup {NULL}
      /\ TeardownMarked' /\ phase \in [Pcbs -> Phases]
      /\ \/ early /\ FreedEarly
         \/ ~early /\ PcbCases
  BY ServedState DEF ServeInput
<1>2. /\ Serve("input") /\ phase[Head(mbox).pcb] # "free"
      /\ phase' = [phase EXCEPT ![Head(mbox).pcb] = IF @ = "dead" THEN @ ELSE "open"]
      /\ UNCHANGED <<api, tc, ppp_up_flag, fault>>
  BY DEF ServeInput
<1>3. ASSUME Head(mbox).pcb = ppp, ppp # NULL, Only(ppp), ~early, ~fault
      PROVE  /\ Only(ppp)' /\ phase'[ppp] = (IF phase[ppp] = "dead" THEN "dead" ELSE "open")
             /\ phase[ppp] # "free" /\ UpIsOpen' /\ ~fault' /\ ~early'
  BY <1>1, <1>2, <1>3 DEF Only, PcbInv, UpIsOpen
<1>4. CASE early
  <2>1. Head(mbox).pcb = ppp
    BY <1>1, <1>2, <1>4, ServeCalled DEF FreedEarly
  <2> QED BY <1>1, <1>2, <1>4, <2>1 DEF FreedEarly, AllFree
<1>5. CASE ~early /\ bt_pc = "loop"
  <2>1. InLoop /\ ~NobodyServed
    BY <1>1, <1>5 DEF PcbCases, NobodyServed
  <2>2. /\ Head(mbox).pcb = ppp /\ InputsOnly'
        /\ \A i \in 1..Len(mbox') : mbox'[i].cid = active_cid
    BY <1>2, <2>1, ServeData DEF InLoop
  <2>3. Only(ppp)' /\ phase'[ppp] = "open" /\ UpIsOpen' /\ ~fault' /\ ~early'
    BY <1>1, <1>3, <1>5, <2>1, <2>2 DEF InLoop
  <2>4. InLoop'
    BY <1>1, <1>2, <2>1, <2>2, <2>3 DEF InLoop, NotClosing, Only
  <2> QED BY <1>1, <1>5, <2>3, <2>4 DEF PcbParts, PcbCases, FreedEarly
<1>6. CASE ~early /\ bt_pc = "create"
  <2>1. CallLast("create") /\ Len(mbox) = 1
    BY <1>1, <1>6 DEF PcbCases, InCreate, Done
  <2>2. Head(mbox).op = "create"
    BY <2>1, MailType, TailEntries DEF CallLast
  <2> QED BY <1>2, <2>2 DEF Serve
<1>7. CASE ~early /\ bt_pc = "listen"
  <2>1. CallLast("listen") /\ phase[ppp] = "dead" /\ ppp # NULL /\ Only(ppp)
    BY <1>1, <1>7 DEF PcbCases, InListen, Done
  <2>2. Head(mbox).pcb = ppp /\ CallLast("listen")'
    BY <1>2, <2>1, ServeCalled DEF CallLast
  <2>3. Only(ppp)' /\ phase'[ppp] = "dead" /\ UpIsOpen' /\ ~fault' /\ ~early'
    BY <1>3, <1>7, <2>1, <2>2
  <2>4. InListen'
    BY <1>1, <1>2, <2>1, <2>2, <2>3 DEF InListen, Only
  <2> QED BY <1>1, <1>7, <2>3, <2>4 DEF PcbParts, PcbCases, FreedEarly
<1>8. CASE ~early /\ bt_pc = "stop"
  <2>1. InStop
    BY <1>1, <1>8 DEF PcbCases
  <2>2. Head(mbox).pcb = ppp /\ InputsOnly'
    BY <1>2, <2>1, ServeData DEF InStop
  <2>3. Only(ppp)' /\ phase'[ppp] # "free" /\ UpIsOpen' /\ ~fault' /\ ~early'
    BY <1>3, <1>8, <2>1, <2>2 DEF InStop
  <2>4. InStop'
    BY <1>1, <1>2, <2>1, <2>2, <2>3 DEF InStop, NotClosing, Only
  <2> QED BY <1>1, <1>8, <2>3, <2>4 DEF PcbParts, PcbCases, FreedEarly
<1>9. CASE ~early /\ bt_pc \in {"abort", "close"}
  <2>1. CallLast("close") /\ ppp # NULL /\ Only(ppp)
    BY <1>1, <1>9 DEF PcbCases, InClosing, Done
  <2>2. Head(mbox).pcb = ppp /\ CallLast("close")'
    BY <1>2, <2>1, ServeCalled DEF CallLast
  <2>3. Only(ppp)' /\ phase'[ppp] # "free" /\ UpIsOpen' /\ ~fault' /\ ~early'
    BY <1>3, <1>9, <2>1, <2>2
  <2>4. InClosing'
    BY <1>1, <1>2, <2>1, <2>2, <2>3 DEF InClosing, NotClosing, Only
  <2> QED BY <1>1, <1>9, <2>3, <2>4 DEF PcbParts, PcbCases, FreedEarly
<1> QED BY <1>1, <1>4, <1>5, <1>6, <1>7, <1>8, <1>9
        DEF PcbInv, ClaimInv, TypeOK, BtType, BtPcs

LEMMA PcbServeCall ==
  ASSUME PcbInv, ~fault, ServeCreate \/ ServeListen \/ ServeClose PROVE PcbParts'
<1>1. PICK o \in {"create", "listen", "close"} : Serve(o)
  BY DEF ServeCreate, ServeListen, ServeClose
<1>2. /\ UNCHANGED <<chan, session_active, active_cid, ppp, ppp_teardown, bt_pc, early>>
      /\ tc = NoCallback /\ mbox # <<>> /\ ppp \in Pcbs \cup {NULL}
      /\ TeardownMarked' /\ phase \in [Pcbs -> Phases]
      /\ \/ early /\ FreedEarly
         \/ ~early /\ PcbCases
  BY <1>1, ServedState
<1>3. fault' = fault
  BY DEF ServeCreate, ServeListen, ServeClose
<1>4. \A k : CallLast(k) => o = k /\ mbox' = <<>> /\ (k # "create" => Head(mbox).pcb = ppp)
  <2> TAKE k
  <2> HAVE CallLast(k)
  <2> QED BY <1>1, ServeCalled
<1>5. ~InputsOnly
  BY <1>1, ServeData
<1>6. ~early /\ bt_pc \notin {"loop", "stop"}
  <2>1. ASSUME early PROVE FALSE
    <3>1. o = "close" /\ Head(mbox).pcb = ppp /\ phase[ppp] = "free"
      BY <1>2, <1>4, <2>1 DEF FreedEarly, AllFree
    <3>2. CASE ServeClose
      BY <3>1, <3>2 DEF ServeClose
    <3>3. CASE ServeCreate \/ ServeListen
      BY <1>1, <3>1, <3>3 DEF ServeCreate, ServeListen, Serve
    <3> QED BY <3>2, <3>3
  <2>2. bt_pc # "loop" /\ bt_pc # "stop"
    BY <1>2, <1>5, <2>1 DEF PcbCases, InLoop, InStop, NobodyServed
  <2> QED BY <2>1, <2>2
<1>7. CASE bt_pc = "create"
  <2>1. ppp = NULL /\ CallLast("create") /\ AllFree /\ Head(mbox).op = "create"
        /\ mbox' = <<>>
    BY <1>1, <1>2, <1>4, <1>6, <1>7 DEF PcbCases, InCreate, Done, Serve
  <2>2. ServeCreate
    BY <2>1 DEF ServeListen, ServeClose, Serve
  <2>3. UNCHANGED <<tc, ppp_up_flag>> /\ ~ppp_up_flag
    BY <2>1, <2>2 DEF ServeCreate, PcbInv, UpIsOpen
  <2>4. \/ /\ AllFree' /\ api' = [st |-> "err", pcb |-> NULL]
        \/ \E p \in Pcbs : /\ api' = [st |-> "ok", pcb |-> p]
                           /\ phase' = [phase EXCEPT ![p] = "dead"]
    BY <2>1, <2>2 DEF ServeCreate, AllFree
  <2>5. InCreate'
    <3>1. CASE AllFree' /\ api' = [st |-> "err", pcb |-> NULL]
      BY <1>2, <2>1, <2>3, <3>1 DEF InCreate, Done
    <3>2. ASSUME NEW p \in Pcbs, api' = [st |-> "ok", pcb |-> p],
                 phase' = [phase EXCEPT ![p] = "dead"]
          PROVE  InCreate'
      <4>1. Only(p)' /\ phase'[p] = "dead"
        BY <1>2, <2>1, <3>2 DEF AllFree, Only
      <4> QED BY <1>2, <2>1, <2>3, <3>2, <4>1 DEF InCreate, Done, Only
    <3> QED BY <2>4, <3>1, <3>2
  <2> QED BY <1>2, <1>3, <1>6, <1>7, <2>3, <2>5
          DEF PcbParts, PcbCases, UpIsOpen, FreedEarly
<1>8. CASE bt_pc = "listen"
  <2>1. /\ ppp # NULL /\ Only(ppp) /\ phase[ppp] = "dead" /\ Head(mbox).pcb = ppp
        /\ CallLast("listen") /\ Head(mbox).op = "listen" /\ mbox' = <<>>
    BY <1>1, <1>2, <1>4, <1>6, <1>8 DEF PcbCases, InListen, Done, Serve
  <2>2. ServeListen
    BY <2>1 DEF ServeCreate, ServeClose, Serve
  <2>3. UNCHANGED <<tc, ppp_up_flag>> /\ ~ppp_up_flag
    BY <2>1, <2>2 DEF ServeListen, PcbInv, UpIsOpen
  <2>4. \/ api'.st = "ok" /\ phase' = [phase EXCEPT ![ppp] = "listening"]
        \/ api'.st = "err" /\ phase' = phase
    BY <2>1, <2>2 DEF ServeListen
  <2>5. InListen'
    BY <1>2, <2>1, <2>3, <2>4 DEF InListen, Done, Only
  <2> QED BY <1>2, <1>3, <1>6, <1>8, <2>3, <2>5
          DEF PcbParts, PcbCases, UpIsOpen, FreedEarly
<1>9. CASE bt_pc \in {"abort", "close"}
  <2>1. /\ ppp # NULL /\ Only(ppp) /\ Head(mbox).pcb = ppp
        /\ CallLast("close") /\ Head(mbox).op = "close" /\ mbox' = <<>>
    BY <1>1, <1>2, <1>4, <1>6, <1>9 DEF PcbCases, InClosing, Done, Serve
  <2>2. ServeClose
    BY <2>1 DEF ServeCreate, ServeListen, Serve
  <2>3. /\ tc' = [pcb |-> ppp, closing |-> TRUE] /\ ~ppp_up_flag' /\ api' = api
        /\ phase' = [phase EXCEPT ![ppp] = "dead"]
    BY <2>1, <2>2 DEF ServeClose, StatusDown
  <2>4. InClosing'
    BY <1>2, <2>1, <2>3 DEF InClosing, CallLast, Only
  <2> QED BY <1>2, <1>3, <1>6, <1>9, <2>3, <2>4
          DEF PcbParts, PcbCases, UpIsOpen, FreedEarly
<1> QED BY <1>6, <1>7, <1>8, <1>9 DEF PcbInv, ClaimInv, TypeOK, BtType, BtPcs

(* Freed memory is touched only after an early free.                       *)
LEMMA PcbTouchFreed == ASSUME PcbInv, ~fault, TouchFreed PROVE PcbParts'
<1>1. PICK o \in {"input", "close"} : Serve(o)
  BY DEF TouchFreed
<1>2. /\ UNCHANGED <<ppp, ppp_teardown, bt_pc, early>>
      /\ tc = NoCallback /\ mbox # <<>> /\ ppp \in Pcbs \cup {NULL}
      /\ TeardownMarked'
      /\ \/ early /\ FreedEarly
         \/ ~early /\ PcbCases
  BY <1>1, ServedState
<1>3. phase[Head(mbox).pcb] = "free" /\ UNCHANGED <<phase, ppp_up_flag>>
  BY DEF TouchFreed
<1>4. early
  <2> SUFFICES ASSUME ~early PROVE FALSE
    OBVIOUS
  <2>1. CASE bt_pc \in {"loop", "stop"}
    <3>1. InputsOnly /\ phase[ppp] # "free"
      BY <1>2, <2>1 DEF PcbCases, InLoop, InStop, NobodyServed
    <3> QED BY <1>1, <1>3, <3>1, ServeData
  <2>2. CASE bt_pc = "create"
    <3>1. CallLast("create") /\ Len(mbox) = 1
      BY <1>2, <2>2 DEF PcbCases, InCreate, Done
    <3>2. Head(mbox).op = "create"
      BY <3>1, MailType, TailEntries DEF CallLast
    <3> QED BY <1>1, <3>2 DEF Serve
  <2>3. CASE bt_pc \in {"listen", "abort", "close"}
    <3>1. PICK k \in {"listen", "close"} : CallLast(k) /\ phase[ppp] # "free"
      BY <1>2, <2>3 DEF PcbCases, InListen, InClosing, Done
    <3>2. Head(mbox).pcb = ppp
      BY <1>1, <3>1, ServeCalled
    <3> QED BY <1>3, <3>1, <3>2
  <2> QED BY <2>1, <2>2, <2>3 DEF PcbInv, ClaimInv, TypeOK, BtType, BtPcs
<1>5. fault' /\ early'
  BY <1>2, <1>4 DEF TouchFreed
<1>6. UpIsOpen'
  BY <1>2, <1>3 DEF PcbInv, UpIsOpen
<1> QED BY <1>2, <1>4, <1>5, <1>6 DEF PcbParts, PcbCases, FreedEarly

LEMMA PcbStatusEnd == ASSUME PcbInv, ~fault, StatusEnd PROVE PcbParts'
<1>1. /\ tc # NoCallback /\ tc' = NoCallback
      /\ phase' = [phase EXCEPT ![tc.pcb] = IF ppp_teardown THEN "free"
                                            ELSE IF session_active THEN "listening" ELSE @]
      /\ early' = (early \/ (ppp_teardown /\ ~tc.closing))
      /\ api' = IF tc.closing THEN [st |-> "ok", pcb |-> NULL] ELSE api
      /\ UNCHANGED <<chan, session_active, active_cid, ppp, ppp_teardown, ppp_up_flag,
                     bt_pc, mbox, fault>>
  BY DEF StatusEnd, rfcommVars, claimVars, pppVars, btVars
<1>2. /\ ~early /\ PcbCases /\ TeardownMarked /\ UpIsOpen
      /\ ppp \in Pcbs \cup {NULL} /\ phase \in [Pcbs -> Phases]
      /\ bt_pc = "stop" => ~session_active
  BY <1>1 DEF PcbInv, FreedEarly, ClaimInv, TypeOK, PppType, PcbType, HandlerChannel,
              ClaimMatchesChannel
<1>3. TeardownMarked'
  BY <1>1, <1>2 DEF TeardownMarked
<1>4. CASE bt_pc = "loop"
  <2>1. /\ ppp # NULL /\ session_active /\ tc = [pcb |-> ppp, closing |-> FALSE]
        /\ phase[ppp] = "dead" /\ InLoop /\ ~ppp_teardown
    BY <1>1, <1>2, <1>4 DEF PcbCases, InLoop, NobodyServed, NotClosing, TeardownMarked
  <2>2. phase' = [phase EXCEPT ![ppp] = "listening"] /\ ~early' /\ api' = api
    BY <1>1, <1>2, <2>1
  <2>3. InLoop'
    BY <1>1, <1>2, <2>1, <2>2
       DEF InLoop, InputsOnly, MineOnly, Only, NotClosing, NobodyServed
  <2>4. UpIsOpen'
    BY <1>1, <1>2, <2>1, <2>2 DEF UpIsOpen
  <2> QED BY <1>1, <1>3, <1>4, <2>2, <2>3, <2>4 DEF PcbInv, PcbParts, PcbCases, FreedEarly
<1>5. CASE bt_pc \in {"create", "listen"}
  BY <1>1, <1>2, <1>5 DEF PcbCases, InCreate, InListen
<1>6. CASE bt_pc = "stop"
  <2>1. /\ ppp # NULL /\ tc = [pcb |-> ppp, closing |-> FALSE] /\ phase[ppp] = "dead"
        /\ InStop /\ ~ppp_teardown
    BY <1>1, <1>2, <1>6 DEF PcbCases, InStop, NotClosing, TeardownMarked
  <2>2. phase' = phase /\ ~early' /\ api' = api
    BY <1>1, <1>2, <1>6, <2>1
  <2>3. InStop' /\ UpIsOpen'
    BY <1>1, <1>2, <2>1, <2>2 DEF InStop, InputsOnly, MineOnly, Only, NotClosing, UpIsOpen
  <2> QED BY <1>1, <1>3, <1>6, <2>2, <2>3 DEF PcbInv, PcbParts, PcbCases, FreedEarly
<1>7. CASE bt_pc \in {"abort", "close"}
  <2>1. /\ ppp # NULL /\ Only(ppp) /\ phase[ppp] = "dead" /\ tc.pcb = ppp /\ ppp_teardown
        /\ ~ppp_up_flag
    BY <1>1, <1>2, <1>7 DEF PcbCases, InClosing, NotClosing, Done, TeardownMarked, UpIsOpen
  <2>2. AllFree'
    BY <1>1, <1>2, <2>1 DEF Only, AllFree
  <2>3. CASE CallLast("close") /\ NotClosing
    <3>1. tc.closing = FALSE
      BY <1>1, <2>3 DEF NotClosing
    <3>2. early' /\ api' = api
      BY <1>1, <2>1, <3>1
    <3>3. CallLast("close")'
      BY <1>1, <2>3, <3>2 DEF CallLast, MineOnly, InputsBefore
    <3> QED BY <1>1, <1>3, <1>7, <2>1, <2>2, <3>2, <3>3
            DEF PcbParts, PcbCases, UpIsOpen, FreedEarly
  <2>4. CASE mbox = <<>> /\ tc = [pcb |-> ppp, closing |-> TRUE]
    <3>1. ~early' /\ api'.st = "ok"
      BY <1>1, <1>2, <2>4
    <3>2. InClosing'
      BY <1>1, <2>1, <2>2, <2>4, <3>1 DEF InClosing, Done, Only, AllFree
    <3> QED BY <1>1, <1>3, <1>7, <2>1, <3>1, <3>2
            DEF PcbInv, PcbParts, PcbCases, UpIsOpen, FreedEarly
  <2> QED BY <1>1, <1>2, <1>7, <2>3, <2>4 DEF PcbCases, InClosing, Done
<1> QED BY <1>4, <1>5, <1>6, <1>7 DEF PcbInv, ClaimInv, TypeOK, BtType, BtPcs

LEMMA PcbPppEvent == ASSUME PcbInv, ~fault, PppEvent PROVE PcbParts'
<1>1. PICK p \in Pcbs : PppUp(p) \/ PppDies(p)
  BY DEF PppEvent
<1>2. /\ tc = NoCallback /\ phase[p] = "open"
      /\ UNCHANGED <<chan, session_active, active_cid, ppp, ppp_teardown, bt_pc, mbox,
                     api, early, fault>>
  BY <1>1 DEF PppUp, PppDies, rfcommVars, claimVars, btVars, history, lwipVars
<1>3. /\ TeardownMarked /\ PcbCases /\ phase \in [Pcbs -> Phases]
      /\ bt_pc \in BtPcs
  BY DEF PcbInv, ClaimInv, TypeOK, PcbType, BtType
<1>4. ~early
  BY <1>2 DEF PcbInv, FreedEarly, AllFree
<1>5. bt_pc \in {"loop", "stop", "abort", "close"} /\ p = ppp /\ ppp # NULL
  <2>1. CASE bt_pc \in {"loop", "stop", "abort", "close"}
    BY <1>2, <1>3, <1>4, <2>1, PppLinkAssumption
       DEF PcbCases, InLoop, InStop, InClosing, NobodyServed, Only, AllFree
  <2>2. CASE bt_pc \in {"create", "listen"}
    BY <1>2, <1>3, <1>4, <2>2 DEF PcbCases, InCreate, InListen, Only, AllFree
  <2> QED BY <1>3, <2>1, <2>2 DEF BtPcs
<1>6. TeardownMarked'
  BY <1>2, <1>3 DEF TeardownMarked
<1>7. CASE PppUp(ppp)
  <2>1. UNCHANGED <<phase, tc>>
    BY <1>7 DEF PppUp, lwipVars
  <2>2. InLoop => InLoop'
    BY <1>2, <2>1 DEF InLoop, NobodyServed, InputsOnly, MineOnly, Only, AllFree, NotClosing
  <2>3. (InStop => InStop') /\ (InClosing => InClosing')
    BY <1>2, <2>1
       DEF InStop, InClosing, InputsOnly, MineOnly, Only, AllFree, NotClosing, CallLast,
           InputsBefore, Done
  <2>4. UpIsOpen'
    BY <1>2, <1>5, <2>1 DEF UpIsOpen
  <2> QED BY <1>2, <1>3, <1>4, <1>5, <1>6, <2>2, <2>3, <2>4
          DEF PcbParts, PcbCases, FreedEarly
<1>8. CASE PppDies(ppp)
  <2>1. /\ phase' = [phase EXCEPT ![ppp] = "dead"] /\ ~ppp_up_flag'
        /\ tc' = [pcb |-> ppp, closing |-> FALSE] /\ tc' # NoCallback
    BY <1>5, <1>8 DEF PppDies, StatusDown, NoCallback
  <2>2. phase'[ppp] = "dead" /\ (Only(ppp) => Only(ppp)')
    BY <1>2, <1>3, <1>5, <2>1 DEF Only
  <2>3. NotClosing'
    BY <1>2, <2>1, <2>2 DEF NotClosing
  <2>4. InLoop => InLoop'
    BY <1>2, <1>5, <2>1, <2>2, <2>3 DEF InLoop, NobodyServed, InputsOnly, MineOnly, Only
  <2>5. InStop => InStop'
    BY <1>2, <1>5, <2>1, <2>2, <2>3 DEF InStop, InputsOnly, MineOnly, Only
  <2>6. InClosing => InClosing'
    <3>1. ~AllFree
      BY <1>2, <1>5 DEF AllFree
    <3> QED BY <1>2, <1>5, <2>1, <2>2, <2>3, <3>1
            DEF InClosing, CallLast, MineOnly, InputsBefore, Only, NoCallback
  <2>7. UpIsOpen'
    BY <2>1 DEF UpIsOpen
  <2> QED BY <1>2, <1>3, <1>4, <1>5, <1>6, <2>4, <2>5, <2>6, <2>7
          DEF PcbParts, PcbCases, FreedEarly
<1> QED BY <1>1, <1>5, <1>7, <1>8

LEMMA PcbStep == PcbInv /\ [Next]_vars => PcbInv'
<1> SUFFICES ASSUME PcbInv, [Next]_vars PROVE PcbInv'
  OBVIOUS
<1>1. ClaimInv'
  BY ClaimStep DEF PcbInv
<1>2. PcbParts'
  <2>1. CASE UNCHANGED vars
    BY <2>1, PcbSame DEF vars, PcbFrame, pppVars, btVars, lwipVars, history, rfcommVars,
                         claimVars
  <2>2. CASE ~fault /\ ReopenTimer
    BY <2>2, PcbSame DEF ReopenTimer, PcbFrame, pppVars, btVars, lwipVars, history,
                         rfcommVars, claimVars
  <2>3. CASE ~fault /\ ChannelEvent
    BY <2>3, PcbChannel, PcbOpened, PcbClosedSession, PcbData DEF ChannelEvent
  <2>4. CASE ~fault /\ TcpipTask
    BY <2>4, PcbServeInput, PcbServeCall, PcbTouchFreed, PcbStatusEnd DEF TcpipTask
  <2> QED BY <2>1, <2>2, <2>3, <2>4, PcbIncoming, PcbLinkEvent, PcbBtTask, PcbPppEvent
          DEF Next
<1> QED BY <1>1, <1>2 DEF PcbInv, PcbParts

LEMMA InitPcb == Init => PcbInv
<1> SUFFICES ASSUME Init PROVE PcbInv
  OBVIOUS
<1>1. ClaimMatchesChannel /\ AutoModeDecision /\ HeldChannel /\ HandlerChannel
  BY PppLinkAssumption DEF Init, ClaimMatchesChannel, AutoModeDecision, HeldChannel,
     HandlerChannel
<1>2. InLoop
  BY DEF Init, InLoop, NobodyServed, AllFree
<1> QED BY <1>1, <1>2, InitTypeOK
        DEF Init, PcbInv, ClaimInv, TeardownMarked, UpIsOpen, FreedEarly, PcbCases

LEMMA PcbInvariant == Spec => []PcbInv
BY InitPcb, PcbStep, PTL DEF Spec

LEMMA PcbInvImplies == PcbInv => PcbOwnership /\ RedialArmed
<1> SUFFICES ASSUME PcbInv PROVE PcbOwnership /\ RedialArmed
  OBVIOUS
<1>1. ASSUME ~early
      PROVE  /\ ~fault
             /\ \A p \in Pcbs : phase[p] # "free" /\ bt_pc = "loop" => p = ppp
             /\ \A i \in DOMAIN mbox : mbox[i].op # "create" =>
                  /\ mbox[i].pcb = ppp /\ phase[ppp] # "free"
                  /\ bt_pc = "loop" => mbox[i].cid = active_cid
  <2>1. PcbCases /\ bt_pc \in BtPcs /\ mbox \in Seq(Messages)
    BY DEF PcbInv, ClaimInv, TypeOK, BtType, PcbType
  <2>2. DOMAIN mbox = 1..Len(mbox) /\ Len(mbox) \in Nat
    BY <2>1
  <2>3. ~fault
    BY <1>1 DEF PcbInv
  <2>4. CASE bt_pc = "loop"
    BY <1>1, <2>1, <2>2, <2>3, <2>4
       DEF PcbCases, InLoop, NobodyServed, AllFree, Only, InputsOnly, MineOnly
  <2>5. CASE bt_pc = "create"
    BY <1>1, <2>1, <2>2, <2>3, <2>5 DEF PcbCases, InCreate, CallLast, Done
  <2>6. CASE bt_pc \in {"listen", "stop"}
    BY <1>1, <2>1, <2>2, <2>3, <2>6
       DEF PcbCases, InListen, InStop, CallLast, Done, InputsOnly, MineOnly
  <2>7. CASE bt_pc \in {"abort", "close"}
    BY <1>1, <2>1, <2>2, <2>3, <2>7 DEF PcbCases, InClosing, CallLast, Done, MineOnly
  <2> QED BY <2>1, <2>4, <2>5, <2>6, <2>7 DEF BtPcs
<1>2. RedialArmed
  <2> SUFFICES ASSUME bt_pc = "loop", session_active, chan[active_cid] = "open"
               PROVE  ppp # NULL /\ (phase[ppp] \in {"listening", "open"} \/ tc.pcb = ppp)
    BY DEF RedialArmed
  <2>1. ~early /\ InLoop
    BY DEF PcbInv, PcbCases, FreedEarly
  <2> QED BY <2>1 DEF InLoop, NotClosing
<1> QED BY <1>1, <1>2 DEF PcbOwnership

(* The pcbs of ppp_link.c: none but the session's is ever alive, and the   *)
(* tcpip task is never handed one that was freed, unless the free ran      *)
(* outside pppapi_close().                                                 *)
THEOREM PcbIsTheSessions == Spec => []PcbOwnership
BY PcbInvariant, PcbInvImplies, PTL

(* A phone with an open channel always finds its pcb listening, in a       *)
(* negotiation, or inside the ppp_status_cb() that will listen again.      *)
THEOREM RedialIsArmed == Spec => []RedialArmed
BY PcbInvariant, PcbInvImplies, PTL

-----------------------------------------------------------------------------
(* The visibility of gateway.c as the link drives it.                      *)
LEMMA HiddenStep ==
  TypeOK /\ HiddenExactlyWhenConnected /\ [Next]_vars => HiddenExactlyWhenConnected'
<1> SUFFICES ASSUME TypeOK, HiddenExactlyWhenConnected, [Next]_vars
             PROVE  HiddenExactlyWhenConnected'
  OBVIOUS
<1>1. /\ bt_connected \in BOOLEAN /\ visible \in BOOLEAN /\ reopen_timer \in BOOLEAN
  BY DEF TypeOK, GwType
<1>2. CASE UNCHANGED gwVars
  BY <1>2 DEF gwVars, HiddenExactlyWhenConnected
<1>3. CASE gw_on_rfcomm_opened \/ gw_on_rfcomm_closed \/ ReopenTimer
  BY <1>1, <1>3 DEF gw_on_rfcomm_opened, gw_on_rfcomm_closed, ReopenTimer,
                    HiddenExactlyWhenConnected
<1>4. Incoming \/ LinkEvent \/ PppEvent \/ UNCHANGED vars => UNCHANGED gwVars
  BY DEF Incoming, IncomingBusy, IncomingAccept, IncomingHold, IncomingEvent, LinkEvent,
         NameReply, LinkDown, SecurityLevel, PppEvent, PppUp, PppDies, vars
<1>5. ChannelEvent => UNCHANGED gwVars \/ gw_on_rfcomm_closed
  BY DEF ChannelEvent, Declined, OpenFailed, Opened, ClosedOther, ClosedHeld,
         ClosedSession, DataPacket
<1>6. BtTask => UNCHANGED gwVars \/ gw_on_rfcomm_closed \/ gw_on_rfcomm_opened
  BY DEF BtTask, CreateFailed, Created, Listening, ListenFailed, Aborted, StopClose,
         Stopped
<1>7. TcpipTask => UNCHANGED gwVars
  BY DEF TcpipTask, TouchFreed, ServeInput, ServeCreate, ServeListen, ServeClose,
         StatusEnd, Serve
<1> QED BY <1>2, <1>3, <1>4, <1>5, <1>6, <1>7 DEF Next

(* The bridge is hidden only while a phone is connected or the reopen      *)
(* timer runs, and a connected phone never sees it shown                   *)
(* (gw_on_rfcomm_opened/closed, bt_reopen_timer_handler).                  *)
THEOREM HiddenOnlyWhileBusy == Spec => []HiddenExactlyWhenConnected
<1>1. Init => HiddenExactlyWhenConnected
  BY DEF Init, HiddenExactlyWhenConnected
<1> QED BY <1>1, HiddenStep, TypeCorrect, PTL DEF Spec

-----------------------------------------------------------------------------
(* The link implements LinkService: every step is one of its steps or      *)
(* leaves its two variables alone.                                         *)
ServiceStep == [Service!Next]_(Service!vars)

LEMMA ServiceSame ==
  ASSUME UNCHANGED <<active_cid, ppp>>, ppp = NULL \/ ppp_up_flag' = ppp_up_flag
  PROVE  ServiceStep
BY DEF ServiceStep, Service!vars

LEMMA ServiceReleased ==
  ASSUME active_cid' = NoCid, UNCHANGED ppp, ppp = NULL \/ ppp_up_flag' = ppp_up_flag
  PROVE  ServiceStep
<1>1. CASE active_cid = NoCid
  BY <1>1, ServiceSame
<1>2. CASE active_cid # NoCid
  <2>1. Service!Release
    BY <1>2 DEF Service!Release
  <2> QED BY <2>1 DEF ServiceStep, Service!Next
<1> QED BY <1>1, <1>2

LEMMA ServiceDown ==
  ASSUME UNCHANGED <<active_cid, ppp>>, ppp_up_flag' = FALSE, ppp_up_flag \in BOOLEAN
  PROVE  ServiceStep
<1>1. CASE ppp = NULL \/ ~ppp_up_flag
  BY <1>1, ServiceSame
<1>2. CASE ppp # NULL /\ ppp_up_flag
  <2>1. Service!Down
    BY <1>2 DEF Service!Down
  <2> QED BY <2>1 DEF ServiceStep, Service!Next
<1> QED BY <1>1, <1>2

LEMMA ServiceEvents ==
  ASSUME PcbInv, ~fault, Incoming \/ ChannelEvent \/ LinkEvent PROVE ServiceStep
<1>1. bt_pc = "loop" /\ ppp_up_flag \in BOOLEAN /\ (ppp = NULL => ~ppp_up_flag)
  BY DEF Incoming, IncomingBusy, IncomingAccept, IncomingHold, IncomingEvent,
         ChannelEvent, Declined, OpenFailed, Opened, ClosedOther, ClosedHeld,
         ClosedSession, ClosedEvent, DataPacket, LinkEvent, NameReply, LinkDown,
         SecurityLevel, PcbInv, UpIsOpen, ClaimInv, TypeOK, PppType
<1>2. ASSUME NEW c \in Cids, NEW p \in Phones,
             IncomingBusy(c, p) \/ IncomingAccept(c, p) \/ IncomingHold(c, p)
      PROVE  ServiceStep
  <2>1. UNCHANGED <<ppp, ppp_up_flag>>
    BY <1>2 DEF IncomingBusy, IncomingAccept, IncomingHold, IncomingEvent, pppVars
  <2>2. CASE IncomingBusy(c, p)
    BY <2>1, <2>2, ServiceSame DEF IncomingBusy, claimVars
  <2>3. CASE IncomingAccept(c, p) \/ IncomingHold(c, p)
    <3>1. ~session_active /\ active_cid' = c
      BY <2>3 DEF IncomingAccept, IncomingHold, Claim
    <3>2. active_cid = NoCid /\ ppp = NULL
      BY <1>1, <3>1, ServedIsClaimed
    <3>3. Service!Claim(c)
      BY <2>1, <3>1, <3>2 DEF Service!Claim
    <3> QED BY <3>3 DEF ServiceStep, Service!Next
  <2> QED BY <1>2, <2>2, <2>3
<1>3. ASSUME NEW c \in Cids,
             \/ Declined(c) \/ OpenFailed(c) \/ Opened(c)
             \/ ClosedOther(c) \/ ClosedHeld(c) \/ ClosedSession(c) \/ DataPacket(c)
      PROVE  ServiceStep
  <2>1. UNCHANGED ppp /\ (ppp = NULL \/ ppp_up_flag' = ppp_up_flag)
    BY <1>3 DEF Declined, OpenFailed, Opened, ClosedOther, ClosedHeld, ClosedSession,
                DataPacket, pppVars
  <2>2. active_cid' = active_cid \/ active_cid' = NoCid
    BY <1>3 DEF Declined, OpenFailed, Opened, ClosedOther, ClosedHeld, ClosedSession,
                DataPacket, claimVars, Unclaim
  <2> QED BY <2>1, <2>2, ServiceSame, ServiceReleased
<1>4. CASE LinkEvent
  <2>1. UNCHANGED <<ppp, ppp_up_flag>>
    BY <1>4 DEF LinkEvent, NameReply, LinkDown, SecurityLevel, pppVars
  <2>2. active_cid' = active_cid \/ active_cid' = NoCid
    BY <1>4 DEF LinkEvent, NameReply, LinkDown, SecurityLevel, auto_fail, Unclaim,
                claimVars
  <2> QED BY <2>1, <2>2, ServiceSame, ServiceReleased
<1> QED BY <1>2, <1>3, <1>4 DEF Incoming, ChannelEvent

LEMMA ServiceBtTask == ASSUME PcbInv, ~fault, BtTask PROVE ServiceStep
<1>1. /\ PcbCases /\ ~early /\ UpIsOpen /\ HandlerChannel /\ ClaimMatchesChannel
      /\ NoCid \notin Cids /\ NULL \notin Pcbs
  BY TaskNotEarly, PppLinkAssumption DEF PcbInv, ClaimInv
<1>2. CASE CreateFailed
  <2>1. ppp = NULL /\ ppp' = NULL /\ active_cid' = NoCid
    BY <1>1, <1>2 DEF CreateFailed, Returned, PcbCases, InCreate, StartFailed, Unclaim
  <2> QED BY <2>1, ServiceReleased
<1>3. CASE Created
  <2>1. /\ ppp = NULL /\ ppp' # NULL /\ UNCHANGED <<active_cid, ppp_up_flag>>
        /\ ~ppp_up_flag
    BY <1>1, <1>3 DEF Created, Returned, PcbCases, InCreate, CallLast, Done, UpIsOpen,
                      claimVars
  <2>2. active_cid # NoCid
    BY <1>1, <1>3 DEF Created, Returned, HandlerChannel, ClaimMatchesChannel
  <2>3. Service!Offer
    BY <2>1, <2>2 DEF Service!Offer
  <2> QED BY <2>3 DEF ServiceStep, Service!Next
<1>4. CASE Listening \/ ListenFailed \/ StopClose
  <2>1. UNCHANGED <<active_cid, ppp, ppp_up_flag>>
    BY <1>4 DEF Listening, ListenFailed, StopClose, claimVars, pppVars
  <2> QED BY <2>1, ServiceSame
<1>5. CASE Aborted \/ Stopped
  <2>1. ppp # NULL /\ ~ppp_up_flag /\ ppp' = NULL /\ active_cid' = NoCid
    <3>1. InClosing /\ api.st = "ok" /\ ppp' = NULL
      BY <1>1, <1>5 DEF Aborted, Stopped, Returned, PcbCases
    <3>2. ppp # NULL /\ AllFree
      BY <3>1 DEF InClosing, CallLast
    <3>3. ~ppp_up_flag
      BY <1>1, <3>2 DEF AllFree, UpIsOpen, PcbInv, ClaimInv, TypeOK, PppType
    <3>4. active_cid' = NoCid
      BY <1>1, <1>5 DEF Aborted, Stopped, Returned, StartFailed, Unclaim, claimVars,
                        HandlerChannel
    <3> QED BY <3>1, <3>2, <3>3, <3>4
  <2>2. CASE active_cid = NoCid
    <3>1. Service!Withdraw
      BY <2>1, <2>2 DEF Service!Withdraw
    <3> QED BY <3>1 DEF ServiceStep, Service!Next
  <2>3. CASE active_cid # NoCid
    <3>1. Service!Abort
      BY <2>1, <2>3 DEF Service!Abort
    <3> QED BY <3>1 DEF ServiceStep, Service!Next
  <2> QED BY <2>2, <2>3
<1> QED BY <1>2, <1>3, <1>4, <1>5 DEF BtTask

LEMMA ServiceLwip ==
  ASSUME PcbInv, ~fault, TcpipTask \/ PppEvent \/ ReopenTimer PROVE ServiceStep
<1>0. ppp_up_flag \in BOOLEAN
  BY DEF PcbInv, ClaimInv, TypeOK, PppType
<1>1. UNCHANGED <<active_cid, ppp>>
  BY DEF TcpipTask, TouchFreed, ServeInput, ServeCreate, ServeListen, ServeClose,
         StatusEnd, Serve, PppEvent, PppUp, PppDies, ReopenTimer, claimVars, pppVars
<1>2. CASE ServeClose \/ \E p \in Pcbs : PppDies(p)
  <2>1. ppp_up_flag' = FALSE
    BY <1>2 DEF ServeClose, PppDies, StatusDown
  <2> QED BY <1>0, <1>1, <2>1, ServiceDown
<1>3. ASSUME NEW p \in Pcbs, PppUp(p) PROVE ServiceStep
  <2>1. ppp_up_flag' /\ ~ppp_up_flag /\ ppp_up_flag' = TRUE
    BY <1>3 DEF PppUp
  <2>2. ppp # NULL
    BY <1>1, <1>3, <2>1, PcbPppEvent DEF PppEvent, PcbParts, UpIsOpen
  <2>3. Service!Up
    BY <1>1, <2>1, <2>2 DEF Service!Up
  <2> QED BY <2>3 DEF ServiceStep, Service!Next
<1>4. CASE TouchFreed \/ ServeInput \/ ServeCreate \/ ServeListen \/ StatusEnd
           \/ ReopenTimer
  <2>1. UNCHANGED ppp_up_flag
    BY <1>4 DEF TouchFreed, ServeInput, ServeCreate, ServeListen, StatusEnd,
                ReopenTimer, pppVars
  <2> QED BY <1>1, <2>1, ServiceSame
<1> QED BY <1>2, <1>3, <1>4 DEF TcpipTask, PppEvent

LEMMA ServiceRefined == PcbInv /\ [Next]_vars => [Service!Next]_(Service!vars)
<1> SUFFICES ASSUME PcbInv, [Next]_vars PROVE ServiceStep
  BY DEF ServiceStep
<1>1. CASE UNCHANGED vars
  BY <1>1, ServiceSame DEF vars, claimVars, pppVars
<1> QED BY <1>1, ServiceEvents, ServiceBtTask, ServiceLwip DEF Next

(* The link gives the bridge's users what LinkService promises: one owner  *)
(* at a time, PPP offered to an owner only, and nobody let in before the   *)
(* previous owner's PPP is gone.                                           *)
THEOREM LinkIsTheService == Spec => ImplementsService
<1>1. Init => Service!Init
  BY DEF Init, Service!Init
<1> QED BY <1>1, PcbInvariant, ServiceRefined, PTL
        DEF Spec, ImplementsService, Service!Spec
=============================================================================
