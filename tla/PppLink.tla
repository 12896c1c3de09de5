------------------------------- MODULE PppLink -------------------------------
(***************************************************************************)
(* The RFCOMM server of src/main/ppp_link.c and the life of its PPP        *)
(* control block.                                                          *)
(*                                                                         *)
(* Two tasks act.  The BTstack run loop delivers one RFCOMM, HCI or timer  *)
(* event at a time; the handlers of CHANNEL_OPENED and CHANNEL_CLOSED      *)
(* block in pppapi_* calls, so bt_pc names where in the handler the task   *)
(* is.  The tcpip task serves a FIFO mailbox of received data and pppapi   *)
(* calls and runs the PPP status callback.  Around them the phones, the    *)
(* controller and lwIP's PPP act as their events allow.                    *)
(*                                                                         *)
(* The bytes of the session (handshake, TX stream) are in PppData, the     *)
(* application state and the NAT in Bridge.                                *)
(***************************************************************************)
EXTENDS Naturals, Sequences, FiniteSets

CONSTANTS
  Phones,    \* the phones in range
  NoSec,     \* those whose name is_nosec_name() recognises
  Cids,      \* RFCOMM channel identifiers
  NoCid,     \* cid 0
  NoPhone,
  Pcbs,      \* the addresses pppapi_pppos_create() may return
  NULL,
  MboxSize   \* slots of the tcpip mailbox left for received data

ASSUME PppLinkAssumption ==
  /\ NoSec \subseteq Phones
  /\ NoCid \notin Cids
  /\ NoPhone \notin Phones
  /\ NULL \notin Pcbs
  /\ MboxSize \in Nat \ {0}

VARIABLES
  chan,             \* external: BTstack's RFCOMM channel states
  peer,             \* external: the phone at the other end of a channel
  level,            \* external: security level of the link to a phone, 0 or 2
  nameReq,          \* external: the phone a name request is outstanding for
  secReq,           \* external: phones a security request is outstanding for
  link_mode,        \* "off", "on" or "auto", read once at boot
  session_active, active_cid,
  auto_cid, auto_addr, auto_sec_pending,
  ppp,              \* the pcb pointer, BTstack task only
  ppp_teardown, ppp_up_flag,
  bt_pc, bt_cid,    \* where the BTstack task is, and the event's channel
  phase,            \* external: lwIP's view of each pcb
  mbox,             \* external: the tcpip mailbox, oldest message first
  api,              \* external: outcome of the BTstack task's pppapi call
  tc,               \* the status callback the tcpip task is inside, if any
  bt_connected, visible, reopen_timer,
  early,            \* history: a pcb was freed outside pppapi_close()
  fault             \* history: the tcpip task touched a freed pcb

rfcommVars == <<chan, peer>>
gapVars    == <<level, nameReq, secReq>>
claimVars  == <<session_active, active_cid>>
autoVars   == <<auto_cid, auto_addr, auto_sec_pending>>
pppVars    == <<ppp, ppp_teardown, ppp_up_flag>>
btVars     == <<bt_pc, bt_cid>>
lwipVars   == <<phase, mbox, api, tc>>
gwVars     == <<bt_connected, visible, reopen_timer>>
history    == <<early, fault>>
vars == <<rfcommVars, gapVars, link_mode, claimVars, autoVars, pppVars,
          btVars, lwipVars, gwVars, history>>

-----------------------------------------------------------------------------
Modes      == {"off", "on", "auto"}
ChanStates == {"idle", "incoming", "accepted", "open", "declined", "closing"}
Phases     == {"free", "dead", "listening", "open"}
BtPcs      == {"loop", "create", "listen", "abort", "stop", "close"}
Messages   == [op : {"input", "create", "listen", "close"},
               pcb : Pcbs \cup {NULL}, cid : Cids \cup {NoCid}]
NoCall     == [st |-> "none", pcb |-> NULL]
NoCallback == [pcb |-> NULL, closing |-> FALSE]

Init ==
  /\ chan = [c \in Cids |-> "idle"] /\ peer = [c \in Cids |-> NoPhone]
  /\ level = [p \in Phones |-> 0] /\ nameReq = NoPhone /\ secReq = {}
  /\ link_mode \in Modes
  /\ session_active = FALSE /\ active_cid = NoCid
  /\ auto_cid = NoCid /\ auto_addr = NoPhone /\ auto_sec_pending = FALSE
  /\ ppp = NULL /\ ppp_teardown = FALSE /\ ppp_up_flag = FALSE
  /\ bt_pc = "loop" /\ bt_cid = NoCid
  /\ phase = [p \in Pcbs |-> "free"] /\ mbox = <<>>
  /\ api = NoCall /\ tc = NoCallback
  /\ bt_connected = FALSE /\ visible = TRUE /\ reopen_timer = FALSE
  /\ early = FALSE /\ fault = FALSE

\* The pieces the handlers share.

\* Mutant: the connection handle is stored where the channel belongs.
Claim_of_handle(c) == session_active' = TRUE /\ active_cid' = peer'[c]

Claim(c)  == session_active' = TRUE /\ active_cid' = c
Unclaim   == session_active' = FALSE /\ active_cid' = NoCid
SetChan(c, s) == chan' = [chan EXCEPT ![c] = s] /\ UNCHANGED peer
auto_release  == auto_cid' = NoCid /\ auto_sec_pending' = FALSE
                 /\ UNCHANGED auto_addr

\* A pppapi_* call: the message is posted and the task waits for its outcome.
Call(o, p, next) ==
  /\ mbox' = Append(mbox, [op |-> o, pcb |-> p, cid |-> bt_cid'])
  /\ api' = [st |-> "wait", pcb |-> NULL]
  /\ bt_pc' = next

gw_on_rfcomm_opened == bt_connected' = TRUE /\ visible' = FALSE
                       /\ UNCHANGED reopen_timer
\* Mutant: the reopen timer is not started.
gw_on_rfcomm_closed_no_timer == bt_connected' = FALSE
                                /\ UNCHANGED <<visible, reopen_timer>>

gw_on_rfcomm_closed == bt_connected' = FALSE /\ reopen_timer' = TRUE
                       /\ UNCHANGED visible

-----------------------------------------------------------------------------
(* RFCOMM_EVENT_INCOMING_CONNECTION                                        *)

IncomingEvent(c, p) ==
  /\ bt_pc = "loop" /\ chan[c] = "idle"
  /\ peer' = [peer EXCEPT ![c] = p]
  /\ UNCHANGED <<link_mode, pppVars, btVars, lwipVars, gwVars, history>>

IncomingBusy(c, p) ==
  /\ IncomingEvent(c, p)
  /\ session_active
  /\ chan' = [chan EXCEPT ![c] = "declined"]
  /\ UNCHANGED <<gapVars, claimVars, autoVars>>

IncomingAccept(c, p) ==
  /\ IncomingEvent(c, p)
  /\ ~session_active /\ link_mode # "auto"
  /\ Claim(c)
  /\ chan' = [chan EXCEPT ![c] = "accepted"]
  /\ UNCHANGED <<gapVars, autoVars>>

\* Mutant: a name request that cannot be made is not noticed.
auto_begin_unasked(c, p) ==
  /\ auto_cid' = c /\ auto_addr' = p /\ auto_sec_pending' = FALSE
  /\ nameReq' \in {p, nameReq}
  /\ UNCHANGED secReq

(* auto_begin(): the accept is held while the phone is asked for its name; *)
(* when the request cannot be made, auto_decide(NULL) asks for security.   *)
auto_begin(c, p) ==
  /\ auto_cid' = c /\ auto_addr' = p
  /\ \/ /\ nameReq = NoPhone
        /\ nameReq' = p /\ auto_sec_pending' = FALSE
        /\ UNCHANGED secReq
     \/ /\ auto_sec_pending' = TRUE
        /\ secReq' = secReq \cup {p}
        /\ UNCHANGED nameReq

IncomingHold(c, p) ==
  /\ IncomingEvent(c, p)
  /\ ~session_active /\ link_mode = "auto"
  /\ Claim(c)
  /\ chan' = [chan EXCEPT ![c] = "incoming"]
  /\ auto_begin(c, p)
  /\ UNCHANGED level

(* auto_decide(): a known model is accepted as is, any other name, or no   *)
(* name, gets authentication and encryption first.                         *)
auto_decide(known) ==
  \/ /\ known
     /\ auto_release /\ SetChan(auto_cid, "accepted")
     /\ UNCHANGED secReq
  \/ /\ ~known
     /\ auto_sec_pending' = TRUE
     /\ secReq' = secReq \cup {auto_addr}
     /\ UNCHANGED <<auto_cid, auto_addr, rfcommVars>>

(* HCI_EVENT_REMOTE_NAME_REQUEST_COMPLETE, with or without the name.  A    *)
(* reply nobody waits for any more is dropped.                             *)
NameReply(answered) ==
  /\ bt_pc = "loop" /\ nameReq # NoPhone
  /\ nameReq' = NoPhone
  /\ IF auto_cid # NoCid /\ ~auto_sec_pending /\ nameReq = auto_addr
     THEN auto_decide(answered /\ nameReq \in NoSec)
     ELSE UNCHANGED <<autoVars, secReq, rfcommVars>>
  /\ UNCHANGED <<level, link_mode, claimVars, pppVars, btVars, lwipVars,
                 gwVars, history>>

auto_fail ==
  /\ auto_release
  /\ SetChan(auto_cid, "declined")
  /\ IF active_cid = auto_cid THEN Unclaim ELSE UNCHANGED claimVars

\* Mutant: the event's handle is not compared with the held phone's.
SecurityLevel_any_handle(p, reached) ==
  /\ bt_pc = "loop"
  /\ p \in secReq \/ (reached /\ level[p] = 0)
  /\ reached \/ level[p] = 0
  /\ level' = [level EXCEPT ![p] = IF reached THEN 2 ELSE 0]
  /\ secReq' = secReq \ {p}
  /\ IF auto_cid # NoCid /\ auto_sec_pending
     THEN \/ /\ reached
             /\ auto_release /\ SetChan(auto_cid, "accepted")
             /\ UNCHANGED claimVars
          \/ ~reached /\ auto_fail
     ELSE UNCHANGED <<autoVars, rfcommVars, claimVars>>
  /\ UNCHANGED <<nameReq, link_mode, pppVars, btVars, lwipVars, gwVars,
                 history>>

(* GAP_EVENT_SECURITY_LEVEL for phone p, reached or not.  A phone may also *)
(* raise the level unasked.                                                *)
SecurityLevel(p, reached) ==
  /\ bt_pc = "loop"
  /\ p \in secReq \/ (reached /\ level[p] = 0)
  /\ reached \/ level[p] = 0
  /\ level' = [level EXCEPT ![p] = IF reached THEN 2 ELSE 0]
  /\ secReq' = secReq \ {p}
  /\ IF auto_cid # NoCid /\ auto_sec_pending /\ p = auto_addr
     THEN \/ /\ reached
             /\ auto_release /\ SetChan(auto_cid, "accepted")
             /\ UNCHANGED claimVars
          \/ ~reached /\ auto_fail
     ELSE UNCHANGED <<autoVars, rfcommVars, claimVars>>
  /\ UNCHANGED <<nameReq, link_mode, pppVars, btVars, lwipVars, gwVars,
                 history>>

(* The link to a phone goes down once its channels are gone.               *)
LinkDown(p) ==
  /\ bt_pc = "loop"
  /\ level[p] = 2 \/ p \in secReq
  /\ \A c \in Cids : chan[c] # "idle" => peer[c] # p
  /\ level' = [level EXCEPT ![p] = 0] /\ secReq' = secReq \ {p}
  /\ UNCHANGED <<rfcommVars, nameReq, link_mode, claimVars, autoVars, pppVars,
                 btVars, lwipVars, gwVars, history>>

(* RFCOMM sends the DM of a declined channel; no event follows.            *)
Declined(c) ==
  /\ bt_pc = "loop" /\ chan[c] = "declined"
  /\ SetChan(c, "idle")
  /\ UNCHANGED <<gapVars, link_mode, claimVars, autoVars, pppVars, btVars,
                 lwipVars, gwVars, history>>

-----------------------------------------------------------------------------
(* RFCOMM_EVENT_CHANNEL_OPENED                                             *)

OpenFailed(c) ==
  /\ bt_pc = "loop" /\ chan[c] \in {"incoming", "accepted"}
  /\ SetChan(c, "idle")
  /\ IF c = auto_cid THEN auto_release ELSE UNCHANGED autoVars
  /\ IF active_cid \in {c, NoCid} THEN Unclaim ELSE UNCHANGED claimVars
  /\ UNCHANGED <<gapVars, link_mode, pppVars, btVars, lwipVars, gwVars,
                 history>>

(* ppp_session_start(): create, then listen, each a call into tcpip.       *)
Opened(c) ==
  /\ bt_pc = "loop" /\ chan[c] = "accepted"
  /\ SetChan(c, "open")
  /\ bt_cid' = c
  /\ Call("create", NULL, "create")
  /\ UNCHANGED <<gapVars, link_mode, claimVars, autoVars, pppVars, phase, tc,
                 gwVars, history>>

Returned(pc, st) == bt_pc = pc /\ api.st = st
BackToLoop == api' = NoCall /\ bt_pc' = "loop" /\ bt_cid' = NoCid
              /\ UNCHANGED mbox

(* rfcomm_disconnect() and the release of the claim, when the start fails. *)
StartFailed ==
  /\ SetChan(bt_cid, "closing")
  /\ Unclaim
  /\ BackToLoop

CreateFailed ==
  /\ Returned("create", "err")
  /\ ppp' = NULL
  /\ StartFailed
  /\ UNCHANGED <<gapVars, link_mode, autoVars, ppp_teardown, ppp_up_flag,
                 phase, tc, gwVars, history>>

Created ==
  /\ Returned("create", "ok")
  /\ ppp' = api.pcb
  /\ UNCHANGED bt_cid
  /\ Call("listen", api.pcb, "listen")
  /\ UNCHANGED <<rfcommVars, gapVars, link_mode, claimVars, autoVars,
                 ppp_teardown, ppp_up_flag, phase, tc, gwVars, history>>

Listening ==
  /\ Returned("listen", "ok")
  /\ BackToLoop
  /\ gw_on_rfcomm_opened
  /\ UNCHANGED <<rfcommVars, gapVars, link_mode, claimVars, autoVars, pppVars,
                 phase, tc, history>>

\* Mutant: the close of a failed start is not marked as a teardown.
ListenFailed_unmarked ==
  /\ Returned("listen", "err")
  /\ UNCHANGED bt_cid
  /\ Call("close", ppp, "abort")
  /\ UNCHANGED <<rfcommVars, gapVars, link_mode, claimVars, autoVars, pppVars,
                 phase, tc, gwVars, history>>

ListenFailed ==
  /\ Returned("listen", "err")
  /\ ppp_teardown' = TRUE
  /\ UNCHANGED bt_cid
  /\ Call("close", ppp, "abort")
  /\ UNCHANGED <<rfcommVars, gapVars, link_mode, claimVars, autoVars, ppp,
                 ppp_up_flag, phase, tc, gwVars, history>>

Aborted ==
  /\ Returned("abort", "ok")
  /\ ppp_teardown' = FALSE /\ ppp' = NULL
  /\ StartFailed
  /\ UNCHANGED <<gapVars, link_mode, autoVars, ppp_up_flag, phase, tc, gwVars,
                 history>>

-----------------------------------------------------------------------------
(* RFCOMM_EVENT_CHANNEL_CLOSED                                             *)

ClosedEvent(c) ==
  /\ bt_pc = "loop" /\ chan[c] \in {"incoming", "accepted", "open", "closing"}
  /\ SetChan(c, "idle")
  /\ UNCHANGED <<gapVars, link_mode, phase, tc, history>>

ClosedOther(c) ==
  /\ ClosedEvent(c)
  /\ c # active_cid
  /\ UNCHANGED <<claimVars, autoVars, pppVars, btVars, mbox, api, gwVars>>

\* Mutant: the claim of a phone that gave up is kept.
ClosedHeld_keeps_claim(c) ==
  /\ ClosedEvent(c)
  /\ c = active_cid /\ c = auto_cid
  /\ auto_release
  /\ UNCHANGED <<claimVars, pppVars, btVars, mbox, api, gwVars>>

ClosedHeld(c) ==
  /\ ClosedEvent(c)
  /\ c = active_cid /\ c = auto_cid
  /\ auto_release /\ Unclaim
  /\ UNCHANGED <<pppVars, btVars, mbox, api, gwVars>>

(* ppp_session_stop() gives the claim up first, under state_mux.           *)
ClosedSession(c) ==
  /\ ClosedEvent(c)
  /\ c = active_cid /\ c # auto_cid
  /\ Unclaim
  /\ \/ /\ ppp # NULL
        /\ bt_pc' = "stop" /\ bt_cid' = c
        /\ UNCHANGED <<pppVars, mbox, api, gwVars>>
     \/ /\ ppp = NULL
        /\ ppp_up_flag' = FALSE
        /\ gw_on_rfcomm_closed
        /\ UNCHANGED <<ppp, ppp_teardown, btVars, mbox, api>>
  /\ UNCHANGED autoVars

\* Mutant: the close is posted and not waited for.
StopClose_async ==
  /\ bt_pc = "stop"
  /\ ppp_teardown' = TRUE
  /\ mbox' = Append(mbox, [op |-> "close", pcb |-> ppp, cid |-> bt_cid])
  /\ bt_pc' = "loop" /\ bt_cid' = NoCid /\ UNCHANGED api
  /\ UNCHANGED <<rfcommVars, gapVars, link_mode, claimVars, autoVars, ppp,
                 ppp_up_flag, phase, tc, gwVars, history>>

StopClose ==
  /\ bt_pc = "stop"
  /\ ppp_teardown' = TRUE
  /\ UNCHANGED bt_cid
  /\ Call("close", ppp, "close")
  /\ UNCHANGED <<rfcommVars, gapVars, link_mode, claimVars, autoVars, ppp,
                 ppp_up_flag, phase, tc, gwVars, history>>

Stopped ==
  /\ Returned("close", "ok")
  /\ ppp_teardown' = FALSE /\ ppp' = NULL /\ ppp_up_flag' = FALSE
  /\ BackToLoop
  /\ gw_on_rfcomm_closed
  /\ UNCHANGED <<rfcommVars, gapVars, link_mode, claimVars, autoVars, phase,
                 tc, history>>

\* Mutant: the timer shows the bridge whoever is connected.
ReopenTimer_unchecked ==
  /\ bt_pc = "loop" /\ reopen_timer
  /\ reopen_timer' = FALSE
  /\ visible' = TRUE
  /\ UNCHANGED <<rfcommVars, gapVars, link_mode, claimVars, autoVars, pppVars,
                 btVars, lwipVars, bt_connected, history>>

(* bt_reopen_timer_handler()                                               *)
ReopenTimer ==
  /\ bt_pc = "loop" /\ reopen_timer
  /\ reopen_timer' = FALSE
  /\ visible' = (visible \/ ~bt_connected)
  /\ UNCHANGED <<rfcommVars, gapVars, link_mode, claimVars, autoVars, pppVars,
                 btVars, lwipVars, bt_connected, history>>

(* RFCOMM_DATA_PACKET that is past the dial-up script: pppos_input_tcpip() *)
(* copies and posts it; a full mailbox drops it.                           *)
DataPacket(c) ==
  /\ bt_pc = "loop" /\ chan[c] = "open"
  /\ session_active /\ c = active_cid /\ ppp # NULL
  /\ Len(mbox) < MboxSize
  /\ mbox' = Append(mbox, [op |-> "input", pcb |-> ppp, cid |-> c])
  /\ UNCHANGED <<rfcommVars, gapVars, link_mode, claimVars, autoVars, pppVars,
                 btVars, phase, api, tc, gwVars, history>>

-----------------------------------------------------------------------------
(* The tcpip task.  A message is served when no callback is running.       *)

Serve(o) ==
  /\ tc = NoCallback
  /\ mbox # <<>> /\ Head(mbox).op = o
  /\ mbox' = Tail(mbox)
  /\ UNCHANGED <<rfcommVars, gapVars, link_mode, claimVars, autoVars, ppp,
                 ppp_teardown, btVars, gwVars, early>>

(* Input and close dereference the pcb.                                    *)
TouchFreed ==
  /\ \E o \in {"input", "close"} : Serve(o)
  /\ phase[Head(mbox).pcb] = "free"
  /\ fault' = TRUE
  /\ UNCHANGED <<phase, api, tc, ppp_up_flag>>

(* Received data may start or go on with the negotiation.                  *)
ServeInput ==
  /\ Serve("input")
  /\ LET p == Head(mbox).pcb IN
     /\ phase[p] # "free"
     /\ phase' = [phase EXCEPT ![p] = IF @ = "dead" THEN @ ELSE "open"]
  /\ UNCHANGED <<api, tc, ppp_up_flag, fault>>

ServeCreate ==
  /\ Serve("create")
  /\ \/ \E p \in Pcbs :
          /\ phase[p] = "free"
          /\ phase' = [phase EXCEPT ![p] = "dead"]
          /\ api' = [st |-> "ok", pcb |-> p]
     \/ api' = [st |-> "err", pcb |-> NULL] /\ UNCHANGED phase
  /\ UNCHANGED <<tc, ppp_up_flag, fault>>

ServeListen ==
  /\ Serve("listen")
  /\ \/ /\ phase' = [phase EXCEPT ![Head(mbox).pcb] = "listening"]
        /\ api' = [st |-> "ok", pcb |-> NULL]
     \/ api' = [st |-> "err", pcb |-> NULL] /\ UNCHANGED phase
  /\ UNCHANGED <<tc, ppp_up_flag, fault>>

(* ppp_status_cb() with an error, up to gw_on_ppp_down().                  *)
StatusDown(p, closing) ==
  /\ phase' = [phase EXCEPT ![p] = "dead"]
  /\ ppp_up_flag' = FALSE
  /\ tc' = [pcb |-> p, closing |-> closing]

ServeClose ==
  /\ Serve("close")
  /\ phase[Head(mbox).pcb] # "free"
  /\ StatusDown(Head(mbox).pcb, TRUE)
  /\ UNCHANGED <<api, fault>>

(* IPCP is up.                                                             *)
PppUp(p) ==
  /\ tc = NoCallback /\ phase[p] = "open" /\ ~ppp_up_flag
  /\ ppp_up_flag' = TRUE
  /\ UNCHANGED <<rfcommVars, gapVars, link_mode, claimVars, autoVars, ppp,
                 ppp_teardown, btVars, lwipVars, gwVars, history>>

(* The phone terminates LCP, the negotiation fails or times out.           *)
PppDies(p) ==
  /\ tc = NoCallback /\ phase[p] = "open"
  /\ StatusDown(p, FALSE)
  /\ UNCHANGED <<rfcommVars, gapVars, link_mode, claimVars, autoVars, ppp,
                 ppp_teardown, btVars, mbox, api, gwVars, history>>

\* Mutant: a pcb that died is not re-armed.
StatusEnd_no_relisten ==
  /\ tc # NoCallback
  /\ tc' = NoCallback
  /\ phase' = [phase EXCEPT ![tc.pcb] = IF ppp_teardown THEN "free" ELSE @]
  /\ early' = (early \/ (ppp_teardown /\ ~tc.closing))
  /\ api' = IF tc.closing THEN [st |-> "ok", pcb |-> NULL] ELSE api
  /\ UNCHANGED <<rfcommVars, gapVars, link_mode, claimVars, autoVars, pppVars,
                 btVars, mbox, gwVars, fault>>

\* Mutant: the callback frees with pppapi_free(), which waits for tcpip.
StatusEnd_pppapi_free ==
  /\ tc # NoCallback /\ ~ppp_teardown
  /\ tc' = NoCallback
  /\ phase' = [phase EXCEPT ![tc.pcb] = IF session_active THEN "listening"
                                        ELSE @]
  /\ UNCHANGED <<rfcommVars, gapVars, link_mode, claimVars, autoVars, pppVars,
                 btVars, mbox, api, gwVars, history>>

(* The end of ppp_status_cb(): free the pcb, listen again or leave it.  A  *)
(* callback run by pppapi_close() then lets the BTstack task go on.        *)
StatusEnd ==
  /\ tc # NoCallback
  /\ tc' = NoCallback
  /\ phase' = [phase EXCEPT ![tc.pcb] = IF ppp_teardown THEN "free"
                                        ELSE IF session_active THEN "listening"
                                        ELSE @]
  /\ early' = (early \/ (ppp_teardown /\ ~tc.closing))
  /\ api' = IF tc.closing THEN [st |-> "ok", pcb |-> NULL] ELSE api
  /\ UNCHANGED <<rfcommVars, gapVars, link_mode, claimVars, autoVars, pppVars,
                 btVars, mbox, gwVars, fault>>

-----------------------------------------------------------------------------
Incoming == \E c \in Cids, p \in Phones :
  IncomingBusy(c, p) \/ IncomingAccept(c, p) \/ IncomingHold(c, p)

ChannelEvent == \E c \in Cids :
  \/ Declined(c)   \/ OpenFailed(c) \/ Opened(c)
  \/ ClosedOther(c) \/ ClosedHeld(c) \/ ClosedSession(c)
  \/ DataPacket(c)

LinkEvent == \/ \E answered \in BOOLEAN : NameReply(answered)
             \/ \E p \in Phones : LinkDown(p)
             \/ \E p \in Phones, reached \in BOOLEAN : SecurityLevel(p, reached)

BtTask == \/ CreateFailed \/ Created \/ Listening \/ ListenFailed \/ Aborted
          \/ StopClose \/ Stopped

TcpipTask == \/ TouchFreed \/ ServeInput \/ ServeCreate \/ ServeListen
             \/ ServeClose \/ StatusEnd

PppEvent == \E p \in Pcbs : PppUp(p) \/ PppDies(p)

\* Once freed memory is touched nothing more is claimed of the program.
Next == /\ ~fault
        /\ \/ Incoming \/ ChannelEvent \/ LinkEvent \/ BtTask \/ ReopenTimer
           \/ TcpipTask \/ PppEvent

Spec == Init /\ [][Next]_vars

(* The scheduler runs both tasks, a timer expires, the controller answers  *)
(* every name request and reports every security request's outcome.        *)
Fairness ==
  /\ WF_vars(~fault /\ BtTask) /\ WF_vars(~fault /\ TcpipTask)
  /\ SF_vars(~fault /\ ReopenTimer)
  /\ WF_vars(~fault /\ \E answered \in BOOLEAN : NameReply(answered))
  /\ \A p \in Phones :
       SF_vars(~fault /\ p \in secReq /\ \E r \in BOOLEAN : SecurityLevel(p, r))

FairSpec == Spec /\ Fairness

-----------------------------------------------------------------------------
(* Properties                                                              *)

ChanType  == /\ chan \in [Cids -> ChanStates]
             /\ peer \in [Cids -> Phones \cup {NoPhone}]
GapType   == /\ level \in [Phones -> {0, 2}]
             /\ nameReq \in Phones \cup {NoPhone} /\ secReq \in SUBSET Phones
ClaimType == /\ link_mode \in Modes /\ session_active \in BOOLEAN
             /\ active_cid \in Cids \cup {NoCid}
AutoType  == /\ auto_cid \in Cids \cup {NoCid}
             /\ auto_addr \in Phones \cup {NoPhone}
             /\ auto_sec_pending \in BOOLEAN
PppType   == /\ ppp \in Pcbs \cup {NULL} /\ ppp_teardown \in BOOLEAN
             /\ ppp_up_flag \in BOOLEAN
BtType    == bt_pc \in BtPcs /\ bt_cid \in Cids \cup {NoCid}
PcbType   == phase \in [Pcbs -> Phases] /\ mbox \in Seq(Messages)
CallType  == /\ api \in [st : {"none", "wait", "ok", "err"},
                         pcb : Pcbs \cup {NULL}]
             /\ tc \in [pcb : Pcbs \cup {NULL}, closing : BOOLEAN]
GwType    == /\ bt_connected \in BOOLEAN /\ visible \in BOOLEAN
             /\ reopen_timer \in BOOLEAN
             /\ early \in BOOLEAN /\ fault \in BOOLEAN

\* Every variable has a value of its kind (the declarations of ppp_link.c).
TypeOK == /\ ChanType /\ GapType /\ ClaimType /\ AutoType /\ PppType /\ BtType
          /\ PcbType /\ CallType /\ GwType

(* The bridge is never busy for a phone that is not there: a claim names a *)
(* channel RFCOMM still holds for us, and no other channel was ever        *)
(* accepted.  (session_active/active_cid against RFCOMM's own state, over  *)
(* every way a setup is refused, given up, fails or ends.)                 *)
ClaimMatchesChannel ==
  /\ session_active <=> active_cid # NoCid
  /\ \A c \in Cids :
       c = active_cid <=> chan[c] \in {"incoming", "accepted", "open"}

(* In auto mode a channel is accepted only for a phone whose name is in    *)
(* the list or whose link is authenticated and encrypted, whatever late    *)
(* name and security answers of other phones or attempts arrive            *)
(* (auto_hci_handler).                                                     *)
AutoModeDecision ==
  link_mode = "auto" => \A c \in Cids :
    chan[c] \in {"accepted", "open"} => peer[c] \in NoSec \/ level[peer[c]] = 2

(* Every pcb that is not free is the one of the session being served: none *)
(* is leaked by a redial, a failed start or a close, and, unless it was    *)
(* freed early, none is used after it was freed: each queued message is    *)
(* for the session's own pcb and channel.                                  *)
PcbOwnership ==
  ~early =>
    /\ ~fault
    /\ \A p \in Pcbs : phase[p] # "free" /\ bt_pc = "loop" => p = ppp
    /\ \A i \in DOMAIN mbox : mbox[i].op # "create" =>
         /\ mbox[i].pcb = ppp /\ phase[ppp] # "free"
         /\ bt_pc = "loop" => mbox[i].cid = active_cid

(* A phone with an open channel can always (re)dial: between handlers its  *)
(* pcb listens, negotiates or is inside the callback that re-arms it.      *)
(* (ppp_listen in ppp_status_cb.)                                          *)
RedialArmed ==
  bt_pc = "loop" /\ session_active /\ chan[active_cid] = "open" =>
    ppp # NULL /\ (phase[ppp] \in {"listening", "open"} \/ tc.pcb = ppp)

(* The bridge is hidden only while a phone is connected or the reopen      *)
(* timer will show it, and a connected phone never sees it shown           *)
(* (gw_on_rfcomm_opened/closed, bt_reopen_timer_handler).                  *)
HiddenExactlyWhenConnected ==
  /\ bt_connected => ~visible
  /\ ~visible => bt_connected \/ reopen_timer

(* pcbs are freed only inside pppapi_close(), as the comment at the pcb    *)
(* says.                                                                   *)
FreedInsideClose == ~early

(* A held accept is decided or given up.                                   *)
HeldAcceptIsDecided == auto_cid # NoCid ~> auto_cid = NoCid

(* The two tasks do not wait for each other for ever: a handler that calls *)
(* into tcpip returns to the run loop.                                     *)
HandlerReturns == bt_pc # "loop" ~> bt_pc = "loop" \/ fault

(* After a session the bridge is shown again, or another session runs.     *)
ShownAgain == ~bt_connected ~> visible \/ bt_connected \/ fault

-----------------------------------------------------------------------------
(* The link implements the service the rest of the bridge relies on: in    *)
(* particular no phone is let in before the previous one's PPP is gone.    *)
Service == INSTANCE LinkService
  WITH Owners <- Cids, Nobody <- NoCid, owner <- active_cid,
       service <- IF ppp = NULL THEN "none"
                  ELSE IF ppp_up_flag THEN "up" ELSE "ready"

ImplementsService == Service!Spec
=============================================================================
