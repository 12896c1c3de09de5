------------------------------- MODULE Bridge -------------------------------
(***************************************************************************)
(* The bridge as a whole: gateway.c's application state, its hooks on the  *)
(* PPP link and the kick of WiFi, with WifiMulti beside it and NAPT        *)
(* following both links through the tcpip task.                            *)
(*                                                                         *)
(* The link is LinkService, which PppLink implements; the BTstack task     *)
(* (bt_pc) and the tcpip task (tcp_pc) are followed through the hooks they *)
(* call, since the hooks read shared state and set it later.               *)
(***************************************************************************)
EXTENDS WifiMulti

CONSTANTS Owners, Nobody

VARIABLES
  owner,              \* LinkService: who has the link
  bt_pc,              \* the BTstack task inside CHANNEL_CLOSED
  tcp_pc,             \* the tcpip task inside ppp_status_cb()
  wifi_kick_running,
  napt_on

gwVars == <<owner, bt_pc, tcp_pc, wifi_kick_running, napt_on>>
vars   == <<wifiVars, gwVars>>

Link == INSTANCE LinkService

Init ==
  /\ Link!Init /\ WifiInit
  /\ bt_pc = "loop" /\ tcp_pc = "idle"
  /\ wifi_kick_running = FALSE /\ napt_on = FALSE

\* What gateway.c never touches.
WifiUnchanged ==
  UNCHANGED <<listVars, wifi_cur_ssid, wifi_connected, wifi_ignore_disconnect,
              wifi_retries, scan_in_progress, candVars, wifi_retry_running,
              recovery, evVars, radioVars, evq, reset_raced>>

-----------------------------------------------------------------------------
(* The BTstack task                                                        *)

BtStep(from, to) ==
  /\ bt_pc = from /\ bt_pc' = to
  /\ WifiUnchanged
  /\ UNCHANGED <<beginVars, wifi_kick_running, napt_on>>

Claims == /\ BtStep("loop", "loop")
          /\ \E c \in Owners : Link!Claim(c)
          /\ UNCHANGED <<app_state, bt_connected, mbox, tcp_pc>>

GivesUp == /\ BtStep("loop", "loop")
           /\ service = "none" /\ Link!Release
           /\ UNCHANGED <<app_state, bt_connected, mbox, tcp_pc>>

(* The session starts; gw_on_rfcomm_opened().                              *)
RfcommOpened == /\ BtStep("loop", "loop")
                /\ Link!Offer
                /\ bt_connected' = TRUE
                /\ UNCHANGED <<app_state, mbox, tcp_pc>>

(* CHANNEL_CLOSED gives up the claim and waits in pppapi_close() ...       *)
RfcommClosed == /\ BtStep("loop", "close")
                /\ service # "none" /\ Link!Release
                /\ UNCHANGED <<app_state, bt_connected, mbox, tcp_pc>>

(* ... which the tcpip task serves with a status callback.                 *)
CloseServed == /\ BtStep("close", "closing")
               /\ tcp_pc = "idle" /\ tcp_pc' = "down"
               /\ Link!Down \/ (service = "ready" /\ UNCHANGED <<owner, service>>)
               /\ UNCHANGED <<app_state, bt_connected, mbox>>

(* gw_on_rfcomm_closed()                                                   *)
CloseReturns == /\ BtStep("closing", "closed")
                /\ tcp_pc = "idle"
                /\ Link!Withdraw
                /\ bt_connected' = FALSE
                /\ UNCHANGED <<app_state, mbox, tcp_pc>>

ClosedShown == /\ BtStep("closed", "loop")
               /\ app_state' = "WAIT_BT"
               /\ update_nat
               /\ UNCHANGED <<owner, service, bt_connected, tcp_pc>>

BtTask == CloseServed \/ CloseReturns \/ ClosedShown

-----------------------------------------------------------------------------
(* The tcpip task: ppp_status_cb() and the hooks it calls                  *)

TcpStep(from) ==
  /\ tcp_pc = from
  /\ WifiUnchanged
  /\ UNCHANGED <<bt_connected, beginVars, bt_pc>>

PppUp == /\ TcpStep("idle") /\ bt_pc \in {"loop", "close"}
         /\ Link!Up
         /\ tcp_pc' = "up"
         /\ UNCHANGED <<app_state, mbox, wifi_kick_running, napt_on>>

(* The phone ends PPP, or the negotiation fails.                           *)
PppDown == /\ TcpStep("idle") /\ owner # Nobody
           /\ Link!Down \/ (service = "ready" /\ UNCHANGED <<owner, service>>)
           /\ tcp_pc' = "down"
           /\ UNCHANGED <<app_state, mbox, wifi_kick_running, napt_on>>

\* Mutant: NAPT is not looked at when PPP comes up.
gw_on_ppp_up_no_nat ==
  /\ TcpStep("up")
  /\ tcp_pc' = IF wifi_connected THEN "bridge"
               ELSE IF saved = {} THEN "no_wifi" ELSE "kick"
  /\ UNCHANGED <<owner, service, app_state, mbox, wifi_kick_running, napt_on>>

(* update_nat(), then gw_on_ppp_up() reads what to show.                   *)
gw_on_ppp_up ==
  /\ TcpStep("up")
  /\ update_nat
  /\ tcp_pc' = IF wifi_connected THEN "bridge"
               ELSE IF saved = {} THEN "no_wifi" ELSE "kick"
  /\ UNCHANGED <<owner, service, app_state, wifi_kick_running, napt_on>>

(* update_nat(), then gw_on_ppp_down() reads the state.                    *)
gw_on_ppp_down ==
  /\ TcpStep("down")
  /\ update_nat
  /\ tcp_pc' = IF app_state \in {"BRIDGE", "BRIDGE_NO_WIFI"} THEN "wait_bt"
               ELSE "idle"
  /\ UNCHANGED <<owner, service, app_state, wifi_kick_running, napt_on>>

PppShown ==
  /\ \/ TcpStep("bridge") /\ app_state' = "BRIDGE" /\ UNCHANGED wifi_kick_running
     \/ TcpStep("no_wifi") /\ app_state' = "NO_WIFI" /\ UNCHANGED wifi_kick_running
     \/ TcpStep("wait_bt") /\ app_state' = "WAIT_BT" /\ UNCHANGED wifi_kick_running
     \/ TcpStep("kick") /\ wifi_kick_running' = TRUE /\ UNCHANGED app_state
  /\ tcp_pc' = "idle"
  /\ UNCHANGED <<owner, service, mbox, napt_on>>

(* update_nat_lwip_ctx()                                                   *)
update_nat_lwip_ctx ==
  /\ TcpStep("idle")
  /\ mbox > 0 /\ mbox' = mbox - 1
  /\ napt_on' = (ppp_link_up /\ wifi_connected)
  /\ UNCHANGED <<owner, service, app_state, tcp_pc, wifi_kick_running>>

TcpipTask == gw_on_ppp_up \/ gw_on_ppp_down \/ PppShown \/ update_nat_lwip_ctx

-----------------------------------------------------------------------------
(* wifi_kick_task() and the web UI                                         *)

KickWakes ==
  /\ wifi_kick_running /\ wifi_kick_running' = FALSE
  /\ IF ppp_link_up /\ ~wifi_connected /\ saved # {}
     THEN BeginChecks
     ELSE UNCHANGED <<app_state, beginVars>>
  /\ UNCHANGED <<bt_connected, service, mbox, listVars, wifi_cur_ssid,
                 wifi_connected, wifi_ignore_disconnect, wifi_retries,
                 wifi_retry_running, scan_in_progress, candVars, recovery, evVars,
                 radioVars, evq, reset_raced, owner, bt_pc, tcp_pc, napt_on>>

handler_wifi_add(s) ==
  /\ wifi_list_add(s)
  /\ wifi_kick_running' = (wifi_kick_running \/ (~wifi_connected /\ ppp_link_up))
  /\ UNCHANGED <<owner, bt_pc, tcp_pc, napt_on>>

EditList ==
  \/ \E s \in Ssids : \/ handler_wifi_add(s)
                      \/ wifi_list_remove(s) /\ UNCHANGED gwVars
  \/ (wifi_list_clear \/ Leave) /\ UNCHANGED gwVars

-----------------------------------------------------------------------------
Wifi(A) == A /\ UNCHANGED gwVars

LinkEvent == Claims \/ GivesUp \/ RfcommOpened \/ RfcommClosed \/ PppUp \/ PppDown

Next ==
  \/ LinkEvent \/ BtTask \/ TcpipTask \/ KickWakes \/ EditList
  \/ Wifi(Driver) \/ Wifi(EventTask) \/ Wifi(CycleChecks) \/ Wifi(BeginScan) \/ Wifi(RetryWakes)
  \/ Wifi(Watchdog) \/ Wifi(Recovery)

Spec == Init /\ [][Next]_vars

(* Every task runs, every delay ends, and the driver reports the outcome   *)
(* of what it was asked.                                                   *)
Fairness ==
  /\ WF_vars(BtTask) /\ WF_vars(TcpipTask) /\ WF_vars(KickWakes)
  /\ WF_vars(Wifi(EventTask)) /\ WF_vars(Wifi(CycleChecks)) /\ WF_vars(Wifi(BeginScan))
  /\ WF_vars(Wifi(RetryWakes)) /\ WF_vars(Wifi(Recovery))
  /\ WF_vars(Wifi(ScanEnds)) /\ WF_vars(Wifi(Connects \/ ConnectFails))

FairSpec == Spec /\ Fairness

-----------------------------------------------------------------------------
(* Properties                                                              *)

\* Every variable has a value of its declaration.
TypeOK ==
  /\ app_state \in AppStates /\ bt_connected \in BOOLEAN
  /\ service \in {"none", "ready", "up"} /\ owner \in Owners \cup {Nobody}
  /\ mbox \in 0..MboxSize /\ saved \in SUBSET Ssids
  /\ wifi_cur_ssid \in Ssids \cup {NoSsid}
  /\ wifi_connected \in BOOLEAN /\ wifi_ignore_disconnect \in BOOLEAN
  /\ wifi_retries \in 0..MaxRetries /\ scan_in_progress \in BOOLEAN
  /\ cands \in Seq(Ssids) /\ cand_attempts \in 0..(MaxAttempts - 1)
  /\ wifi_retry_running \in BOOLEAN /\ wifi_kick_running \in BOOLEAN
  /\ recovery \in {"none", "created", "down", "clean"}
  /\ ev_pc \in {"idle", "scanned", "try", "connect", "ignored", "disconnected",
                "act", "got_ip", "bridge", "wait_bt"}
  /\ ev_st \in AppStates /\ {checking, begins} \subseteq Nat
  /\ checking + begins <= MaxBegins
  /\ radio \in {"idle", "connecting", "up", "off"} /\ scanning \in BOOLEAN
  /\ evq \in Seq(Events) /\ napt_on \in BOOLEAN
  /\ bt_pc \in {"loop", "close", "closing", "closed"}
  /\ tcp_pc \in {"idle", "up", "down", "bridge", "no_wifi", "wait_bt", "kick"}
  /\ {edits, races} \subseteq Nat /\ edits + races <= MaxUpsets
  /\ edit_pc \in {"idle", "removed", "cleared"}
  /\ {emptied, reset_raced} \subseteq BOOLEAN

(* NAPT is on exactly while both links are up, or an update that will make *)
(* it so is queued or about to be (update_nat() after every change).       *)
NatFollows ==
  \/ napt_on = (ppp_link_up /\ wifi_connected)
  \/ mbox > 0
  \/ tcp_pc \in {"up", "down"}
  \/ ev_pc \in {"ignored", "disconnected", "got_ip"}

\* An event the event task has not handled yet.
InQueue(e) == \E i \in DOMAIN evq : evq[i] = e

(* Once the events are handled wifi_connected is what the driver has:      *)
(* through ignored disconnects, list edits and soft resets, unless a soft  *)
(* reset took down a connection made after the watchdog had looked.        *)
ConnectedIsReal ==
  evq = <<>> /\ ~reset_raced => (wifi_connected <=> radio = "up")

(* A candidate that is being tried always comes to an end that the event   *)
(* handler will act on: cand_count is never left behind, where it would    *)
(* keep wifi_connect_begin() from ever scanning again.                     *)
AttemptPending ==
  \/ radio = "connecting" \/ InQueue("disconnected") \/ InQueue("got_ip")
  \/ ev_pc \in {"try", "connect", "disconnected", "act"}
  \/ recovery \in {"created", "down"}

CycleNeverStuck == cands # <<>> => AttemptPending

(* The same while nobody has changed the list and no task has passed the   *)
(* checks of wifi_connect_begin() with a cycle it could not see.           *)
CycleAlive == cands # <<>> /\ edits = 0 /\ races = 0 => AttemptPending

(* "PPP up, WiFi lost: reconnecting forever" (gateway.h): in that state    *)
(* some task, timer or event is always on its way to the next attempt, as  *)
(* long as no change has left the list empty.                              *)
ReconnectingForever ==
  app_state = "BRIDGE_NO_WIFI" /\ saved # {} /\ ~emptied =>
    \/ wifi_retry_running \/ checking > 0 \/ begins > 0
    \/ scan_in_progress /\ (scanning \/ InQueue("scan_done"))
    \/ AttemptPending \/ recovery # "none" \/ ev_pc # "idle"

(* When no handler is running, APP_BRIDGE is shown exactly while PPP and   *)
(* WiFi are up (gateway.h: "PPP up + WiFi up: NAT active").                *)
Quiet == tcp_pc = "idle" /\ ev_pc = "idle" /\ bt_pc = "loop" /\ evq = <<>>
BridgeMeansBridging ==
   Quiet => (app_state = "BRIDGE" <=> ppp_link_up /\ wifi_connected)

(* A candidate cycle ends while the list is left alone: each candidate has *)
(* its attempts, each attempt an outcome.                                  *)
CycleEnds == cands # <<>> ~> cands = <<>> \/ edits > 0

(* Left alone, a saved list leads to a connection or, after the retries,   *)
(* to APP_WIFI_FAILED: no cycle is dropped half way (README: "retry and    *)
(* backoff across the whole list").                                        *)
Settles == saved # {} /\ edits = 0 ~>
             wifi_connected \/ app_state = "WIFI_FAILED" \/ edits > 0
=============================================================================
