------------------------------ MODULE WifiMulti ------------------------------
(***************************************************************************)
(* The WiFi side, src/main/wifi_multi.c: the saved list, the scan-and-pick *)
(* cycle over its candidates, the retry task, the watchdog's soft reset    *)
(* and the event handler, around an external driver.                       *)
(*                                                                         *)
(* The tasks: the event task (ev_pc), the retry task, the recovery task,   *)
(* httpd for the list, and those inside wifi_connect_begin(), which has no *)
(* lock: `checking' tasks have seen that WiFi is not connected, `begins'   *)
(* have passed all its checks.  Time is abstract: delays may take any      *)
(* time, and so may the watchdog's ten heartbeats.  Bridge puts this       *)
(* module together with gateway.c and the PPP link.                        *)
(***************************************************************************)
EXTENDS Naturals, Sequences, FiniteSets

CONSTANTS
  Ssids, NoSsid,
  MaxRetries,   \* WIFI_MAX_RETRIES
  MaxAttempts,  \* CAND_MAX_ATTEMPTS
  MboxSize,     \* tcpip mailbox
  MaxBegins,    \* bound: tasks inside wifi_connect_begin() at once
  MaxUpsets     \* bound: changes of the saved list, and of its checks passed
                \* in a cycle, in a behaviour

ASSUME WifiMultiAssumption ==
  /\ {MaxRetries, MaxAttempts, MboxSize, MaxBegins} \subseteq Nat \ {0}
  /\ MaxUpsets \in Nat /\ NoSsid \notin Ssids

VARIABLES
  \* shared with gateway.c and ppp_link.c
  app_state, bt_connected,
  service,          \* "up" when ppp_link_up()
  mbox,             \* external: messages in the tcpip mailbox
  \* wifi_multi.c
  saved,            \* the networks of wifi_list
  edit_pc,          \* where the httpd task is in a change of the list
  wifi_cur_ssid,    \* the network last tried, or NoSsid
  wifi_connected, wifi_ignore_disconnect, wifi_retries,
  scan_in_progress,
  cands,            \* the candidates from cand_index on; <<>> for cand_count 0
  cand_attempts,
  wifi_retry_running,
  recovery,         \* the recovery task: none, created, handlers unregistered
  ev_pc,            \* where the event task is, "idle" between handlers
  ev_st,            \* the app_state it has read
  checking, begins, \* tasks inside wifi_connect_begin(), see above
  \* external: the driver and the event loop's queue
  radio, scanning, evq,
  \* history
  edits,            \* changes of the list so far
  emptied,          \* a change has left the list empty
  races,            \* times its checks were passed with a cycle under way
  reset_raced       \* a soft reset took down an established connection

listVars  == <<saved, edits, edit_pc, emptied>>
candVars  == <<cands, cand_attempts>>
evVars    == <<ev_pc, ev_st>>
beginVars == <<checking, begins, races>>
radioVars == <<radio, scanning>>
wifiVars == <<app_state, bt_connected, service, mbox, listVars, wifi_cur_ssid,
              wifi_connected,
              wifi_ignore_disconnect, wifi_retries, scan_in_progress, candVars,
              wifi_retry_running, recovery, evVars, beginVars, radioVars, evq,
              reset_raced>>

AppStates == {"WAIT_BT", "NO_WIFI", "WIFI_SCANNING", "WIFI_CONNECTING",
              "WIFI_FAILED", "BRIDGE", "BRIDGE_NO_WIFI"}
Events    == {"scan_done", "disconnected", "got_ip"}

ppp_link_up         == service = "up"
wifi_bt_negotiating == bt_connected /\ ~ppp_link_up
Smaller(a, b)       == IF a < b THEN a ELSE b

\* wifi_multi_init(): the first cycle starts at boot when a list was saved.
WifiInit ==
  /\ bt_connected = FALSE /\ mbox = 0
  /\ saved \in SUBSET Ssids /\ edits = 0 /\ edit_pc = "idle" /\ emptied = FALSE
  /\ wifi_cur_ssid = NoSsid
  /\ wifi_connected = FALSE /\ wifi_ignore_disconnect = FALSE
  /\ wifi_retries = 0 /\ scan_in_progress = FALSE
  /\ cands = <<>> /\ cand_attempts = 0
  /\ wifi_retry_running = FALSE /\ recovery = "none"
  /\ ev_pc = "idle" /\ ev_st = "WAIT_BT"
  /\ begins = (IF saved = {} THEN 0 ELSE 1) /\ checking = 0 /\ races = 0
  /\ app_state = IF saved = {} THEN "NO_WIFI" ELSE "WAIT_BT"
  /\ radio = "idle" /\ scanning = FALSE /\ evq = <<>>
  /\ reset_raced = FALSE

-----------------------------------------------------------------------------
(* The driver (external)                                                   *)

Post(e) == evq' = Append(evq, e)

(* What a scan or a connection attempt comes to.                           *)
DriverStep ==
  UNCHANGED <<app_state, bt_connected, service, mbox, listVars, wifi_cur_ssid,
              wifi_connected,
              wifi_ignore_disconnect, wifi_retries, scan_in_progress, candVars,
              wifi_retry_running, recovery, evVars, beginVars,
              reset_raced>>

ScanEnds == /\ scanning
            /\ scanning' = FALSE /\ Post("scan_done")
            /\ UNCHANGED radio /\ DriverStep

Connects == /\ radio = "connecting"
            /\ radio' = "up" /\ Post("got_ip")
            /\ UNCHANGED scanning /\ DriverStep

ConnectFails == /\ radio = "connecting"
                /\ radio' = "idle" /\ Post("disconnected")
                /\ UNCHANGED scanning /\ DriverStep

LinkLost == /\ radio = "up"
            /\ radio' = "idle" /\ Post("disconnected")
            /\ UNCHANGED scanning /\ DriverStep

esp_wifi_connect ==
  /\ radio' = IF radio = "idle" THEN "connecting" ELSE radio
  /\ UNCHANGED scanning

(* A disconnect is reported only when there is something to disconnect.    *)
Associated == radio \in {"connecting", "up"}
esp_wifi_disconnect ==
  /\ radio' = IF Associated THEN "idle" ELSE radio
  /\ evq' = IF Associated THEN Append(evq, "disconnected") ELSE evq
  /\ UNCHANGED scanning

-----------------------------------------------------------------------------
(* The connect cycle                                                       *)

wifi_schedule_retry == wifi_retry_running' = TRUE

\* Mutant: the retries of a lost bridge are bounded like any other.
wifi_cycle_failed_bounded(st) ==
  /\ wifi_retries' = Smaller(wifi_retries + 1, MaxRetries)
  /\ \/ /\ wifi_retries + 1 < MaxRetries
        /\ wifi_schedule_retry /\ app_state' = st
     \/ /\ wifi_retries + 1 >= MaxRetries
        /\ app_state' = (IF st = "BRIDGE_NO_WIFI" THEN st ELSE "WIFI_FAILED")
        /\ UNCHANGED wifi_retry_running

\* Mutant: failed cycles are not counted.
wifi_cycle_failed_uncounted(st) ==
  /\ wifi_schedule_retry /\ app_state' = st
  /\ UNCHANGED wifi_retries

(* wifi_cycle_failed() in app_state st.  The count saturates: all that is  *)
(* asked of it is whether it is below MaxRetries.                          *)
wifi_cycle_failed(st) ==
  /\ wifi_retries' = Smaller(wifi_retries + 1, MaxRetries)
  /\ \/ /\ st = "BRIDGE_NO_WIFI" \/ wifi_retries + 1 < MaxRetries
        /\ wifi_schedule_retry /\ app_state' = st
     \/ /\ st # "BRIDGE_NO_WIFI" /\ wifi_retries + 1 >= MaxRetries
        /\ app_state' = "WIFI_FAILED" /\ UNCHANGED wifi_retry_running

\* APP_BRIDGE_NO_WIFI stays visible while WiFi is looked for.
Showing(st) == IF app_state = "BRIDGE_NO_WIFI" THEN app_state ELSE st

(* wifi_connect_begin() reads wifi_connected first ...                     *)
BeginChecks ==
  \/ /\ saved = {}
     /\ app_state' = "NO_WIFI"
     /\ UNCHANGED beginVars
  \/ /\ saved # {} /\ wifi_connected
     /\ UNCHANGED <<app_state, beginVars>>
  \/ /\ saved # {} /\ ~wifi_connected
     /\ checking + begins < MaxBegins /\ checking' = checking + 1
     /\ UNCHANGED <<app_state, begins, races>>

(* ... and then scan_in_progress and cand_count.  Nothing holds them still *)
(* while it does: another task may have passed before it, the event task   *)
(* may be between the end of a scan and its candidates, and WiFi may have  *)
(* connected since it looked.                                              *)
CycleUnseen == begins > 0 \/ ev_pc = "scanned" \/ wifi_connected

\* Mutant: a cycle that has its candidates is not seen.
InCycle_scan == scan_in_progress
InCycle      == scan_in_progress \/ cands # <<>>

CycleChecks ==
  /\ checking > 0 /\ checking' = checking - 1
  /\ \/ /\ InCycle
        /\ UNCHANGED <<wifi_retry_running, begins, races>>
     \/ /\ ~InCycle /\ wifi_bt_negotiating
        /\ wifi_schedule_retry
        /\ UNCHANGED <<begins, races>>
     \/ /\ ~InCycle /\ ~wifi_bt_negotiating
        /\ begins' = begins + 1
        /\ \/ ~CycleUnseen /\ UNCHANGED races
           \/ CycleUnseen /\ edits + races < MaxUpsets /\ races' = races + 1
        /\ UNCHANGED wifi_retry_running
  /\ UNCHANGED <<app_state, bt_connected, service, mbox, listVars, wifi_cur_ssid,
                 wifi_connected, wifi_ignore_disconnect, wifi_retries,
                 scan_in_progress, candVars, recovery, evVars, radioVars, evq,
                 reset_raced>>

(* The rest of it: the scan starts, or the driver refuses it.              *)
BeginScan ==
  /\ begins > 0 /\ begins' = begins - 1 /\ UNCHANGED <<checking, races>>
  /\ \/ /\ radio \in {"idle", "up"} /\ ~scanning
        /\ app_state' = Showing("WIFI_SCANNING")
        /\ scan_in_progress' = TRUE /\ scanning' = TRUE
        /\ UNCHANGED <<wifi_retries, wifi_retry_running>>
     \/ /\ scan_in_progress' = FALSE
        /\ wifi_cycle_failed(Showing("WIFI_SCANNING"))
        /\ UNCHANGED scanning
  /\ UNCHANGED <<bt_connected, service, mbox, listVars, wifi_cur_ssid,
                 wifi_connected, wifi_ignore_disconnect, candVars, recovery,
                 evVars, radio, evq, reset_raced>>

Drop_candidates == cands' = <<>> /\ UNCHANGED <<cand_attempts, wifi_cur_ssid>>

-----------------------------------------------------------------------------
(* wifi_event_handler(), the event task.  Handlers are registered.         *)

Event(e) ==
  /\ ev_pc = "idle" /\ recovery \in {"none", "created"}
  /\ evq # <<>> /\ Head(evq) = e
  /\ evq' = Tail(evq)
  /\ UNCHANGED <<bt_connected, service, mbox, listVars, recovery, beginVars,
                 reset_raced>>

\* Saved networks in range, best signal first.
Candidates == {list \in UNION {[1..n -> saved] : n \in 0..Cardinality(saved)} :
                 \A i, j \in DOMAIN list : list[i] = list[j] => i = j}

(* handle_scan_done(), to where the flag is cleared ...                    *)
ScanDone ==
  /\ Event("scan_done")
  /\ scan_in_progress' = FALSE
  /\ ev_pc' = IF scan_in_progress THEN "scanned" ELSE "idle"   \* unsolicited
  /\ UNCHANGED <<app_state, wifi_connected, wifi_ignore_disconnect, candVars,
                 wifi_cur_ssid, wifi_retries, wifi_retry_running, ev_st, radioVars>>

\* Mutant: an ignored disconnect is not looked at at all.
Disconnected_ignored ==
  /\ Event("disconnected")
  /\ wifi_ignore_disconnect' = FALSE
  /\ wifi_connected' = (wifi_connected /\ wifi_ignore_disconnect)
  /\ ev_pc' = IF wifi_ignore_disconnect THEN "ignored" ELSE "disconnected"
  /\ UNCHANGED <<app_state, wifi_cur_ssid, wifi_retries, scan_in_progress,
                 candVars, wifi_retry_running, ev_st, radioVars>>

(* STA_DISCONNECTED, the critical section.                                 *)
Disconnected ==
  /\ Event("disconnected")
  /\ wifi_ignore_disconnect' = FALSE /\ wifi_connected' = FALSE
  /\ ev_pc' = IF wifi_ignore_disconnect THEN "ignored" ELSE "disconnected"
  /\ UNCHANGED <<app_state, wifi_cur_ssid, wifi_retries, scan_in_progress,
                 candVars, wifi_retry_running, ev_st, radioVars>>

(* IP_EVENT_STA_GOT_IP                                                     *)
GotIp ==
  /\ Event("got_ip")
  /\ wifi_connected' = TRUE /\ wifi_retries' = 0
  /\ Drop_candidates
  /\ ev_pc' = "got_ip"
  /\ UNCHANGED <<app_state, wifi_ignore_disconnect, scan_in_progress,
                 wifi_retry_running, ev_st, radioVars>>

EvStep(from) ==
  /\ ev_pc = from
  /\ UNCHANGED <<bt_connected, service, listVars, wifi_connected,
                 wifi_ignore_disconnect, scan_in_progress, recovery, beginVars,
                 evq, reset_raced>>

\* Mutant: the post does not wait for room.
update_nat_unbounded == mbox' = mbox + 1

\* update_nat() from a task that may wait for room in the mailbox.
update_nat == mbox < MboxSize /\ mbox' = mbox + 1

(* After update_nat() each handler reads what it will act on.              *)
EvRead ==
  /\ \/ /\ EvStep("ignored") /\ ev_pc' = "idle" /\ UNCHANGED ev_st
     \/ /\ EvStep("disconnected") /\ ev_pc' = "act" /\ ev_st' = app_state
     \/ /\ EvStep("got_ip") /\ UNCHANGED ev_st
        /\ ev_pc' = IF ppp_link_up THEN "bridge" ELSE "wait_bt"
  /\ update_nat
  /\ UNCHANGED <<app_state, wifi_cur_ssid, wifi_retries, candVars,
                 wifi_retry_running, radioVars>>

EvShow ==
  /\ \/ EvStep("bridge") /\ app_state' = "BRIDGE"
     \/ EvStep("wait_bt") /\ app_state' = "WAIT_BT"
  /\ ev_pc' = "idle"
  /\ UNCHANGED <<mbox, wifi_cur_ssid, wifi_retries, candVars,
                 wifi_retry_running, ev_st, radioVars>>

(* ... and its rest, once the records have been fetched.                   *)
CandidatesFound ==
  /\ EvStep("scanned")
  /\ \E list \in Candidates :
       /\ cands' = list
       /\ \/ /\ list = <<>> /\ ev_pc' = "idle"
             /\ wifi_cycle_failed(app_state)
             /\ UNCHANGED cand_attempts
          \/ /\ list # <<>> /\ ev_pc' = "try"
             /\ cand_attempts' = 0
             /\ UNCHANGED <<app_state, wifi_retries, wifi_retry_running>>
  /\ UNCHANGED <<mbox, wifi_cur_ssid, ev_st, radioVars>>

(* wifi_try_candidate() on the first that is left: what is shown ...       *)
wifi_try_candidate ==
  /\ EvStep("try")
  /\ \/ /\ wifi_bt_negotiating
        /\ cands' = <<>> /\ wifi_schedule_retry /\ ev_pc' = "idle"
        /\ UNCHANGED <<wifi_cur_ssid, app_state>>
     \/ /\ ~wifi_bt_negotiating
        /\ wifi_cur_ssid' = Head(cands)
        /\ app_state' = Showing("WIFI_CONNECTING")
        /\ ev_pc' = "connect"
        /\ UNCHANGED <<cands, wifi_retry_running>>
  /\ UNCHANGED <<mbox, wifi_retries, cand_attempts, ev_st, radioVars>>

(* ... and the attempt.                                                    *)
TryConnects ==
  /\ EvStep("connect") /\ ev_pc' = "idle"
  /\ esp_wifi_connect
  /\ UNCHANGED <<mbox, app_state, wifi_cur_ssid, wifi_retries, candVars,
                 wifi_retry_running, ev_st>>

(* A disconnect, with the app_state read in ev_st, a local of the handler. *)
EvAct(to) == /\ EvStep("act") /\ ev_pc' = to /\ ev_st' = "WAIT_BT"
             /\ UNCHANGED mbox

MidCycle == ev_st \in {"WIFI_CONNECTING", "BRIDGE_NO_WIFI", "WAIT_BT", "WIFI_FAILED"}

\* Mutant: the attempts on a candidate are not counted.
CandidateLost_uncounted ==
  /\ EvAct("idle") /\ MidCycle /\ cands # <<>>
  /\ esp_wifi_connect
  /\ UNCHANGED <<app_state, wifi_cur_ssid, wifi_retries, candVars,
                 wifi_retry_running>>

(* The candidate failed: again, the next one, or the cycle is over.        *)
CandidateLost ==
  /\ MidCycle /\ cands # <<>>
  /\ \/ /\ wifi_bt_negotiating /\ EvAct("idle")
        /\ Drop_candidates /\ wifi_schedule_retry
        /\ UNCHANGED <<app_state, wifi_retries, radioVars>>
     \/ /\ ~wifi_bt_negotiating
        /\ \/ /\ cand_attempts + 1 < MaxAttempts /\ EvAct("idle")
              /\ cand_attempts' = cand_attempts + 1
              /\ esp_wifi_connect
              /\ UNCHANGED <<app_state, wifi_cur_ssid, wifi_retries, cands,
                             wifi_retry_running>>
           \/ /\ cand_attempts + 1 >= MaxAttempts /\ Len(cands) > 1
              /\ EvAct("try")
              /\ cands' = Tail(cands) /\ cand_attempts' = 0
              /\ UNCHANGED <<app_state, wifi_cur_ssid, wifi_retries,
                             wifi_retry_running, radioVars>>
           \/ /\ cand_attempts + 1 >= MaxAttempts /\ Len(cands) = 1
              /\ EvAct("idle")
              /\ cands' = <<>> /\ cand_attempts' = 0
              /\ wifi_cycle_failed(app_state)
              /\ UNCHANGED <<wifi_cur_ssid, radioVars>>

NetworkLost ==
  /\ EvAct("idle") /\ MidCycle /\ cands = <<>>
  /\ wifi_cycle_failed(app_state)
  /\ UNCHANGED <<wifi_cur_ssid, candVars, radioVars>>

BridgeLost ==
  /\ EvAct("idle") /\ ev_st = "BRIDGE"
  /\ \/ /\ saved = {}
        /\ app_state' = "NO_WIFI"
        /\ UNCHANGED <<wifi_retries, candVars, wifi_cur_ssid, wifi_retry_running>>
     \/ /\ saved # {}
        /\ app_state' = "BRIDGE_NO_WIFI"
        /\ wifi_retries' = 0 /\ Drop_candidates /\ wifi_schedule_retry
  /\ UNCHANGED radioVars

\* Deliberate disconnects and other states.
NothingToDo ==
  /\ EvAct("idle") /\ ~MidCycle /\ ev_st # "BRIDGE"
  /\ UNCHANGED <<app_state, wifi_cur_ssid, wifi_retries, candVars,
                 wifi_retry_running, radioVars>>

EventTask == \/ ScanDone \/ CandidatesFound \/ wifi_try_candidate \/ TryConnects
             \/ Disconnected \/ GotIp \/ EvRead \/ EvShow
             \/ CandidateLost \/ NetworkLost \/ BridgeLost \/ NothingToDo

-----------------------------------------------------------------------------
(* The retry task wakes.                                                   *)

RetryWakes ==
  /\ wifi_retry_running /\ wifi_retry_running' = FALSE
  /\ IF saved # {} /\ ~wifi_connected
     THEN BeginChecks
     ELSE UNCHANGED <<app_state, beginVars>>
  /\ UNCHANGED <<bt_connected, service, mbox, listVars, wifi_cur_ssid,
                 wifi_connected, wifi_ignore_disconnect, wifi_retries,
                 scan_in_progress, candVars, recovery, evVars, radioVars, evq,
                 reset_raced>>

RecoveryStep(from, to) ==
  /\ recovery = from /\ recovery' = to
  /\ UNCHANGED <<bt_connected, service, mbox, listVars, wifi_cur_ssid,
                 wifi_connected, wifi_ignore_disconnect, wifi_retries, evVars,
                 cand_attempts>>

(* wifi_watchdog_check(): the bridge has been without WiFi for long.       *)
Watchdog ==
  /\ app_state = "BRIDGE_NO_WIFI"
  /\ RecoveryStep("none", "created")
  /\ UNCHANGED <<app_state, scan_in_progress, cands, wifi_retry_running, beginVars,
                 radioVars, evq, reset_raced>>

(* wifi_soft_reset() unregisters the handlers once none is running; what   *)
(* the driver reports from then on is lost.                                *)
ResetDown ==
  /\ RecoveryStep("created", "down") /\ ev_pc = "idle"
  /\ radio' = "off" /\ scanning' = FALSE /\ evq' = <<>>
  /\ reset_raced' = (reset_raced \/ wifi_connected)
  /\ UNCHANGED <<app_state, scan_in_progress, cands, wifi_retry_running, beginVars>>

ResetCycle ==
  /\ RecoveryStep("down", "clean")
  /\ scan_in_progress' = FALSE /\ cands' = <<>>
  /\ UNCHANGED <<app_state, wifi_retry_running, beginVars, radioVars, evq,
                 reset_raced>>

ResetUp ==
  /\ RecoveryStep("clean", "none")
  /\ radio' = "idle"
  /\ IF saved = {} THEN UNCHANGED <<app_state, beginVars>> ELSE BeginChecks
  /\ UNCHANGED <<scan_in_progress, cands, wifi_retry_running, scanning, evq,
                 reset_raced>>

Recovery == ResetDown \/ ResetCycle \/ ResetUp

-----------------------------------------------------------------------------
(* The list API, httpd task                                                *)

EditStep ==
  /\ UNCHANGED <<bt_connected, service, mbox, wifi_connected, wifi_retries,
                 scan_in_progress, candVars, wifi_retry_running, recovery,
                 evVars, beginVars, reset_raced>>

(* The critical sections, which change the list.                           *)
Edit(to) ==
  /\ edit_pc = "idle" /\ edit_pc' = to
  /\ edits + races < MaxUpsets /\ edits' = edits + 1
  /\ emptied' = (emptied \/ saved' = {})
  /\ UNCHANGED <<app_state, radioVars, evq>>
  /\ EditStep

wifi_list_add(s) ==
  /\ saved' = saved \cup {s}
  /\ Edit("idle")
  /\ UNCHANGED <<wifi_cur_ssid, wifi_ignore_disconnect>>

wifi_list_remove(s) ==
  /\ s \in saved /\ saved' = saved \ {s}
  /\ Edit(IF s = wifi_cur_ssid THEN "removed" ELSE "idle")
  /\ UNCHANGED <<wifi_cur_ssid, wifi_ignore_disconnect>>

wifi_list_clear ==
  /\ saved' = {} /\ wifi_cur_ssid' = NoSsid
  /\ Edit("cleared")
  /\ wifi_ignore_disconnect' = TRUE

(* What follows them: the network in use is left.                          *)
Leave ==
  /\ edit_pc' = "idle"
  /\ \/ /\ edit_pc = "removed"
        /\ IF wifi_connected THEN esp_wifi_disconnect
                             ELSE UNCHANGED <<radioVars, evq>>
        /\ UNCHANGED app_state
     \/ /\ edit_pc = "cleared"
        /\ esp_wifi_disconnect
        /\ app_state' = "NO_WIFI"
  /\ UNCHANGED <<saved, edits, emptied, wifi_cur_ssid, wifi_ignore_disconnect>>
  /\ EditStep

Driver == ScanEnds \/ Connects \/ ConnectFails \/ LinkLost
=============================================================================
