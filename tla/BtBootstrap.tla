----------------------------- MODULE BtBootstrap -----------------------------
(***************************************************************************)
(* bt_bootstrap.c: after a pairing the bridge connects once into the       *)
(* phone's serial service, and the parts of gateway.c's HCI handler that   *)
(* meet it in the BTstack task: the pairing event, the phone's own session *)
(* (which the bootstrap must not disturb) and the RSSI polls.              *)
(* SDP, RFCOMM and the baseband links are BTstack's; a gap_disconnect()    *)
(* has its effect at once.                                                 *)
(***************************************************************************)
EXTENDS Naturals, FiniteSets

CONSTANTS Phones, NoPhone,
          BOOTSTRAP_MAX_DONE, NUM_TARGET_CLASSES,
          MaxPairings, MaxSessions       \* bounds

ASSUME BootAssumption ==
  /\ NoPhone \notin Phones
  /\ BOOTSTRAP_MAX_DONE \in Nat /\ NUM_TARGET_CLASSES \in Nat \ {0}

VARIABLES
  boot_state, boot_addr, target_channel, target_class_idx,
  done_addrs,
  query, chan,       \* BTstack: SDP query and RFCOMM channel of the bootstrap
  link,              \* who brought up the baseband link of a phone
  bt_session,        \* the phone's own session: its number and its phone
  bt_rssi, reading,  \* the session a shown RSSI is of; RSSI commands under way
  rssi_queued,       \* rssi_cb_reg is on the run loop's list
  pairings, sessions

bootVars == <<boot_state, boot_addr, target_channel, target_class_idx>>
rssiVars == <<bt_rssi, reading, rssi_queued>>
btVars == <<bootVars, done_addrs, query, chan, link, bt_session, rssiVars,
            pairings, sessions>>

NoSession == [id |-> 0, phone |-> NoPhone]
get_bt_connected == bt_session # NoSession

BtInit ==
  /\ boot_state = "IDLE" /\ boot_addr = NoPhone
  /\ target_channel = 0 /\ target_class_idx = 0
  /\ done_addrs = {}
  /\ query = FALSE /\ chan = "none"
  /\ link = [p \in Phones |-> "none"]
  /\ bt_session = NoSession
  /\ bt_rssi = 0 /\ reading = {} /\ rssi_queued = FALSE
  /\ pairings = 0 /\ sessions = 0

-----------------------------------------------------------------------------
(* gateway.c: the session's hooks and the RSSI polls. *)

gw_on_rfcomm_closed == bt_session' = NoSession /\ bt_rssi' = 0

\* The baseband link of phone p goes down, with what it carries.
LinkDown(p) ==
  /\ link' = [link EXCEPT ![p] = "none"]
  /\ IF bt_session.phone = p THEN gw_on_rfcomm_closed
     ELSE UNCHANGED <<bt_session, bt_rssi>>

\* watchdog_task() at every heartbeat; the run loop takes it once.
RssiPoll ==
  /\ ~rssi_queued /\ rssi_queued' = TRUE
  /\ UNCHANGED <<bootVars, done_addrs, query, chan, link, bt_session, bt_rssi,
                 reading, pairings, sessions>>

rssi_poll_cb ==
  /\ rssi_queued /\ rssi_queued' = FALSE
  /\ reading' = reading \union ({bt_session.id} \ {0})
  /\ UNCHANGED <<bootVars, done_addrs, query, chan, link, bt_session, bt_rssi,
                 pairings, sessions>>

\* Mutant: a measurement is believed whatever connection it is of.
Measured_any(h) == bt_rssi' = h

Measured(h) == bt_rssi' = IF h = bt_session.id THEN h ELSE bt_rssi

\* GAP_EVENT_RSSI_MEASUREMENT in hci_packet_handler().
RssiMeasurement(h) ==
  /\ h \in reading /\ reading' = reading \ {h}
  /\ Measured(h)
  /\ UNCHANGED <<bootVars, done_addrs, query, chan, link, bt_session, rssi_queued,
                 pairings, sessions>>

-----------------------------------------------------------------------------
(* bt_bootstrap.c *)

ResetState ==
  /\ boot_state' = "IDLE"
  /\ target_channel' = 0 /\ target_class_idx' = 0
  /\ UNCHANGED boot_addr

\* Mutant: the state machine is cleared and the link is forgotten.
boot_reset_keep_acl(drop_acl) ==
  /\ ResetState
  /\ UNCHANGED <<link, bt_session, bt_rssi>>

boot_reset(drop_acl) ==
  /\ ResetState
  /\ IF drop_acl THEN LinkDown(boot_addr)
     ELSE UNCHANGED <<link, bt_session, bt_rssi>>

addr_already_done(p) == p \in done_addrs

MarkDone(p) ==
  IF Cardinality(done_addrs) < BOOTSTRAP_MAX_DONE
  THEN done_addrs \union {p} ELSE done_addrs

bt_bootstrap_on_pairing_complete(p) ==
  IF boot_state # "IDLE" \/ addr_already_done(p)
  THEN UNCHANGED <<bootVars, done_addrs>>
  ELSE /\ done_addrs' = MarkDone(p)
       /\ boot_addr' = p /\ boot_state' = "WAIT_START"
       /\ UNCHANGED <<target_channel, target_class_idx>>

\* GAP_EVENT_PAIRING_COMPLETE in hci_packet_handler().
PairingComplete(p, status) ==
  /\ pairings < MaxPairings /\ pairings' = pairings + 1
  /\ link' = [link EXCEPT ![p] = "phone"]
  /\ IF status = 0 THEN bt_bootstrap_on_pairing_complete(p)
     ELSE UNCHANGED <<bootVars, done_addrs>>
  /\ UNCHANGED <<query, chan, bt_session, rssiVars, sessions>>

\* An SDP query or an RFCOMM connection pages the phone if no link is there.
Paged == link' = [link EXCEPT ![boot_addr] = IF @ = "none" THEN "bridge" ELSE @]

Query(err) ==
  IF err THEN boot_reset(TRUE) /\ query' = FALSE
  ELSE query' = TRUE /\ Paged /\ UNCHANGED <<boot_addr, target_channel, bt_session, bt_rssi>>

Skip == boot_reset(FALSE) /\ UNCHANGED query

\* boot_timer_handler() in BOOT_WAIT_START.
StartTimer ==
  /\ boot_state = "WAIT_START"
  /\ IF get_bt_connected THEN Skip
     ELSE \E err \in BOOLEAN :
            /\ Query(err)
            /\ ~err => boot_state' = "PROBE" /\ UNCHANGED target_class_idx
  /\ UNCHANGED <<done_addrs, chan, reading, rssi_queued, pairings, sessions>>

\* SDP_EVENT_QUERY_RFCOMM_SERVICE: the first channel of the class is taken.
ServiceFound ==
  /\ query /\ boot_state = "TARGET" /\ target_channel = 0
  /\ target_channel' = 1
  /\ UNCHANGED <<boot_state, boot_addr, target_class_idx, done_addrs, query, chan,
                 link, bt_session, rssiVars, pairings, sessions>>

NextClass(k) ==
  \E err \in BOOLEAN :
    /\ Query(err)
    /\ ~err => boot_state' = "TARGET" /\ target_class_idx' = k

Connect(err) ==
  /\ query' = FALSE
  /\ IF err THEN boot_reset(TRUE) /\ UNCHANGED chan
     ELSE /\ boot_state' = "CONNECT" /\ chan' = "opening" /\ Paged
          /\ UNCHANGED <<boot_addr, target_channel, target_class_idx, bt_session, bt_rssi>>

\* SDP_EVENT_QUERY_COMPLETE.
QueryComplete(status) ==
  /\ query
  /\ \/ /\ boot_state = "PROBE" /\ status # 0
        /\ boot_reset(TRUE) /\ query' = FALSE /\ UNCHANGED chan
     \/ /\ boot_state = "PROBE" /\ status = 0
        /\ NextClass(0) /\ UNCHANGED chan
     \/ /\ boot_state # "PROBE" /\ target_channel = 0
        /\ target_class_idx + 1 < NUM_TARGET_CLASSES
        /\ NextClass(target_class_idx + 1) /\ UNCHANGED chan
     \/ /\ boot_state # "PROBE" /\ target_channel = 0
        /\ target_class_idx + 1 >= NUM_TARGET_CLASSES
        /\ boot_reset(TRUE) /\ query' = FALSE /\ UNCHANGED chan
     \/ /\ boot_state # "PROBE" /\ target_channel # 0
        /\ \E err \in BOOLEAN : Connect(err)
  /\ UNCHANGED <<done_addrs, reading, rssi_queued, pairings, sessions>>

\* RFCOMM_EVENT_CHANNEL_OPENED.
ChannelOpened(status) ==
  /\ chan = "opening"
  /\ IF status # 0 THEN boot_reset(TRUE) /\ chan' = "none"
     ELSE /\ boot_state' = "HOLD" /\ chan' = "open"
          /\ UNCHANGED <<boot_addr, target_channel, target_class_idx, link, bt_session, bt_rssi>>
  /\ UNCHANGED <<done_addrs, query, reading, rssi_queued, pairings, sessions>>

\* Mutant: the hold timer finds nothing to do.
HoldTimer_idle == FALSE /\ UNCHANGED btVars

\* boot_timer_handler() in BOOT_HOLD.
HoldTimer ==
  /\ boot_state = "HOLD" /\ chan = "open"
  /\ chan' = "closing"
  /\ UNCHANGED <<bootVars, done_addrs, query, link, bt_session, rssiVars,
                 pairings, sessions>>

\* RFCOMM_EVENT_CHANNEL_CLOSED: ours, or the phone's.
ChannelClosed ==
  /\ chan' = "none" /\ boot_reset(TRUE)
  /\ UNCHANGED <<done_addrs, query, reading, rssi_queued, pairings, sessions>>

ClosedByUs == chan = "closing" /\ ChannelClosed
ClosedByPhone == chan = "open" /\ ChannelClosed

-----------------------------------------------------------------------------
(* The phone dials in, and leaves. *)

gw_on_rfcomm_opened(p) ==
  /\ ~get_bt_connected /\ sessions < MaxSessions
  /\ sessions' = sessions + 1
  /\ bt_session' = [id |-> sessions + 1, phone |-> p]
  /\ link' = [link EXCEPT ![p] = "phone"]
  /\ UNCHANGED <<bootVars, done_addrs, query, chan, rssiVars, pairings>>

PhoneLeaves(p) ==
  /\ link[p] # "none" /\ LinkDown(p)
  /\ UNCHANGED <<bootVars, done_addrs, query, chan, reading, rssi_queued,
                 pairings, sessions>>

BtNext ==
  \/ \E p \in Phones : gw_on_rfcomm_opened(p) \/ PhoneLeaves(p)
  \/ \E p \in Phones, status \in {0, 1} : PairingComplete(p, status)
  \/ \E status \in {0, 1} : QueryComplete(status) \/ ChannelOpened(status)
  \/ StartTimer \/ ServiceFound \/ HoldTimer \/ ClosedByUs \/ ClosedByPhone
  \/ RssiPoll \/ rssi_poll_cb \/ \E h \in reading : RssiMeasurement(h)

(* The run loop's timers fire, and BTstack answers what it was asked. *)
BtFairness ==
  /\ WF_btVars(StartTimer) /\ WF_btVars(HoldTimer) /\ WF_btVars(ClosedByUs)
  /\ WF_btVars(\E status \in {0, 1} : QueryComplete(status))
  /\ WF_btVars(\E status \in {0, 1} : ChannelOpened(status))

-----------------------------------------------------------------------------
(* bt_bootstrap.c:77-81: "every path that may have paged the phone (SDP query
   or RFCOMM connect) must drop the baseband link on the way out". *)
NoLinkLeftBehind ==
  boot_state = "IDLE" => \A p \in Phones : link[p] # "bridge"

(* gateway.c:266-272: the RSSI shown was measured on the connection of the
   session that is open now, however late the answer came. *)
RssiOfThisSession == bt_rssi \in {0, bt_session.id}

(* bt_bootstrap.c:116-148, 178-238, 249-283: whatever the phone answers or
   fails to answer, a bootstrap ends. *)
BootstrapEnds == boot_state # "IDLE" ~> boot_state = "IDLE"

(* bt_bootstrap.c:80-82: "Pass false only when the ACL belongs to someone else
   (the phone's own live session)": a bootstrap that ends leaves the phone's
   session alone. *)
OwnSessionKept ==
  [][boot_state # "IDLE" /\ boot_state' = "IDLE" => bt_session' = bt_session]_btVars
=============================================================================
