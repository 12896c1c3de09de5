------------------------------- MODULE PppData -------------------------------
(***************************************************************************)
(* The bytes of a session, src/main/ppp_link.c: the answers to the phone's *)
(* dial-up script before PPP starts, and PPP's output on its way from the  *)
(* tcpip task through ppp_tx_stream and the tx_cb_reg trampoline to        *)
(* rfcomm_send() in the BTstack task.                                      *)
(*                                                                         *)
(* Who has the link, and whether there is a pcb, is LinkService, which     *)
(* PppLink implements: session_active and active_cid are its owner, a pcb  *)
(* exists when a service is offered.                                       *)
(***************************************************************************)
EXTENDS Naturals, Sequences

CONSTANTS
  Owners, Nobody,
  StreamSize,    \* capacity of ppp_tx_stream, in units of data
  FrameSize,     \* longest PPP frame
  ChunkSize,     \* what one rfcomm_send() takes
  MaxSessions    \* bound: sessions of a behaviour

ASSUME PppDataAssumption ==
  /\ Nobody \notin Owners
  /\ {StreamSize, FrameSize, ChunkSize, MaxSessions} \subseteq Nat \ {0}

VARIABLES
  owner, service,     \* LinkService
  sess,               \* history: number of the current session
  open,               \* external: the owner's RFCOMM channel is open
  phone,              \* external: what the phone does on the open channel
  bt_pc,              \* the BTstack task: in its run loop, or inside the close
  ppp_frame_seen,
  pre_ppp_reply,      \* session the owed answer belongs to, 0 for NULL
  ppp_tx_stream,      \* units of output, each the session it was made in
  tx_notify_pending,
  tx_queued,          \* external: tx_cb_reg is in the run loop's list
  can_send,           \* external: a CAN_SEND_NOW event is requested
  out_pc,             \* where the tcpip task is in ppp_output_cb()
  out_sess,           \* history: the session that output was made in
  wire,               \* history: sessions of the last thing sent
  turn_taken          \* history: an answer used the turn of waiting output,
                      \* and no frame has been written since

linkVars   == <<owner, service, sess, open>>
scriptVars == <<ppp_frame_seen, pre_ppp_reply>>
txVars     == <<ppp_tx_stream, tx_notify_pending, tx_queued, out_pc, out_sess>>
vars == <<linkVars, phone, bt_pc, scriptVars, txVars, can_send, wire, turn_taken>>

Link == INSTANCE LinkService

session_active == owner # Nobody
Smaller(a, b)  == IF a < b THEN a ELSE b

Init ==
  /\ Link!Init /\ sess = 0 /\ open = FALSE
  /\ phone = "script" /\ bt_pc = "loop"
  /\ ppp_frame_seen = FALSE /\ pre_ppp_reply = 0
  /\ ppp_tx_stream = <<>> /\ tx_notify_pending = FALSE /\ tx_queued = FALSE
  /\ can_send = FALSE /\ out_pc = "idle" /\ out_sess = 0
  /\ wire = [by |-> {}, on |-> 0] /\ turn_taken = FALSE

-----------------------------------------------------------------------------
(* The session, BTstack task                                               *)

Claim(c) ==
  /\ bt_pc = "loop" /\ sess < MaxSessions
  /\ Link!Claim(c)
  /\ sess' = sess + 1
  /\ UNCHANGED <<open, phone, bt_pc, scriptVars, txVars, can_send, wire,
                 turn_taken>>

(* Declined, given up or failed before the channel opened.                 *)
GiveUp ==
  /\ bt_pc = "loop" /\ ~open
  /\ Link!Release
  /\ can_send' = FALSE
  /\ UNCHANGED <<sess, open, phone, bt_pc, scriptVars, txVars, wire,
                 turn_taken>>

ResetData ==
  /\ ppp_tx_stream' = <<>> /\ tx_notify_pending' = FALSE
  /\ ppp_frame_seen' = FALSE /\ pre_ppp_reply' = 0
  /\ turn_taken' = FALSE
  /\ UNCHANGED <<tx_queued, out_pc, out_sess>>

(* CHANNEL_OPENED: PPP listens, or the start fails and the channel goes.   *)
Opened ==
  /\ bt_pc = "loop" /\ session_active /\ ~open
  /\ ResetData
  /\ \/ Link!Offer /\ open' = TRUE /\ UNCHANGED can_send
     \/ Link!Release /\ can_send' = FALSE /\ UNCHANGED open
  /\ phone' = "script"
  /\ UNCHANGED <<sess, bt_pc, wire>>

(* CHANNEL_CLOSED: the claim goes first, then pppapi_close() waits until   *)
(* the tcpip task is done with any output.                                 *)
Closed ==
  /\ bt_pc = "loop" /\ open
  /\ Link!Release
  /\ open' = FALSE /\ can_send' = FALSE /\ bt_pc' = "close"
  /\ UNCHANGED <<sess, phone, scriptVars, txVars, wire, turn_taken>>

CloseDown ==
  /\ bt_pc = "close" /\ out_pc = "idle"
  /\ Link!Down
  /\ UNCHANGED <<sess, open, phone, bt_pc, scriptVars, txVars, can_send, wire,
                 turn_taken>>

\* Mutant: the close does not wait for the tcpip task.
CloseReturns_async ==
  /\ bt_pc = "close"
  /\ Link!Withdraw
  /\ bt_pc' = "loop"
  /\ UNCHANGED <<sess, open, phone, scriptVars, txVars, can_send, wire,
                 turn_taken>>

CloseReturns ==
  /\ bt_pc = "close" /\ out_pc = "idle"
  /\ Link!Withdraw
  /\ bt_pc' = "loop"
  /\ UNCHANGED <<sess, open, phone, scriptVars, txVars, can_send, wire,
                 turn_taken>>

(* PPP comes up, and goes down again when the phone ends it or the         *)
(* negotiation fails: the pcb listens again on the same channel.           *)
PppUp ==
  /\ Link!Up
  /\ phone = "ppp"
  /\ UNCHANGED <<sess, open, phone, bt_pc, scriptVars, txVars, can_send, wire,
                 turn_taken>>

PppDown ==
  /\ \/ Link!Down
     \/ service = "ready" /\ phone = "ppp" /\ UNCHANGED <<owner, service>>
  /\ open /\ out_pc = "idle"
  /\ phone' = "script"
  /\ UNCHANGED <<sess, open, bt_pc, scriptVars, txVars, can_send, wire,
                 turn_taken>>

-----------------------------------------------------------------------------
(* Received data, pre_ppp_handshake()                                      *)

Received ==
  /\ bt_pc = "loop" /\ open /\ session_active /\ service # "none"
  /\ UNCHANGED <<linkVars, bt_pc, txVars, wire, turn_taken>>

(* The script's CLIENT, AT or ATD.                                         *)
Question ==
  /\ Received
  /\ phone = "script" /\ phone' = "asked"
  /\ IF ppp_frame_seen
     THEN UNCHANGED <<scriptVars, can_send>>
     ELSE /\ pre_ppp_reply' = sess /\ can_send' = TRUE
          /\ UNCHANGED ppp_frame_seen

(* Any other text asks for a turn again when an answer is owed.            *)
Text ==
  /\ Received
  /\ phone # "ppp" /\ ~ppp_frame_seen
  /\ can_send' = (can_send \/ pre_ppp_reply # 0)
  /\ UNCHANGED <<phone, scriptVars>>

(* A packet with an HDLC flag: the phone starts PPP, answered or not.      *)
Flag ==
  /\ Received
  /\ phone' = "ppp"
  /\ ppp_frame_seen' = TRUE
  /\ UNCHANGED <<pre_ppp_reply, can_send>>

-----------------------------------------------------------------------------
(* ppp_output_cb(), tcpip task.  PPP is silent until the phone's first     *)
(* frame.                                                                  *)

OutputStep(from) ==
  /\ out_pc = from
  /\ UNCHANGED <<linkVars, phone, bt_pc, scriptVars, can_send, wire>>

(* The claim is read without the lock.                                     *)
OutputCheck ==
  /\ OutputStep("idle")
  /\ service # "none" /\ ppp_frame_seen
  /\ session_active
  /\ out_pc' = "write" /\ out_sess' = sess
  /\ UNCHANGED <<ppp_tx_stream, tx_notify_pending, tx_queued, turn_taken>>

\* Mutant: the whole frame is written whatever room there is.
Fits_unbounded(n) == n

(* xStreamBufferSend() takes what fits; the rest of the frame is dropped.  *)
Fits(n) == Smaller(n, StreamSize - Len(ppp_tx_stream))

OutputWrite ==
  /\ OutputStep("write")
  /\ \E n \in 1..FrameSize :
       ppp_tx_stream' = ppp_tx_stream \o [i \in 1..Fits(n) |-> out_sess]
  /\ out_pc' = "notify" /\ turn_taken' = FALSE
  /\ UNCHANGED <<out_sess, tx_notify_pending, tx_queued>>

OutputNotify ==
  /\ OutputStep("notify")
  /\ tx_notify_pending' = TRUE
  /\ out_pc' = IF tx_notify_pending THEN "idle" ELSE "enqueue"
  /\ UNCHANGED <<ppp_tx_stream, tx_queued, out_sess, turn_taken>>

(* btstack_run_loop_execute_on_main_thread()                               *)
OutputEnqueue ==
  /\ OutputStep("enqueue")
  /\ tx_queued' = TRUE
  /\ out_pc' = "idle"
  /\ UNCHANGED <<ppp_tx_stream, out_sess, tx_notify_pending, turn_taken>>

-----------------------------------------------------------------------------
(* Sending, BTstack task                                                   *)

tx_notify_cb ==
  /\ bt_pc = "loop" /\ tx_queued
  /\ tx_queued' = FALSE /\ tx_notify_pending' = FALSE
  /\ can_send' = (can_send \/ session_active)
  /\ turn_taken' = (turn_taken /\ ~session_active)
  /\ UNCHANGED <<linkVars, phone, bt_pc, scriptVars, ppp_tx_stream, out_pc,
                 out_sess, wire>>

(* RFCOMM_EVENT_CAN_SEND_NOW: the phone has given credits.                 *)
Turn ==
  /\ bt_pc = "loop" /\ open /\ session_active /\ can_send
  /\ UNCHANGED <<linkVars, bt_pc, ppp_frame_seen, tx_notify_pending, tx_queued,
                 out_pc, out_sess>>

\* Mutant: an answer that could not be sent waits for no other turn.
AnswerFails_unasked ==
  /\ Turn /\ pre_ppp_reply # 0
  /\ can_send' = FALSE
  /\ UNCHANGED <<phone, pre_ppp_reply, ppp_tx_stream, wire, turn_taken>>

AnswerFails ==
  /\ Turn /\ pre_ppp_reply # 0
  /\ can_send' = TRUE
  /\ UNCHANGED <<phone, pre_ppp_reply, ppp_tx_stream, wire, turn_taken>>

(* The answer takes the turn; output that waits for one is left waiting.   *)
Answer ==
  /\ Turn /\ pre_ppp_reply # 0
  /\ wire' = [by |-> {pre_ppp_reply}, on |-> sess]
  /\ pre_ppp_reply' = 0
  /\ phone' = IF phone = "asked" THEN "script" ELSE phone
  /\ can_send' = FALSE
  /\ turn_taken' = (ppp_tx_stream # <<>>)
  /\ UNCHANGED ppp_tx_stream

\* Mutant: the rest of the stream waits for PPP's next frame.
SendChunk_once ==
  /\ Turn /\ pre_ppp_reply = 0
  /\ LET n == Smaller(ChunkSize, Len(ppp_tx_stream)) IN
     /\ ppp_tx_stream' = SubSeq(ppp_tx_stream, n + 1, Len(ppp_tx_stream))
     /\ wire' = [by |-> {ppp_tx_stream[i] : i \in 1..n}, on |-> sess]
  /\ can_send' = FALSE
  /\ turn_taken' = FALSE
  /\ UNCHANGED <<phone, pre_ppp_reply>>

(* A chunk leaves the stream, sent or, if rfcomm_send() fails, lost.       *)
SendChunk ==
  /\ Turn /\ pre_ppp_reply = 0
  /\ LET n == Smaller(ChunkSize, Len(ppp_tx_stream)) IN
     /\ ppp_tx_stream' = SubSeq(ppp_tx_stream, n + 1, Len(ppp_tx_stream))
     /\ \/ wire' = [by |-> {ppp_tx_stream[i] : i \in 1..n}, on |-> sess]
        \/ UNCHANGED wire
  /\ can_send' = (ppp_tx_stream' # <<>>)
  /\ turn_taken' = FALSE
  /\ UNCHANGED <<phone, pre_ppp_reply>>

-----------------------------------------------------------------------------
Session == \/ \E c \in Owners : Claim(c)
           \/ GiveUp \/ Opened \/ Closed
Close   == CloseDown \/ CloseReturns
Output  == OutputWrite \/ OutputNotify \/ OutputEnqueue
Sending == tx_notify_cb \/ AnswerFails \/ Answer \/ SendChunk

Next == \/ Session \/ Close \/ PppUp \/ PppDown
        \/ Question \/ Text \/ Flag
        \/ OutputCheck \/ Output \/ Sending

Spec == Init /\ [][Next]_vars

(* Both tasks run; a phone that wants data gives credits, and rfcomm_send  *)
(* does not fail for ever.                                                 *)
Fairness == /\ WF_vars(Close) /\ WF_vars(Output)
            /\ WF_vars(tx_notify_cb) /\ WF_vars(SendChunk) /\ WF_vars(Answer)

FairSpec == Spec /\ Fairness

-----------------------------------------------------------------------------
(* Properties                                                              *)

\* The variables have the values their declarations allow; the stream holds
\* at most PPP_TX_BUF_SIZE.
TypeOK ==
  /\ owner \in Owners \cup {Nobody} /\ service \in {"none", "ready", "up"}
  /\ sess \in 0..MaxSessions /\ open \in BOOLEAN
  /\ phone \in {"script", "asked", "ppp"} /\ bt_pc \in {"loop", "close"}
  /\ ppp_frame_seen \in BOOLEAN /\ pre_ppp_reply \in 0..MaxSessions
  /\ ppp_tx_stream \in Seq(1..MaxSessions) /\ Len(ppp_tx_stream) <= StreamSize
  /\ tx_notify_pending \in BOOLEAN /\ tx_queued \in BOOLEAN
  /\ can_send \in BOOLEAN /\ out_pc \in {"idle", "write", "notify", "enqueue"}
  /\ wire \in [by : SUBSET (1..MaxSessions), on : 0..MaxSessions]
  /\ out_sess \in 0..MaxSessions
  /\ turn_taken \in BOOLEAN

(* Nothing of one session reaches the phone of the next: neither output    *)
(* written while the session ended nor an answer it never got.  (The       *)
(* unlocked read of session_active in ppp_output_cb against the synchronous *)
(* close, and the resets at CHANNEL_OPENED.)                               *)
SentInOwnSession == wire.by \subseteq {wire.on}

(* Output in the stream of an open channel has a turn to come: a           *)
(* CAN_SEND_NOW requested, a notification queued, or one the tcpip task is *)
(* about to queue.  The exception is the code's: the handler that sends an *)
(* answer asks for no other turn (ppp_link.c:582-591), and output that was *)
(* waiting for this one then waits until PPP's next frame.  (No wakeup is  *)
(* lost between tx_notify_pending, tx_cb_reg and the re-request after a    *)
(* chunk.)                                                                 *)
WakeupChain ==
  open /\ ppp_tx_stream # <<>> =>
    can_send \/ tx_queued \/ out_pc \in {"notify", "enqueue"} \/ turn_taken

(* A script that is asked before the first PPP frame gets its answer,      *)
(* unless the phone goes or starts PPP without it.  (pre_ppp_reply over    *)
(* failed sends and turns spent otherwise.)                                *)
ScriptAnswered ==
  phone = "asked" /\ ~ppp_frame_seen ~> phone # "asked" \/ ~open

(* "Re-arm so a redial on the same channel works" in ppp_status_cb: a      *)
(* phone that dials again after ending PPP gets the answers to its script. *)
RedialAnswered == phone = "asked" ~> phone # "asked" \/ ~open
=============================================================================
