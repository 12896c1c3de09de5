--------------------------- MODULE PppDataProofs ---------------------------
(***************************************************************************)
(* Proofs about PppData, for any stream, frame and chunk sizes and any     *)
(* number of sessions.                                                     *)
(***************************************************************************)
EXTENDS PppData, SequenceTheorems, TLAPS

\* A pending notification is in the run loop's list or about to be put there.
NotifyComes == tx_notify_pending => tx_queued \/ out_pc = "enqueue"

\* An open channel is the owner's.
OpenIsOwned == open => session_active

WakeInv == OpenIsOwned /\ NotifyComes /\ WakeupChain

LEMMA WakeSession == ASSUME WakeInv, Session \/ Close PROVE WakeInv'
<1> USE DEF WakeInv, OpenIsOwned, NotifyComes, WakeupChain, session_active,
            linkVars, scriptVars, txVars
<1>1. ASSUME NEW c \in Owners, Claim(c) PROVE WakeInv'
  BY <1>1, PppDataAssumption DEF Claim, Link!Claim
<1>2. CASE GiveUp
  BY <1>2 DEF GiveUp, Link!Release
<1>3. CASE Opened
  BY <1>3 DEF Opened, ResetData, Link!Offer, Link!Release
<1>4. CASE Closed
  BY <1>4 DEF Closed, Link!Release
<1>5. CASE CloseDown
  BY <1>5 DEF CloseDown, Link!Down
<1>6. CASE CloseReturns
  BY <1>6 DEF CloseReturns, Link!Withdraw
<1> QED BY <1>1, <1>2, <1>3, <1>4, <1>5, <1>6 DEF Session, Close

LEMMA WakePhone ==
  ASSUME WakeInv, PppUp \/ PppDown \/ Question \/ Text \/ Flag PROVE WakeInv'
<1> USE DEF WakeInv, OpenIsOwned, NotifyComes, WakeupChain, session_active,
            linkVars, scriptVars, txVars
<1>1. CASE PppUp \/ PppDown
  BY <1>1 DEF PppUp, PppDown, Link!Up, Link!Down
<1>2. CASE Question \/ Flag
  BY <1>2 DEF Question, Flag, Received
<1>3. CASE Text
  BY <1>3 DEF Text, Received
<1> QED BY <1>1, <1>2, <1>3

LEMMA WakeOutput == ASSUME WakeInv, OutputCheck \/ Output PROVE WakeInv'
<1> USE DEF WakeInv, OpenIsOwned, NotifyComes, WakeupChain, session_active,
            linkVars, scriptVars
<1>1. CASE OutputCheck
  BY <1>1 DEF OutputCheck, OutputStep
<1>2. CASE OutputWrite
  BY <1>2 DEF OutputWrite, OutputStep
<1>3. CASE OutputNotify
  BY <1>3 DEF OutputNotify, OutputStep
<1>4. CASE OutputEnqueue
  BY <1>4 DEF OutputEnqueue, OutputStep
<1> QED BY <1>1, <1>2, <1>3, <1>4 DEF Output

LEMMA WakeSending == ASSUME WakeInv, Sending PROVE WakeInv'
<1> USE DEF WakeInv, OpenIsOwned, NotifyComes, WakeupChain, session_active,
            linkVars, scriptVars
<1>1. CASE tx_notify_cb
  BY <1>1 DEF tx_notify_cb
<1>2. CASE AnswerFails
  BY <1>2 DEF AnswerFails, Turn
<1>3. CASE Answer
  BY <1>3 DEF Answer, Turn
<1>4. CASE SendChunk
  BY <1>4 DEF SendChunk, Turn
<1> QED BY <1>1, <1>2, <1>3, <1>4 DEF Sending

LEMMA WakeStep == WakeInv /\ [Next]_vars => WakeInv'
<1> SUFFICES ASSUME WakeInv, [Next]_vars PROVE WakeInv'
  OBVIOUS
<1>1. CASE UNCHANGED vars
  BY <1>1 DEF vars, linkVars, scriptVars, txVars, WakeInv, OpenIsOwned,
              NotifyComes, WakeupChain, session_active
<1>2. CASE Next
  BY <1>2, WakeSession, WakePhone, WakeOutput, WakeSending DEF Next
<1> QED BY <1>1, <1>2

(* No wakeup is lost between the tcpip task's output and the BTstack       *)
(* task's sending: output in the stream of an open channel has a turn to   *)
(* come (ppp_output_cb, tx_notify_cb and the CAN_SEND_NOW handler), unless *)
(* an answer to the dial-up script was sent in the turn it waited for and  *)
(* PPP has written no frame since: that handler asks for no other turn     *)
(* (ppp_link.c:582-591).                                                   *)
THEOREM NoWakeupLost == Spec => []WakeupChain
<1>1. Init => WakeInv
  BY DEF Init, Link!Init, WakeInv, OpenIsOwned, NotifyComes, WakeupChain
<1>2. WakeInv => WakeupChain
  BY DEF WakeInv
<1> QED BY <1>1, <1>2, WakeStep, PTL DEF Spec

-----------------------------------------------------------------------------
(* What is sent belongs to the session it is sent in.  Inductive with the  *)
(* session every unit of the stream, the owed answer and the output under  *)
(* way belong to, and with how the channel, the claim and the pcb go       *)
(* together: a pcb outlives its claim until the close has waited for the   *)
(* tcpip task, so no output spans two claims.                              *)
ServedIsOpen == session_active => (open <=> service # "none")
Numbered     == session_active \/ service # "none" => sess \in 1..MaxSessions

OutputOfSession == out_pc # "idle" => service # "none" /\ out_sess = sess
StreamOfSession == open => \A i \in 1..Len(ppp_tx_stream) : ppp_tx_stream[i] = sess
AnswerOfSession == open => pre_ppp_reply \in {0, sess}

DataInv == /\ TypeOK
           /\ OpenIsOwned /\ ServedIsOpen /\ Numbered
           /\ OutputOfSession /\ StreamOfSession /\ AnswerOfSession
           /\ SentInOwnSession

LEMMA StreamShrinks ==
  ASSUME NEW S, NEW s \in Seq(S), NEW n \in 0..Len(s)
  PROVE  LET t == SubSeq(s, n + 1, Len(s))
         IN  /\ t \in Seq(S) /\ Len(t) = Len(s) - n /\ Len(s) \in Nat
             /\ \A i \in 1..Len(t) : t[i] = s[n + i]
<1>1. Len(s) \in Nat /\ \A i \in 1..Len(s) : s[i] \in S
  BY LenProperties, ElementOfSeq
<1>2. n \in Nat /\ n + 1 \in Int /\ n <= Len(s)
  BY <1>1
<1> QED BY <1>1, <1>2, SubSeqProperties

\* TypeOK in parts: a leaf about flags and one about numbers suit different provers.
FlagType ==
  /\ open \in BOOLEAN /\ ppp_frame_seen \in BOOLEAN /\ tx_notify_pending \in BOOLEAN
  /\ tx_queued \in BOOLEAN /\ can_send \in BOOLEAN /\ turn_taken \in BOOLEAN
StreamType ==
  ppp_tx_stream \in Seq(1..MaxSessions) /\ Len(ppp_tx_stream) <= StreamSize
WireType == wire \in [by : SUBSET (1..MaxSessions), on : 0..MaxSessions]
PlaceType ==
  /\ owner \in Owners \cup {Nobody} /\ service \in {"none", "ready", "up"}
  /\ phone \in {"script", "asked", "ppp"} /\ bt_pc \in {"loop", "close"}
  /\ out_pc \in {"idle", "write", "notify", "enqueue"}
  /\ sess \in 0..MaxSessions /\ pre_ppp_reply \in 0..MaxSessions
  /\ out_sess \in 0..MaxSessions

\* The parts of DataInv that concern who has the link, and whose bytes are where.
LinkParts == OpenIsOwned /\ ServedIsOpen /\ Numbered
DataParts == OutputOfSession /\ StreamOfSession /\ AnswerOfSession

LEMMA DataSession == ASSUME DataInv, Session \/ Close PROVE DataInv'
<1>0. /\ TypeOK /\ LinkParts /\ DataParts /\ SentInOwnSession
  BY DEF DataInv, LinkParts, DataParts
<1> USE <1>0, PppDataAssumption
        DEF TypeOK, LinkParts, DataParts, OpenIsOwned, ServedIsOpen, Numbered,
            OutputOfSession, StreamOfSession, AnswerOfSession, SentInOwnSession,
            DataInv, session_active, linkVars, scriptVars, txVars
<1>1. ASSUME NEW c \in Owners, Claim(c) PROVE DataInv'
  BY <1>1 DEF Claim, Link!Claim
<1>2. CASE GiveUp
  BY <1>2 DEF GiveUp, Link!Release
<1>3. CASE Opened
  <2>1. /\ ppp_tx_stream' = <<>> /\ Len(ppp_tx_stream') = 0
        /\ ppp_tx_stream' \in Seq(1..MaxSessions)
    BY <1>3 DEF Opened, ResetData
  <2>2. out_pc = "idle"
    BY <1>3 DEF Opened
  <2>3. TypeOK'
    <3>1. FlagType'
      BY <1>3 DEF Opened, ResetData, FlagType
    <3>2. StreamType'
      BY <2>1, PppDataAssumption DEF StreamType
    <3>3. WireType' /\ PlaceType'
      BY <1>3 DEF Opened, ResetData, Link!Offer, Link!Release, WireType, PlaceType
    <3> QED BY <3>1, <3>2, <3>3 DEF TypeOK, FlagType, StreamType, WireType, PlaceType
  <2>4. LinkParts'
    BY <1>3 DEF Opened, Link!Offer, Link!Release
  <2>5. DataParts' /\ SentInOwnSession'
    BY <1>3, <2>1, <2>2 DEF Opened, ResetData
  <2> QED BY <2>3, <2>4, <2>5
<1>4. CASE Closed
  BY <1>4 DEF Closed, Link!Release
<1>5. CASE CloseDown
  BY <1>5 DEF CloseDown, Link!Down
<1>6. CASE CloseReturns
  BY <1>6 DEF CloseReturns, Link!Withdraw
<1> QED BY <1>1, <1>2, <1>3, <1>4, <1>5, <1>6 DEF Session, Close

LEMMA DataPhone ==
  ASSUME DataInv, PppUp \/ PppDown \/ Question \/ Text \/ Flag PROVE DataInv'
<1>0. /\ TypeOK /\ LinkParts /\ DataParts /\ SentInOwnSession
  BY DEF DataInv, LinkParts, DataParts
<1> USE <1>0, PppDataAssumption
        DEF TypeOK, LinkParts, DataParts, OpenIsOwned, ServedIsOpen, Numbered,
            OutputOfSession, StreamOfSession, AnswerOfSession, SentInOwnSession,
            DataInv, session_active, linkVars, scriptVars, txVars
<1>1. CASE PppUp
  BY <1>1 DEF PppUp, Link!Up
<1>2. CASE PppDown
  BY <1>2 DEF PppDown, Link!Down
<1>3. CASE Question \/ Flag
  BY <1>3 DEF Question, Flag, Received
<1>4. CASE Text
  BY <1>4 DEF Text, Received
<1> QED BY <1>1, <1>2, <1>3, <1>4

LEMMA DataWrite == ASSUME DataInv, OutputWrite PROVE DataInv'
<1>1. PICK n \in 1..FrameSize :
        ppp_tx_stream' = ppp_tx_stream \o [i \in 1..Fits(n) |-> out_sess]
  BY DEF OutputWrite
<1>2. /\ out_pc = "write" /\ out_pc' = "notify"
      /\ UNCHANGED <<owner, service, sess, open, phone, bt_pc, ppp_frame_seen,
                     pre_ppp_reply, tx_notify_pending, tx_queued, can_send, out_sess,
                     wire>>
      /\ turn_taken' = FALSE
  BY DEF OutputWrite, OutputStep, linkVars, scriptVars
<1>3. /\ out_sess = sess /\ out_sess \in 1..MaxSessions
      /\ ppp_tx_stream \in Seq(1..MaxSessions) /\ Len(ppp_tx_stream) <= StreamSize
  BY <1>2 DEF DataInv, OutputOfSession, Numbered, TypeOK
<1>4. /\ Fits(n) \in Nat /\ Len(ppp_tx_stream) \in Nat
      /\ Len(ppp_tx_stream) + Fits(n) <= StreamSize
  BY <1>3, PppDataAssumption DEF Fits, Smaller
<1>5. /\ ppp_tx_stream' \in Seq(1..MaxSessions)
      /\ Len(ppp_tx_stream') = Len(ppp_tx_stream) + Fits(n)
      /\ \A i \in 1..Len(ppp_tx_stream') :
           ppp_tx_stream'[i] = IF i <= Len(ppp_tx_stream) THEN ppp_tx_stream[i]
                               ELSE out_sess
  <2> DEFINE new == [i \in 1..Fits(n) |-> out_sess]
  <2>1. /\ \A S : out_sess \in S => new \in Seq(S)
        /\ Len(new) = Fits(n)
        /\ \A i \in 1..Fits(n) : new[i] = out_sess
    BY <1>4
  <2> HIDE DEF new
  <2>2. ppp_tx_stream' = ppp_tx_stream \o new
    BY <1>1 DEF new
  <2>3. new \in Seq(1..MaxSessions)
    BY <1>3, <2>1
  <2>4. /\ ppp_tx_stream' \in Seq(1..MaxSessions)
        /\ Len(ppp_tx_stream') = Len(ppp_tx_stream) + Fits(n)
        /\ \A i \in 1..(Len(ppp_tx_stream) + Fits(n)) :
             ppp_tx_stream'[i] = IF i <= Len(ppp_tx_stream) THEN ppp_tx_stream[i]
                                 ELSE new[i - Len(ppp_tx_stream)]
    BY <1>3, <2>1, <2>2, <2>3, ConcatProperties
  <2> QED BY <1>4, <2>1, <2>4
<1>6. StreamOfSession'
  BY <1>2, <1>3, <1>4, <1>5 DEF DataInv, StreamOfSession
<1>7. TypeOK'
  BY <1>2, <1>4, <1>5 DEF DataInv, TypeOK
<1> QED BY <1>2, <1>6, <1>7
        DEF DataInv, OpenIsOwned, ServedIsOpen, Numbered, OutputOfSession,
            AnswerOfSession, SentInOwnSession, session_active

LEMMA DataOutput == ASSUME DataInv, OutputCheck \/ Output PROVE DataInv'
<1> USE PppDataAssumption
        DEF TypeOK, OpenIsOwned, ServedIsOpen, Numbered, OutputOfSession,
            StreamOfSession, AnswerOfSession, SentInOwnSession, session_active,
            linkVars, scriptVars
<1>1. CASE OutputCheck
  BY <1>1 DEF OutputCheck, OutputStep, DataInv
<1>2. CASE OutputNotify
  BY <1>2 DEF OutputNotify, OutputStep, DataInv
<1>3. CASE OutputEnqueue
  BY <1>3 DEF OutputEnqueue, OutputStep, DataInv
<1> QED BY <1>1, <1>2, <1>3, DataWrite DEF Output

LEMMA DataChunk == ASSUME DataInv, SendChunk PROVE DataInv'
<1> DEFINE n == Smaller(ChunkSize, Len(ppp_tx_stream))
<1>1. /\ ppp_tx_stream' = SubSeq(ppp_tx_stream, n + 1, Len(ppp_tx_stream))
      /\ \/ wire' = [by |-> {ppp_tx_stream[i] : i \in 1..n}, on |-> sess]
         \/ UNCHANGED wire
      /\ open /\ can_send' \in BOOLEAN /\ turn_taken' = FALSE
      /\ UNCHANGED <<owner, service, sess, open, phone, bt_pc, ppp_frame_seen,
                     pre_ppp_reply, tx_notify_pending, tx_queued, out_pc, out_sess>>
  BY DEF SendChunk, Turn, linkVars
<1>2. /\ ppp_tx_stream \in Seq(1..MaxSessions) /\ Len(ppp_tx_stream) <= StreamSize
      /\ n \in 0..Len(ppp_tx_stream) /\ Len(ppp_tx_stream) \in Nat
  BY PppDataAssumption DEF DataInv, TypeOK, Smaller
<1>3. sess \in 1..MaxSessions /\ \A i \in 1..Len(ppp_tx_stream) : ppp_tx_stream[i] = sess
  BY <1>1 DEF DataInv, OpenIsOwned, Numbered, StreamOfSession
<1> HIDE DEF n
<1>4. /\ ppp_tx_stream' \in Seq(1..MaxSessions)
      /\ Len(ppp_tx_stream') = Len(ppp_tx_stream) - n
      /\ \A i \in 1..Len(ppp_tx_stream') : ppp_tx_stream'[i] = ppp_tx_stream[n + i]
  BY <1>1, <1>2, StreamShrinks
<1>5. \A i \in 1..Len(ppp_tx_stream') : ppp_tx_stream'[i] = sess
  BY <1>2, <1>3, <1>4
<1>6. /\ wire' \in [by : SUBSET (1..MaxSessions), on : 0..MaxSessions]
      /\ SentInOwnSession'
  <2>1. CASE UNCHANGED wire
    BY <2>1 DEF DataInv, TypeOK, SentInOwnSession
  <2>2. CASE wire' = [by |-> {ppp_tx_stream[i] : i \in 1..n}, on |-> sess]
    <3>1. {ppp_tx_stream[i] : i \in 1..n} \subseteq {sess}
      BY <1>2, <1>3
    <3> QED BY <2>2, <1>3, <3>1 DEF SentInOwnSession
  <2> QED BY <1>1, <2>1, <2>2
<1>7. StreamOfSession'
  BY <1>1, <1>5 DEF StreamOfSession
<1>8. TypeOK'
  <2>0. FlagType /\ PlaceType
    BY DEF DataInv, TypeOK, FlagType, StreamType, WireType, PlaceType
  <2>1. FlagType'
    BY <1>1, <2>0 DEF FlagType
  <2>2. StreamType'
    BY <1>2, <1>4, PppDataAssumption DEF StreamType
  <2>3. WireType' /\ PlaceType'
    BY <1>1, <1>6, <2>0 DEF WireType, PlaceType
  <2> QED BY <2>1, <2>2, <2>3 DEF TypeOK, FlagType, StreamType, WireType, PlaceType
<1> QED BY <1>1, <1>6, <1>7, <1>8
        DEF DataInv, OpenIsOwned, ServedIsOpen, Numbered, OutputOfSession,
            AnswerOfSession, session_active

LEMMA DataSending == ASSUME DataInv, Sending PROVE DataInv'
<1>1. CASE Answer
  <2>1. /\ wire' = [by |-> {pre_ppp_reply}, on |-> sess] /\ pre_ppp_reply' = 0
        /\ pre_ppp_reply # 0 /\ open /\ can_send' = FALSE
        /\ turn_taken' \in BOOLEAN /\ phone' \in {phone, "script"}
        /\ UNCHANGED <<owner, service, sess, open, bt_pc, ppp_frame_seen,
                       ppp_tx_stream, tx_notify_pending, tx_queued, out_pc, out_sess>>
    BY <1>1 DEF Answer, Turn, linkVars
  <2>2. pre_ppp_reply = sess /\ sess \in 1..MaxSessions
    BY <2>1 DEF DataInv, AnswerOfSession, OpenIsOwned, Numbered
  <2>3. SentInOwnSession' /\ wire' \in [by : SUBSET (1..MaxSessions), on : 0..MaxSessions]
    BY <2>1, <2>2 DEF SentInOwnSession
  <2>4. TypeOK'
    <3>0. FlagType /\ StreamType /\ PlaceType
      BY DEF DataInv, TypeOK, FlagType, StreamType, WireType, PlaceType
    <3>1. FlagType'
      BY <2>1, <3>0 DEF FlagType
    <3>2. StreamType' /\ WireType'
      BY <2>1, <2>3, <3>0 DEF StreamType, WireType
    <3>3. PlaceType'
      BY <2>1, <3>0, PppDataAssumption DEF PlaceType
    <3> QED BY <3>1, <3>2, <3>3 DEF TypeOK, FlagType, StreamType, WireType, PlaceType
  <2> QED BY <2>1, <2>3, <2>4
          DEF DataInv, OpenIsOwned, ServedIsOpen, Numbered, OutputOfSession,
              StreamOfSession, AnswerOfSession, session_active
<1> USE DEF TypeOK, OpenIsOwned, ServedIsOpen, Numbered, OutputOfSession,
            StreamOfSession, AnswerOfSession, SentInOwnSession, session_active,
            linkVars, scriptVars
<1>2. CASE tx_notify_cb
  BY <1>2 DEF tx_notify_cb, DataInv
<1>3. CASE AnswerFails
  BY <1>3 DEF AnswerFails, Turn, DataInv
<1> QED BY <1>1, <1>2, <1>3, DataChunk DEF Sending

LEMMA DataStep == DataInv /\ [Next]_vars => DataInv'
<1> SUFFICES ASSUME DataInv, [Next]_vars PROVE DataInv'
  OBVIOUS
<1>1. CASE UNCHANGED vars
  BY <1>1 DEF vars, linkVars, scriptVars, txVars, DataInv, TypeOK, OpenIsOwned,
              ServedIsOpen, Numbered, OutputOfSession, StreamOfSession,
              AnswerOfSession, SentInOwnSession, session_active
<1>2. CASE Next
  BY <1>2, DataSession, DataPhone, DataOutput, DataSending DEF Next
<1> QED BY <1>1, <1>2

LEMMA DataInvariant == Spec => []DataInv
<1>1. Init => DataInv
  <2> SUFFICES ASSUME Init PROVE DataInv
    OBVIOUS
  <2>1. FlagType /\ PlaceType
    <3>1. FlagType
      BY DEF Init, FlagType
    <3>2. PlaceType
      BY PppDataAssumption DEF Init, Link!Init, PlaceType
    <3> QED BY <3>1, <3>2
  <2>2. TypeOK
    <3>1. StreamType
      BY PppDataAssumption DEF Init, StreamType
    <3>2. WireType
      BY PppDataAssumption DEF Init, WireType
    <3> QED BY <2>1, <3>1, <3>2 DEF TypeOK, FlagType, StreamType, WireType, PlaceType
  <2>3. SentInOwnSession
    BY DEF Init, SentInOwnSession
  <2> QED BY <2>2, <2>3
          DEF Init, Link!Init, DataInv, OpenIsOwned, ServedIsOpen, Numbered,
              OutputOfSession, StreamOfSession, AnswerOfSession, session_active
<1> QED BY <1>1, DataStep, PTL DEF Spec

(* The variables keep their types, and ppp_tx_stream never holds more than *)
(* its capacity, however long a frame PPP hands over (ppp_output_cb).      *)
THEOREM DataTypeCorrect == Spec => []TypeOK
BY DataInvariant, PTL DEF DataInv

(* No byte of one session, output or answer, goes out on the channel of    *)
(* another: ppp_output_cb() may read session_active and be overtaken by    *)
(* the close of its session and the start of the next.                     *)
THEOREM SentToItsSession == Spec => []SentInOwnSession
BY DataInvariant, PTL DEF DataInv
=============================================================================
