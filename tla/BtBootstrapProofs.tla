-------------------------- MODULE BtBootstrapProofs --------------------------
(***************************************************************************)
(* Proofs about BtBootstrap, for any phones and any bounds; and about      *)
(* VhciRing, the transport below it, for any size of the ring and any      *)
(* lengths of packets.                                                     *)
(***************************************************************************)
EXTENDS BtBootstrap, VhciRing, SequenceTheorems, TLAPS

BtSpec == BtInit /\ [][BtNext]_btVars

(* A link the bridge brought up is that of the phone it is connecting to,  *)
(* in a state whose every way out drops it: not yet in WAIT_START, which   *)
(* Skip leaves without dropping anything.                                  *)
LinkInv ==
  /\ link \in [Phones -> {"none", "phone", "bridge"}]
  /\ \A p \in Phones :
       link[p] = "bridge" => /\ p = boot_addr
                             /\ boot_state \notin {"IDLE", "WAIT_START"}

LinkFrame == UNCHANGED <<bootVars, link>>

LEMMA LinkFrameStep == ASSUME LinkInv, LinkFrame PROVE LinkInv'
BY DEF LinkInv, LinkFrame, bootVars

(* Giving up with the link dropped, and going on with the phone paged.     *)
LEMMA ResetDrops == ASSUME LinkInv, boot_reset(TRUE) PROVE LinkInv'
BY DEF LinkInv, boot_reset, ResetState, LinkDown

LEMMA PagedKeeps ==
  ASSUME LinkInv, Paged, UNCHANGED boot_addr,
         boot_state' \notin {"IDLE", "WAIT_START"}
  PROVE  LinkInv'
BY DEF LinkInv, Paged

(* Skip: the timer finds the phone's own session and lets its link be.     *)
LEMMA SkipKeeps ==
  ASSUME LinkInv, boot_state = "WAIT_START", Skip PROVE LinkInv'
BY DEF LinkInv, Skip, boot_reset, ResetState

LEMMA LinkStartTimer == ASSUME LinkInv, StartTimer PROVE LinkInv'
<1>1. CASE get_bt_connected
  BY <1>1, SkipKeeps DEF StartTimer
<1>2. CASE ~get_bt_connected
  <2>1. PICK err \in BOOLEAN :
          Query(err) /\ (~err => boot_state' = "PROBE" /\ UNCHANGED target_class_idx)
    BY <1>2 DEF StartTimer
  <2>2. CASE err
    BY <2>1, <2>2, ResetDrops DEF Query
  <2>3. CASE ~err
    BY <2>1, <2>3, PagedKeeps DEF Query
  <2> QED BY <2>2, <2>3
<1> QED BY <1>1, <1>2

LEMMA LinkNextClass ==
  ASSUME LinkInv, NEW k, NextClass(k) PROVE LinkInv'
<1>1. PICK err \in BOOLEAN :
        Query(err) /\ (~err => boot_state' = "TARGET" /\ target_class_idx' = k)
  BY DEF NextClass
<1>2. CASE err
  BY <1>1, <1>2, ResetDrops DEF Query
<1>3. CASE ~err
  BY <1>1, <1>3, PagedKeeps DEF Query
<1> QED BY <1>2, <1>3

LEMMA LinkConnect ==
  ASSUME LinkInv, NEW err \in BOOLEAN, Connect(err) PROVE LinkInv'
<1>1. CASE err
  BY <1>1, ResetDrops DEF Connect
<1>2. CASE ~err
  BY <1>2, PagedKeeps DEF Connect
<1> QED BY <1>1, <1>2

(* SDP answers: drop, ask for the next class, or connect.                  *)
LEMMA LinkQueryComplete ==
  ASSUME LinkInv, NEW status, QueryComplete(status) PROVE LinkInv'
<1>1. CASE boot_reset(TRUE)
  BY <1>1, ResetDrops
<1>2. CASE NextClass(0)
  BY <1>2, LinkNextClass
<1>3. CASE NextClass(target_class_idx + 1)
  BY <1>3, LinkNextClass
<1>4. CASE \E err \in BOOLEAN : Connect(err)
  BY <1>4, LinkConnect
<1> QED BY <1>1, <1>2, <1>3, <1>4 DEF QueryComplete

LEMMA LinkChannel ==
  ASSUME LinkInv, NEW status, ChannelOpened(status) \/ ClosedByUs \/ ClosedByPhone
  PROVE  LinkInv'
<1>1. CASE ChannelOpened(status) /\ status # 0
  BY <1>1, ResetDrops DEF ChannelOpened
<1>2. CASE ChannelOpened(status) /\ status = 0
  BY <1>2 DEF ChannelOpened, LinkInv
<1>3. CASE ClosedByUs \/ ClosedByPhone
  BY <1>3, ResetDrops DEF ClosedByUs, ClosedByPhone, ChannelClosed
<1> QED BY <1>1, <1>2, <1>3

(* A pairing starts a bootstrap only where none is under way.              *)
LEMMA LinkPairing ==
  ASSUME LinkInv, NEW p \in Phones, NEW status, PairingComplete(p, status)
  PROVE  LinkInv'
<1>1. link' = [link EXCEPT ![p] = "phone"]
  BY DEF PairingComplete
<1>2. CASE UNCHANGED bootVars
  BY <1>1, <1>2 DEF LinkInv, bootVars
<1>3. CASE boot_state = "IDLE" /\ boot_state' = "WAIT_START"
  BY <1>1, <1>3 DEF LinkInv
<1> QED BY <1>2, <1>3 DEF PairingComplete, bt_bootstrap_on_pairing_complete

LEMMA LinkPhone ==
  ASSUME LinkInv, NEW p \in Phones, gw_on_rfcomm_opened(p) \/ PhoneLeaves(p)
  PROVE  LinkInv'
<1>1. CASE gw_on_rfcomm_opened(p)
  BY <1>1 DEF gw_on_rfcomm_opened, LinkInv, bootVars
<1>2. CASE PhoneLeaves(p)
  BY <1>2 DEF PhoneLeaves, LinkDown, LinkInv, bootVars
<1> QED BY <1>1, <1>2

LEMMA LinkStep == ASSUME LinkInv, [BtNext]_btVars PROVE LinkInv'
<1>1. CASE \E p \in Phones : gw_on_rfcomm_opened(p) \/ PhoneLeaves(p)
  BY <1>1, LinkPhone
<1>2. CASE \E p \in Phones, status \in {0, 1} : PairingComplete(p, status)
  BY <1>2, LinkPairing
<1>3. CASE \E status \in {0, 1} : QueryComplete(status)
  BY <1>3, LinkQueryComplete
<1>4. CASE (\E status \in {0, 1} : ChannelOpened(status)) \/ ClosedByUs \/ ClosedByPhone
  BY <1>4, LinkChannel
<1>5. CASE StartTimer
  BY <1>5, LinkStartTimer
<1>6. CASE ServiceFound
  BY <1>6 DEF ServiceFound, LinkInv
<1>7. CASE HoldTimer \/ RssiPoll \/ rssi_poll_cb \/ \E h \in reading : RssiMeasurement(h)
  BY <1>7, LinkFrameStep
     DEF HoldTimer, RssiPoll, rssi_poll_cb, RssiMeasurement, LinkFrame
<1>8. CASE UNCHANGED btVars
  BY <1>8, LinkFrameStep DEF btVars, LinkFrame
<1> QED BY <1>1, <1>2, <1>3, <1>4, <1>5, <1>6, <1>7, <1>8 DEF BtNext

(* bt_bootstrap.c:77-81: whatever the phone and BTstack answer, and in     *)
(* whatever order, an idle bridge holds no link that it brought up itself: *)
(* every way out of a bootstrap that may have paged the phone drops it.    *)
THEOREM LinkAlwaysDropped == BtSpec => []NoLinkLeftBehind
<1>1. BtInit => LinkInv
  BY DEF BtInit, LinkInv
<1>2. LinkInv /\ [BtNext]_btVars => LinkInv'
  BY LinkStep
<1>3. LinkInv => NoLinkLeftBehind
  BY DEF LinkInv, NoLinkLeftBehind
<1> QED BY <1>1, <1>2, <1>3, PTL DEF BtSpec

-----------------------------------------------------------------------------
(* The RSSI steps: only an answer of the open session is believed, and     *)
(* the end of a session forgets what was shown.                            *)
RssiFrame == UNCHANGED <<bt_session, bt_rssi>>

LEMMA RssiFrameStep == ASSUME RssiOfThisSession, RssiFrame PROVE RssiOfThisSession'
BY DEF RssiOfThisSession, RssiFrame

LEMMA RssiForgotten ==
  ASSUME RssiOfThisSession, NEW p, LinkDown(p) PROVE RssiOfThisSession'
<1>1. CASE gw_on_rfcomm_closed
  BY <1>1 DEF gw_on_rfcomm_closed, RssiOfThisSession
<1>2. CASE RssiFrame
  BY <1>2, RssiFrameStep
<1> QED BY <1>1, <1>2 DEF LinkDown, RssiFrame

LEMMA RssiReset ==
  ASSUME RssiOfThisSession, NEW drop_acl \in BOOLEAN, boot_reset(drop_acl)
  PROVE  RssiOfThisSession'
<1>1. CASE drop_acl
  BY <1>1, RssiForgotten DEF boot_reset
<1>2. CASE ~drop_acl
  BY <1>2, RssiFrameStep DEF boot_reset, RssiFrame
<1> QED BY <1>1, <1>2

LEMMA RssiQuery ==
  ASSUME RssiOfThisSession, NEW err \in BOOLEAN, Query(err)
  PROVE  RssiOfThisSession'
BY RssiReset, RssiFrameStep DEF Query, RssiFrame

LEMMA RssiStep ==
  ASSUME RssiOfThisSession, [BtNext]_btVars PROVE RssiOfThisSession'
<1>1. CASE \E p \in Phones : gw_on_rfcomm_opened(p)
  BY <1>1 DEF gw_on_rfcomm_opened, get_bt_connected, NoSession, rssiVars, RssiOfThisSession
<1>2. CASE \E p \in Phones : PhoneLeaves(p)
  BY <1>2, RssiForgotten DEF PhoneLeaves
<1>3. CASE \E p \in Phones, status \in {0, 1} : PairingComplete(p, status)
  BY <1>3, RssiFrameStep DEF PairingComplete, rssiVars, RssiFrame
<1>4. CASE \E status \in {0, 1} : QueryComplete(status)
  <2>1. CASE boot_reset(TRUE)
    BY <2>1, RssiReset
  <2>2. CASE NextClass(0) \/ NextClass(target_class_idx + 1)
    BY <2>2, RssiQuery DEF NextClass
  <2>3. CASE \E err \in BOOLEAN : Connect(err)
    BY <2>3, RssiReset, RssiFrameStep DEF Connect, RssiFrame
  <2> QED BY <1>4, <2>1, <2>2, <2>3 DEF QueryComplete
<1>5. CASE (\E status \in {0, 1} : ChannelOpened(status)) \/ ClosedByUs \/ ClosedByPhone
  BY <1>5, RssiReset, RssiFrameStep
     DEF ChannelOpened, ClosedByUs, ClosedByPhone, ChannelClosed, RssiFrame
<1>6. CASE StartTimer
  BY <1>6, RssiReset, RssiQuery DEF StartTimer, Skip
<1>7. CASE ServiceFound \/ HoldTimer \/ RssiPoll \/ rssi_poll_cb
  BY <1>7, RssiFrameStep
     DEF ServiceFound, HoldTimer, RssiPoll, rssi_poll_cb, rssiVars, RssiFrame
<1>8. CASE \E h \in reading : RssiMeasurement(h)
  BY <1>8 DEF RssiMeasurement, Measured, RssiOfThisSession
<1>9. CASE UNCHANGED btVars
  BY <1>9, RssiFrameStep DEF btVars, rssiVars, RssiFrame
<1> QED
  BY <1>1, <1>2, <1>3, <1>4, <1>5, <1>6, <1>7, <1>8, <1>9 DEF BtNext

(* gateway.c:266-272: an RSSI answer that comes after its session closed,  *)
(* and maybe after another one opened, is never shown as that one's.       *)
THEOREM RssiIsCurrent == BtSpec => []RssiOfThisSession
<1>1. BtInit => RssiOfThisSession
  BY DEF BtInit, RssiOfThisSession
<1>2. RssiOfThisSession /\ [BtNext]_btVars => RssiOfThisSession'
  BY RssiStep
<1> QED BY <1>1, <1>2, PTL DEF BtSpec

-----------------------------------------------------------------------------
(* The ring of the controller's packets.                                   *)
VhciSpec == VhciInit /\ [][VhciNext]_vhciVars

Cell == [tag : Lengths] \cup [of : Nat, byte : Nat \ {0}]
IsTag(x) == "tag" \in DOMAIN x

VhciTypes ==
  /\ hci_ringbuffer \in Seq(Cell) /\ Len(hci_ringbuffer) <= RingSize
  /\ main \in {"idle", "deliver", "pass up"} /\ framed \in BOOLEAN
  /\ packets \in Nat /\ kept \in Seq(0 .. packets - 1) /\ delivered \in Seq(Nat)
  /\ hci_receive_buffer \in Nat

(* Packets that have left the ring.                                        *)
Out == Len(delivered) + IF main = "pass up" THEN 1 ELSE 0

(* s[i] is the place behind which the frame of the i-th packet begins that *)
(* is still in the ring, the last one the place where the frames end.      *)
FrameAt(ring, k, a, b) ==
  /\ a + 3 <= b /\ b <= Len(ring)
  /\ ring[a + 1] = [tag |-> b - a - 2] /\ ring[a + 2] = [tag |-> b - a - 2]
  /\ \A j \in 1 .. b - a - 2 : ring[a + 2 + j] = [of |-> k, byte |-> j]

Frames(ring, s, out, ks) ==
  /\ s # << >> /\ s[1] = 0 /\ out + Len(s) - 1 <= Len(ks) /\ s[Len(s)] <= Len(ring)
  /\ \A i, j \in 1 .. Len(s) : i <= j => s[i] <= s[j]
  /\ \A i \in 1 .. Len(s) - 1 : FrameAt(ring, ks[out + i], s[i], s[i + 1])

(* Behind them the ring ends, or stands what will not be read as a packet: *)
(* a byte without a tag, or a tag without its packet.                      *)
Stray(ring, e, free) ==
  \/ ~IsTag(ring[e + 1])
  \/ Len(ring) - e >= 3 /\ IsTag(ring[e + 3])
  \/ /\ Len(ring) - e >= 3 /\ ring[e + 1].tag >= 2
     /\ Len(ring) - e >= 4 => IsTag(ring[e + 4]) \/ ring[e + 4].byte = 1
  \/ Len(ring) - e = 2 /\ (ring[e + 1].tag = 1 => free # 1)

Laid(ring, s, out, ks) ==
  /\ Frames(ring, s, out, ks)
  /\ IF s[Len(s)] = Len(ring) THEN out + Len(s) - 1 = Len(ks)
     ELSE Stray(ring, s[Len(s)], RingSize - Len(ring))

Passing ==
  /\ Out <= Len(kept)
  /\ \A i \in 1 .. Len(delivered) : delivered[i] = kept[i]
  /\ main = "pass up" => hci_receive_buffer = kept[Out]

RingLaid == \E s \in Seq(Nat) : Laid(hci_ringbuffer, s, Out, kept)

VhciInv == VhciTypes /\ (framed => Passing /\ RingLaid)

LEMMA Cells ==
  /\ Lengths \subseteq Nat \ {0} /\ RingSize \in Nat
  /\ \A x \in Cell : /\ IsTag(x) => x.tag \in Lengths /\ x.tag \in Nat /\ x.tag >= 1
                     /\ ~IsTag(x) => x \in [of : Nat, byte : Nat \ {0}]
  /\ \A n \in Lengths : [tag |-> n] \in Cell /\ IsTag([tag |-> n])
  /\ \A k \in Nat, j \in Nat \ {0} :
       [of |-> k, byte |-> j] \in Cell /\ ~IsTag([of |-> k, byte |-> j])
<1>1. Lengths \subseteq Nat \ {0} /\ RingSize \in Nat
  BY RingAssumption
<1>2. ASSUME NEW x \in [tag : Lengths]
      PROVE  IsTag(x) /\ x.tag \in Lengths /\ x.tag \in Nat /\ x.tag >= 1
  <2>1. DOMAIN x = {"tag"} /\ x.tag \in Lengths
    OBVIOUS
  <2>2. \A n \in Lengths : n \in Nat /\ n >= 1
    BY <1>1
  <2> QED BY <2>1, <2>2 DEF IsTag
<1>3. ASSUME NEW x \in [of : Nat, byte : Nat \ {0}] PROVE ~IsTag(x)
  BY DEF IsTag
<1>4. ASSUME NEW n \in Lengths PROVE [tag |-> n] \in [tag : Lengths]
  OBVIOUS
<1>5. ASSUME NEW k \in Nat, NEW j \in Nat \ {0}
      PROVE  [of |-> k, byte |-> j] \in [of : Nat, byte : Nat \ {0}]
  OBVIOUS
<1> QED BY <1>1, <1>2, <1>3, <1>4, <1>5 DEF Cell

(* What is left when the ring has been read up to a place.                 *)
LEMMA Cut ==
  ASSUME NEW S, NEW r \in Seq(S), NEW a \in 0 .. Len(r)
  PROVE  /\ SubSeq(r, a + 1, Len(r)) \in Seq(S)
         /\ Len(SubSeq(r, a + 1, Len(r))) = Len(r) - a
         /\ \A i \in 1 .. Len(r) - a : SubSeq(r, a + 1, Len(r))[i] = r[a + i]
<1> DEFINE l == Len(r)
           d == SubSeq(r, a + 1, l)
<1>1. l \in Nat /\ a \in Nat /\ a <= l /\ \A i \in 1 .. l : r[i] \in S
  OBVIOUS
<1> HIDE DEF l
<1>2. a + 1 \in Int /\ l \in Int /\ \A i \in a + 1 .. l : r[i] \in S
  BY <1>1
<1>3. /\ d \in Seq(S) /\ Len(d) = IF a + 1 <= l THEN l - (a + 1) + 1 ELSE 0
      /\ \A i \in 1 .. l - (a + 1) + 1 : d[i] = r[(a + 1) + i - 1]
  BY <1>2, SubSeqProperties
<1> HIDE DEF d
<1>4. l - (a + 1) + 1 = l - a /\ (~(a + 1 <= l) => l - a = 0)
  BY <1>1
<1>5. Len(d) = l - a
  BY <1>3, <1>4
<1>6. ASSUME NEW k \in 1 .. l - a PROVE d[k] = r[a + k]
  <2>1. (a + 1) + k - 1 = a + k
    BY <1>1
  <2> QED BY <1>3, <1>4, <2>1
<1> QED BY <1>3, <1>5, <1>6 DEF d, l

(* The frames stand in a ring that has only been written to.               *)
Extends(r, ring) == Len(r) >= Len(ring) /\ \A i \in 1 .. Len(ring) : r[i] = ring[i]

LEMMA FramesStand ==
  ASSUME NEW ring \in Seq(Cell), NEW r \in Seq(Cell), NEW s \in Seq(Nat), NEW out \in Nat,
         NEW ks \in Seq(Nat), NEW js \in Seq(Nat), Extends(r, ring), Extends(js, ks),
         Frames(ring, s, out, ks)
  PROVE  Frames(r, s, out, js)
<1>1. Len(s) \in Nat /\ Len(ring) \in Nat /\ Len(r) \in Nat /\ Len(ks) \in Nat /\ Len(js) \in Nat
      /\ \A i \in 1 .. Len(s) : s[i] \in Nat
  OBVIOUS
<1>2. Len(r) >= Len(ring) /\ Len(js) >= Len(ks)
  BY DEF Extends
<1>3. ASSUME NEW i \in 1 .. Len(s) - 1
      PROVE  FrameAt(r, js[out + i], s[i], s[i + 1])
  <2>1. FrameAt(ring, ks[out + i], s[i], s[i + 1])
    BY DEF Frames
  <2>2. s[i] \in Nat /\ s[i + 1] \in Nat
    BY <1>1
  <2>3. out + i \in 1 .. Len(ks)
    BY <1>1 DEF Frames
  <2>4. js[out + i] = ks[out + i]
    BY <2>3 DEF Extends
  <2> DEFINE a == s[i]
             b == s[i + 1]
  <2> HIDE DEF a, b
  <2>5. /\ a \in Nat /\ b \in Nat /\ a + 3 <= b /\ b <= Len(ring)
        /\ ring[a + 1] = [tag |-> b - a - 2] /\ ring[a + 2] = [tag |-> b - a - 2]
        /\ \A j \in 1 .. b - a - 2 : ring[a + 2 + j] = [of |-> ks[out + i], byte |-> j]
    BY <2>1, <2>2 DEF FrameAt, a, b
  <2>6. b <= Len(r)
    BY <1>1, <1>2, <2>5
  <2>7. r[a + 1] = ring[a + 1] /\ r[a + 2] = ring[a + 2]
    <3>1. a + 1 \in 1 .. Len(ring) /\ a + 2 \in 1 .. Len(ring)
      BY <1>1, <2>5
    <3> QED BY <3>1 DEF Extends
  <2>8. ASSUME NEW j \in 1 .. b - a - 2 PROVE r[a + 2 + j] = [of |-> ks[out + i], byte |-> j]
    <3>1. a + 2 + j \in 1 .. Len(ring)
      BY <1>1, <2>5
    <3>2. r[a + 2 + j] = ring[a + 2 + j]
      BY <3>1 DEF Extends
    <3> QED BY <2>5, <3>2
  <2>9. FrameAt(r, js[out + i], a, b)
    BY <2>4, <2>5, <2>6, <2>7, <2>8 DEF FrameAt
  <2> QED BY <2>9 DEF a, b
<1>4. s[Len(s)] <= Len(r)
  <2>1. s # << >> /\ s[Len(s)] <= Len(ring)
    BY DEF Frames
  <2>2. s[Len(s)] \in Nat
    BY <1>1, <2>1, EmptySeq
  <2> QED BY <1>1, <1>2, <2>1, <2>2
<1>5. out + Len(s) - 1 <= Len(js)
  BY <1>1, <1>2 DEF Frames
<1> QED BY <1>3, <1>4, <1>5 DEF Frames

(* The frames of a ring of which the first has been read.                  *)
ReadPast(r, ring, n) == Len(r) = Len(ring) - n /\ \A i \in 1 .. Len(r) : r[i] = ring[n + i]
Rest(s) == [i \in 1 .. Len(s) - 1 |-> s[i + 1] - s[2]]

LEMMA FrameMoves ==
  ASSUME NEW ring \in Seq(Cell), NEW r \in Seq(Cell), NEW k, NEW a \in Nat, NEW b \in Nat,
         NEW m \in Nat, m <= a, m <= b, FrameAt(ring, k, a, b), ReadPast(r, ring, m)
  PROVE  FrameAt(r, k, a - m, b - m)
<1>1. /\ a + 3 <= b /\ b <= Len(ring) /\ Len(ring) \in Nat /\ Len(r) \in Nat
      /\ ring[a + 1] = [tag |-> b - a - 2] /\ ring[a + 2] = [tag |-> b - a - 2]
      /\ \A j \in 1 .. b - a - 2 : ring[a + 2 + j] = [of |-> k, byte |-> j]
  BY DEF FrameAt
<1>2. Len(r) = Len(ring) - m /\ \A i \in 1 .. Len(r) : r[i] = ring[m + i]
  BY DEF ReadPast
<1> DEFINE u == a - m
           v == b - m
           l == Len(ring)
           w == Len(r)
<1>3. a + 3 <= b /\ b <= l /\ l \in Nat /\ w = l - m
  BY <1>1, <1>2
<1> HIDE DEF l, w
<1>4. /\ u \in Nat /\ v \in Nat /\ u + 3 <= v /\ v <= w /\ v - u - 2 = b - a - 2
      /\ m + (u + 1) = a + 1 /\ m + (u + 2) = a + 2
      /\ u + 1 \in 1 .. w /\ u + 2 \in 1 .. w
  BY <1>3
<1>5. \A j \in 1 .. b - a - 2 : u + 2 + j \in 1 .. w /\ m + (u + 2 + j) = a + 2 + j
  BY <1>3
<1> HIDE DEF u, v
<1>6. r[u + 1] = [tag |-> v - u - 2] /\ r[u + 2] = [tag |-> v - u - 2]
  BY <1>1, <1>2, <1>4 DEF w
<1>7. \A j \in 1 .. v - u - 2 : r[u + 2 + j] = [of |-> k, byte |-> j]
  BY <1>1, <1>2, <1>4, <1>5 DEF w
<1>8. FrameAt(r, k, u, v)
  BY <1>4, <1>6, <1>7 DEF FrameAt, w
<1> QED BY <1>8 DEF u, v

LEMMA FramesMove ==
  ASSUME NEW ring \in Seq(Cell), NEW r \in Seq(Cell), NEW s \in Seq(Nat), NEW out \in Nat,
         NEW ks \in Seq(Nat), Frames(ring, s, out, ks), Len(s) >= 2,
         ReadPast(r, ring, s[2])
  PROVE  /\ Rest(s) \in Seq(Nat) /\ Len(Rest(s)) = Len(s) - 1
         /\ Rest(s)[Len(s) - 1] = s[Len(s)] - s[2]
         /\ s[2] \in Nat /\ s[2] >= 3 /\ s[Len(s)] \in Nat
         /\ Frames(r, Rest(s), out + 1, ks)
<1>1. Len(s) \in Nat /\ Len(ring) \in Nat /\ Len(r) \in Nat /\ Len(ks) \in Nat
      /\ \A i \in 1 .. Len(s) : s[i] \in Nat
  OBVIOUS
<1>2. /\ s[1] = 0 /\ out + Len(s) - 1 <= Len(ks) /\ s[Len(s)] <= Len(ring)
      /\ \A i, j \in 1 .. Len(s) : i <= j => s[i] <= s[j]
      /\ \A i \in 1 .. Len(s) - 1 : FrameAt(ring, ks[out + i], s[i], s[i + 1])
  BY DEF Frames
<1>3. 1 \in 1 .. Len(s) - 1 /\ 2 \in 1 .. Len(s) /\ Len(s) \in 1 .. Len(s) /\ 1 + 1 = 2
  BY <1>1
<1> DEFINE m == s[2]
           N == Len(s) - 1
           t == Rest(s)
<1>4. m \in Nat /\ m >= 3 /\ s[Len(s)] \in Nat
  <2>1. FrameAt(ring, ks[out + 1], s[1], s[2])
    BY <1>2, <1>3
  <2>2. FrameAt(ring, ks[out + 1], 0, m)
    BY <2>1, <1>2
  <2>3. m \in Nat /\ s[Len(s)] \in Nat
    BY <1>1, <1>3
  <2> HIDE DEF m
  <2>4. 0 + 3 <= m
    BY <2>2 DEF FrameAt
  <2> QED BY <2>3, <2>4
<1>5. N \in Nat /\ N >= 1 /\ N + 1 = Len(s)
  BY <1>1
<1> HIDE DEF N, m
<1>6. ASSUME NEW i \in 1 .. N
      PROVE  /\ i + 1 \in 1 .. Len(s) /\ s[i + 1] \in Nat /\ m <= s[i + 1]
             /\ s[i + 1] - m \in Nat
  <2>1. i + 1 \in 1 .. Len(s) /\ 2 <= i + 1
    BY <1>1, <1>5
  <2>2. s[i + 1] \in Nat /\ s[2] <= s[i + 1]
    BY <1>1, <1>2, <1>3, <2>1
  <2>3. m <= s[i + 1]
    BY <2>2 DEF m
  <2> DEFINE x == s[i + 1]
  <2>4. x \in Nat /\ m <= x
    BY <2>2, <2>3
  <2> HIDE DEF x
  <2>5. x - m \in Nat
    BY <1>4, <2>4
  <2> QED BY <2>1, <2>4, <2>5 DEF x
<1>7. t = [i \in 1 .. N |-> s[i + 1] - m]
  BY DEF N, Rest, m
<1> HIDE DEF t
<1>8. t \in Seq(Nat) /\ Len(t) = N /\ \A i \in 1 .. N : t[i] = s[i + 1] - m
  <2>1. t \in [1 .. N -> Nat]
    BY <1>6, <1>7
  <2> QED BY <1>5, <1>7, <2>1
<1>9. t[N] = s[Len(s)] - m
  <2>1. N \in 1 .. N
    BY <1>5
  <2> QED BY <1>5, <1>8, <2>1
<1>10. ASSUME NEW i \in 1 .. N - 1
       PROVE  FrameAt(r, ks[(out + 1) + i], t[i], t[i + 1])
  <2>1. i + 1 \in 1 .. Len(s) - 1 /\ i \in 1 .. N /\ i + 1 \in 1 .. N
        /\ out + (i + 1) = (out + 1) + i
    BY <1>1, <1>5
  <2>2. FrameAt(ring, ks[out + (i + 1)], s[i + 1], s[(i + 1) + 1])
    BY <1>2, <2>1
  <2> DEFINE a == s[i + 1]
             b == s[(i + 1) + 1]
             k == ks[(out + 1) + i]
  <2>3. a \in Nat /\ b \in Nat /\ m <= a /\ m <= b
    BY <1>6, <2>1
  <2>4. t[i] = a - m /\ t[i + 1] = b - m
    BY <1>8, <2>1
  <2>5. FrameAt(ring, k, a, b)
    BY <2>1, <2>2
  <2> HIDE DEF a, b, k
  <2>6. m \in Nat /\ ReadPast(r, ring, m)
    BY <1>4 DEF m
  <2>7. FrameAt(r, k, a - m, b - m)
    BY <2>3, <2>5, <2>6, FrameMoves
  <2> QED BY <2>4, <2>7 DEF k
<1>11. t # << >> /\ t[1] = 0
  <2>1. 1 \in 1 .. N
    BY <1>5
  <2>2. t[1] = s[1 + 1] - m
    BY <1>8, <2>1
  <2>3. t[1] = m - m
    BY <1>3, <2>2 DEF m
  <2>4. t[1] = 0
    BY <1>4, <2>3
  <2>5. t # << >>
    BY <1>5, <1>8, EmptySeq
  <2> QED BY <2>4, <2>5
<1>12. ASSUME NEW i \in 1 .. N, NEW j \in 1 .. N, i <= j PROVE t[i] <= t[j]
  <2>1. i + 1 \in 1 .. Len(s) /\ j + 1 \in 1 .. Len(s) /\ i + 1 <= j + 1
    BY <1>1, <1>5, <1>12
  <2> DEFINE a == s[i + 1]
             b == s[j + 1]
  <2>2. a <= b /\ a \in Nat /\ b \in Nat
    BY <1>1, <1>2, <2>1
  <2>3. t[i] = a - m /\ t[j] = b - m
    BY <1>8
  <2> HIDE DEF a, b
  <2>4. a - m <= b - m
    BY <1>4, <2>2
  <2> QED BY <2>3, <2>4
<1>13. (out + 1) + Len(t) - 1 <= Len(ks)
  BY <1>1, <1>2, <1>5, <1>8
<1>14. t[Len(t)] <= Len(r)
  <2>1. t[Len(t)] = s[Len(s)] - m
    BY <1>8, <1>9
  <2>2. Len(r) = Len(ring) - m
    BY DEF ReadPast, m
  <2> DEFINE e == s[Len(s)]
  <2>3. e \in Nat /\ e <= Len(ring)
    BY <1>2, <1>4
  <2> HIDE DEF e
  <2>4. e - m <= Len(ring) - m
    BY <1>1, <1>4, <2>3
  <2> QED BY <2>1, <2>2, <2>4 DEF e
<1>15. Frames(r, t, out + 1, ks)
  BY <1>8, <1>10, <1>11, <1>12, <1>13, <1>14 DEF Frames
<1> QED BY <1>4, <1>8, <1>9, <1>15 DEF m, N, t

(* What stands behind the frames stays unreadable when more is written.    *)
LEMMA StrayStays ==
  ASSUME NEW ring \in Seq(Cell), NEW r \in Seq(Cell), Extends(r, ring), NEW e \in Nat,
         e < Len(ring), Len(r) > Len(ring), NEW free, NEW rest, Stray(ring, e, free),
         \/ IsTag(r[Len(ring) + 1])
         \/ r[Len(ring) + 1].byte = 1 /\ free = 1 /\ Len(r) = Len(ring) + 1
  PROVE  Stray(r, e, rest)
<1> DEFINE L == Len(ring)
           K == Len(r)
           x == r[L + 1]
<1>1. L \in Nat /\ K \in Nat /\ e < L /\ L < K
      /\ (IsTag(x) \/ (x.byte = 1 /\ free = 1 /\ K = L + 1))
  OBVIOUS
<1>2. \A i \in 1 .. L : r[i] = ring[i] /\ ring[i] \in Cell
  BY DEF Extends
<1> HIDE DEF L, K
<1>3. e + 1 \in 1 .. L /\ r[e + 1] = ring[e + 1] /\ ring[e + 1] \in Cell
  BY <1>1, <1>2
<1>4. CASE ~IsTag(ring[e + 1])
  BY <1>3, <1>4 DEF Stray
<1>5. CASE L - e >= 3 /\ IsTag(ring[e + 3])
  <2>1. e + 3 \in 1 .. L /\ K - e >= 3
    BY <1>1, <1>5
  <2>2. IsTag(r[e + 3])
    BY <1>2, <1>5, <2>1
  <2> QED BY <2>1, <2>2 DEF Stray, K
<1>6. CASE /\ L - e >= 3 /\ ring[e + 1].tag >= 2
           /\ L - e >= 4 => IsTag(ring[e + 4]) \/ ring[e + 4].byte = 1
  <2>1. K - e >= 3 /\ r[e + 1].tag >= 2
    BY <1>1, <1>3, <1>6
  <2>2. CASE L - e = 3
    <3>1. e + 4 = L + 1
      BY <1>1, <2>2
    <3>2. IsTag(r[e + 4]) \/ r[e + 4].byte = 1
      BY <1>1, <3>1
    <3> QED BY <2>1, <3>2 DEF Stray, K
  <2>3. CASE L - e >= 4
    <3>1. e + 4 \in 1 .. L
      BY <1>1, <2>3
    <3>2. r[e + 4] = ring[e + 4]
      BY <1>2, <3>1
    <3>3. IsTag(r[e + 4]) \/ r[e + 4].byte = 1
      BY <1>6, <2>3, <3>2
    <3> QED BY <2>1, <3>3 DEF Stray, K
  <2> QED BY <1>1, <1>6, <2>2, <2>3
<1>7. CASE L - e = 2 /\ (ring[e + 1].tag = 1 => free # 1) /\ IsTag(ring[e + 1])
  <2>1. e + 3 = L + 1 /\ K - e >= 3 /\ (K = L + 1 => K - e = 3)
    BY <1>1, <1>7
  <2>2. CASE IsTag(x)
    <3>1. IsTag(r[e + 3])
      BY <2>1, <2>2
    <3> QED BY <2>1, <3>1 DEF Stray, K
  <2>3. CASE x.byte = 1 /\ free = 1 /\ K = L + 1
    <3>1. r[e + 1].tag # 1 /\ r[e + 1].tag \in Nat /\ r[e + 1].tag >= 1
      BY <1>3, <1>7, <2>3, Cells
    <3>2. r[e + 1].tag >= 2
      BY <3>1
    <3>3. ~(K - e >= 4)
      BY <2>1, <2>3
    <3> QED BY <2>1, <3>2, <3>3 DEF Stray, K
  <2> QED BY <1>1, <2>2, <2>3
<1>8. \/ ~IsTag(ring[e + 1])
      \/ L - e >= 3 /\ IsTag(ring[e + 3])
      \/ /\ L - e >= 3 /\ ring[e + 1].tag >= 2
         /\ L - e >= 4 => IsTag(ring[e + 4]) \/ ring[e + 4].byte = 1
      \/ L - e = 2 /\ (ring[e + 1].tag = 1 => free # 1)
  BY DEF Stray, L
<1> QED BY <1>4, <1>5, <1>6, <1>7, <1>8

(* It stays so when a frame before it has been read.                       *)
LEMMA StrayMoves ==
  ASSUME NEW ring \in Seq(Cell), NEW r \in Seq(Cell), NEW e \in Nat, NEW m \in Nat,
         e < Len(ring), m <= e, m >= 3, ReadPast(r, ring, m), Len(ring) <= RingSize,
         Stray(ring, e, RingSize - Len(ring))
  PROVE  Stray(r, e - m, RingSize - Len(r))
<1> DEFINE L == Len(ring)
           K == Len(r)
           u == e - m
<1>1. L \in Nat /\ K = L - m /\ e < L /\ RingSize \in Nat /\ L <= RingSize
  BY RingAssumption DEF ReadPast
<1>2. \A i \in 1 .. K : r[i] = ring[m + i]
  BY DEF ReadPast
<1> HIDE DEF L, K
<1>3. /\ u \in Nat /\ K \in Nat /\ K - u = L - e /\ RingSize - K # 1
      /\ \A j \in 1 .. L - e : u + j \in 1 .. K /\ m + (u + j) = e + j
  BY <1>1
<1> HIDE DEF u
<1>4. \A j \in 1 .. L - e : r[u + j] = ring[e + j]
  BY <1>2, <1>3
<1>5. L - e \in Nat /\ L - e >= 1
  BY <1>1
<1>6. r[u + 1] = ring[e + 1]
  BY <1>4, <1>5
<1>7. L - e >= 3 => r[u + 3] = ring[e + 3]
  BY <1>4, <1>5
<1>8. L - e >= 4 => r[u + 4] = ring[e + 4]
  BY <1>4, <1>5
<1>9. \/ ~IsTag(ring[e + 1])
      \/ L - e >= 3 /\ IsTag(ring[e + 3])
      \/ /\ L - e >= 3 /\ ring[e + 1].tag >= 2
         /\ L - e >= 4 => IsTag(ring[e + 4]) \/ ring[e + 4].byte = 1
      \/ L - e = 2
  BY DEF Stray, L
<1>10. \/ ~IsTag(r[u + 1])
       \/ K - u >= 3 /\ IsTag(r[u + 3])
       \/ /\ K - u >= 3 /\ r[u + 1].tag >= 2
          /\ K - u >= 4 => IsTag(r[u + 4]) \/ r[u + 4].byte = 1
       \/ K - u = 2 /\ (r[u + 1].tag = 1 => RingSize - K # 1)
  BY <1>3, <1>6, <1>7, <1>8, <1>9
<1> QED BY <1>10 DEF Stray, K, u

(* What is written: a tag, and a packet.                                   *)
LEMMA Onto ==
  ASSUME NEW ring \in Seq(Cell), NEW w \in Seq(Cell)
  PROVE  /\ ring \o w \in Seq(Cell) /\ Len(ring \o w) = Len(ring) + Len(w)
         /\ Extends(ring \o w, ring)
         /\ \A i \in 1 .. Len(w) : (ring \o w)[Len(ring) + i] = w[i]
<1> DEFINE L == Len(ring)
           n == Len(w)
           r == ring \o w
<1>1. /\ r \in Seq(Cell) /\ Len(r) = L + n
      /\ \A i \in 1 .. L + n : r[i] = IF i <= L THEN ring[i] ELSE w[i - L]
  BY ConcatProperties
<1>2. L \in Nat /\ n \in Nat
  OBVIOUS
<1> HIDE DEF L, n, r
<1>3. ASSUME NEW i \in 1 .. L PROVE r[i] = ring[i]
  BY <1>1, <1>2
<1>4. ASSUME NEW i \in 1 .. n PROVE r[L + i] = w[i]
  <2> DEFINE j == L + i
  <2>1. j \in 1 .. L + n /\ ~(j <= L) /\ j - L = i
    BY <1>2
  <2> HIDE DEF j
  <2>2. r[j] = w[j - L]
    BY <1>1, <2>1
  <2> QED BY <2>1, <2>2 DEF j
<1>5. Len(r) >= L
  BY <1>1, <1>2
<1> QED BY <1>1, <1>3, <1>4, <1>5 DEF Extends, L, n, r

LEMMA TagWritten ==
  ASSUME NEW n \in Lengths
  PROVE  /\ Tag(n) \in Seq(Cell) /\ Len(Tag(n)) = 2
         /\ Tag(n)[1] = [tag |-> n] /\ Tag(n)[2] = [tag |-> n]
<1>1. [tag |-> n] \in Cell
  BY Cells
<1> QED BY <1>1 DEF Tag

LEMMA PacketWritten ==
  ASSUME NEW k \in Nat, NEW n \in Nat
  PROVE  /\ Packet(k, n) \in Seq(Cell) /\ Len(Packet(k, n)) = n
         /\ \A i \in 1 .. n : Packet(k, n)[i] = [of |-> k, byte |-> i]
<1>1. \A i \in 1 .. n : [of |-> k, byte |-> i] \in Cell
  BY Cells
<1> QED BY <1>1 DEF Packet

LEMMA ExtendsOn ==
  ASSUME NEW a \in Seq(Cell), NEW b \in Seq(Cell), NEW d \in Seq(Cell),
         Extends(b, a), Extends(d, b)
  PROVE  Extends(d, a)
<1>1. Len(a) \in Nat /\ Len(b) \in Nat /\ Len(d) \in Nat /\ Len(b) >= Len(a) /\ Len(d) >= Len(b)
  BY DEF Extends
<1>2. ASSUME NEW i \in 1 .. Len(a) PROVE d[i] = a[i]
  <2>1. i \in 1 .. Len(b)
    BY <1>1
  <2> QED BY <2>1 DEF Extends
<1>3. Len(d) >= Len(a)
  BY <1>1
<1> QED BY <1>2, <1>3 DEF Extends

FrameOn(r, ring, n, k) ==
  /\ r \in Seq(Cell) /\ Len(r) = Len(ring) + n + 2 /\ Extends(r, ring)
  /\ FrameAt(r, k, Len(ring), Len(r)) /\ r[Len(ring) + 1] = [tag |-> n]

LEMMA FrameWritten ==
  ASSUME NEW ring \in Seq(Cell), NEW n \in Lengths, NEW k \in Nat,
         NEW r, r = (ring \o Tag(n)) \o Packet(k, n)
  PROVE  FrameOn(r, ring, n, k)
<1> DEFINE L == Len(ring)
           b == ring \o Tag(n)
<1>1. n \in Nat /\ n >= 1 /\ L \in Nat
  BY Cells
<1>2. b \in Seq(Cell) /\ Len(b) = L + 2 /\ Extends(b, ring)
      /\ \A i \in 1 .. 2 : b[L + i] = Tag(n)[i]
  <2> DEFINE w == Tag(n)
  <2>1. w \in Seq(Cell) /\ Len(w) = 2
    BY TagWritten
  <2> HIDE DEF w
  <2>2. /\ ring \o w \in Seq(Cell) /\ Len(ring \o w) = Len(ring) + Len(w)
        /\ Extends(ring \o w, ring)
        /\ \A i \in 1 .. Len(w) : (ring \o w)[Len(ring) + i] = w[i]
    BY <2>1, Onto
  <2> QED BY <2>1, <2>2 DEF w
<1>3. b[L + 1] = [tag |-> n] /\ b[L + 2] = [tag |-> n]
  BY <1>2, TagWritten
<1> HIDE DEF b
<1>4. /\ b \o Packet(k, n) \in Seq(Cell) /\ Len(b \o Packet(k, n)) = Len(b) + n
      /\ Extends(b \o Packet(k, n), b)
      /\ \A i \in 1 .. n : (b \o Packet(k, n))[Len(b) + i] = Packet(k, n)[i]
  <2> DEFINE w == Packet(k, n)
  <2>1. w \in Seq(Cell) /\ Len(w) = n
    BY <1>1, PacketWritten
  <2> HIDE DEF w
  <2>2. /\ b \o w \in Seq(Cell) /\ Len(b \o w) = Len(b) + Len(w)
        /\ Extends(b \o w, b)
        /\ \A i \in 1 .. Len(w) : (b \o w)[Len(b) + i] = w[i]
    BY <1>2, <2>1, Onto
  <2> QED BY <2>1, <2>2 DEF w
<1>5. r = b \o Packet(k, n)
  BY DEF b
<1>6. /\ r \in Seq(Cell) /\ Len(r) = L + 2 + n /\ Extends(r, b)
      /\ \A i \in 1 .. n : r[L + 2 + i] = [of |-> k, byte |-> i]
  BY <1>1, <1>2, <1>4, <1>5, PacketWritten
<1>7. Extends(r, ring)
  BY <1>2, <1>6, ExtendsOn
<1> HIDE DEF L
<1>8. r[L + 1] = [tag |-> n] /\ r[L + 2] = [tag |-> n]
  <2>1. L + 1 \in 1 .. Len(b) /\ L + 2 \in 1 .. Len(b)
    BY <1>1, <1>2
  <2> QED BY <1>3, <1>6, <2>1 DEF Extends
<1> DEFINE e == L + 2 + n
<1>9. e - L - 2 = n /\ L + 3 <= e /\ e <= Len(r) /\ Len(r) = e /\ e = L + n + 2
  BY <1>1, <1>6
<1> HIDE DEF e
<1>10. FrameAt(r, k, L, e)
  BY <1>6, <1>8, <1>9 DEF FrameAt
<1>11. /\ r \in Seq(Cell) /\ Len(r) = L + n + 2 /\ Extends(r, ring)
       /\ FrameAt(r, k, L, Len(r)) /\ r[L + 1] = [tag |-> n]
  BY <1>6, <1>7, <1>8, <1>9, <1>10
<1> QED BY <1>11 DEF FrameOn, L

LEMMA Appended ==
  \A q \in Seq(Nat), e \in Nat :
    /\ Append(q, e) \in Seq(Nat) /\ Append(q, e) # << >> /\ Len(Append(q, e)) = Len(q) + 1
    /\ \A i \in 1 .. Len(q) : Append(q, e)[i] = q[i]
    /\ Append(q, e)[Len(q) + 1] = e
BY AppendProperties

(* One more frame behind the others.                                       *)
LEMMA FramesGrow ==
  ASSUME NEW ring \in Seq(Cell), NEW r \in Seq(Cell), NEW s \in Seq(Nat), NEW out \in Nat,
         NEW ks \in Seq(Nat), NEW k \in Nat, Extends(r, ring), Frames(ring, s, out, ks),
         s[Len(s)] = Len(ring), out + Len(s) - 1 = Len(ks), FrameAt(r, k, Len(ring), Len(r))
  PROVE  /\ Append(s, Len(r)) \in Seq(Nat)
         /\ Laid(r, Append(s, Len(r)), out, Append(ks, k))
<1> DEFINE t == Append(s, Len(r))
           js == Append(ks, k)
           n == Len(s)
<1>1. n \in Nat /\ Len(ring) \in Nat /\ Len(r) \in Nat /\ Len(ks) \in Nat
      /\ \A i \in 1 .. n : s[i] \in Nat
  OBVIOUS
<1>2. js \in Seq(Nat) /\ Len(js) = Len(ks) + 1 /\ js[Len(ks) + 1] = k
      /\ \A i \in 1 .. Len(ks) : js[i] = ks[i]
  BY Appended
<1>3. t \in Seq(Nat) /\ t # << >> /\ Len(t) = n + 1 /\ t[n + 1] = Len(r)
      /\ \A i \in 1 .. n : t[i] = s[i]
  <2> DEFINE e == Len(r)
  <2>1. e \in Nat
    BY <1>1
  <2> HIDE DEF e
  <2>2. /\ Append(s, e) \in Seq(Nat) /\ Append(s, e) # << >> /\ Len(Append(s, e)) = Len(s) + 1
        /\ \A i \in 1 .. Len(s) : Append(s, e)[i] = s[i]
        /\ Append(s, e)[Len(s) + 1] = e
    BY <2>1, Appended
  <2> QED BY <2>2 DEF e
<1> HIDE DEF t, js
<1>4. Extends(js, ks)
  BY <1>1, <1>2 DEF Extends
<1>5. Frames(r, s, out, js)
  BY <1>2, <1>4, FramesStand
<1>6. /\ s # << >> /\ s[1] = 0 /\ s[n] <= Len(r)
      /\ \A i, j \in 1 .. n : i <= j => s[i] <= s[j]
      /\ \A i \in 1 .. n - 1 : FrameAt(r, js[out + i], s[i], s[i + 1])
  BY <1>5 DEF Frames
<1>7. n >= 1 /\ 1 \in 1 .. n /\ n \in 1 .. n
  BY <1>1, <1>6, EmptySeq
<1>8. t[1] = 0 /\ t[n] = s[n] /\ s[n] = Len(ring)
  BY <1>3, <1>6, <1>7
<1>9. ASSUME NEW i \in 1 .. n PROVE t[i] <= Len(r) /\ t[i] \in Nat
  <2>1. i <= n
    OBVIOUS
  <2>2. s[i] <= s[n] /\ s[i] \in Nat /\ s[n] \in Nat
    BY <1>1, <1>6, <1>7, <2>1
  <2>3. s[i] <= Len(r)
    BY <1>1, <1>6, <2>2
  <2> QED BY <1>3, <2>2, <2>3
<1> HIDE DEF n
<1>10. ASSUME NEW i \in 1 .. n + 1, NEW j \in 1 .. n + 1, i <= j PROVE t[i] <= t[j]
  <2>1. CASE j \in 1 .. n
    <3>1. i \in 1 .. n
      BY <1>1, <1>10, <2>1
    <3> QED BY <1>3, <1>6, <1>10, <2>1, <3>1
  <2>2. CASE j = n + 1 /\ i \in 1 .. n
    BY <1>3, <1>9, <2>2
  <2>3. CASE j = n + 1 /\ i = n + 1
    BY <1>1, <1>3, <2>3
  <2>4. (j \in 1 .. n \/ j = n + 1) /\ (i \in 1 .. n \/ i = n + 1)
    <3>1. n \in Nat
      BY <1>1 DEF n
    <3> QED BY <3>1
  <2> QED BY <2>1, <2>2, <2>3, <2>4
<1>11. ASSUME NEW i \in 1 .. n PROVE FrameAt(r, js[out + i], t[i], t[i + 1])
  <2>1. CASE i \in 1 .. n - 1
    <3>1. i \in 1 .. n /\ i + 1 \in 1 .. n
      BY <1>1, <2>1
    <3> QED BY <1>3, <1>6, <2>1, <3>1
  <2>2. CASE i = n
    <3>1. out + n = Len(ks) + 1
      BY <1>1, <1>7 DEF n
    <3>2. js[out + i] = k /\ t[i] = Len(ring) /\ t[i + 1] = Len(r)
      BY <1>2, <1>3, <1>8, <2>2, <3>1
    <3> QED BY <3>2
  <2> QED BY <1>1, <2>1, <2>2
<1>12. out + Len(t) - 1 = Len(js)
  BY <1>1, <1>2, <1>3 DEF n
<1>13. Len(t) - 1 = n /\ t[Len(t)] = Len(r) /\ Len(r) <= Len(r) /\ out + Len(t) - 1 <= Len(js)
  BY <1>1, <1>2, <1>3, <1>12
<1>14. Frames(r, t, out, js)
  BY <1>3, <1>8, <1>10, <1>11, <1>13 DEF Frames
<1>15. Laid(r, t, out, js)
  BY <1>12, <1>13, <1>14 DEF Laid
<1> QED BY <1>3, <1>15 DEF t, js

(* What a read of the ring takes.                                          *)
LEMMA Taken ==
  ASSUME NEW S, NEW r \in Seq(S), NEW n \in 0 .. Len(r)
  PROVE  /\ SubSeq(r, 1, n) \in Seq(S) /\ Len(SubSeq(r, 1, n)) = n
         /\ \A i \in 1 .. n : SubSeq(r, 1, n)[i] = r[i]
<1>1. n \in Nat /\ 1 \in Int /\ n \in Int /\ \A i \in 1 .. n : r[i] \in S
  OBVIOUS
<1> DEFINE d == SubSeq(r, 1, n)
<1>2. /\ d \in Seq(S) /\ Len(d) = IF 1 <= n THEN n - 1 + 1 ELSE 0
      /\ \A i \in 1 .. n - 1 + 1 : d[i] = r[1 + i - 1]
  BY <1>1, SubSeqProperties
<1> HIDE DEF d
<1>3. Len(d) = n
  BY <1>1, <1>2
<1>4. ASSUME NEW i \in 1 .. n PROVE d[i] = r[i]
  <2>1. i \in 1 .. n - 1 + 1 /\ 1 + i - 1 = i
    BY <1>1
  <2> QED BY <1>2, <2>1
<1> QED BY <1>2, <1>3, <1>4 DEF d

LEMMA Behind ==
  ASSUME NEW ring \in Seq(Cell), ring # << >>
  PROVE  /\ Head(ring) = ring[1] /\ ring[1] \in Cell /\ Len(ring) \in Nat /\ Len(ring) >= 1
         /\ SubSeq(ring, 3, Len(ring)) \in Seq(Cell)
         /\ Len(SubSeq(ring, 3, Len(ring))) = IF Len(ring) >= 2 THEN Len(ring) - 2 ELSE 0
         /\ \A i \in 1 .. Len(ring) - 2 : SubSeq(ring, 3, Len(ring))[i] = ring[2 + i]
<1> DEFINE l == Len(ring)
           d == SubSeq(ring, 3, l)
<1>1. l \in Nat /\ l >= 1 /\ Head(ring) = ring[1] /\ ring[1] \in Cell
      /\ \A i \in 1 .. l : ring[i] \in Cell
  BY EmptySeq
<1> HIDE DEF l
<1>2. \A i \in 3 .. l : ring[i] \in Cell
  BY <1>1
<1>3. /\ d \in Seq(Cell) /\ Len(d) = IF 3 <= l THEN l - 3 + 1 ELSE 0
      /\ \A i \in 1 .. l - 3 + 1 : d[i] = ring[3 + i - 1]
  BY <1>1, <1>2, SubSeqProperties
<1> HIDE DEF d
<1>4. Len(d) = IF l >= 2 THEN l - 2 ELSE 0
  BY <1>1, <1>3
<1>5. ASSUME NEW i \in 1 .. l - 2 PROVE d[i] = ring[2 + i]
  <2>1. i \in 1 .. l - 3 + 1 /\ 3 + i - 1 = 2 + i
    BY <1>1
  <2> QED BY <1>3, <2>1
<1> QED BY <1>1, <1>3, <1>4, <1>5 DEF l, d

(* A read of ring takes n bytes, got, of what is behind the tag, rest, and *)
(* leaves r.                                                               *)
Reading(ring, rest, n, got, r) ==
  /\ rest = SubSeq(ring, 3, Len(ring)) /\ n \in Lengths_read(Head(ring), rest)
  /\ got = SubSeq(rest, 1, n) /\ r = SubSeq(rest, n + 1, Len(rest))

LEMMA ReadTypes ==
  ASSUME NEW ring \in Seq(Cell), ring # << >>, NEW rest, NEW n, NEW got, NEW r,
         Reading(ring, rest, n, got, r)
  PROVE  /\ n \in Nat /\ n \in 0 .. Len(rest) /\ rest \in Seq(Cell)
         /\ Head(ring) = ring[1] /\ ring[1] \in Cell
         /\ Len(ring) \in Nat /\ Len(ring) >= 1
         /\ Len(rest) = IF Len(ring) >= 2 THEN Len(ring) - 2 ELSE 0
         /\ \A i \in 1 .. Len(ring) - 2 : rest[i] = ring[2 + i]
         /\ r \in Seq(Cell) /\ Len(r) = Len(rest) - n /\ Len(r) <= Len(ring)
         /\ \A i \in 1 .. Len(rest) - n : r[i] = rest[n + i]
         /\ got \in Seq(Cell) /\ Len(got) = n /\ \A i \in 1 .. n : got[i] = rest[i]
<1>1. /\ rest = SubSeq(ring, 3, Len(ring)) /\ n \in Lengths_read(Head(ring), rest)
      /\ got = SubSeq(rest, 1, n) /\ r = SubSeq(rest, n + 1, Len(rest))
  BY DEF Reading
<1>2. /\ Head(ring) = ring[1] /\ ring[1] \in Cell
      /\ Len(ring) \in Nat /\ Len(ring) >= 1
      /\ Len(rest) = IF Len(ring) >= 2 THEN Len(ring) - 2 ELSE 0
      /\ \A i \in 1 .. Len(ring) - 2 : rest[i] = ring[2 + i]
  BY <1>1, Behind
<1>3. Head(ring) \in Cell /\ rest \in Seq(Cell) /\ Len(ring) \in Nat /\ Len(rest) \in Nat
      /\ Len(rest) <= Len(ring)
  BY <1>1, <1>2, Behind
<1>4. n \in 0 .. Len(rest) /\ n \in Nat
  <2>1. IsTag(Head(ring)) => Head(ring).tag \in Nat
    BY <1>3, Cells
  <2> QED BY <1>1, <1>3, <2>1 DEF Lengths_read, IsTag
<1>5. r \in Seq(Cell) /\ Len(r) = Len(rest) - n
      /\ \A i \in 1 .. Len(rest) - n : r[i] = rest[n + i]
  BY <1>1, <1>3, <1>4, Cut
<1>6. got \in Seq(Cell) /\ Len(got) = n /\ \A i \in 1 .. n : got[i] = rest[i]
  BY <1>1, <1>3, <1>4, Taken
<1>7. Len(rest) - n <= Len(ring)
  BY <1>3, <1>4
<1> QED BY <1>2, <1>3, <1>4, <1>5, <1>6, <1>7

(* Whole packets are of their number.                                      *)
LEMMA WholeIs ==
  ASSUME NEW tag \in Cell, NEW got, Whole(tag, got), packets \in Nat
  PROVE  /\ IsTag(tag) /\ Len(got) = tag.tag /\ tag.tag \in Nat /\ tag.tag >= 1
         /\ got[1].of \in Nat
         /\ \A i \in 1 .. tag.tag : ~IsTag(got[i]) /\ got[i].byte = i
<1>1. IsTag(tag) /\ Len(got) = tag.tag
  BY DEF Whole, IsTag
<1>2. tag.tag \in Nat /\ tag.tag >= 1
  BY <1>1, Cells
<1>3. PICK k \in 0 .. packets - 1 : got = Packet(k, tag.tag)
  BY DEF Whole
<1> DEFINE l == tag.tag
<1>4. k \in Nat /\ l \in Nat /\ l >= 1 /\ got = Packet(k, l)
  BY <1>2, <1>3
<1> HIDE DEF l
<1>5. \A i \in 1 .. l : got[i] = [of |-> k, byte |-> i]
  BY <1>4, PacketWritten
<1>6. ASSUME NEW i \in 1 .. l PROVE ~IsTag(got[i]) /\ got[i].byte = i
  <2>1. i \in Nat \ {0}
    BY <1>4
  <2>2. ~IsTag([of |-> k, byte |-> i])
    BY <1>4, <2>1, Cells
  <2>3. [of |-> k, byte |-> i].byte = i
    OBVIOUS
  <2> QED BY <1>5, <2>2, <2>3
<1>7. got[1] = [of |-> k, byte |-> 1]
  BY <1>4, <1>5
<1>8. got[1].of \in Nat
  <2>1. [of |-> k, byte |-> 1].of = k
    OBVIOUS
  <2> QED BY <1>4, <1>7, <2>1
<1> QED BY <1>1, <1>2, <1>6, <1>8 DEF l

(* A frame is read as its packet, and the ring goes on behind it.          *)
LEMMA FrameRead ==
  ASSUME NEW ring \in Seq(Cell), ring # << >>, NEW k, NEW m \in Nat, FrameAt(ring, k, 0, m),
         packets \in Nat, k \in 0 .. packets - 1,
         NEW rest, NEW n, NEW got, NEW r, Reading(ring, rest, n, got, r)
  PROVE  Whole(Head(ring), got) /\ got[1].of = k /\ ReadPast(r, ring, m)
<1> DEFINE l == m - 2
<1>1. /\ 3 <= m /\ m <= Len(ring) /\ ring[1] = [tag |-> l]
      /\ \A j \in 1 .. l : ring[2 + j] = [of |-> k, byte |-> j]
  <2>1. /\ 0 + 3 <= m /\ m <= Len(ring) /\ ring[0 + 1] = [tag |-> m - 0 - 2]
        /\ \A j \in 1 .. m - 0 - 2 : ring[0 + 2 + j] = [of |-> k, byte |-> j]
    BY DEF FrameAt
  <2>2. m - 0 - 2 = m - 2 /\ 0 + 1 = 1 /\ 0 + 2 = 2 /\ 0 + 3 = 3
    OBVIOUS
  <2> QED BY <2>1, <2>2
<1> HIDE DEF l
<1>2. /\ Head(ring) = ring[1] /\ Len(ring) \in Nat /\ rest \in Seq(Cell)
      /\ Len(rest) = IF Len(ring) >= 2 THEN Len(ring) - 2 ELSE 0
  BY ReadTypes
<1>3. \A i \in 1 .. Len(ring) - 2 : rest[i] = ring[2 + i]
  BY ReadTypes
<1>4. l \in Nat /\ l >= 1 /\ l + 2 = m /\ Len(rest) = Len(ring) - 2 /\ l <= Len(rest)
  BY <1>1, <1>2 DEF l
<1>5. Head(ring) = [tag |-> l] /\ Head(ring).tag = l /\ IsTag(Head(ring))
  BY <1>1, <1>2 DEF IsTag
<1>6. n = l
  <2>1. n \in Lengths_read(Head(ring), rest)
    BY DEF Reading
  <2> QED BY <1>4, <1>5, <2>1 DEF Lengths_read, IsTag
<1>7. /\ n \in Nat /\ got \in Seq(Cell) /\ Len(got) = n
      /\ \A i \in 1 .. n : got[i] = rest[i]
  <2>1. got \in Seq(Cell) /\ Len(got) = n /\ n \in Nat
    BY ReadTypes
  <2>2. \A i \in 1 .. n : got[i] = rest[i]
    BY ReadTypes
  <2> QED BY <2>1, <2>2
<1>8. ASSUME NEW i \in 1 .. n PROVE got[i] = [of |-> k, byte |-> i]
  <2>1. i \in 1 .. Len(ring) - 2 /\ i \in 1 .. l
    BY <1>2, <1>4, <1>6
  <2> QED BY <1>1, <1>3, <1>7, <2>1
<1>9. got = Packet(k, l)
  <2>1. k \in Nat
    OBVIOUS
  <2>2. Packet(k, l) \in Seq(Cell) /\ Len(Packet(k, l)) = l
        /\ \A i \in 1 .. l : Packet(k, l)[i] = [of |-> k, byte |-> i]
    BY <1>4, <2>1, PacketWritten
  <2>3. Len(got) = Len(Packet(k, l)) /\ \A i \in 1 .. Len(got) : got[i] = Packet(k, l)[i]
    BY <1>6, <1>7, <1>8, <2>2
  <2> QED BY <1>7, <2>2, <2>3, SeqEqual
<1>10. Whole(Head(ring), got)
  BY <1>5, <1>6, <1>7, <1>9 DEF Whole, IsTag
<1>11. got[1].of = k
  <2>1. 1 \in 1 .. n
    BY <1>4, <1>6
  <2>2. got[1] = [of |-> k, byte |-> 1] /\ [of |-> k, byte |-> 1].of = k
    BY <1>8, <2>1
  <2> QED BY <2>2
<1>12. ReadPast(r, ring, m)
  <2>1. Len(r) = Len(rest) - n /\ \A i \in 1 .. Len(rest) - n : r[i] = rest[n + i]
    BY ReadTypes
  <2>2. Len(r) = Len(ring) - m
    <3> DEFINE x == Len(rest)
               y == Len(r)
               z == Len(ring)
    <3>1. y = x - n /\ z \in Nat /\ x = z - 2 /\ n = l /\ l + 2 = m /\ l \in Nat
      BY <1>2, <1>4, <1>6, <2>1
    <3> HIDE DEF x, y, z
    <3>2. y = z - m
      BY <3>1
    <3> QED BY <3>2 DEF y, z
  <2>3. ASSUME NEW i \in 1 .. Len(r) PROVE r[i] = ring[m + i]
    <3>1. n + i \in 1 .. Len(ring) - 2 /\ 2 + (n + i) = m + i
      BY <1>2, <1>4, <1>6, <2>2
    <3>2. rest[n + i] = ring[2 + (n + i)]
      BY <1>3, <3>1
    <3> QED BY <2>1, <3>1, <3>2
  <2> QED BY <2>2, <2>3 DEF ReadPast
<1> QED BY <1>10, <1>11, <1>12

(* What is not a frame is not read as a packet.                            *)
LEMMA StrayRead ==
  ASSUME NEW ring \in Seq(Cell), ring # << >>, NEW free, Stray(ring, 0, free),
         packets \in Nat, NEW rest, NEW n, NEW got, NEW r, Reading(ring, rest, n, got, r),
         Whole(Head(ring), got)
  PROVE  FALSE
<1> DEFINE L == Len(ring)
           l == ring[1].tag
<1>1. /\ Head(ring) = ring[1] /\ ring[1] \in Cell /\ L \in Nat /\ L >= 1
      /\ Len(rest) = IF L >= 2 THEN L - 2 ELSE 0
      /\ \A i \in 1 .. L - 2 : rest[i] = ring[2 + i]
  BY ReadTypes
<1>2. /\ IsTag(ring[1]) /\ Len(got) = l /\ l \in Nat /\ l >= 1
      /\ \A i \in 1 .. l : ~IsTag(got[i]) /\ got[i].byte = i
  <2>1. Whole(ring[1], got)
    BY <1>1
  <2> QED BY <1>1, <2>1, WholeIs
<1>3. /\ n \in 0 .. Len(rest) /\ Len(got) = n /\ \A i \in 1 .. n : got[i] = rest[i]
  BY ReadTypes
<1>4. \/ L >= 3 /\ IsTag(ring[3])
      \/ L >= 3 /\ ring[1].tag >= 2 /\ (L >= 4 => IsTag(ring[4]) \/ ring[4].byte = 1)
      \/ L = 2
  <2>1. \/ ~IsTag(ring[0 + 1])
        \/ L - 0 >= 3 /\ IsTag(ring[0 + 3])
        \/ /\ L - 0 >= 3 /\ ring[0 + 1].tag >= 2
           /\ L - 0 >= 4 => IsTag(ring[0 + 4]) \/ ring[0 + 4].byte = 1
        \/ L - 0 = 2
    BY DEF Stray
  <2>2. 0 + 1 = 1 /\ 0 + 3 = 3 /\ 0 + 4 = 4 /\ L - 0 = L
    BY <1>1
  <2> QED BY <1>2, <2>1, <2>2
<1> HIDE DEF L
<1>5. n = l /\ Len(rest) >= 1 /\ L - 2 >= l
  BY <1>1, <1>2, <1>3
<1>6. \A i \in 1 .. l : got[i] = ring[2 + i] /\ ~IsTag(ring[2 + i]) /\ ring[2 + i].byte = i
  <2>1. ASSUME NEW i \in 1 .. l PROVE got[i] = ring[2 + i]
    <3>1. i \in 1 .. n /\ i \in 1 .. L - 2
      BY <1>1, <1>2, <1>5
    <3> QED BY <1>1, <1>3, <3>1
  <2> QED BY <1>2, <2>1
<1>7. ~IsTag(ring[3])
  <2>1. 1 \in 1 .. l /\ 2 + 1 = 3
    BY <1>2
  <2> QED BY <1>6, <2>1
<1>8. l >= 2 => ~IsTag(ring[4]) /\ ring[4].byte = 2 /\ L >= 4
  <2>1. l >= 2 => 2 \in 1 .. l /\ 2 + 2 = 4 /\ L >= 4
    BY <1>1, <1>2, <1>5
  <2> QED BY <1>6, <2>1
<1>9. L # 2
  BY <1>1, <1>2, <1>5
<1>10. ring[1].tag >= 2 /\ (L >= 4 => IsTag(ring[4]) \/ ring[4].byte = 1)
  BY <1>4, <1>7, <1>9
<1>11. l >= 2
  BY <1>10
<1>12. ring[4].byte = 2 /\ ring[4].byte = 1
  BY <1>8, <1>10, <1>11
<1> QED BY <1>12

(* What host_recv_pkt_cb() stores, by the space it finds.                  *)
Stored(ring, n, k) == ring_write(ring_write(ring, Tag(n)), Packet(k, n))

LEMMA StoredIs ==
  ASSUME NEW ring \in Seq(Cell), NEW n \in Lengths, NEW k \in Nat, Len(ring) <= RingSize,
         NEW free \in Nat, free = RingSize - Len(ring), free >= n
  PROVE  /\ free >= n + 2 => Stored(ring, n, k) = (ring \o Tag(n)) \o Packet(k, n)
         /\ free < n + 2 /\ free >= 2 => Stored(ring, n, k) = ring \o Tag(n)
         /\ free < 2 => n = 1 /\ free = 1 /\ Stored(ring, n, k) = ring \o Packet(k, 1)
<1> DEFINE L == Len(ring)
           p == Packet(k, n)
           w == Tag(n)
           b == ring \o w
<1>1. /\ n \in Nat /\ n >= 1 /\ L \in Nat /\ RingSize \in Nat /\ L <= RingSize
      /\ L + free = RingSize
  BY Cells
<1>2. w \in Seq(Cell) /\ Len(w) = 2
  BY TagWritten
<1>3. Len(p) = n
  BY <1>1, PacketWritten
<1> HIDE DEF L, p, w
<1>4. Len(b) = L + 2
  <2>1. Len(ring \o w) = Len(ring) + Len(w)
    BY <1>2, Onto
  <2> QED BY <1>2, <2>1 DEF L
<1> HIDE DEF b
<1>5. CASE free >= n + 2
  <2>1. ~(L + Len(w) > RingSize) /\ ~(Len(b) + Len(p) > RingSize)
    BY <1>1, <1>4, <1>5, <1>2, <1>3
  <2>2. ring_write(ring, w) = b
    BY <2>1 DEF ring_write, L, b
  <2>3. ring_write(b, p) = b \o p
    BY <2>1 DEF ring_write
  <2>4. ~(free < n + 2) /\ ~(free < 2)
    BY <1>1, <1>5
  <2> QED BY <2>2, <2>3, <2>4 DEF Stored, p, w, b
<1>6. CASE free < n + 2 /\ free >= 2
  <2>1. ~(L + Len(w) > RingSize) /\ Len(b) + Len(p) > RingSize
    BY <1>1, <1>4, <1>6, <1>2, <1>3
  <2>2. ring_write(ring, w) = b
    BY <2>1 DEF ring_write, L, b
  <2>3. ring_write(b, p) = b
    BY <2>1 DEF ring_write
  <2>4. ~(free >= n + 2) /\ ~(free < 2)
    BY <1>1, <1>6
  <2> QED BY <2>2, <2>3, <2>4 DEF Stored, p, w, b
<1>7. CASE free < 2
  <2>1. L + Len(w) > RingSize /\ ~(L + Len(p) > RingSize) /\ n = 1 /\ free = 1
    BY <1>1, <1>7, <1>2, <1>3
  <2>2. ring_write(ring, w) = ring
    BY <2>1 DEF ring_write, L
  <2>3. ring_write(ring, p) = ring \o p
    BY <2>1 DEF ring_write, L
  <2>4. ~(free >= n + 2) /\ ~(free >= 2)
    BY <1>1, <1>7
  <2> QED BY <2>1, <2>2, <2>3, <2>4 DEF Stored, p, w
<1>8. free >= n + 2 \/ (free < n + 2 /\ free >= 2) \/ free < 2
  BY <1>1
<1> QED BY <1>5, <1>6, <1>7, <1>8

(* Written over or not, a ring that is laid out stays so.                  *)
LEMMA EndOf ==
  ASSUME NEW ring \in Seq(Cell), NEW s \in Seq(Nat), NEW out, NEW ks, Laid(ring, s, out, ks)
  PROVE  /\ Frames(ring, s, out, ks) /\ Len(s) \in Nat /\ Len(s) >= 1 /\ s[Len(s)] \in Nat
         /\ \/ s[Len(s)] = Len(ring) /\ out + Len(s) - 1 = Len(ks)
            \/ s[Len(s)] < Len(ring) /\ Stray(ring, s[Len(s)], RingSize - Len(ring))
<1>1. Frames(ring, s, out, ks)
  BY DEF Laid
<1>2. s # << >> /\ s[Len(s)] <= Len(ring)
  BY <1>1 DEF Frames
<1>3. Len(s) \in Nat /\ Len(s) >= 1 /\ s[Len(s)] \in Nat
  BY <1>2, EmptySeq
<1> DEFINE e == s[Len(s)]
           l == Len(ring)
<1>4. e \in Nat /\ l \in Nat /\ e <= l
  BY <1>2, <1>3
<1> HIDE DEF e, l
<1>5. e = l \/ e < l
  BY <1>4
<1>6. (e = l => out + Len(s) - 1 = Len(ks))
      /\ (e # l => Stray(ring, s[Len(s)], RingSize - Len(ring)))
  BY DEF Laid, e, l
<1>7. e < l => e # l
  BY <1>4
<1> QED BY <1>1, <1>3, <1>5, <1>6, <1>7 DEF e, l

LEMMA StrayLaid ==
  ASSUME NEW r \in Seq(Cell), NEW s, NEW out, NEW ks, Frames(r, s, out, ks),
         s[Len(s)] \in Nat, s[Len(s)] < Len(r), Stray(r, s[Len(s)], RingSize - Len(r))
  PROVE  Laid(r, s, out, ks)
<1>1. s[Len(s)] # Len(r)
  <2> DEFINE e == s[Len(s)]
             l == Len(r)
  <2>1. e \in Nat /\ l \in Nat /\ e < l
    OBVIOUS
  <2> HIDE DEF e, l
  <2>2. e # l
    BY <2>1
  <2> QED BY <2>2 DEF e, l
<1> QED BY <1>1 DEF Laid

LEMMA StrayGrows ==
  ASSUME NEW ring \in Seq(Cell), NEW s \in Seq(Nat), NEW out \in Nat, NEW ks \in Seq(Nat),
         Frames(ring, s, out, ks), s[Len(s)] \in Nat, s[Len(s)] < Len(ring),
         Stray(ring, s[Len(s)], RingSize - Len(ring)),
         NEW r \in Seq(Cell), Extends(r, ring), Len(r) > Len(ring),
         \/ IsTag(r[Len(ring) + 1])
         \/ r[Len(ring) + 1].byte = 1 /\ RingSize - Len(ring) = 1 /\ Len(r) = Len(ring) + 1,
         NEW js \in Seq(Nat), Extends(js, ks)
  PROVE  Laid(r, s, out, js)
<1>1. Frames(r, s, out, js)
  BY FramesStand
<1>2. Stray(r, s[Len(s)], RingSize - Len(r))
  BY StrayStays
<1>3. s[Len(s)] < Len(r)
  <2> DEFINE e == s[Len(s)]
             l == Len(ring)
             x == Len(r)
  <2>1. e \in Nat /\ l \in Nat /\ x \in Nat /\ e < l /\ x > l
    OBVIOUS
  <2> HIDE DEF e, l, x
  <2>2. e < x
    BY <2>1
  <2> QED BY <2>2 DEF e, x
<1> QED BY <1>1, <1>2, <1>3, StrayLaid

(* Storing keeps the ring laid out: behind its frames comes one more, or a *)
(* tag without a packet, or a byte without a tag.                          *)
LEMMA WholeStored ==
  ASSUME NEW ring \in Seq(Cell), NEW s \in Seq(Nat), NEW out \in Nat, NEW ks \in Seq(Nat),
         Laid(ring, s, out, ks), NEW n \in Lengths, NEW k \in Nat,
         NEW r, r = (ring \o Tag(n)) \o Packet(k, n)
  PROVE  \E t \in Seq(Nat) : Laid(r, t, out, Append(ks, k))
<1>1. /\ r \in Seq(Cell) /\ Extends(r, ring) /\ FrameAt(r, k, Len(ring), Len(r))
      /\ r[Len(ring) + 1] = [tag |-> n] /\ Len(r) = Len(ring) + n + 2
  <2>1. FrameOn(r, ring, n, k)
    BY FrameWritten
  <2> QED BY <2>1 DEF FrameOn
<1>2. CASE s[Len(s)] = Len(ring) /\ out + Len(s) - 1 = Len(ks)
  <2>1. Frames(ring, s, out, ks)
    BY EndOf
  <2>2. Append(s, Len(r)) \in Seq(Nat) /\ Laid(r, Append(s, Len(r)), out, Append(ks, k))
    BY <1>1, <1>2, <2>1, FramesGrow
  <2> QED BY <2>2
<1>3. CASE s[Len(s)] < Len(ring) /\ Stray(ring, s[Len(s)], RingSize - Len(ring))
  <2>1. Frames(ring, s, out, ks) /\ s[Len(s)] \in Nat
    BY EndOf
  <2>2. Len(r) > Len(ring)
    <3>1. n \in Nat
      BY Cells
    <3> QED BY <1>1, <3>1
  <2>3. IsTag(r[Len(ring) + 1])
    BY <1>1, Cells
  <2>4. Append(ks, k) \in Seq(Nat) /\ Extends(Append(ks, k), ks)
    <3>1. /\ Append(ks, k) \in Seq(Nat) /\ Len(Append(ks, k)) = Len(ks) + 1
          /\ \A i \in 1 .. Len(ks) : Append(ks, k)[i] = ks[i]
      BY Appended
    <3>2. Len(Append(ks, k)) >= Len(ks)
      BY <3>1
    <3> QED BY <3>1, <3>2 DEF Extends
  <2> DEFINE js == Append(ks, k)
  <2> HIDE DEF js
  <2>5. js \in Seq(Nat) /\ Extends(js, ks)
    BY <2>4 DEF js
  <2>6. Laid(r, s, out, js)
    BY <1>1, <1>3, <2>1, <2>2, <2>3, <2>5, StrayGrows
  <2> QED BY <2>6 DEF js
<1> QED BY <1>2, <1>3, EndOf

LEMMA NoRoomForOne ==
  \A R, L, K, n \in Nat :
    R - L < n + 2 /\ R - L >= 2 /\ K = L + 2 => K - L = 2 /\ (n = 1 => R - K # 1)
OBVIOUS

LEMMA TagStored ==
  ASSUME NEW ring \in Seq(Cell), NEW s \in Seq(Nat), NEW out \in Nat, NEW ks \in Seq(Nat),
         Laid(ring, s, out, ks), NEW n \in Lengths,
         RingSize - Len(ring) < n + 2, RingSize - Len(ring) >= 2,
         NEW r, r = ring \o Tag(n)
  PROVE  \E t \in Seq(Nat) : Laid(r, t, out, ks)
<1>1. n \in Nat /\ n >= 1 /\ RingSize \in Nat /\ Len(ring) \in Nat
  BY Cells
<1>2. r \in Seq(Cell) /\ Len(r) = Len(ring) + 2 /\ Extends(r, ring)
      /\ r[Len(ring) + 1] = [tag |-> n]
  <2> DEFINE w == Tag(n)
  <2>1. w \in Seq(Cell) /\ Len(w) = 2 /\ w[1] = [tag |-> n]
    BY TagWritten
  <2> HIDE DEF w
  <2>2. /\ ring \o w \in Seq(Cell) /\ Len(ring \o w) = Len(ring) + Len(w)
        /\ Extends(ring \o w, ring)
        /\ \A i \in 1 .. Len(w) : (ring \o w)[Len(ring) + i] = w[i]
    BY <2>1, Onto
  <2> QED BY <2>1, <2>2 DEF w
<1>3. Len(r) > Len(ring) /\ IsTag(r[Len(ring) + 1]) /\ Extends(ks, ks)
  <2>1. Len(r) > Len(ring)
    BY <1>1, <1>2
  <2>2. IsTag(r[Len(ring) + 1])
    BY <1>2, Cells
  <2>3. Extends(ks, ks)
    BY DEF Extends
  <2> QED BY <2>1, <2>2, <2>3
<1>4. Frames(ring, s, out, ks) /\ s[Len(s)] \in Nat
  BY EndOf
<1>5. CASE s[Len(s)] = Len(ring)
  <2>1. Frames(r, s, out, ks)
    BY <1>2, <1>3, <1>4, FramesStand
  <2>2. Stray(r, Len(ring), RingSize - Len(r))
    <3>1. Len(r) - Len(ring) = 2 /\ (n = 1 => RingSize - Len(r) # 1)
      BY <1>1, <1>2, NoRoomForOne
    <3>2. r[Len(ring) + 1].tag = n
      BY <1>2
    <3> QED BY <3>1, <3>2 DEF Stray
  <2>3. Laid(r, s, out, ks)
    BY <1>2, <1>3, <1>4, <1>5, <2>1, <2>2, StrayLaid
  <2> QED BY <2>3
<1>6. CASE s[Len(s)] < Len(ring) /\ Stray(ring, s[Len(s)], RingSize - Len(ring))
  <2>1. Laid(r, s, out, ks)
    BY <1>2, <1>3, <1>4, <1>6, StrayGrows
  <2> QED BY <2>1
<1> QED BY <1>5, <1>6, EndOf

LEMMA ByteStored ==
  ASSUME NEW ring \in Seq(Cell), NEW s \in Seq(Nat), NEW out \in Nat, NEW ks \in Seq(Nat),
         Laid(ring, s, out, ks), NEW k \in Nat, RingSize - Len(ring) = 1,
         NEW r, r = ring \o Packet(k, 1)
  PROVE  \E t \in Seq(Nat) : Laid(r, t, out, ks)
<1>1. /\ r \in Seq(Cell) /\ Len(r) = Len(ring) + 1 /\ Extends(r, ring)
      /\ r[Len(ring) + 1] = [of |-> k, byte |-> 1]
  <2> DEFINE w == Packet(k, 1)
  <2>1. w \in Seq(Cell) /\ Len(w) = 1 /\ w[1] = [of |-> k, byte |-> 1]
    <3>1. w \in Seq(Cell) /\ Len(w) = 1
      BY PacketWritten
    <3>2. \A i \in 1 .. 1 : w[i] = [of |-> k, byte |-> i]
      BY PacketWritten
    <3> QED BY <3>1, <3>2
  <2> HIDE DEF w
  <2>2. /\ ring \o w \in Seq(Cell) /\ Len(ring \o w) = Len(ring) + Len(w)
        /\ Extends(ring \o w, ring)
        /\ \A i \in 1 .. Len(w) : (ring \o w)[Len(ring) + i] = w[i]
    BY <2>1, Onto
  <2>3. Len(ring \o w) = Len(ring) + 1 /\ (ring \o w)[Len(ring) + 1] = w[1]
    BY <2>1, <2>2
  <2> QED BY <2>1, <2>2, <2>3 DEF w
<1>2. ~IsTag(r[Len(ring) + 1]) /\ r[Len(ring) + 1].byte = 1
  <2>1. ~IsTag([of |-> k, byte |-> 1])
    BY Cells
  <2>2. [of |-> k, byte |-> 1].byte = 1
    OBVIOUS
  <2> QED BY <1>1, <2>1, <2>2
<1>3. Len(r) > Len(ring) /\ Extends(ks, ks)
  <2>1. Len(r) > Len(ring)
    BY <1>1
  <2>2. Extends(ks, ks)
    BY DEF Extends
  <2> QED BY <2>1, <2>2
<1>4. Frames(ring, s, out, ks) /\ s[Len(s)] \in Nat
  BY EndOf
<1>5. CASE s[Len(s)] = Len(ring)
  <2>1. Frames(r, s, out, ks)
    BY <1>1, <1>3, <1>4, FramesStand
  <2>2. Stray(r, Len(ring), RingSize - Len(r))
    BY <1>2 DEF Stray
  <2>3. Laid(r, s, out, ks)
    BY <1>1, <1>3, <1>4, <1>5, <2>1, <2>2, StrayLaid
  <2> QED BY <2>3
<1>6. CASE s[Len(s)] < Len(ring) /\ Stray(ring, s[Len(s)], RingSize - Len(ring))
  <2>1. Laid(r, s, out, ks)
    BY <1>1, <1>2, <1>3, <1>4, <1>6, StrayGrows
  <2> QED BY <2>1
<1> QED BY <1>5, <1>6, EndOf

(* What is read whole is the first packet of the ring.                     *)
LEMMA FirstRead ==
  ASSUME NEW ring \in Seq(Cell), ring # << >>, Len(ring) <= RingSize,
         NEW s \in Seq(Nat), NEW out \in Nat, NEW ks \in Seq(Nat), ks \in Seq(0 .. packets - 1),
         packets \in Nat, Laid(ring, s, out, ks),
         NEW rest, NEW n, NEW got, NEW r, Reading(ring, rest, n, got, r),
         Whole(Head(ring), got)
  PROVE  /\ out + 1 <= Len(ks) /\ got[1].of = ks[out + 1]
         /\ \E t \in Seq(Nat) : Laid(r, t, out + 1, ks)
<1>1. Frames(ring, s, out, ks) /\ Len(s) \in Nat /\ Len(s) >= 1 /\ s[Len(s)] \in Nat
  BY EndOf
<1>2. \/ s[Len(s)] = Len(ring) /\ out + Len(s) - 1 = Len(ks)
      \/ s[Len(s)] < Len(ring) /\ Stray(ring, s[Len(s)], RingSize - Len(ring))
  BY EndOf
<1>3. s[1] = 0 /\ out + Len(s) - 1 <= Len(ks)
  BY <1>1 DEF Frames
<1>4. Len(ring) \in Nat /\ Len(ring) >= 1
  BY ReadTypes
<1>5. Len(s) # 1
  <2> SUFFICES ASSUME Len(s) = 1 PROVE FALSE
    OBVIOUS
  <2>1. s[Len(s)] = 0
    BY <1>3
  <2>2. Stray(ring, 0, RingSize - Len(ring))
    BY <1>2, <1>4, <2>1
  <2> QED BY <2>2, StrayRead
<1>6. Len(s) >= 2
  <2> DEFINE l == Len(s)
  <2>1. l \in Nat /\ l >= 1 /\ l # 1
    BY <1>1, <1>5
  <2> HIDE DEF l
  <2>2. l >= 2
    BY <2>1
  <2> QED BY <2>2 DEF l
<1> DEFINE m == s[2]
           k == ks[out + 1]
<1>7. FrameAt(ring, k, 0, m) /\ m \in Nat
  <2>1. 1 \in 1 .. Len(s) - 1 /\ 1 + 1 = 2 /\ 2 \in 1 .. Len(s)
    BY <1>1, <1>6
  <2>2. FrameAt(ring, ks[out + 1], s[1], s[1 + 1])
    BY <1>1, <2>1 DEF Frames
  <2>3. s[2] \in Nat
    BY <2>1
  <2> QED BY <1>3, <2>1, <2>2, <2>3
<1>8. out + 1 <= Len(ks) /\ k \in 0 .. packets - 1
  <2>1. Len(ks) \in Nat
    OBVIOUS
  <2>2. out + 1 <= Len(ks) /\ out + 1 \in 1 .. Len(ks)
    BY <1>1, <1>3, <1>6, <2>1
  <2> QED BY <2>2
<1> HIDE DEF k
<1>9. got[1].of = k /\ ReadPast(r, ring, m)
  <2>1. Whole(Head(ring), got) /\ got[1].of = k /\ ReadPast(r, ring, m)
    <3>1. m \in Nat /\ FrameAt(ring, k, 0, m)
      BY <1>7
    <3> HIDE DEF m
    <3> QED BY <1>8, <3>1, FrameRead
  <2> QED BY <2>1
<1>10. r \in Seq(Cell)
  BY ReadTypes
<1>11. /\ Rest(s) \in Seq(Nat) /\ Len(Rest(s)) = Len(s) - 1
       /\ Rest(s)[Len(s) - 1] = s[Len(s)] - s[2]
       /\ s[2] >= 3 /\ Frames(r, Rest(s), out + 1, ks)
  BY <1>1, <1>6, <1>9, <1>10, FramesMove
<1> DEFINE t == Rest(s)
           e == s[Len(s)]
<1>12. t \in Seq(Nat) /\ Len(t) = Len(s) - 1 /\ t[Len(t)] = e - m /\ m >= 3
       /\ Frames(r, t, out + 1, ks)
  BY <1>11
<1> HIDE DEF t
<1>13. m <= e
  <2>1. \A i, j \in 1 .. Len(s) : i <= j => s[i] <= s[j]
    BY <1>1 DEF Frames
  <2>2. 2 \in 1 .. Len(s) /\ Len(s) \in 1 .. Len(s) /\ 2 <= Len(s)
    BY <1>1, <1>6
  <2> QED BY <2>1, <2>2
<1> HIDE DEF m, e
<1>14. Len(r) = Len(ring) - m
  BY <1>9 DEF ReadPast
<1>15. CASE e = Len(ring) /\ out + Len(s) - 1 = Len(ks)
  <2>1. t[Len(t)] = Len(r)
    BY <1>12, <1>14, <1>15
  <2>2. out + 1 + Len(t) - 1 = Len(ks)
    <3> DEFINE l == Len(s)
               x == Len(t)
               y == Len(ks)
    <3>1. l \in Nat /\ x = l - 1 /\ out + l - 1 = y
      BY <1>1, <1>12, <1>15
    <3> HIDE DEF l, x, y
    <3>2. out + 1 + x - 1 = y
      BY <3>1
    <3> QED BY <3>2 DEF x, y
  <2>3. Laid(r, t, out + 1, ks)
    BY <1>12, <2>1, <2>2 DEF Laid
  <2> QED BY <1>8, <1>9, <1>12, <2>3 DEF k
<1>16. CASE e < Len(ring) /\ Stray(ring, e, RingSize - Len(ring))
  <2>1. e \in Nat
    BY <1>1 DEF e
  <2>2. Stray(r, e - m, RingSize - Len(r))
    BY <1>7, <1>9, <1>10, <1>12, <1>13, <1>16, <2>1, StrayMoves
  <2>3. e - m \in Nat /\ e - m < Len(r)
    BY <1>4, <1>7, <1>13, <1>14, <1>16, <2>1
  <2>4. Laid(r, t, out + 1, ks)
    BY <1>10, <1>12, <2>2, <2>3, StrayLaid
  <2> QED BY <1>8, <1>9, <1>12, <2>4 DEF k
<1> QED BY <1>2, <1>15, <1>16 DEF e

LEMMA KeptNumbers ==
  ASSUME NEW q \in Nat, NEW ks \in Seq(0 .. q - 1)
  PROVE  /\ ks \in Seq(Nat) /\ ks \in Seq(0 .. (q + 1) - 1)
         /\ Append(ks, q) \in Seq(0 .. (q + 1) - 1)
<1>1. 0 .. q - 1 \subseteq Nat /\ 0 .. q - 1 \subseteq 0 .. (q + 1) - 1 /\ q \in 0 .. (q + 1) - 1
  OBVIOUS
<1>2. ks \in Seq(Nat)
  BY <1>1, SeqMonotonic
<1> DEFINE S == 0 .. (q + 1) - 1
<1>3. 0 .. q - 1 \subseteq S /\ q \in S
  BY <1>1
<1> HIDE DEF S
<1>4. ks \in Seq(S)
  BY <1>3, SeqMonotonic
<1>5. Append(ks, q) \in Seq(S)
  BY <1>3, <1>4, AppendProperties
<1> QED BY <1>2, <1>4, <1>5 DEF S

LEMMA WriteFits ==
  ASSUME NEW a \in Seq(Cell), NEW w \in Seq(Cell), Len(a) <= RingSize
  PROVE  ring_write(a, w) \in Seq(Cell) /\ Len(ring_write(a, w)) <= RingSize
<1>1. a \o w \in Seq(Cell) /\ Len(a \o w) = Len(a) + Len(w)
  BY Onto
<1>2. Len(a) + Len(w) \in Nat /\ RingSize \in Nat
  BY RingAssumption
<1>3. CASE Len(a) + Len(w) > RingSize
  BY <1>3 DEF ring_write
<1>4. CASE ~(Len(a) + Len(w) > RingSize)
  <2>1. ring_write(a, w) = a \o w
    BY <1>4 DEF ring_write
  <2>2. Len(a \o w) <= RingSize
    BY <1>1, <1>2, <1>4
  <2> QED BY <1>1, <2>1, <2>2
<1> QED BY <1>3, <1>4

LEMMA StoreFits ==
  ASSUME NEW ring \in Seq(Cell), Len(ring) <= RingSize, NEW n \in Lengths, NEW k \in Nat
  PROVE  Stored(ring, n, k) \in Seq(Cell) /\ Len(Stored(ring, n, k)) <= RingSize
<1> DEFINE b == ring_write(ring, Tag(n))
<1>1. b \in Seq(Cell) /\ Len(b) <= RingSize
  BY TagWritten, WriteFits
<1> HIDE DEF b
<1>2. Packet(k, n) \in Seq(Cell)
  <2>1. n \in Nat
    BY Cells
  <2> QED BY <2>1, PacketWritten
<1>3. ring_write(b, Packet(k, n)) \in Seq(Cell) /\ Len(ring_write(b, Packet(k, n))) <= RingSize
  BY <1>1, <1>2, WriteFits
<1> QED BY <1>3 DEF Stored, b

(* The types of the ring.                                                  *)
LEMMA VhciStore ==
  ASSUME VhciTypes, NEW n \in Lengths, host_recv_pkt_cb(n) PROVE VhciTypes'
<1>1. /\ packets' = packets + 1
      /\ UNCHANGED <<packet_receive_callback, main, hci_receive_buffer, framed, delivered>>
      /\ packets \in Nat /\ kept \in Seq(0 .. packets - 1)
      /\ hci_ringbuffer \in Seq(Cell) /\ Len(hci_ringbuffer) <= RingSize
  BY DEF host_recv_pkt_cb, VhciTypes
<1>2. hci_ringbuffer' = hci_ringbuffer \/ hci_ringbuffer' = Stored(hci_ringbuffer, n, packets)
  BY DEF host_recv_pkt_cb, Store, Stored
<1>3. kept' = kept \/ kept' = Append(kept, packets)
  BY DEF host_recv_pkt_cb
<1>4. hci_ringbuffer' \in Seq(Cell) /\ Len(hci_ringbuffer') <= RingSize
  <2>1. /\ Stored(hci_ringbuffer, n, packets) \in Seq(Cell)
        /\ Len(Stored(hci_ringbuffer, n, packets)) <= RingSize
    BY <1>1, StoreFits
  <2> QED BY <1>1, <1>2, <2>1
<1>5. kept' \in Seq(0 .. packets' - 1)
  <2>1. kept \in Seq(0 .. (packets + 1) - 1)
        /\ Append(kept, packets) \in Seq(0 .. (packets + 1) - 1)
    BY <1>1, KeptNumbers
  <2> QED BY <1>1, <1>3, <2>1
<1>6. packets' \in Nat
  BY <1>1
<1>7. /\ main' \in {"idle", "deliver", "pass up"} /\ framed' \in BOOLEAN
      /\ delivered' \in Seq(Nat) /\ hci_receive_buffer' \in Nat
  BY <1>1 DEF VhciTypes
<1> QED BY <1>4, <1>5, <1>6, <1>7 DEF VhciTypes

LEMMA VhciReads ==
  ASSUME VhciTypes, ReadPacket
  PROVE  /\ main = "deliver" /\ hci_ringbuffer # << >> /\ main' = "pass up"
         /\ UNCHANGED <<ctl, packet_receive_callback, packets, kept, delivered>>
         /\ \E rest, n, got :
              /\ Reading(hci_ringbuffer, rest, n, got, hci_ringbuffer')
              /\ framed' = (framed /\ Whole(Head(hci_ringbuffer), got))
              /\ hci_receive_buffer' = IF Whole(Head(hci_ringbuffer), got) THEN got[1].of
                                       ELSE Garbage
<1>1. /\ main = "deliver" /\ hci_ringbuffer # << >> /\ main' = "pass up"
      /\ UNCHANGED <<ctl, packet_receive_callback, packets, kept, delivered>>
  BY DEF ReadPacket
<1> DEFINE rest == SubSeq(hci_ringbuffer, 3, Len(hci_ringbuffer))
<1>2. PICK n \in Lengths_read(Head(hci_ringbuffer), rest) :
        /\ hci_ringbuffer' = SubSeq(rest, n + 1, Len(rest))
        /\ framed' = (framed /\ Whole(Head(hci_ringbuffer), SubSeq(rest, 1, n)))
        /\ hci_receive_buffer' = IF Whole(Head(hci_ringbuffer), SubSeq(rest, 1, n))
                                 THEN SubSeq(rest, 1, n)[1].of ELSE Garbage
  BY DEF ReadPacket
<1> DEFINE got == SubSeq(rest, 1, n)
<1>3. Reading(hci_ringbuffer, rest, n, got, hci_ringbuffer')
  BY <1>2 DEF Reading
<1>4. /\ framed' = (framed /\ Whole(Head(hci_ringbuffer), got))
      /\ hci_receive_buffer' = IF Whole(Head(hci_ringbuffer), got) THEN got[1].of ELSE Garbage
  BY <1>2
<1> HIDE DEF rest, got
<1> QED BY <1>1, <1>3, <1>4

LEMMA VhciRead ==
  ASSUME VhciTypes, ReadPacket PROVE VhciTypes'
<1>1. /\ hci_ringbuffer # << >> /\ main' = "pass up" /\ UNCHANGED <<packets, kept, delivered>>
  BY VhciReads
<1>2. PICK rest, n, got :
        /\ Reading(hci_ringbuffer, rest, n, got, hci_ringbuffer')
        /\ framed' = (framed /\ Whole(Head(hci_ringbuffer), got))
        /\ hci_receive_buffer' = IF Whole(Head(hci_ringbuffer), got) THEN got[1].of ELSE Garbage
  BY VhciReads
<1>3. hci_ringbuffer \in Seq(Cell) /\ Len(hci_ringbuffer) <= RingSize /\ packets \in Nat
  BY DEF VhciTypes
<1>4. /\ Head(hci_ringbuffer) = hci_ringbuffer[1] /\ hci_ringbuffer[1] \in Cell
      /\ hci_ringbuffer' \in Seq(Cell) /\ Len(hci_ringbuffer') <= Len(hci_ringbuffer)
  <2>1. /\ Head(hci_ringbuffer) = hci_ringbuffer[1] /\ hci_ringbuffer[1] \in Cell
    BY <1>1, <1>2, <1>3, ReadTypes
  <2>2. /\ hci_ringbuffer' \in Seq(Cell) /\ Len(hci_ringbuffer') <= Len(hci_ringbuffer)
    BY <1>1, <1>2, <1>3, ReadTypes
  <2> QED BY <2>1, <2>2
<1>5. Len(hci_ringbuffer') <= RingSize
  BY <1>3, <1>4, RingAssumption
<1>6. hci_receive_buffer' \in Nat
  <2>1. Whole(Head(hci_ringbuffer), got) => got[1].of \in Nat
    BY <1>3, <1>4, WholeIs
  <2>2. Garbage \in Nat
    BY RingAssumption DEF Garbage
  <2> QED BY <1>2, <2>1, <2>2
<1>7. framed' \in BOOLEAN
  <2>1. framed \in BOOLEAN
    BY DEF VhciTypes
  <2> QED BY <1>2, <2>1
<1> QED BY <1>1, <1>4, <1>5, <1>6, <1>7 DEF VhciTypes

LEMMA OutIs ==
  ASSUME VhciTypes
  PROVE  /\ Len(delivered) \in Nat /\ Out \in Nat /\ Len(delivered) <= Out
         /\ main = "pass up" => Out = Len(delivered) + 1
         /\ main # "pass up" => Out = Len(delivered)
<1> DEFINE l == Len(delivered)
<1>1. delivered \in Seq(Nat)
  BY DEF VhciTypes
<1>2. l \in Nat
  BY <1>1
<1>3. Out = l + IF main = "pass up" THEN 1 ELSE 0
  BY DEF Out
<1> HIDE DEF l
<1>4. CASE main = "pass up"
  <2>1. Out = l + 1
    BY <1>3, <1>4
  <2>2. Out \in Nat /\ l <= Out
    BY <1>2, <2>1
  <2> QED BY <1>2, <1>4, <2>1, <2>2 DEF l
<1>5. CASE main # "pass up"
  <2>1. Out = l + 0
    BY <1>3, <1>5
  <2>2. Out = l
    BY <1>2, <2>1
  <2>3. Out \in Nat /\ l <= Out
    BY <1>2, <2>2
  <2> QED BY <1>2, <1>5, <2>2, <2>3 DEF l
<1> QED BY <1>4, <1>5

(* Storing leaves what was passed up alone.                                *)
LEMMA VhciStored ==
  ASSUME VhciTypes, Passing, RingLaid, NEW n \in Lengths, host_recv_pkt_cb(n)
  PROVE  Passing' /\ RingLaid'
<1>1. /\ UNCHANGED <<main, hci_receive_buffer, delivered>>
      /\ packets \in Nat /\ kept \in Seq(0 .. packets - 1)
      /\ hci_ringbuffer \in Seq(Cell) /\ Len(hci_ringbuffer) <= RingSize
  BY DEF host_recv_pkt_cb, VhciTypes
<1>2. Len(delivered) \in Nat /\ Out \in Nat
  BY OutIs
<1>3. kept \in Seq(Nat) /\ Len(kept) \in Nat
  BY <1>1, KeptNumbers
<1>4. Out' = Out /\ Out \in Nat
  BY <1>1, <1>2 DEF Out
<1>5. PICK s \in Seq(Nat) : Laid(hci_ringbuffer, s, Out, kept)
  BY DEF RingLaid
<1> DEFINE ring == hci_ringbuffer
           free == RingSize - Len(ring)
<1>6. free \in Nat
  BY <1>1, RingAssumption
<1>7. n \in Nat
  BY Cells
<1>8. CASE bytes_free < n
  <2>1. UNCHANGED <<hci_ringbuffer, kept>>
    BY <1>8 DEF host_recv_pkt_cb
  <2> QED BY <1>1, <1>4, <1>5, <2>1 DEF Passing, RingLaid
<1>9. CASE ~(bytes_free < n)
  <2>1. /\ hci_ringbuffer' = Stored(ring, n, packets)
        /\ kept' = IF free < n + 2 THEN kept ELSE Append(kept, packets)
    BY <1>9 DEF host_recv_pkt_cb, Store, Stored, bytes_free
  <2>2. free >= n
    BY <1>6, <1>7, <1>9 DEF bytes_free
  <2> HIDE DEF free
  <2>3. /\ free >= n + 2 => Stored(ring, n, packets) = (ring \o Tag(n)) \o Packet(packets, n)
        /\ free < n + 2 /\ free >= 2 => Stored(ring, n, packets) = ring \o Tag(n)
        /\ free < 2 => n = 1 /\ free = 1 /\ Stored(ring, n, packets) = ring \o Packet(packets, 1)
    <3>1. free = RingSize - Len(ring)
      BY DEF free
    <3> QED BY <1>1, <1>6, <2>2, <3>1, StoredIs
  <2>4. CASE free >= n + 2
    <3>1. ~(free < n + 2)
      BY <1>6, <1>7, <2>4
    <3>2. hci_ringbuffer' = (ring \o Tag(n)) \o Packet(packets, n)
      BY <2>1, <2>3, <2>4
    <3>3. \E t \in Seq(Nat) : Laid(hci_ringbuffer', t, Out, Append(kept, packets))
      BY <1>1, <1>3, <1>4, <1>5, <3>2, WholeStored
    <3>4. kept' = Append(kept, packets)
      BY <2>1, <3>1
    <3>5. RingLaid'
      BY <1>4, <3>3, <3>4 DEF RingLaid
    <3>6. Len(kept') = Len(kept) + 1 /\ \A i \in 1 .. Len(kept) : kept'[i] = kept[i]
      BY <1>1, <1>3, <3>4, Appended
    <3>7. Out <= Len(kept) /\ Len(delivered) <= Out /\ (main = "pass up" => Out \in 1 .. Len(kept))
      <4>1. Out <= Len(kept)
        BY DEF Passing
      <4>2. Len(delivered) <= Out
        BY OutIs
      <4>3. ASSUME main = "pass up" PROVE Out \in 1 .. Len(kept)
        <5>1. Out = Len(delivered) + 1
          BY <4>3, OutIs
        <5> QED BY <1>3, <1>2, <4>1, <5>1
      <4> QED BY <4>1, <4>2, <4>3
    <3>8. Out' <= Len(kept')
      <4>1. Len(kept') = Len(kept) + 1 /\ Out <= Len(kept)
        BY <3>6, <3>7
      <4>2. Out <= Len(kept) + 1
        BY <1>3, <1>2, <4>1
      <4> QED BY <1>4, <4>1, <4>2
    <3>9. ASSUME NEW i \in 1 .. Len(delivered) PROVE delivered[i] = kept'[i]
      <4>1. i \in 1 .. Len(kept)
        <5>1. Len(delivered) <= Out /\ Out <= Len(kept)
          BY <3>7
        <5> QED BY <1>3, <1>2, <5>1
      <4> QED BY <3>6, <4>1 DEF Passing
    <3>10. main = "pass up" => hci_receive_buffer = kept'[Out]
      BY <3>6, <3>7 DEF Passing
    <3>11. Passing'
      BY <1>1, <1>4, <3>8, <3>9, <3>10 DEF Passing
    <3> QED BY <3>5, <3>11
  <2>5. CASE free < n + 2
    <3>1. kept' = kept
      BY <2>1, <2>5
    <3>2. \E t \in Seq(Nat) : Laid(hci_ringbuffer', t, Out, kept)
      <4>1. CASE free >= 2
        <5>1. hci_ringbuffer' = ring \o Tag(n)
          BY <2>1, <2>3, <2>5, <4>1
        <5>2. RingSize - Len(ring) < n + 2 /\ RingSize - Len(ring) >= 2
          BY <2>5, <4>1 DEF free
        <5> QED BY <1>1, <1>3, <1>4, <1>5, <5>1, <5>2, TagStored
      <4>2. CASE free < 2
        <5>1. hci_ringbuffer' = ring \o Packet(packets, 1)
          BY <2>1, <2>3, <4>2
        <5>2. RingSize - Len(ring) = 1
          BY <2>3, <4>2 DEF free
        <5> QED BY <1>1, <1>3, <1>4, <1>5, <5>1, <5>2, ByteStored
      <4> QED BY <1>6, <4>1, <4>2
    <3>3. RingLaid' /\ Passing'
      BY <1>1, <1>4, <3>1, <3>2 DEF RingLaid, Passing
    <3> QED BY <3>3
  <2>6. free >= n + 2 \/ free < n + 2
    BY <1>6, <1>7
  <2> QED BY <2>4, <2>5, <2>6
<1> QED BY <1>8, <1>9

(* What is read is the next one to be passed up, or the frames are lost.   *)
LEMMA VhciTaken ==
  ASSUME VhciTypes, Passing, RingLaid, ReadPacket, framed'
  PROVE  Passing' /\ RingLaid'
<1>1. /\ main = "deliver" /\ hci_ringbuffer # << >> /\ main' = "pass up"
      /\ UNCHANGED <<packets, kept, delivered>>
  BY VhciReads
<1>2. PICK rest, n, got :
        /\ Reading(hci_ringbuffer, rest, n, got, hci_ringbuffer')
        /\ framed' = (framed /\ Whole(Head(hci_ringbuffer), got))
        /\ hci_receive_buffer' = IF Whole(Head(hci_ringbuffer), got) THEN got[1].of ELSE Garbage
  BY VhciReads
<1>3. Whole(Head(hci_ringbuffer), got) /\ hci_receive_buffer' = got[1].of
  BY <1>2
<1>4. /\ hci_ringbuffer \in Seq(Cell) /\ Len(hci_ringbuffer) <= RingSize /\ packets \in Nat
      /\ kept \in Seq(0 .. packets - 1)
  BY DEF VhciTypes
<1>5. kept \in Seq(Nat)
  BY <1>4, KeptNumbers
<1>6. Out = Len(delivered) /\ Out' = Out + 1 /\ Out \in Nat
  <2>1. Out = Len(delivered) /\ Out \in Nat
    BY <1>1, OutIs
  <2>2. Out' = Len(delivered) + 1
    BY <1>1 DEF Out
  <2> QED BY <2>1, <2>2
<1>7. PICK s \in Seq(Nat) : Laid(hci_ringbuffer, s, Out, kept)
  BY DEF RingLaid
<1> DEFINE ring == hci_ringbuffer
           out == Out
<1>8. out \in Nat /\ Laid(ring, s, out, kept)
  BY <1>6, <1>7
<1> HIDE DEF out
<1>9. /\ out + 1 <= Len(kept) /\ got[1].of = kept[out + 1]
       /\ \E t \in Seq(Nat) : Laid(hci_ringbuffer', t, out + 1, kept)
  BY <1>1, <1>2, <1>3, <1>4, <1>5, <1>8, FirstRead
<1>10. /\ Out + 1 <= Len(kept) /\ got[1].of = kept[Out + 1]
      /\ \E t \in Seq(Nat) : Laid(hci_ringbuffer', t, Out + 1, kept)
  BY <1>9 DEF out
<1>11. RingLaid'
  BY <1>1, <1>6, <1>10 DEF RingLaid
<1>12. Passing'
  BY <1>1, <1>3, <1>6, <1>10 DEF Passing
<1> QED BY <1>11, <1>12

LEMMA VhciPassed ==
  ASSUME VhciTypes, Passing, RingLaid, PassUp PROVE Passing' /\ RingLaid'
<1>1. /\ main = "pass up" /\ main' = "deliver"
      /\ delivered' = Append(delivered, hci_receive_buffer)
      /\ UNCHANGED <<hci_ringbuffer, kept>>
      /\ delivered \in Seq(Nat) /\ hci_receive_buffer \in Nat
  BY DEF PassUp, VhciTypes
<1>2. /\ Len(delivered') = Len(delivered) + 1
      /\ \A i \in 1 .. Len(delivered) : delivered'[i] = delivered[i]
      /\ delivered'[Len(delivered) + 1] = hci_receive_buffer
  BY <1>1, Appended
<1>3. Len(delivered) \in Nat /\ Out = Len(delivered) + 1
  BY <1>1, OutIs
<1>4. Out = Len(delivered) + 1 /\ Out' = Out
  <2>1. Out' = Len(delivered') + 0
    BY <1>1 DEF Out
  <2>2. Out' = (Len(delivered) + 1) + 0
    BY <1>2, <2>1
  <2> QED BY <1>3, <2>2
<1>5. ASSUME NEW i \in 1 .. Len(delivered') PROVE delivered'[i] = kept[i]
  <2>1. i \in 1 .. Len(delivered) \/ i = Len(delivered) + 1
    BY <1>2, <1>3
  <2> QED BY <1>1, <1>2, <1>4, <2>1 DEF Passing
<1>6. Passing'
  BY <1>1, <1>4, <1>5 DEF Passing
<1>7. RingLaid'
  BY <1>1, <1>4 DEF RingLaid
<1> QED BY <1>6, <1>7

LEMMA VhciFrame ==
  ASSUME VhciInv,
         UNCHANGED <<hci_ringbuffer, hci_receive_buffer, framed, packets, kept, delivered>>,
         main' \in {"idle", "deliver", "pass up"}, main' = "pass up" <=> main = "pass up"
  PROVE  VhciInv'
<1>1. Out' = Out
  BY DEF Out
<1>2. VhciTypes'
  BY DEF VhciInv, VhciTypes
<1>3. framed => Passing' /\ RingLaid'
  BY <1>1 DEF VhciInv, Passing, RingLaid
<1> QED BY <1>2, <1>3 DEF VhciInv

LEMMA VhciStep == VhciInv /\ [VhciNext]_vhciVars => VhciInv'
<1> SUFFICES ASSUME VhciInv, [VhciNext]_vhciVars PROVE VhciInv'
  OBVIOUS
<1>1. VhciTypes /\ main \in {"idle", "deliver", "pass up"} /\ (framed => Passing /\ RingLaid)
  BY DEF VhciInv, VhciTypes
<1>2. ASSUME NEW n \in Lengths, host_recv_pkt_cb(n) PROVE VhciInv'
  <2>1. framed' = framed
    BY <1>2 DEF host_recv_pkt_cb
  <2> QED BY <1>1, <1>2, <2>1, VhciStore, VhciStored DEF VhciInv
<1>3. CASE Enqueue
  BY <1>1, <1>3, VhciFrame DEF Enqueue
<1>4. CASE CallbackRuns
  BY <1>1, <1>4, VhciFrame DEF CallbackRuns
<1>5. CASE ReadPacket
  <2>1. framed' => framed
    BY <1>1, <1>5, VhciReads
  <2> QED BY <1>1, <1>5, <2>1, VhciRead, VhciTaken DEF VhciInv
<1>6. CASE PassUp
  <2>1. framed' = framed
    BY <1>6 DEF PassUp
  <2>2. VhciTypes'
    <3>1. Append(delivered, hci_receive_buffer) \in Seq(Nat)
      BY <1>1, Appended DEF VhciTypes
    <3> QED BY <1>1, <1>6, <3>1 DEF PassUp, VhciTypes
  <2> QED BY <1>1, <1>6, <2>1, <2>2, VhciPassed DEF VhciInv
<1>7. CASE LoopEnds
  BY <1>1, <1>7, VhciFrame DEF LoopEnds
<1>8. CASE UNCHANGED vhciVars
  BY <1>1, <1>8, VhciFrame DEF vhciVars
<1> QED BY <1>2, <1>3, <1>4, <1>5, <1>6, <1>7, <1>8 DEF VhciNext

LEMMA VhciStart == VhciInit => VhciInv
<1> SUFFICES ASSUME VhciInit PROVE VhciInv
  OBVIOUS
<1>1. /\ hci_ringbuffer = << >> /\ main = "idle" /\ hci_receive_buffer = Garbage
      /\ framed = TRUE /\ packets = 0 /\ kept = << >> /\ delivered = << >>
  BY DEF VhciInit
<1>2. Garbage \in Nat /\ RingSize \in Nat
  BY RingAssumption DEF Garbage
<1>3. VhciTypes
  BY <1>1, <1>2 DEF VhciTypes
<1>4. Out = 0
  BY <1>1 DEF Out
<1>5. Passing
  BY <1>1, <1>4 DEF Passing
<1>6. << 0 >> \in Seq(Nat) /\ Laid(hci_ringbuffer, << 0 >>, 0, kept)
  BY <1>1 DEF Laid, Frames
<1>7. RingLaid
  BY <1>4, <1>6 DEF RingLaid
<1> QED BY <1>3, <1>5, <1>7 DEF VhciInv

LEMMA VhciImplies == VhciInv => PassedUpInOrder
<1> SUFFICES ASSUME VhciInv, framed PROVE Seqs!IsPrefix(delivered, kept)
  BY DEF PassedUpInOrder
<1>1. /\ Passing /\ delivered \in Seq(Nat) /\ kept \in Seq(0 .. packets - 1) /\ packets \in Nat
  BY DEF VhciInv, VhciTypes
<1>2. kept \in Seq(Nat)
  BY <1>1, KeptNumbers
<1>3. Len(delivered) \in Nat /\ Len(kept) \in Nat /\ Len(delivered) <= Len(kept)
  <2>1. Len(delivered) \in Nat /\ Out \in Nat /\ Len(delivered) <= Out
    BY OutIs DEF VhciInv
  <2>2. Out <= Len(kept)
    BY <1>1 DEF Passing
  <2>3. Len(kept) \in Nat
    BY <1>2
  <2> QED BY <2>1, <2>2, <2>3
<1> DEFINE l == Len(delivered)
           d == SubSeq(kept, 1, l)
<1>4. d \in Seq(Nat) /\ Len(d) = l /\ \A i \in 1 .. l : d[i] = kept[i]
  BY <1>2, <1>3, Taken
<1> HIDE DEF d
<1>5. d = delivered
  <2>1. Len(d) = Len(delivered) /\ \A i \in 1 .. Len(d) : d[i] = delivered[i]
    BY <1>1, <1>4 DEF Passing
  <2> QED BY <1>1, <1>4, <2>1, SeqEqual
<1> QED BY <1>3, <1>5 DEF Seqs!IsPrefix, d

(* hci_transport_esp32_vhci.c:134-193: as long as every tag the ring is    *)
(* read at has its packet, the packets that were stored whole are passed   *)
(* up whole, in their order, each once, whatever is dropped in between and *)
(* whatever a tag without its packet leaves behind it.                     *)
THEOREM PassedRight == VhciSpec => []PassedUpInOrder
BY VhciStart, VhciStep, VhciImplies, PTL DEF VhciSpec
=============================================================================
