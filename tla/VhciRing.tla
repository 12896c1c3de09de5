------------------------------ MODULE VhciRing ------------------------------
(***************************************************************************)
(* hci_transport_esp32_vhci.c: the controller's task stores packets in a   *)
(* ring buffer, the run loop's thread takes them out and delivers them,    *)
(* and in the other direction waits for the controller to take one more.   *)
(* A packet of n bytes is <<k, 1>> .. <<k, n>> behind the two bytes of its *)
(* length tag.                                                             *)
(***************************************************************************)
EXTENDS Naturals, Sequences
Seqs == INSTANCE SequencesExt

CONSTANTS RingSize, Lengths,   \* bytes of the ring; lengths of packets
          MaxPackets           \* bound: packets the controller hands over

ASSUME RingAssumption == RingSize \in Nat /\ Lengths \subseteq Nat \ {0} /\ MaxPackets \in Nat

VARIABLES
  hci_ringbuffer,          \* bytes of tags and packets
  ctl,                     \* the controller's task: "idle", "enqueue"
  packet_receive_callback, \* on the run loop's list
  main,                    \* the run loop: "idle", "deliver", "pass up"
  hci_receive_buffer,      \* the packet it has read, or Garbage
  framed,                  \* tags are read where tags were written
  packets, kept, delivered \* ghosts: handed over; stored whole; passed up

vhciVars == <<hci_ringbuffer, ctl, packet_receive_callback, main,
              hci_receive_buffer, framed, packets, kept, delivered>>

Garbage == MaxPackets
Tag(n) == <<[tag |-> n], [tag |-> n]>>
Packet(k, n) == [i \in 1 .. n |-> [of |-> k, byte |-> i]]

VhciInit ==
  /\ hci_ringbuffer = << >> /\ ctl = "idle"
  /\ packet_receive_callback = FALSE /\ main = "idle" /\ hci_receive_buffer = Garbage
  /\ framed = TRUE
  /\ packets = 0 /\ kept = << >> /\ delivered = << >>

bytes_free == RingSize - Len(hci_ringbuffer)

\* btstack_ring_buffer_write(): all of it, or nothing.
ring_write(ring, bytes) ==
  IF Len(ring) + Len(bytes) > RingSize THEN ring ELSE ring \o bytes

Store(k, n) == ring_write(ring_write(hci_ringbuffer, Tag(n)), Packet(k, n))

\* Mutant: with no room for a packet the ring is emptied for it.
host_recv_pkt_cb_drop_old(n) ==
  /\ ctl = "idle" /\ packets < MaxPackets
  /\ packets' = packets + 1
  /\ hci_ringbuffer' = IF bytes_free < n + 2
                       THEN ring_write(ring_write(<< >>, Tag(n)), Packet(packets, n))
                       ELSE Store(packets, n)
  /\ kept' = Append(kept, packets) /\ ctl' = "enqueue"
  /\ UNCHANGED <<packet_receive_callback, main, hci_receive_buffer, framed, delivered>>

\* host_recv_pkt_cb() under the mutex; a packet that does not fit is dropped.
host_recv_pkt_cb(n) ==
  /\ ctl = "idle" /\ packets < MaxPackets
  /\ packets' = packets + 1
  /\ IF bytes_free < n
     THEN UNCHANGED <<hci_ringbuffer, ctl, kept>>
     ELSE /\ hci_ringbuffer' = Store(packets, n)
          /\ kept' = IF bytes_free < n + 2 THEN kept ELSE Append(kept, packets)
          /\ ctl' = "enqueue"
  /\ UNCHANGED <<packet_receive_callback, main, hci_receive_buffer, framed, delivered>>

\* btstack_run_loop_execute_on_main_thread(), behind the mutex.
Enqueue ==
  /\ ctl = "enqueue" /\ ctl' = "idle"
  /\ packet_receive_callback' = TRUE
  /\ UNCHANGED <<hci_ringbuffer, main, hci_receive_buffer, framed, packets, kept,
                 delivered>>

CallbackRuns ==
  /\ main = "idle" /\ packet_receive_callback
  /\ packet_receive_callback' = FALSE /\ main' = "deliver"
  /\ UNCHANGED <<hci_ringbuffer, ctl, hci_receive_buffer, framed, packets, kept,
                 delivered>>

\* What a read of the ring finds: how many bytes, and whether they are the
\* packet of the tag before them.  A length read from bytes that are no tag is
\* any length; a read is cut off at the end of what is there.
Lengths_read(tag, rest) ==
  IF "tag" \in DOMAIN tag THEN {IF tag.tag <= Len(rest) THEN tag.tag ELSE Len(rest)}
  ELSE 0 .. Len(rest)
Whole(tag, bytes) ==
  /\ "tag" \in DOMAIN tag /\ Len(bytes) = tag.tag
  /\ \E k \in 0 .. packets - 1 : bytes = Packet(k, tag.tag)

\* One round of transport_deliver_packets() under the mutex.
ReadPacket ==
  /\ main = "deliver" /\ hci_ringbuffer # << >>
  /\ LET tag == Head(hci_ringbuffer)
         rest == SubSeq(hci_ringbuffer, 3, Len(hci_ringbuffer))
     IN  \E n \in Lengths_read(tag, rest) :
           LET bytes == SubSeq(rest, 1, n)
           IN  /\ hci_ringbuffer' = SubSeq(rest, n + 1, Len(rest))
               /\ framed' = (framed /\ Whole(tag, bytes))
               /\ hci_receive_buffer' = IF Whole(tag, bytes) THEN bytes[1].of ELSE Garbage
  /\ main' = "pass up"
  /\ UNCHANGED <<ctl, packet_receive_callback, packets, kept, delivered>>

\* transport_packet_handler(), without the mutex.
PassUp ==
  /\ main = "pass up" /\ main' = "deliver"
  /\ delivered' = Append(delivered, hci_receive_buffer)
  /\ UNCHANGED <<hci_ringbuffer, ctl, packet_receive_callback, hci_receive_buffer,
                 framed, packets, kept>>

\* Mutant: one packet for each time the callback runs.
LoopEnds_after_one ==
  /\ main = "deliver" /\ (delivered # << >> \/ hci_ringbuffer = << >>)
  /\ main' = "idle"
  /\ UNCHANGED <<hci_ringbuffer, ctl, packet_receive_callback, hci_receive_buffer,
                 framed, packets, kept, delivered>>

LoopEnds ==
  /\ main = "deliver" /\ hci_ringbuffer = << >>
  /\ main' = "idle"
  /\ UNCHANGED <<hci_ringbuffer, ctl, packet_receive_callback, hci_receive_buffer,
                 framed, packets, kept, delivered>>

VhciNext ==
  \/ \E n \in Lengths : host_recv_pkt_cb(n)
  \/ Enqueue \/ CallbackRuns \/ ReadPacket \/ PassUp \/ LoopEnds

VhciFairness ==
  /\ WF_vhciVars(Enqueue)
  /\ WF_vhciVars(CallbackRuns \/ ReadPacket \/ PassUp \/ LoopEnds)

-----------------------------------------------------------------------------
(* hci_transport_esp32_vhci.c:134-193: the packets that were stored whole are
   passed up whole, in their order, each once - as long as every tag in the
   ring has its packet. *)
PassedUpInOrder == framed => Seqs!IsPrefix(delivered, kept)

(* hci_transport_esp32_vhci.c:161, 182: a stored packet does not wait in the
   ring for another one to come. *)
RingIsEmptied == hci_ringbuffer # << >> ~> hci_ringbuffer = << >>
=============================================================================
