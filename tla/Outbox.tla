------------------------------- MODULE Outbox -------------------------------
(***************************************************************************)
(* What the rest of the broker may assume of the outbound queue of one     *)
(* client (queue.c over proto.c over ringbuf_mqtt.c), in frames rather     *)
(* than bytes.  RingQueue.tla is the same queue byte by byte.              *)
(*                                                                         *)
(* Frames are taken to be of one size.  A ring that holds QueueCap of them *)
(* may have a few bytes to spare (Slack): a frame that does not fit is     *)
(* then written up to the last free byte and left there, a CUT frame.  A   *)
(* CUT frame occupies exactly the spare bytes, so there is at most one; it *)
(* is never delivered, because the parser starts afresh at the next frame. *)
(***************************************************************************)
EXTENDS Content, Naturals, Sequences

CONSTANTS
  QueueCap,   \* whole frames the ring of one client can hold
  Slack       \* TRUE when the ring has bytes to spare beyond QueueCap frames

ASSUME QueueAssumption == QueueCap \in Nat \ {0} /\ Slack \in BOOLEAN

(* An outbound MQTT packet: its type and, for a publication, its content.  *)
(* RETAINED is a PUBLISH with the retain bit, REFUSED a CONNACK with a     *)
(* return code other than 0.                                               *)
Packet(type) == [type |-> type, topic |-> None, data |-> None]
Publication(topic, data) == [type |-> "PUBLISH", topic |-> topic, data |-> data]
Retained(topic, data) == [type |-> "RETAINED", topic |-> topic, data |-> data]

CUT == Packet("CUT")

HasCut(q) == \E i \in DOMAIN q : q[i] = CUT

(* Whole frames waiting in q, and how many more fit.                       *)
Frames(q) == IF HasCut(q) THEN Len(q) - 1 ELSE Len(q)
Room(q) == QueueCap - Frames(q)

OneCut(q) == \A i, j \in DOMAIN q : q[i] = CUT /\ q[j] = CUT => i = j

(* The queues for the frames F.                                            *)
QueueOf(F) == {q \in Seq(F \cup {CUT}) : Room(q) \in 0..QueueCap /\ OneCut(q)}

(* What the broker queues for a client.                                    *)
Frame == [type : {"CONNACK", "REFUSED", "SUBACK", "UNSUBACK", "PINGRESP",
                  "PUBLISH", "RETAINED"},
          topic : Topic \cup {None}, data : Data \cup {None}]
Queue == QueueOf(Frame)

(* (Mutant: the ring overwrites instead of refusing.)                      *)
PutsUnbounded(q, ms) == q \o ms

(* QUEUE_Puts called for the packets ms one after the other: the first     *)
(* Room(q) are stored, the next one is cut, the others leave no trace.     *)
QUEUE_Puts(q, ms) ==
  IF Len(ms) <= Room(q)
  THEN q \o ms
  ELSE LET stored == q \o SubSeq(ms, 1, Room(q))
       IN  IF Slack /\ ~HasCut(q) THEN Append(stored, CUT) ELSE stored

QUEUE_IsEmpty(q) == q = <<>>

(* QUEUE_Gets reads over a cut frame; it fails when no whole frame follows *)
(* and has then emptied the ring.                                          *)
FromNextFrame(q) == IF q # <<>> /\ Head(q) = CUT THEN Tail(q) ELSE q
CanGet(q) == FromNextFrame(q) # <<>>
AfterGet(q) == IF CanGet(q) THEN Tail(FromNextFrame(q)) ELSE <<>>
=============================================================================
