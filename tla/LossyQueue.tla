----------------------------- MODULE LossyQueue -----------------------------
(***************************************************************************)
(* What a queue of packets may do at all: QUEUE_Puts stores a packet or    *)
(* says that it did not, QUEUE_Gets delivers the oldest stored packet.     *)
(* Something of a packet that was not stored may be left in the queue; it  *)
(* is never delivered.                                                     *)
(***************************************************************************)
EXTENDS Content, Naturals, Sequences

VARIABLES
  q,     \* the frames in the queue, oldest first
  ret,   \* the result of the last put
  got    \* the result of the last get

vars == <<q, ret, got>>

Stored(packet) == [type |-> "PUBLISH", topic |-> None, data |-> packet]
Remains == [type |-> "CUT", topic |-> None, data |-> None]

Init == q = <<>> /\ ret = "stored" /\ got = None

Puts(packet) ==
  /\ \/ ret' = "stored" /\ q' = Append(q, Stored(packet))
     \/ ret' = "full" /\ q' \in {q, Append(q, Remains)}
  /\ UNCHANGED got

(* The oldest packet, or none; what lies before it goes.                   *)
Gets ==
  /\ \/ \E n \in DOMAIN q :
          /\ q[n].type = "PUBLISH" /\ \A i \in 1..(n - 1) : q[i] = Remains
          /\ got' = q[n].data
          /\ q' = SubSeq(q, n + 1, Len(q))
     \/ /\ \A i \in DOMAIN q : q[i] = Remains
        /\ got' = None /\ q' = <<>>
  /\ UNCHANGED ret

Next == (\E packet \in Payload : Puts(packet)) \/ Gets

Spec == Init /\ [][Next]_vars
=============================================================================
