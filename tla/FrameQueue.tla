----------------------------- MODULE FrameQueue -----------------------------
(***************************************************************************)
(* The outbound queue as the broker's model has it: the operators of       *)
(* Outbox as a state machine.                                              *)
(***************************************************************************)
EXTENDS Outbox

VARIABLES q, got

vars == <<q, got>>

Init == q = <<>> /\ got = None

Puts(packet) ==
  /\ q' = QUEUE_Puts(q, <<Publication(None, packet)>>)
  /\ UNCHANGED got

Gets ==
  /\ got' = IF CanGet(q) THEN Head(FromNextFrame(q)).data ELSE None
  /\ q' = AfterGet(q)

Next == (\E packet \in Payload : Puts(packet)) \/ Gets

Spec == Init /\ [][Next]_vars
=============================================================================
