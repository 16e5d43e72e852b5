---------------------------- MODULE MCRecvBuffer ----------------------------
(***************************************************************************)
(* Instances of RecvBuffer for TLC.                                        *)
(***************************************************************************)
EXTENDS RecvBuffer

(* The lengths of messages of 2 and of 8 bytes; of 13 bytes, which         *)
(* message_length cuts to 1, and of 12, which it cuts to 0; of 20, which   *)
(* an int does not hold; and of 6 with more digits than it is shifted for. *)
MCHeaders ==
  {<<0>>, <<2, 2, 1>>, <<2, 2, 2, 1>>, <<3, 3, 3, 0>>, <<3, 3, 3, 1>>, <<2, 2, 2, 2, 0>>}
=============================================================================
