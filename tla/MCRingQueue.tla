---------------------------- MODULE MCRingQueue ----------------------------
(***************************************************************************)
(* Instances of RingQueue for TLC.  The packets hold each of the bytes     *)
(* that are escaped and a byte that an escape produces.                    *)
(***************************************************************************)
EXTENDS RingQueue

(* Frames of four bytes, two of them with an escape.                       *)
EqualPackets == {<<ESC>>, <<BEG>>, <<65, 93>>}

(* Frames of three, five and six bytes.                                    *)
MixedPackets == {<<65>>, <<BEG, 66>>, <<ESC, END>>}
=============================================================================
