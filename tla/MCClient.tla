------------------------------ MODULE MCClient ------------------------------
(***************************************************************************)
(* Instances of Client for TLC: what the broker may send in one piece, the *)
(* answers to CONNECT, publications with a reply and without, one behind a *)
(* publication and one, not looked at, behind an acknowledgement.          *)
(***************************************************************************)
EXTENDS Client

MCSegment == {<<"CONNACK">>, <<"REFUSED">>, <<"PUBLISH0", "PUBLISH1">>, <<"ACK", "PUBLISH1">>}
=============================================================================
