------------------------------ MODULE Content ------------------------------
(***************************************************************************)
(* What MQTT messages are about, shared by the modules of the broker.      *)
(***************************************************************************)
CONSTANTS
  None,        \* the absence of a value: NULL, a free entry, no event
  Topic,       \* topic names
  Payload,     \* non-empty message contents
  NoPayload    \* the content of length 0

ASSUME ContentAssumption == None \notin Topic /\ NoPayload \notin Payload

Data == Payload \cup {NoPayload}
=============================================================================
