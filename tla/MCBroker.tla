------------------------------ MODULE MCBroker ------------------------------
(***************************************************************************)
(* Instances of Broker for TLC: the message sets that the runs choose      *)
(* from.  One topic and one filter that matches it are enough for the      *)
(* properties, which never compare topics; the tables, the queues and the  *)
(* number of clients are at the smallest size at which they can fill.      *)
(***************************************************************************)
EXTENDS Broker, TLC

CONSTANTS t1, sys, f1, bad, d1, idA

MCTopic == {t1, sys}
MCDollar == {sys}
MCFilter == {f1, bad}
MCBadFilter == {bad}
MCMatch == {<<f1, t1>>}
MCPayload == {d1}
MCClientId == {idA}

Connect(id, will, verdict) ==
  [type |-> "CONNECT", id |-> id, login |-> FALSE, will |-> will, verdict |-> verdict]
Subscribe(fs) == [type |-> "SUBSCRIBE", filters |-> fs]
Unsubscribe(fs) == [type |-> "UNSUBSCRIBE", filters |-> fs]
Publish(t, d, r) == [type |-> "PUBLISH", topic |-> t, data |-> d, retain |-> r]
Plain(type) == [type |-> type]
LastWill == [topic |-> t1, data |-> d1, retain |-> TRUE]
SysWill == [LastWill EXCEPT !.topic = sys]

(* Sessions that come to their end in every way, with and without a will.  *)
WillInput ==
  {Connect(NulId, None, "accepted"), Connect(idA, LastWill, "accepted"),
   Connect(idA, LastWill, "no_mem"), Connect(idA, LastWill, "malformed"),
   Subscribe(<<f1>>), Plain("OVERRUN"),
   Plain("DISCONNECT"), Plain("MALFORMED")}

(* One name, claimed again and again.                                      *)
TakeoverInput ==
  {Connect(idA, LastWill, "accepted"), Connect(idA, None, "accepted"),
   Connect(ZeroLenId, None, "accepted"), Subscribe(<<f1>>)}

(* Traffic between clients, with several messages in one packet.           *)
TrafficInput ==
  {Connect(ZeroLenId, None, "accepted"), Connect(ZeroLenId, None, "unauthorized"),
   Subscribe(<<bad, f1>>), Unsubscribe({f1}),
   Publish(t1, d1, TRUE), Publish(t1, NoPayload, TRUE),
   Plain("PINGREQ"), Plain("PARTIAL"), Plain("DISCONNECT")}

(* What a client gets wrong, and the sessions that go on beside it.        *)
FaultyInput ==
  {Connect(ZeroLenId, None, "accepted"), Connect(ZeroLenId, None, "bad_header"),
   Connect(idA, SysWill, "accepted"), Subscribe(<<f1>>), Publish(sys, d1, FALSE),
   Publish(t1, d1, FALSE), Plain("MALFORMED"), Plain("TOO_LONG"), Plain("IGNORED")}
=============================================================================
