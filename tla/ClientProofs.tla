---------------------------- MODULE ClientProofs ----------------------------
(***************************************************************************)
(* That the client is consistent, for every set of timeouts, every ring    *)
(* and whatever the broker sends.                                          *)
(***************************************************************************)
EXTENDS Client, OutboxProofs, SequenceProofs

ClientFrame == {Packet(t) : t \in Outbound}

(* Until a packet is late it is the only one.  What keeps it so is         *)
(* arithmetic: a send sets sendTimeout and clears keepAliveTick, so that   *)
(* neither the next packet nor a keepalive goes before it is late.         *)
Alone(k) ==
  /\ k.flight = <<k.pending>>
  /\ k.sendTimeout + k.age >= SendTicks
  /\ k.connState = "MQTT_DATA" => k.keepAliveTick <= k.age
  /\ k.connState # "MQTT_KEEPALIVE_SEND"

Paced(k) ==
  /\ k.flight = <<>> => k.age = 0
  /\ k.flight # <<>> => k.link \in {"up", "closing"}
  /\ k.flight # <<>> /\ k.age < Late => Alone(k)
  /\ k.connState = "MQTT_DATA" => k.keepAliveTick <= KeepAliveDue
  /\ k.connState = "MQTT_CONNECT_SENDING" \/ k.link = "opening" => k.keepAliveTick = 0

(* A session has a connection, and only a deleted client is MQTT_DELETED.  *)
Linked(k) ==
  /\ k.connState \in {"MQTT_CONNECT_SENDING", "MQTT_DATA", "MQTT_KEEPALIVE_SEND"}
       => k.link \in {"up", "closing"}
  /\ k.connState = "MQTT_DELETED" => k.use = "deleted"

(* The timer runs, and a connection is due, only for a program that has    *)
(* asked for it.                                                           *)
Wanted(k) == (k.timer => k.wanted) /\ (k.connState = "TCP_RECONNECT" => k.wanted)

Good(k) == k \in Memory /\ Paced(k) /\ Linked(k) /\ Wanted(k)

EventTyped == ev \in {"none", "own", "late", "other"} /\ lost \in BOOLEAN

IInv == Good(cl) /\ EventTyped /\ TaskCovered

-----------------------------------------------------------------------------
(* The queue, the replies and the half of the keepalive.                   *)

LEMMA CutIsNoClientFrame == CUT \notin ClientFrame
BY DEF ClientFrame, CUT, Packet, Outbound

LEMMA ClientPacketTyped ==
  ASSUME NEW t \in Outbound
  PROVE  Packet(t) \in ClientFrame
BY DEF ClientFrame

LEMMA TicksAreNatural ==
  /\ KeepAliveDue \in Nat
  /\ SendTicks \in Nat /\ ReconnectTicks \in Nat
BY ClientAssumption DEF KeepAliveDue

(* A packet is late by the time sendTimeout has run down, and by the time  *)
(* a keepalive is due.                                                     *)
LEMMA LateInTime ==
  Late \in Nat /\ Late <= SendTicks /\ Late <= KeepAliveDue + 1
<1> DEFINE S == {SendTicks, KeepAliveDue + 1}
<1>1. S \subseteq Nat /\ S # {}  BY TicksAreNatural
<1> HIDE DEF S
<1>2. Lowest(S) \in S /\ \A j \in S : Lowest(S) <= j  BY <1>1, LowestProperties
<1> QED  BY <1>1, <1>2 DEF S, Late

(* Making room for a packet leaves a queue.                                *)
LEMMA InsistTyped ==
  ASSUME NEW q \in QueueOf(ClientFrame), NEW f \in ClientFrame
  PROVE  Insist(q, f) \in QueueOf(ClientFrame)
<1>1. QUEUE_Puts(q, <<f>>) \in QueueOf(ClientFrame)  BY CutIsNoClientFrame, PutsOneOf
<1>2. AfterGet(QUEUE_Puts(q, <<f>>)) \in QueueOf(ClientFrame)  BY <1>1, AfterGetTypedOf
<1>3. QUEUE_Puts(AfterGet(QUEUE_Puts(q, <<f>>)), <<f>>) \in QueueOf(ClientFrame)
  BY <1>2, CutIsNoClientFrame, PutsOneOf
<1> QED  BY <1>1, <1>3 DEF Insist

LEMMA RepliesTyped ==
  ASSUME NEW segment \in Seq(Inbound)
  PROVE  Replies(segment) \in Seq(ClientFrame)
<1> DEFINE replying == {i \in Looked(segment) : segment[i] \in DOMAIN Reply}
           out == [n \in 1..Cardinality(replying) |->
                     Packet(Reply[segment[Nth(replying, n)]])]
<1>1. Len(segment) \in Nat /\ replying \subseteq 1..Len(segment)
  BY LenProperties DEF Looked
<1>2. Cardinality(replying) \in Nat  BY <1>1, IndexSetFinite
<1>3. \A n \in 1..Cardinality(replying) : Nth(replying, n) \in replying
  BY <1>1, NthExists
<1>4. \A i \in replying : Reply[segment[i]] \in Outbound
  BY DEF Reply, Outbound
<1> HIDE DEF replying
<1>5. \A n \in 1..Cardinality(replying) : Packet(Reply[segment[Nth(replying, n)]]) \in ClientFrame
  BY <1>3, <1>4, ClientPacketTyped
<1>6. out \in [1..Cardinality(replying) -> ClientFrame]  BY <1>5
<1>7. out \in Seq(ClientFrame)
  <2> HIDE DEF out
  <2> QED  BY <1>2, <1>6, SeqDef
<1> QED  BY <1>7 DEF Replies, replying

-----------------------------------------------------------------------------
(* One lemma for each action: the client stays good.                       *)

(* Values the actions store.                                               *)
LEMMA StoredTyped ==
  /\ <<>> \in Seq(Outbound) /\ <<>> \in MsgQueue
  /\ 0 \in 0..Late /\ 0 \in 0..SendTicks /\ SendTicks \in 0..SendTicks
  /\ 0 \in 0..(KeepAliveDue + 1) /\ 0 \in 0..ReconnectTicks
<1>1. <<>> \in MsgQueue  BY EmptyQueueOf DEF MsgQueue
<1>2. <<>> \in Seq(Outbound)  OBVIOUS
<1> QED  BY <1>1, <1>2, TicksAreNatural, LateInTime

LEMMA ClearedGood ==
  ASSUME NEW use \in {"unused", "alive", "deleted"}
  PROVE  Good(Cleared(use))
<1>1. Cleared(use) \in Memory
  BY StoredTyped DEF Memory, Cleared, ConnState, Link
<1>2. Paced(Cleared(use)) /\ Linked(Cleared(use)) /\ Wanted(Cleared(use))
  BY TicksAreNatural DEF Paced, Linked, Wanted, Cleared
<1> QED  BY <1>1, <1>2 DEF Good

LEMMA UnlinkedTyped ==
  ASSUME NEW k \in Memory, NEW link \in Link
  PROVE  LET u == Unlinked(k, link)
         IN  /\ u \in Memory
             /\ u.flight = <<>> /\ u.age = 0 /\ u.link = link
             /\ u.wanted = k.wanted /\ u.timer = k.timer /\ u.use = k.use
             /\ u.connState = k.connState /\ u.keepAliveTick = k.keepAliveTick
             /\ u.pending = k.pending /\ u.sendTimeout = k.sendTimeout
BY StoredTyped DEF Memory, Unlinked

LEMMA ConnectedGood ==
  ASSUME Good(cl), NEW tried \in BOOLEAN
  PROVE  LET k == Connected(cl, tried)
         IN  /\ Good([k EXCEPT !.wanted = TRUE])
             /\ cl.wanted => Good(k)
<1> DEFINE k == Connected(cl, tried)
           w == [k EXCEPT !.wanted = TRUE]
           u == Unlinked(cl, IF tried THEN "opening" ELSE "dead")
<1>1. cl \in Memory  BY DEF Good
<1>2. u \in Memory /\ u.flight = <<>> /\ u.age = 0 /\ u.wanted = cl.wanted
  BY <1>1, UnlinkedTyped DEF Link
<1>3. k = [u EXCEPT !.keepAliveTick = 0, !.reconnectTick = 0, !.timer = TRUE,
                    !.connState = "TCP_CONNECTING"]
  BY DEF Connected
<1> HIDE DEF k, u
<1>4. /\ k \in Memory
      /\ k.flight = <<>> /\ k.age = 0 /\ k.connState = "TCP_CONNECTING"
      /\ k.keepAliveTick = 0 /\ k.wanted = cl.wanted
  BY <1>2, <1>3, StoredTyped, ZenonT(40) DEF Memory, ConnState
<1>5. w \in Memory /\ w.wanted = TRUE
      /\ w.flight = <<>> /\ w.age = 0 /\ w.connState = "TCP_CONNECTING" /\ w.keepAliveTick = 0
  BY <1>4 DEF Memory
<1> HIDE DEF w
<1>6. Good(w) /\ (cl.wanted => Good(k))
  BY <1>4, <1>5 DEF Good, Paced, Alone, Linked, Wanted
<1> QED  BY <1>6 DEF k, w

(* The program gives up: only the state, the timer and its wish change.    *)
LEMMA DisconnectGood ==
  ASSUME Good(cl), MQTT_Disconnect \/ MQTT_DeleteClient
  PROVE  Good(cl')
<1>1. cl \in Memory  BY DEF Good
<1>2. cl' \in Memory
  <2>1. CASE MQTT_Disconnect  BY <1>1, <2>1 DEF MQTT_Disconnect, Memory, ConnState
  <2>2. CASE MQTT_DeleteClient  BY <1>1, <2>2 DEF MQTT_DeleteClient, Memory, ConnState
  <2> QED  BY <2>1, <2>2
<1>3. /\ cl'.connState \in {"TCP_DISCONNECTING", "MQTT_DELETED"}
      /\ cl'.connState = "MQTT_DELETED" => cl'.use = "deleted"
      /\ cl'.timer = FALSE
      /\ cl'.flight = cl.flight /\ cl'.pending = cl.pending /\ cl'.age = cl.age
      /\ cl'.link = cl.link /\ cl'.sendTimeout = cl.sendTimeout
      /\ cl'.keepAliveTick = cl.keepAliveTick
  BY <1>1, ZenonT(40) DEF MQTT_Disconnect, MQTT_DeleteClient, Memory
<1>4. Paced(cl') /\ Linked(cl') /\ Wanted(cl')
  BY <1>3 DEF Good, Paced, Alone, Linked, Wanted
<1> QED  BY <1>2, <1>4 DEF Good

LEMMA EnqueueGood ==
  ASSUME Good(cl), NEW type \in Outbound, Enqueue(type)
  PROVE  Good(cl')
<1>1. cl \in Memory  BY DEF Good
<1>2. Insist(cl.queue, Packet(type)) \in MsgQueue
  BY <1>1, InsistTyped, ClientPacketTyped DEF Memory, MsgQueue, ClientFrame
<1>3. cl' \in Memory  BY <1>1, <1>2 DEF Enqueue, Memory
<1>4. /\ cl'.connState = cl.connState /\ cl'.use = cl.use /\ cl'.link = cl.link
      /\ cl'.flight = cl.flight /\ cl'.pending = cl.pending /\ cl'.age = cl.age
      /\ cl'.sendTimeout = cl.sendTimeout /\ cl'.keepAliveTick = cl.keepAliveTick
      /\ cl'.timer = cl.timer /\ cl'.wanted = cl.wanted
  BY <1>1 DEF Enqueue, Memory
<1> QED  BY <1>3, <1>4 DEF Good, Paced, Alone, Linked, Wanted

LEMMA ConnectCbGood ==
  ASSUME Good(cl), mqtt_tcpclient_connect_cb
  PROVE  Good(cl')
<1>1. cl \in Memory /\ cl.link = "opening" /\ cl.flight = <<>> /\ cl.age = 0
      /\ cl.keepAliveTick = 0
  BY DEF Good, Paced, mqtt_tcpclient_connect_cb
<1>2. PICK accepted \in BOOLEAN :
        cl' = [espconn_send([cl EXCEPT !.link = "up"], "CONNECT", accepted)
                 EXCEPT !.pending = "CONNECT", !.sendTimeout = SendTicks,
                        !.connState = "MQTT_CONNECT_SENDING"]
  BY DEF mqtt_tcpclient_connect_cb
<1>3. Append(cl.flight, "CONNECT") = <<"CONNECT">> /\ <<"CONNECT">> \in Seq(Outbound)
  BY <1>1 DEF Outbound
<1> DEFINE k == [cl EXCEPT !.link = "up", !.flight = IF accepted THEN <<"CONNECT">> ELSE <<>>,
                           !.pending = "CONNECT", !.sendTimeout = SendTicks,
                           !.connState = "MQTT_CONNECT_SENDING"]
<1>4. cl' = k  BY <1>1, <1>2, <1>3 DEF espconn_send, Memory
<1>5. k \in Memory
  BY <1>1, <1>3, StoredTyped DEF Memory, ConnState, Link, Outbound
<1>6. /\ k.link = "up" /\ k.pending = "CONNECT" /\ k.sendTimeout = SendTicks
      /\ k.connState = "MQTT_CONNECT_SENDING" /\ k.flight \in {<<>>, <<"CONNECT">>}
      /\ k.age = 0 /\ k.keepAliveTick = 0 /\ k.timer = cl.timer /\ k.wanted = cl.wanted
  BY <1>1 DEF Memory
<1> HIDE DEF k
<1>7. Paced(k) /\ Linked(k) /\ Wanted(k)
  BY <1>6, TicksAreNatural DEF Good, Paced, Alone, Linked, Wanted
<1> QED  BY <1>4, <1>5, <1>7 DEF Good

LEMMA EndCbGood ==
  ASSUME Good(cl), mqtt_tcpclient_recon_cb \/ mqtt_tcpclient_discon_cb
  PROVE  Good(cl')
<1> DEFINE u == Unlinked(cl, "dead")
<1>1. cl \in Memory  BY DEF Good
<1>2. /\ u \in Memory /\ u.flight = <<>> /\ u.age = 0 /\ u.link = "dead"
      /\ u.wanted = cl.wanted /\ u.timer = cl.timer
  BY <1>1, UnlinkedTyped DEF Link
<1>3. PICK s \in {"TCP_DISCONNECTED", "TCP_RECONNECT_REQ"} : cl' = [u EXCEPT !.connState = s]
  BY DEF mqtt_tcpclient_recon_cb, mqtt_tcpclient_discon_cb
<1> HIDE DEF u
<1>4. /\ cl' \in Memory
      /\ cl'.connState = s /\ cl'.flight = <<>> /\ cl'.age = 0 /\ cl'.link = "dead"
      /\ cl'.wanted = cl.wanted /\ cl'.timer = cl.timer
  BY <1>2, <1>3 DEF Memory, ConnState
<1> QED  BY <1>4 DEF Good, Paced, Alone, Linked, Wanted

(* The oldest packet goes; if others are left, they are late.              *)
LEMMA SentCbGood ==
  ASSUME Good(cl), mqtt_tcpclient_sent_cb
  PROVE  Good(cl')
<1> DEFINE rest == Tail(cl.flight)
           a == IF Len(cl.flight) = 1 THEN 0 ELSE cl.age
<1>1. cl \in Memory /\ cl.flight # <<>> /\ cl.flight \in Seq(Outbound) /\ cl.age \in 0..Late
  BY DEF Good, Memory, mqtt_tcpclient_sent_cb
<1>2. rest \in Seq(Outbound) /\ (rest = <<>> <=> Len(cl.flight) = 1)
  <2>1. rest \in Seq(Outbound) /\ Len(rest) = Len(cl.flight) - 1 /\ Len(cl.flight) \in Nat
    BY <1>1, HeadTailProperties, LenProperties
  <2>2. rest = <<>> <=> Len(rest) = 0  BY <2>1, EmptySeq
  <2> QED  BY <2>1, <2>2
<1>3. a \in 0..Late /\ (rest = <<>> => a = 0) /\ (rest # <<>> => a = cl.age)
  BY <1>1, <1>2, LateInTime
<1>4. cl.age < Late => rest = <<>>
  <2>1. SUFFICES ASSUME cl.age < Late PROVE rest = <<>>  OBVIOUS
  <2>2. cl.flight = <<cl.pending>>  BY <1>1, <2>1 DEF Good, Paced, Alone
  <2> QED  BY <2>2
<1>5. cl' = [cl EXCEPT !.flight = rest, !.age = a, !.sendTimeout = 0, !.keepAliveTick = 0]
  BY <1>1 DEF mqtt_tcpclient_sent_cb, Acknowledged, Memory
<1> HIDE DEF rest, a
<1>6. /\ cl' \in Memory
      /\ cl'.flight = rest /\ cl'.age = a /\ cl'.keepAliveTick = 0
      /\ cl'.connState = cl.connState /\ cl'.use = cl.use /\ cl'.link = cl.link
      /\ cl'.wanted = cl.wanted /\ cl'.timer = cl.timer
  BY <1>1, <1>2, <1>3, <1>5, StoredTyped DEF Memory
<1>7. cl.link \in {"up", "closing"}  BY <1>1 DEF Good, Paced
<1>8. 0 <= KeepAliveDue  BY TicksAreNatural
<1>9. Paced(cl')  BY <1>3, <1>4, <1>6, <1>7, <1>8 DEF Paced
<1>10. Linked(cl') /\ Wanted(cl')  BY <1>6 DEF Good, Linked, Wanted
<1> QED  BY <1>6, <1>9, <1>10 DEF Good

LEMMA DisconnectingGood ==
  ASSUME Good(cl)
  PROVE  Good(espconn_disconnect(cl))
<1> DEFINE k == espconn_disconnect(cl)
<1>1. cl \in Memory  BY DEF Good
<1>2. k \in Memory
  BY <1>1 DEF espconn_disconnect, Memory, Link
<1>3. /\ k.link = IF cl.link = "up" THEN "closing" ELSE cl.link
      /\ k.connState = cl.connState /\ k.use = cl.use
      /\ k.flight = cl.flight /\ k.pending = cl.pending /\ k.age = cl.age
      /\ k.sendTimeout = cl.sendTimeout /\ k.keepAliveTick = cl.keepAliveTick
      /\ k.timer = cl.timer /\ k.wanted = cl.wanted
  BY <1>1 DEF espconn_disconnect, Memory
<1> HIDE DEF k
<1>4. Paced(k) /\ Linked(k) /\ Wanted(k)  BY <1>3 DEF Good, Paced, Alone, Linked, Wanted
<1> QED  BY <1>2, <1>4 DEF Good, k

(* A segment adds replies to the queue, opens the session or ends it.      *)
LEMMA RecvGood ==
  ASSUME Good(cl), mqtt_tcpclient_recv
  PROVE  Good(cl')
<1>1. cl \in Memory /\ cl.link \in {"up", "closing"}  BY DEF Good, mqtt_tcpclient_recv
<1>2. PICK segment \in Segment \cup {<<>>} :
        cl' = CASE cl.connState \in {"MQTT_DATA", "MQTT_KEEPALIVE_SEND"}
                     -> [cl EXCEPT !.queue = QUEUE_Puts(@, Replies(segment))]
                [] cl.connState = "MQTT_CONNECT_SENDING" /\ segment # <<>>
                     -> Answered(cl, Head(segment))
                [] OTHER -> cl
  BY DEF mqtt_tcpclient_recv
<1>3. CASE cl.connState \in {"MQTT_DATA", "MQTT_KEEPALIVE_SEND"}
  <2>1. segment \in Seq(Inbound)
    <3>1. <<>> \in Seq(Inbound)  OBVIOUS
    <3> QED  BY <3>1, ClientAssumption
  <2>2. QUEUE_Puts(cl.queue, Replies(segment)) \in MsgQueue
    <3>1. cl.queue \in QueueOf(ClientFrame)  BY <1>1 DEF Memory, MsgQueue, ClientFrame
    <3>2. QUEUE_Puts(cl.queue, Replies(segment)) \in QueueOf(ClientFrame)
      BY <3>1, <2>1, RepliesTyped, CutIsNoClientFrame, PutsTypedOf
    <3> QED  BY <3>2 DEF MsgQueue, ClientFrame
  <2>3. cl' = [cl EXCEPT !.queue = QUEUE_Puts(@, Replies(segment))]  BY <1>2, <1>3
  <2>4. cl' \in Memory  BY <1>1, <2>2, <2>3 DEF Memory
  <2>5. /\ cl'.connState = cl.connState /\ cl'.use = cl.use /\ cl'.link = cl.link
        /\ cl'.flight = cl.flight /\ cl'.pending = cl.pending /\ cl'.age = cl.age
        /\ cl'.sendTimeout = cl.sendTimeout /\ cl'.keepAliveTick = cl.keepAliveTick
        /\ cl'.timer = cl.timer /\ cl'.wanted = cl.wanted
    BY <1>1, <2>3 DEF Memory
  <2> QED  BY <2>4, <2>5 DEF Good, Paced, Alone, Linked, Wanted
<1>4. CASE cl' = [cl EXCEPT !.connState = "MQTT_DATA"]
           /\ cl.connState = "MQTT_CONNECT_SENDING"
  <2>1. cl' \in Memory  BY <1>1, <1>4 DEF Memory, ConnState
  <2>2. /\ cl'.connState = "MQTT_DATA" /\ cl'.use = cl.use /\ cl'.link = cl.link
        /\ cl'.flight = cl.flight /\ cl'.pending = cl.pending /\ cl'.age = cl.age
        /\ cl'.sendTimeout = cl.sendTimeout /\ cl'.keepAliveTick = cl.keepAliveTick
        /\ cl'.timer = cl.timer /\ cl'.wanted = cl.wanted
    BY <1>1, <1>4 DEF Memory
  <2>3. cl.age \in Nat /\ cl.keepAliveTick = 0  BY <1>1, <1>4, TicksAreNatural DEF Memory, Good, Paced
  <2> QED  BY <1>1, <2>1, <2>2, <2>3, TicksAreNatural DEF Good, Paced, Alone, Linked, Wanted
<1>5. CASE cl' = espconn_disconnect(cl)
  BY <1>5, DisconnectingGood
<1>6. CASE cl' = cl  BY <1>6
<1> QED  BY <1>2, <1>3, <1>4, <1>5, <1>6 DEF Answered

-----------------------------------------------------------------------------
(* The timer.                                                              *)

LEMMA TickedTyped ==
  ASSUME Good(cl), Due
  PROVE  /\ Ticked \in Memory /\ Paced(Ticked)
         /\ Linked(Ticked) /\ Wanted(Ticked)
         /\ Ticked.connState = cl.connState /\ Ticked.keepAliveTick = cl.keepAliveTick
         /\ Ticked.link = cl.link /\ Ticked.use = cl.use /\ Ticked.wanted = cl.wanted
         /\ Ticked.flight = cl.flight /\ Ticked.pending = cl.pending
         /\ Ticked.reconnectTick = cl.reconnectTick /\ cl.wanted
         /\ cl.flight # <<>> /\ cl.age # Late => Ticked.age = cl.age + 1
         /\ cl.age = Late => Ticked.age = Late
<1> DEFINE a == IF cl.flight = <<>> \/ cl.age = Late THEN cl.age ELSE cl.age + 1
           s == IF cl.sendTimeout > 0 THEN cl.sendTimeout - 1 ELSE 0
           k == [cl EXCEPT !.age = a, !.sendTimeout = s]
<1>1. cl \in Memory /\ cl.timer /\ cl.wanted  BY DEF Good, Wanted, Due
<1>2. cl.age \in 0..Late /\ cl.sendTimeout \in 0..SendTicks
      /\ cl.keepAliveTick \in 0..(KeepAliveDue + 1)
  BY <1>1 DEF Memory
<1>3. a \in 0..Late /\ s \in 0..SendTicks  BY <1>2, TicksAreNatural, LateInTime
<1>4. Ticked = k  BY <1>1 DEF Ticked, Memory
<1>5. cl.flight # <<>> /\ a < Late => Alone(cl) /\ a = cl.age + 1
  BY <1>2, LateInTime DEF Good, Paced
<1>6. cl.flight # <<>> /\ a < Late => s + a >= SendTicks
  <2>1. SUFFICES ASSUME cl.flight # <<>>, a < Late PROVE s + a >= SendTicks  OBVIOUS
  <2>2. cl.sendTimeout + cl.age >= SendTicks /\ a = cl.age + 1  BY <1>5, <2>1 DEF Alone
  <2> QED  BY <1>2, <2>2, TicksAreNatural, LateInTime
<1>7. cl.connState = "MQTT_DATA" /\ cl.flight # <<>> /\ a < Late => cl.keepAliveTick <= a
  BY <1>2, <1>5, TicksAreNatural, LateInTime DEF Alone
<1>8. /\ cl.flight = <<>> => a = cl.age
      /\ cl.flight # <<>> /\ cl.age # Late => a = cl.age + 1
      /\ cl.age = Late => a = Late
  OBVIOUS
<1> HIDE DEF a, s
<1>9. k \in Memory  BY <1>1, <1>3 DEF Memory
<1>10. /\ k.connState = cl.connState /\ k.use = cl.use /\ k.link = cl.link
       /\ k.flight = cl.flight /\ k.pending = cl.pending /\ k.age = a
       /\ k.sendTimeout = s /\ k.keepAliveTick = cl.keepAliveTick
       /\ k.timer = cl.timer /\ k.wanted = cl.wanted /\ k.reconnectTick = cl.reconnectTick
  BY <1>1 DEF Memory
<1> HIDE DEF k
<1>11. k.flight # <<>> /\ k.age < Late => Alone(k)
  BY <1>5, <1>6, <1>7, <1>10 DEF Alone
<1>12. Paced(k)  BY <1>8, <1>10, <1>11 DEF Good, Paced
<1>13. Linked(k) /\ Wanted(k)  BY <1>10 DEF Good, Linked, Wanted
<1> QED  BY <1>1, <1>4, <1>8, <1>9, <1>10, <1>12, <1>13

LEMMA TimerReconnectGood ==
  ASSUME Good(cl), TimerReconnect
  PROVE  Good(cl')
<1>1. Due /\ cl.connState = "TCP_RECONNECT_REQ"  BY DEF TimerReconnect
<1> DEFINE k == Ticked
<1>2. k \in Memory /\ Paced(k) /\ Linked(k) /\ Wanted(k)
      /\ k.connState = "TCP_RECONNECT_REQ" /\ k.wanted
      /\ k.reconnectTick = cl.reconnectTick
  BY <1>1, TickedTyped
<1>3. \/ cl' = [k EXCEPT !.reconnectTick = 0, !.connState = "TCP_RECONNECT"]
      \/ cl.reconnectTick < ReconnectTicks /\ cl' = [k EXCEPT !.reconnectTick = cl.reconnectTick + 1]
  BY <1>2 DEF TimerReconnect, Memory
<1>4. cl.reconnectTick < ReconnectTicks => cl.reconnectTick + 1 \in 0..ReconnectTicks
  BY TicksAreNatural DEF Good, Memory
<1> HIDE DEF k
<1>5. cl' \in Memory
  <2>1. "TCP_RECONNECT" \in ConnState  BY DEF ConnState
  <2>2. [k EXCEPT !.reconnectTick = 0, !.connState = "TCP_RECONNECT"] \in Memory
    BY <1>2, <2>1, StoredTyped DEF Memory
  <2>3. ASSUME NEW t \in 0..ReconnectTicks
        PROVE  [k EXCEPT !.reconnectTick = t] \in Memory
    BY <1>2 DEF Memory
  <2> QED  BY <1>3, <1>4, <2>2, <2>3
<1>6. /\ cl'.connState \in {"TCP_RECONNECT", "TCP_RECONNECT_REQ"}
      /\ cl'.use = k.use /\ cl'.link = k.link
      /\ cl'.flight = k.flight /\ cl'.pending = k.pending /\ cl'.age = k.age
      /\ cl'.sendTimeout = k.sendTimeout /\ cl'.keepAliveTick = k.keepAliveTick
      /\ cl'.timer = k.timer /\ cl'.wanted = k.wanted
  BY <1>2, <1>3 DEF Memory
<1> QED  BY <1>2, <1>5, <1>6 DEF Good, Paced, Alone, Linked, Wanted

(* A keepalive is due when nothing is on its way, or a packet is late.     *)
LEMMA TimerKeepAliveGood ==
  ASSUME Good(cl), TimerKeepAlive
  PROVE  Good(cl')
<1>1. Due /\ cl.connState = "MQTT_DATA"  BY DEF TimerKeepAlive
<1> DEFINE k == Ticked
           due == ~(cl.keepAliveTick < KeepAliveDue)
           s == IF due THEN "MQTT_KEEPALIVE_SEND" ELSE "MQTT_DATA"
           t == cl.keepAliveTick + 1
           r == [k EXCEPT !.keepAliveTick = t, !.connState = s]
<1>2. k \in Memory /\ Paced(k) /\ Linked(k) /\ Wanted(k)
      /\ k.connState = "MQTT_DATA" /\ k.keepAliveTick = cl.keepAliveTick
      /\ k.flight = cl.flight
      /\ (cl.flight # <<>> /\ cl.age # Late => k.age = cl.age + 1)
      /\ (cl.age = Late => k.age = Late)
  BY <1>1, TickedTyped
<1>3. cl.keepAliveTick <= KeepAliveDue /\ cl.keepAliveTick \in Nat /\ cl.age \in 0..Late
      /\ (cl.flight # <<>> /\ cl.age < Late => cl.keepAliveTick <= cl.age)
  BY <1>1, TicksAreNatural DEF Good, Paced, Alone, Memory
<1>4. t \in 0..(KeepAliveDue + 1) /\ (~due => t <= KeepAliveDue)
  BY <1>3, TicksAreNatural
<1>5. k.flight # <<>> /\ k.age < Late => t <= k.age /\ ~due
  <2>1. SUFFICES ASSUME k.flight # <<>>, k.age < Late PROVE t <= k.age /\ ~due  OBVIOUS
  <2> HIDE DEF k
  <2>2. cl.flight # <<>> /\ cl.age # Late  BY <1>2, <2>1, LateInTime
  <2>3. k.age = cl.age + 1 /\ cl.keepAliveTick <= cl.age
    BY <1>2, <1>3, <2>2, LateInTime
  <2> QED  BY <1>3, <2>1, <2>3, TicksAreNatural, LateInTime
<1>6. cl' = r
  <2>1. CASE due  BY <1>2, <2>1 DEF TimerKeepAlive, Memory
  <2>2. CASE ~due  BY <1>2, <2>2 DEF TimerKeepAlive, Memory
  <2> QED  BY <2>1, <2>2
<1>7. s \in {"MQTT_DATA", "MQTT_KEEPALIVE_SEND"} /\ (s = "MQTT_DATA" => ~due)
      /\ (s = "MQTT_KEEPALIVE_SEND" => due)
  OBVIOUS
<1> HIDE DEF k, s, t, due
<1>8. r \in Memory
  <2>1. s \in ConnState  BY <1>7 DEF ConnState
  <2> QED  BY <1>2, <1>4, <2>1 DEF Memory
<1>9. /\ r.connState = s /\ r.use = k.use /\ r.link = k.link
      /\ r.flight = k.flight /\ r.pending = k.pending /\ r.age = k.age
      /\ r.sendTimeout = k.sendTimeout /\ r.keepAliveTick = t
      /\ r.timer = k.timer /\ r.wanted = k.wanted
  BY <1>2 DEF Memory
<1> HIDE DEF r
<1>10. Paced(r)
  <2>1. r.link # "opening"  BY <1>2, <1>9 DEF Linked
  <2>2. r.flight # <<>> /\ r.age < Late => Alone(r)
    BY <1>2, <1>5, <1>7, <1>9 DEF Paced, Alone
  <2> QED  BY <1>2, <1>4, <1>7, <1>9, <2>1, <2>2 DEF Paced
<1>11. Linked(r) /\ Wanted(r)  BY <1>2, <1>7, <1>9 DEF Linked, Wanted
<1> QED  BY <1>6, <1>8, <1>10, <1>11 DEF Good

LEMMA TimerGood ==
  ASSUME Good(cl), mqtt_timer
  PROVE  Good(cl')
<1>1. CASE TimerIdle  BY <1>1, TickedTyped DEF TimerIdle, Good
<1> QED  BY <1>1, TimerReconnectGood, TimerKeepAliveGood DEF mqtt_timer

-----------------------------------------------------------------------------
(* MQTT_Task.                                                              *)

LEMMA TaskDisconnectGood ==
  ASSUME Good(cl), TaskDisconnect
  PROVE  Good(cl')
<1>1. CASE cl' = espconn_disconnect(cl)  BY <1>1, DisconnectingGood
<1>2. CASE cl.link = "opening" /\ cl' = [cl EXCEPT !.link = "closing"]
  <2>1. cl \in Memory /\ cl.flight = <<>>  BY <1>2 DEF Good, Paced
  <2>2. cl' \in Memory  BY <1>2, <2>1 DEF Memory, Link
  <2>3. /\ cl'.connState = cl.connState /\ cl'.use = cl.use /\ cl'.link = "closing"
        /\ cl'.flight = cl.flight /\ cl'.pending = cl.pending /\ cl'.age = cl.age
        /\ cl'.keepAliveTick = cl.keepAliveTick
        /\ cl'.timer = cl.timer /\ cl'.wanted = cl.wanted
    BY <1>2, <2>1 DEF Memory
  <2> QED  BY <1>2, <2>1, <2>2, <2>3 DEF Good, Paced, Alone, Linked, Wanted
<1> QED  BY <1>1, <1>2 DEF TaskDisconnect

LEMMA TaskDisconnectedGood ==
  ASSUME Good(cl), TaskDisconnected
  PROVE  Good(cl')
<1>1. cl \in Memory /\ cl.connState = "TCP_DISCONNECTED"  BY DEF Good, TaskDisconnected
<1>2. cl' = Unlinked(cl, "none")  BY DEF TaskDisconnected, mqtt_tcpclient_delete
<1>3. /\ cl' \in Memory /\ cl'.flight = <<>> /\ cl'.age = 0 /\ cl'.link = "none"
      /\ cl'.connState = "TCP_DISCONNECTED" /\ cl'.wanted = cl.wanted
      /\ cl'.timer = cl.timer
  BY <1>1, <1>2, UnlinkedTyped DEF Link
<1> QED  BY <1>3 DEF Good, Paced, Alone, Linked, Wanted

(* A packet given to the stack is the only one on its way, or others are   *)
(* late.                                                                   *)
LEMMA SentGood ==
  ASSUME Good(cl), cl.flight = <<>> \/ cl.age = Late,
         NEW type \in Outbound, NEW q \in MsgQueue,
         NEW state \in {"MQTT_DATA", "TCP_RECONNECT_DISCONNECTING"},
         cl.link \in {"up", "closing"},
         NEW flight \in {cl.flight, Append(cl.flight, type)},
         NEW tick \in 0..(KeepAliveDue + 1), state = "MQTT_DATA" => tick = 0
  PROVE  Good([cl EXCEPT !.flight = flight, !.queue = q, !.pending = type,
                         !.sendTimeout = SendTicks, !.keepAliveTick = tick,
                         !.connState = state])
<1> DEFINE k == [cl EXCEPT !.flight = flight, !.queue = q, !.pending = type,
                           !.sendTimeout = SendTicks, !.keepAliveTick = tick,
                           !.connState = state]
<1>1. cl \in Memory /\ cl.flight \in Seq(Outbound) /\ cl.age \in 0..Late
  BY DEF Good, Memory
<1>2. flight \in Seq(Outbound) /\ state \in ConnState
  <2>1. Append(cl.flight, type) \in Seq(Outbound)  BY <1>1
  <2>2. state \in ConnState  BY DEF ConnState
  <2> QED  BY <1>1, <2>1, <2>2
<1>3. k \in Memory  BY <1>1, <1>2, StoredTyped DEF Memory
<1>4. /\ k.connState = state /\ k.use = cl.use /\ k.link = cl.link
      /\ k.flight = flight /\ k.pending = type /\ k.age = cl.age
      /\ k.sendTimeout = SendTicks /\ k.keepAliveTick = tick
      /\ k.timer = cl.timer /\ k.wanted = cl.wanted
  BY <1>1 DEF Memory
<1>5. flight = <<>> => cl.age = 0
  <2>1. Append(cl.flight, type) # <<>>  BY <1>1
  <2> QED  BY <2>1 DEF Good, Paced
<1>6. flight # <<>> /\ cl.age < Late => flight = <<type>> /\ cl.age = 0
  <2>1. SUFFICES ASSUME flight # <<>>, cl.age < Late PROVE flight = <<type>> /\ cl.age = 0
    OBVIOUS
  <2>2. cl.flight = <<>> /\ cl.age = 0  BY <1>1, <2>1, LateInTime DEF Good, Paced
  <2>3. Append(<<>>, type) = <<type>>  OBVIOUS
  <2> QED  BY <2>1, <2>2, <2>3
<1> HIDE DEF k
<1>7. flight # <<>> /\ k.age < Late => Alone(k)
  BY <1>4, <1>6, TicksAreNatural DEF Alone
<1>8. Paced(k)  BY <1>4, <1>5, <1>7, TicksAreNatural DEF Paced
<1>9. Linked(k) /\ Wanted(k)  BY <1>4 DEF Good, Linked, Wanted
<1> QED  BY <1>3, <1>8, <1>9 DEF Good, k

LEMMA KeepAliveSendGood ==
  ASSUME Good(cl), mqtt_send_keepalive
  PROVE  Good(cl')
<1> DEFINE f == Append(cl.flight, "PINGREQ")
<1>1. cl \in Memory /\ cl.connState = "MQTT_KEEPALIVE_SEND"
      /\ cl.link \in {"up", "closing"} /\ "PINGREQ" \in Outbound
  BY DEF Good, Linked, mqtt_send_keepalive, Outbound
<1>2. cl.flight = <<>> \/ cl.age = Late
  <2>1. cl.age \in 0..Late  BY <1>1 DEF Memory
  <2>2. cl.flight = <<>> \/ ~(cl.age < Late)  BY <1>1 DEF Good, Paced, Alone
  <2> QED  BY <2>1, <2>2, LateInTime
<1>3. cl.queue \in MsgQueue
      /\ cl.keepAliveTick \in 0..(KeepAliveDue + 1) /\ 0 \in 0..(KeepAliveDue + 1)
  BY <1>1, StoredTyped DEF Memory
<1>4. PICK accepted \in BOOLEAN :
        cl' = [cl EXCEPT !.flight = IF accepted THEN f ELSE cl.flight,
                         !.queue = cl.queue, !.pending = "PINGREQ",
                         !.sendTimeout = SendTicks,
                         !.keepAliveTick = IF accepted THEN 0 ELSE cl.keepAliveTick,
                         !.connState = IF accepted THEN "MQTT_DATA"
                                       ELSE "TCP_RECONNECT_DISCONNECTING"]
  <2>1. PICK accepted \in BOOLEAN :
          LET k == [espconn_send(cl, "PINGREQ", accepted)
                      EXCEPT !.pending = "PINGREQ", !.sendTimeout = SendTicks]
          IN  cl' = IF accepted
                    THEN [k EXCEPT !.keepAliveTick = 0, !.connState = "MQTT_DATA"]
                    ELSE [k EXCEPT !.connState = "TCP_RECONNECT_DISCONNECTING"]
    BY DEF mqtt_send_keepalive, CanAccept
  <2>2. CASE accepted  BY <1>1, <2>1, <2>2 DEF espconn_send, Memory
  <2>3. CASE ~accepted  BY <1>1, <2>1, <2>3 DEF espconn_send, Memory
  <2> QED  BY <2>2, <2>3
<1>5. CASE accepted
  <2>1. cl' = [cl EXCEPT !.flight = f, !.queue = cl.queue, !.pending = "PINGREQ",
                         !.sendTimeout = SendTicks, !.keepAliveTick = 0,
                         !.connState = "MQTT_DATA"]
    BY <1>4, <1>5
  <2>2. f \in {cl.flight, Append(cl.flight, "PINGREQ")}  OBVIOUS
  <2> HIDE DEF f
  <2> QED  BY <1>1, <1>2, <1>3, <2>1, <2>2, SentGood, ZenonT(40)
<1>6. CASE ~accepted
  <2>1. cl' = [cl EXCEPT !.flight = cl.flight, !.queue = cl.queue, !.pending = "PINGREQ",
                         !.sendTimeout = SendTicks, !.keepAliveTick = cl.keepAliveTick,
                         !.connState = "TCP_RECONNECT_DISCONNECTING"]
    BY <1>4, <1>6
  <2> QED  BY <1>1, <1>2, <1>3, <2>1, SentGood, ZenonT(40)
<1> QED  BY <1>5, <1>6

(* sendTimeout has run down: what was sent before has been acknowledged,   *)
(* or is late.                                                             *)
LEMMA TaskSendGood ==
  ASSUME Good(cl), TaskSend
  PROVE  Good(cl')
<1> DEFINE type == Head(FromNextFrame(cl.queue)).type
<1>1. cl \in Memory /\ cl.connState = "MQTT_DATA" /\ cl.sendTimeout = 0
      /\ cl.link \in {"up", "closing"} /\ CanGet(cl.queue)
  BY DEF Good, Linked, TaskSend
<1>2. cl.flight = <<>> \/ cl.age = Late
  <2>1. cl.age \in 0..Late  BY <1>1 DEF Memory
  <2>2. cl.flight = <<>> \/ ~(cl.age < Late) \/ cl.age >= SendTicks
    BY <1>1, <2>1, LateInTime, TicksAreNatural DEF Good, Paced, Alone
  <2> QED  BY <2>1, <2>2, LateInTime, TicksAreNatural
<1>3. cl.queue \in QueueOf(ClientFrame)  BY <1>1 DEF Memory, MsgQueue, ClientFrame
<1>4. AfterGet(cl.queue) \in MsgQueue
  BY <1>3, AfterGetTypedOf DEF MsgQueue, ClientFrame
<1>5. type \in Outbound
  <2>1. Head(FromNextFrame(cl.queue)) \in ClientFrame  BY <1>1, <1>3, GetsWhole
  <2>2. PICK t \in Outbound : Head(FromNextFrame(cl.queue)) = Packet(t)
    BY <2>1 DEF ClientFrame
  <2> QED  BY <2>2 DEF Packet
<1>6. 0 \in 0..(KeepAliveDue + 1)  BY StoredTyped
<1>7. \E flight \in {cl.flight, Append(cl.flight, type)} :
        cl' = [cl EXCEPT !.flight = flight, !.queue = AfterGet(cl.queue),
                         !.pending = type,
                         !.sendTimeout = SendTicks, !.keepAliveTick = 0,
                         !.connState = "MQTT_DATA"]
  <2> DEFINE k == [cl EXCEPT !.queue = AfterGet(cl.queue), !.pending = type,
                             !.sendTimeout = SendTicks, !.keepAliveTick = 0]
  <2>1. PICK accepted \in BOOLEAN : cl' = espconn_send(k, type, accepted)
    BY <1>1 DEF TaskSend, CanAccept, Memory
  <2> HIDE DEF type
  <2>2. CASE accepted
    BY <1>1, <2>1, <2>2, ZenonT(40) DEF espconn_send, Memory
  <2>3. CASE ~accepted
    BY <1>1, <2>1, <2>3, ZenonT(40) DEF espconn_send, Memory
  <2> QED  BY <2>2, <2>3
<1>8. PICK flight \in {cl.flight, Append(cl.flight, type)} :
        cl' = [cl EXCEPT !.flight = flight, !.queue = AfterGet(cl.queue),
                         !.pending = type,
                         !.sendTimeout = SendTicks, !.keepAliveTick = 0,
                         !.connState = "MQTT_DATA"]
  BY <1>7
<1> DEFINE q == AfterGet(cl.queue)
           k == [cl EXCEPT !.flight = flight, !.queue = q,
                           !.pending = type,
                           !.sendTimeout = SendTicks, !.keepAliveTick = 0,
                           !.connState = "MQTT_DATA"]
<1>9. cl' = k  BY <1>8
<1>10. q \in MsgQueue  BY <1>4
<1> HIDE DEF type, q
<1>11. Good(k)  BY <1>1, <1>2, <1>8, <1>10, <1>5, <1>6, SentGood, ZenonT(40)
<1> QED  BY <1>9, <1>11

LEMMA TaskNothingToSendGood ==
  ASSUME Good(cl), TaskNothingToSend
  PROVE  Good(cl')
<1> DEFINE q == IF cl.sendTimeout = 0 THEN AfterGet(cl.queue) ELSE cl.queue
<1>1. cl \in Memory  BY DEF Good
<1>2. cl.queue \in QueueOf(ClientFrame)  BY <1>1 DEF Memory, MsgQueue, ClientFrame
<1>3. q \in MsgQueue
  BY <1>1, <1>2, AfterGetTypedOf DEF MsgQueue, ClientFrame
<1>4. cl' = [cl EXCEPT !.queue = q]  BY <1>1 DEF TaskNothingToSend, Memory
<1> HIDE DEF q
<1>5. cl' \in Memory  BY <1>1, <1>3, <1>4 DEF Memory
<1>6. /\ cl'.connState = cl.connState /\ cl'.use = cl.use /\ cl'.link = cl.link
      /\ cl'.flight = cl.flight /\ cl'.pending = cl.pending /\ cl'.age = cl.age
      /\ cl'.sendTimeout = cl.sendTimeout /\ cl'.keepAliveTick = cl.keepAliveTick
      /\ cl'.timer = cl.timer /\ cl'.wanted = cl.wanted
  BY <1>1, <1>4 DEF Memory
<1> QED  BY <1>5, <1>6 DEF Good, Paced, Alone, Linked, Wanted

-----------------------------------------------------------------------------
(* All steps.                                                              *)

LEMMA StepGood ==
  ASSUME Good(cl), Next
  PROVE  Good(cl')
<1>1. CASE MQTT  BY <1>1, ClearedGood DEF MQTT
<1>2. CASE MQTT_Connect  BY <1>2, ConnectedGood DEF MQTT_Connect
<1>3. CASE MQTT_Disconnect \/ MQTT_DeleteClient  BY <1>3, DisconnectGood
<1>4. CASE MQTT_Publish \/ MQTT_Subscribe \/ MQTT_UnSubscribe \/ MQTT_Ping
  <2>1. PICK type \in Outbound : Enqueue(type)
    BY <1>4 DEF MQTT_Publish, MQTT_Subscribe, MQTT_UnSubscribe, MQTT_Ping, Outbound
  <2> QED  BY <2>1, EnqueueGood
<1>5. CASE Callbacks
  BY <1>5, ConnectCbGood, EndCbGood, SentCbGood, RecvGood DEF Callbacks
<1>6. CASE mqtt_timer  BY <1>6, TimerGood
<1>7. CASE TaskReconnect
  <2>1. cl.wanted  BY <1>7 DEF Good, Wanted, TaskReconnect
  <2> QED  BY <1>7, <2>1, ConnectedGood DEF TaskReconnect
<1>8. CASE mqtt_client_delete  BY <1>8, ClearedGood DEF mqtt_client_delete
<1>9. CASE MQTT_Task /\ ~TaskReconnect /\ ~mqtt_client_delete
  BY <1>9, TaskDisconnectGood, TaskDisconnectedGood, KeepAliveSendGood, TaskSendGood,
     TaskNothingToSendGood
  DEF MQTT_Task, TaskIgnore
<1>10. CASE RivalPosts \/ RivalRuns  BY <1>10 DEF RivalPosts, RivalRuns
<1> QED
  BY <1>1, <1>2, <1>3, <1>4, <1>5, <1>6, <1>7, <1>8, <1>9, <1>10 DEF Next, Calls

LEMMA StepEventTyped ==
  ASSUME EventTyped, Next
  PROVE  EventTyped'
<1>1. CASE system_os_post  BY <1>1 DEF EventTyped, system_os_post
<1>2. CASE Quiet  BY <1>2 DEF EventTyped, Quiet
<1>3. CASE Elapse  BY <1>3 DEF EventTyped, Elapse
<1>4. CASE ev' \in {"none", "own"} /\ lost' = FALSE  BY <1>4 DEF EventTyped
<1>5. CASE RivalPosts \/ RivalRuns  BY <1>5 DEF EventTyped, RivalPosts, RivalRuns
<1>6. Calls => system_os_post \/ Quiet
  BY DEF Calls, MQTT, MQTT_Connect, MQTT_Disconnect, MQTT_DeleteClient, MQTT_Publish,
     MQTT_Subscribe, MQTT_UnSubscribe, MQTT_Ping, Enqueue
<1>7. Callbacks => system_os_post
  BY DEF Callbacks, mqtt_tcpclient_connect_cb, mqtt_tcpclient_recon_cb,
     mqtt_tcpclient_discon_cb, mqtt_tcpclient_sent_cb, mqtt_tcpclient_recv
<1>8. mqtt_timer => system_os_post \/ Elapse
  BY DEF mqtt_timer, TimerReconnect, TimerKeepAlive, TimerIdle, TimerPosts
<1>9. MQTT_Task => ev' \in {"none", "own"} /\ lost' = FALSE
  BY DEF MQTT_Task, TaskReconnect, TaskDisconnect, TaskDisconnected, mqtt_client_delete,
     mqtt_send_keepalive, TaskSend, TaskNothingToSend, TaskIgnore, Runs
<1> QED  BY <1>1, <1>2, <1>3, <1>4, <1>5, <1>6, <1>7, <1>8, <1>9 DEF Next

(* A post leaves an event of this client, or is lost to another's.         *)
LEMMA PostCovers ==
  ASSUME EventTyped, system_os_post
  PROVE  Posted' \/ lost'
BY DEF EventTyped, system_os_post, Posted

(* The steps that do not post leave nothing to do for the task.            *)
LEMMA StepCovered ==
  ASSUME IInv, Next
  PROVE  TaskCovered'
<1>1. EventTyped /\ TaskCovered /\ Good(cl) /\ cl \in Memory  BY DEF IInv, Good
<1>2. CASE system_os_post  BY <1>1, <1>2, PostCovers DEF TaskCovered
<1>3. CASE MQTT_Connect
  <2>1. PICK tried \in BOOLEAN : cl' = [Connected(cl, tried) EXCEPT !.wanted = TRUE]
    BY <1>3 DEF MQTT_Connect
  <2>2. cl'.connState = "TCP_CONNECTING"
    BY <1>1, <2>1 DEF Memory, Connected, Unlinked
  <2> QED  BY <2>2 DEF TaskCovered, NeedsTask
<1>4. CASE mqtt_timer /\ Elapse
  <2>1. (Posted => Posted') /\ lost' = lost  BY <1>4 DEF Elapse, Posted
  <2>2. (cl'.link = cl.link /\ cl'.connState = cl.connState) \/ TimerPosts
    <3>1. Ticked \in Memory /\ Ticked.link = cl.link /\ Ticked.connState = cl.connState
      BY <1>1, <1>4, TickedTyped DEF mqtt_timer, TimerReconnect, TimerKeepAlive, TimerIdle
    <3>2. CASE TimerReconnect
      <4>1. CASE cl.reconnectTick < ReconnectTicks
        <5>1. cl' = [Ticked EXCEPT !.reconnectTick = @ + 1]
          BY <3>2, <4>1 DEF TimerReconnect
        <5> QED  BY <3>1, <5>1 DEF Memory
      <4> QED  BY <3>2, <4>1 DEF TimerReconnect
    <3>3. CASE TimerKeepAlive
      <4>1. CASE cl.keepAliveTick < KeepAliveDue
        <5>1. cl' = [Ticked EXCEPT !.keepAliveTick = @ + 1]
          BY <3>3, <4>1 DEF TimerKeepAlive
        <5> QED  BY <3>1, <5>1 DEF Memory
      <4> QED  BY <3>3, <4>1 DEF TimerKeepAlive
    <3>4. CASE TimerIdle  BY <3>1, <3>4 DEF TimerIdle
    <3> QED  BY <1>4, <3>2, <3>3, <3>4 DEF mqtt_timer
  <2>3. TimerPosts => Posted' \/ lost'
    BY <1>1, PostCovers DEF TimerPosts, Elapse, Posted
  <2> QED  BY <1>1, <2>1, <2>2, <2>3 DEF TaskCovered, NeedsTask
<1>5. CASE MQTT_Task
  <2>1. CASE TaskReconnect
    <3>1. cl'.connState = "TCP_CONNECTING"
      BY <1>1, <2>1 DEF TaskReconnect, Memory, Connected, Unlinked
    <3> QED  BY <3>1 DEF TaskCovered, NeedsTask
  <2>2. CASE TaskDisconnect
    <3>1. cl'.connState = cl.connState /\ cl'.link # "up"
      BY <1>1, <2>2 DEF TaskDisconnect, espconn_disconnect, Memory
    <3> QED  BY <2>2, <3>1 DEF TaskDisconnect, TaskCovered, NeedsTask
  <2>3. CASE TaskDisconnected
    <3>1. cl'.connState = "TCP_DISCONNECTED" /\ cl'.link = "none"
      BY <1>1, <2>3 DEF TaskDisconnected, mqtt_tcpclient_delete, Unlinked, Memory
    <3> QED  BY <3>1 DEF TaskCovered, NeedsTask
  <2>4. CASE mqtt_client_delete
    <3>1. cl'.connState = "WIFI_INIT"  BY <2>4 DEF mqtt_client_delete, Cleared
    <3> QED  BY <3>1 DEF TaskCovered, NeedsTask
  <2>5. CASE mqtt_send_keepalive
    BY <2>5 DEF mqtt_send_keepalive, TaskCovered, Posted
  <2>6. CASE TaskSend
    <3>1. cl'.connState = "MQTT_DATA"
      BY <1>1, <2>6 DEF TaskSend, espconn_send, Memory
    <3> QED  BY <3>1 DEF TaskCovered, NeedsTask
  <2>7. CASE TaskNothingToSend
    <3>1. cl'.connState = "MQTT_DATA"  BY <1>1, <2>7 DEF TaskNothingToSend, Memory
    <3> QED  BY <3>1 DEF TaskCovered, NeedsTask
  <2>8. CASE TaskIgnore  BY <2>8 DEF TaskIgnore, TaskCovered, NeedsTask
  <2> QED  BY <1>5, <2>1, <2>2, <2>3, <2>4, <2>5, <2>6, <2>7, <2>8 DEF MQTT_Task
<1>6. CASE RivalPosts \/ RivalRuns
  BY <1>1, <1>6 DEF RivalPosts, RivalRuns, TaskCovered, NeedsTask, Posted
<1>7. Calls => system_os_post \/ MQTT_Connect
  BY DEF Calls, MQTT, MQTT_Disconnect, MQTT_DeleteClient, MQTT_Publish,
     MQTT_Subscribe, MQTT_UnSubscribe, MQTT_Ping, Enqueue
<1>8. Callbacks => system_os_post
  BY DEF Callbacks, mqtt_tcpclient_connect_cb, mqtt_tcpclient_recon_cb,
     mqtt_tcpclient_discon_cb, mqtt_tcpclient_sent_cb, mqtt_tcpclient_recv
<1>9. mqtt_timer => system_os_post \/ Elapse
  BY DEF mqtt_timer, TimerReconnect, TimerKeepAlive, TimerIdle, TimerPosts
<1> QED  BY <1>2, <1>3, <1>4, <1>5, <1>6, <1>7, <1>8, <1>9 DEF Next

(* A connection is begun for a program that wants it.                      *)
LEMMA StepWanted ==
  ASSUME IInv, Next, cl'.connState = "TCP_CONNECTING", cl.connState # "TCP_CONNECTING"
  PROVE  cl'.wanted
<1>1. Good(cl) /\ cl \in Memory  BY DEF IInv, Good
<1>2. CASE MQTT_Connect
  BY <1>1, <1>2 DEF MQTT_Connect, Connected, Unlinked, Memory
<1>3. CASE TaskReconnect
  <2>1. cl.wanted  BY <1>1, <1>3 DEF Good, Wanted, TaskReconnect
  <2> QED  BY <1>1, <1>3, <2>1 DEF TaskReconnect, Connected, Unlinked, Memory
<1>4. CASE Calls /\ ~MQTT_Connect
  <2>1. CASE MQTT  BY <2>1 DEF MQTT, Cleared
  <2>2. CASE MQTT_Disconnect \/ MQTT_DeleteClient
    BY <1>1, <2>2 DEF MQTT_Disconnect, MQTT_DeleteClient, Memory
  <2>3. CASE MQTT_Publish \/ MQTT_Subscribe \/ MQTT_UnSubscribe \/ MQTT_Ping
    BY <1>1, <2>3 DEF MQTT_Publish, MQTT_Subscribe, MQTT_UnSubscribe, MQTT_Ping, Enqueue, Memory
  <2> QED  BY <1>4, <2>1, <2>2, <2>3 DEF Calls
<1>5. CASE Callbacks
  <2>1. CASE mqtt_tcpclient_connect_cb
    BY <1>1, <2>1 DEF mqtt_tcpclient_connect_cb, espconn_send, Memory
  <2>2. CASE mqtt_tcpclient_recon_cb \/ mqtt_tcpclient_discon_cb
    BY <1>1, <2>2 DEF mqtt_tcpclient_recon_cb, mqtt_tcpclient_discon_cb, Unlinked, Memory
  <2>3. CASE mqtt_tcpclient_sent_cb
    BY <1>1, <2>3 DEF mqtt_tcpclient_sent_cb, Acknowledged, Memory
  <2>4. CASE mqtt_tcpclient_recv
    BY <1>1, <2>4 DEF mqtt_tcpclient_recv, Answered, espconn_disconnect, Memory
  <2> QED  BY <1>5, <2>1, <2>2, <2>3, <2>4 DEF Callbacks
<1>6. CASE mqtt_timer
  <2>1. Ticked \in Memory /\ Ticked.connState = cl.connState
    BY <1>1, <1>6, TickedTyped DEF mqtt_timer, TimerReconnect, TimerKeepAlive, TimerIdle
  <2>2. CASE TimerReconnect  BY <2>1, <2>2 DEF TimerReconnect, Memory
  <2>3. CASE TimerKeepAlive  BY <2>1, <2>3 DEF TimerKeepAlive, Memory
  <2>4. CASE TimerIdle  BY <2>1, <2>4 DEF TimerIdle
  <2> QED  BY <1>6, <2>2, <2>3, <2>4 DEF mqtt_timer
<1>7. CASE MQTT_Task /\ ~TaskReconnect
  <2>1. CASE TaskDisconnect
    BY <1>1, <2>1 DEF TaskDisconnect, espconn_disconnect, Memory
  <2>2. CASE TaskDisconnected
    BY <1>1, <2>2 DEF TaskDisconnected, mqtt_tcpclient_delete, Unlinked, Memory
  <2>3. CASE mqtt_client_delete  BY <2>3 DEF mqtt_client_delete, Cleared
  <2>4. CASE mqtt_send_keepalive
    BY <1>1, <2>4 DEF mqtt_send_keepalive, espconn_send, Memory
  <2>5. CASE TaskSend \/ TaskNothingToSend
    BY <1>1, <2>5 DEF TaskSend, TaskNothingToSend, espconn_send, Memory
  <2>6. CASE TaskIgnore  BY <2>6 DEF TaskIgnore
  <2> QED  BY <1>7, <2>1, <2>2, <2>3, <2>4, <2>5, <2>6 DEF MQTT_Task
<1>8. CASE RivalPosts \/ RivalRuns  BY <1>8 DEF RivalPosts, RivalRuns
<1> QED  BY <1>2, <1>3, <1>4, <1>5, <1>6, <1>7, <1>8 DEF Next

-----------------------------------------------------------------------------
(* The theorems.                                                           *)

(* The inductive invariant: what the timers have to do with the packets on *)
(* their way, what a session has to do with its connection, what a pending *)
(* connection has to do with the program's wish, and the task's events.    *)
THEOREM Inductive == Spec => []IInv
<1>1. Init => IInv
  <2>1. SUFFICES ASSUME Init PROVE IInv  OBVIOUS
  <2>2. cl = Cleared("unused") /\ ev = "none" /\ lost = FALSE  BY <2>1 DEF Init
  <2>3. Good(cl)  BY <2>2, ClearedGood
  <2>4. cl.connState = "WIFI_INIT"  BY <2>2 DEF Cleared
  <2> QED  BY <2>2, <2>3, <2>4 DEF IInv, EventTyped, TaskCovered, NeedsTask
<1>2. IInv /\ [Next]_vars => IInv'
  <2>1. SUFFICES ASSUME IInv, [Next]_vars PROVE IInv'  OBVIOUS
  <2>2. CASE Next  BY <2>1, <2>2, StepGood, StepEventTyped, StepCovered DEF IInv
  <2>3. CASE UNCHANGED vars
    BY <2>1, <2>3 DEF vars, IInv, EventTyped, TaskCovered, Posted
  <2> QED  BY <2>1, <2>2, <2>3
<1> QED  BY <1>1, <1>2, PTL DEF Spec

(* The client's memory: every state and tick is one the code expects, and  *)
(* msgQueue never holds more than its ring.                                *)
THEOREM ClientTypeOK == Spec => []TypeOK
<1>1. IInv => TypeOK  BY DEF IInv, Good, EventTyped, TypeOK
<1> QED  BY <1>1, Inductive, PTL

(* MQTT_Task is told of every state it has to act on.                      *)
THEOREM ClientTaskCovered == Spec => []TaskCovered
<1>1. IInv => TaskCovered  BY DEF IInv
<1> QED  BY <1>1, Inductive, PTL

(* Until a packet is late, one is on its way at most, the one              *)
(* pending_msg_type says.                                                  *)
THEOREM ClientPendingInFlight == Spec => []PendingInFlight
<1>1. IInv => PendingInFlight  BY DEF IInv, Good, Paced, Alone, PendingInFlight
<1> QED  BY <1>1, Inductive, PTL

(* A connected client has a connection.                                    *)
THEOREM ClientConnectedHasLink == Spec => []ConnectedHasLink
<1>1. IInv => ConnectedHasLink
  BY DEF IInv, Good, Linked, ConnectedHasLink, isConnected
<1> QED  BY <1>1, Inductive, PTL

(* No attempt to connect after the program has given up.                   *)
THEOREM ClientNoReconnect == Spec => NoReconnect
<1>1. IInv /\ [Next]_vars
        => [cl'.connState = "TCP_CONNECTING" /\ cl.connState # "TCP_CONNECTING"
              => cl'.wanted]_vars
  BY StepWanted
<1> QED  BY <1>1, Inductive, PTL DEF Spec, NoReconnect
=============================================================================
