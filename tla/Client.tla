------------------------------- MODULE Client -------------------------------
(***************************************************************************)
(* The MQTT client of mqtt.c, as the class MQTT of MQTT.cpp uses it: a     *)
(* connection state that the program's calls, a timer of one second, the   *)
(* callbacks of the TCP stack and the task MQTT_Task drive together, over  *)
(* an event queue of one place.                                            *)
(*                                                                         *)
(* One client, one record cl.  What else shares the event queue (Rival:    *)
(* further clients) takes its place now and then.  Every function runs to  *)
(* its end; what it posts is run later.                                    *)
(*                                                                         *)
(* The TCP stack (espconn) belongs to the SDK.  It calls back once for an  *)
(* attempt to connect, for a disconnection, for each packet it accepts and *)
(* for each segment it receives; it may refuse a packet, and it may not    *)
(* even try to connect (the results of both calls are ignored).  However   *)
(* long a packet is on its way, the timer runs on.  An event does not wait *)
(* for longer than until the client's timer fires twice.                   *)
(***************************************************************************)
EXTENDS Outbox, Order

CONSTANTS
  SendTicks,       \* MQTT_SEND_TIMOUT
  KeepAlive,       \* connect_info.keepalive
  ReconnectTicks,  \* MQTT_RECONNECT_TIMEOUT
  MaxFlight,       \* packets the TCP stack holds until they are acknowledged
  Segment,         \* what the broker may send in one piece
  Rival            \* TRUE when others use the event queue as well

Inbound == {"CONNACK", "REFUSED", "PUBLISH0", "PUBLISH1", "PUBLISH2", "PUBREC",
            "PUBREL", "PINGREQ", "ACK"}

ASSUME ClientAssumption ==
  /\ SendTicks \in Nat /\ KeepAlive \in Nat /\ ReconnectTicks \in Nat /\ MaxFlight \in Nat
  /\ Segment \subseteq Seq(Inbound)
  /\ Rival \in BOOLEAN

-----------------------------------------------------------------------------
VARIABLES
  cl,     \* the MQTT_Client and the state of its TCP connection
  ev,     \* the event waiting for MQTT_Task: none, this client's, this
          \* client's since before its timer fired last, another client's
  lost    \* history: a post of this client was lost since it last ran

vars == <<cl, ev, lost>>

ConnState == {"WIFI_INIT", "TCP_CONNECTING", "MQTT_CONNECT_SENDING", "MQTT_DATA",
              "MQTT_KEEPALIVE_SEND", "TCP_RECONNECT_DISCONNECTING",
              "TCP_RECONNECT_REQ", "TCP_RECONNECT", "TCP_DISCONNECTING",
              "TCP_DISCONNECTED", "MQTT_DELETED"}
Outbound == {"CONNECT", "PUBLISH", "SUBSCRIBE", "UNSUBSCRIBE", "PINGREQ",
             "PUBACK", "PUBREC", "PUBREL", "PUBCOMP", "PINGRESP"}
Link == {"none", "opening", "up", "closing", "dead"}

(* Half the keepalive interval without a packet: a keepalive is due.       *)
KeepAliveDue == KeepAlive \div 2

(* After so many ticks a packet on its way is late: the next one may go,   *)
(* or a keepalive.                                                         *)
Late == Lowest({SendTicks, KeepAliveDue + 1})

MsgQueue == QueueOf({Packet(t) : t \in Outbound})

(* use     not initialised; in use; MQTT_DeleteClient has been called      *)
(* link    pCon and its connection: none is pCon = NULL, dead one that has *)
(*         ended or was never tried                                        *)
(* flight  the packets the stack has accepted and not acknowledged         *)
(* age     history: the ticks, up to Late, since none was on its way       *)
(* pending mqtt_state.pending_msg_type                                     *)
(* timer   mqttTimer is armed                                              *)
(* wanted  history: the program's last word was MQTT_Connect               *)
Memory ==
  [use : {"unused", "alive", "deleted"},
   connState : ConnState,
   link : Link,
   flight : Seq(Outbound),
   age : 0..Late,
   pending : Outbound \cup {None},
   queue : MsgQueue,
   sendTimeout : 0..SendTicks,
   keepAliveTick : 0..(KeepAliveDue + 1),
   reconnectTick : 0..ReconnectTicks,
   timer : BOOLEAN,
   wanted : BOOLEAN]

(* The memory MQTT_InitConnection clears.                                  *)
Cleared(use) ==
  [use |-> use, connState |-> "WIFI_INIT", link |-> "none", flight |-> <<>>,
   age |-> 0, pending |-> None, queue |-> <<>>, sendTimeout |-> 0,
   keepAliveTick |-> 0, reconnectTick |-> 0, timer |-> FALSE,
   wanted |-> FALSE]

Init == cl = Cleared("unused") /\ ev = "none" /\ lost = FALSE

-----------------------------------------------------------------------------
(* The event queue and the TCP stack.                                      *)

(* A post that finds the place taken is lost, which does no harm when it   *)
(* is this client that has taken it.                                       *)
system_os_post ==
  /\ ev' = IF ev = "none" THEN "own" ELSE ev
  /\ lost' = (lost \/ ev = "other")

Quiet == UNCHANGED <<ev, lost>>

Unlinked(k, link) == [k EXCEPT !.link = link, !.flight = <<>>, !.age = 0]

(* espconn_send: a connection that is not up accepts nothing, and one that *)
(* has too much on its way neither.                                        *)
CanAccept(k) == IF k.link = "up" /\ Len(k.flight) < MaxFlight THEN BOOLEAN ELSE {FALSE}

espconn_send(k, type, accepted) ==
  IF accepted THEN [k EXCEPT !.flight = Append(@, type)] ELSE k

espconn_disconnect(k) == [k EXCEPT !.link = IF @ = "up" THEN "closing" ELSE @]

-----------------------------------------------------------------------------
(* The end of a connection and the beginning of one.                       *)

mqtt_tcpclient_delete(k) == Unlinked(k, "none")

(* espconn_connect is called for a host given as an address, and for no    *)
(* other: the lookup of names is commented out.                            *)
Connected(k, tried) ==
  [Unlinked(k, IF tried THEN "opening" ELSE "dead")
     EXCEPT !.keepAliveTick = 0, !.reconnectTick = 0, !.timer = TRUE,
            !.connState = "TCP_CONNECTING"]

-----------------------------------------------------------------------------
(* The program's calls.                                                    *)

(* MQTT_InitConnection, MQTT_InitClient, MQTT_InitLWT.                     *)
MQTT ==
  /\ cl.use = "unused"
  /\ cl' = Cleared("alive")
  /\ system_os_post

MQTT_Connect ==
  /\ cl.use = "alive"
  /\ \E tried \in BOOLEAN : cl' = [Connected(cl, tried) EXCEPT !.wanted = TRUE]
  /\ Quiet

(* (Mutant: the timer goes on.)                                            *)
DisconnectTimed ==
  /\ cl.use = "alive"
  /\ cl' = [cl EXCEPT !.connState = "TCP_DISCONNECTING", !.wanted = FALSE]
  /\ system_os_post

MQTT_Disconnect ==
  /\ cl.use = "alive"
  /\ cl' = [cl EXCEPT !.connState = "TCP_DISCONNECTING", !.timer = FALSE,
                      !.wanted = FALSE]
  /\ system_os_post

(* (Mutant: nobody is told.)                                               *)
DeleteUnposted ==
  /\ cl.use = "alive"
  /\ cl' = [cl EXCEPT !.use = "deleted", !.connState = "MQTT_DELETED",
                      !.timer = FALSE, !.wanted = FALSE]
  /\ Quiet

MQTT_DeleteClient ==
  /\ cl.use = "alive"
  /\ cl' = [cl EXCEPT !.use = "deleted", !.connState = "MQTT_DELETED",
                      !.timer = FALSE, !.wanted = FALSE]
  /\ system_os_post

(* (Mutant: nothing is dropped to make room.)                              *)
InsistUnbounded(q, frame) == Append(q, frame)

(* The oldest packet is dropped until the new one fits: with frames of one *)
(* size, once, after the first attempt has left a cut frame.               *)
Insist(q, frame) ==
  IF Room(q) > 0 THEN QUEUE_Puts(q, <<frame>>)
  ELSE QUEUE_Puts(AfterGet(QUEUE_Puts(q, <<frame>>)), <<frame>>)

Enqueue(type) ==
  /\ cl.use = "alive"
  /\ cl' = [cl EXCEPT !.queue = Insist(@, Packet(type))]
  /\ system_os_post

MQTT_Publish == Enqueue("PUBLISH")
MQTT_Subscribe == Enqueue("SUBSCRIBE")
MQTT_UnSubscribe == Enqueue("UNSUBSCRIBE")
MQTT_Ping == Enqueue("PINGREQ")

isConnected(k) ==
  k.connState \in {"MQTT_CONNECT_SENDING", "MQTT_DATA", "MQTT_KEEPALIVE_SEND",
                   "MQTT_DELETED"}

-----------------------------------------------------------------------------
(* The callbacks of the TCP stack.                                         *)

mqtt_tcpclient_connect_cb ==
  /\ cl.link = "opening"
  /\ \E accepted \in BOOLEAN :
       cl' = [espconn_send([cl EXCEPT !.link = "up"], "CONNECT", accepted)
                EXCEPT !.pending = "CONNECT", !.sendTimeout = SendTicks,
                       !.connState = "MQTT_CONNECT_SENDING"]
  /\ system_os_post

(* (Mutant: a connection that breaks is left to the next send to notice.)  *)
ReconIfConnecting ==
  /\ cl.link \in {"opening", "up", "closing"}
  /\ cl' = [Unlinked(cl, "dead") EXCEPT
              !.connState = IF cl.link = "opening" THEN "TCP_RECONNECT_REQ" ELSE @]
  /\ system_os_post

(* The attempt to connect has failed, or the connection is broken.         *)
mqtt_tcpclient_recon_cb ==
  /\ cl.link \in {"opening", "up", "closing"}
  /\ cl' = [Unlinked(cl, "dead") EXCEPT !.connState = "TCP_RECONNECT_REQ"]
  /\ system_os_post

(* The connection has been closed, by either side.                         *)
mqtt_tcpclient_discon_cb ==
  /\ cl.link \in {"up", "closing"}
  /\ cl' = [Unlinked(cl, "dead") EXCEPT
              !.connState = IF @ = "TCP_DISCONNECTING" THEN "TCP_DISCONNECTED"
                            ELSE "TCP_RECONNECT_REQ"]
  /\ system_os_post

Acknowledged(k) ==
  [k EXCEPT !.flight = Tail(@), !.age = IF Len(k.flight) = 1 THEN 0 ELSE @]

(* (Mutant: nobody is told.)                                               *)
SentUnposted ==
  /\ cl.flight # <<>>
  /\ cl' = [Acknowledged(cl) EXCEPT !.sendTimeout = 0, !.keepAliveTick = 0]
  /\ Quiet

(* The oldest packet on its way is acknowledged.  The program's callback   *)
(* for a publication is called when the pending type is PUBLISH.           *)
mqtt_tcpclient_sent_cb ==
  /\ cl.flight # <<>>
  /\ cl' = [Acknowledged(cl) EXCEPT !.sendTimeout = 0, !.keepAliveTick = 0]
  /\ system_os_post

Publishes == {"PUBLISH0", "PUBLISH1", "PUBLISH2"}

(* READPACKET goes on behind a PUBLISH only.                               *)
Looked(segment) ==
  {i \in DOMAIN segment : \A j \in 1..(i - 1) : segment[j] \in Publishes}

Reply == [PUBLISH1 |-> "PUBACK", PUBLISH2 |-> "PUBREC", PUBREC |-> "PUBREL",
          PUBREL |-> "PUBCOMP", PINGREQ |-> "PINGRESP"]

(* The replies to a segment, in order.                                     *)
Replies(segment) ==
  LET replying == {i \in Looked(segment) : segment[i] \in DOMAIN Reply}
  IN  [n \in 1..Cardinality(replying) |-> Packet(Reply[segment[Nth(replying, n)]])]

(* In MQTT_CONNECT_SENDING only the first packet is looked at.             *)
Answered(k, type) ==
  CASE type = "CONNACK" /\ k.pending = "CONNECT" -> [k EXCEPT !.connState = "MQTT_DATA"]
    [] type = "REFUSED" \/ (type = "CONNACK" /\ k.pending # "CONNECT")
                                                 -> espconn_disconnect(k)
    [] OTHER                                     -> k

(* A segment that does not fit in_buffer, <<>>, is dropped.                *)
mqtt_tcpclient_recv ==
  /\ cl.link \in {"up", "closing"}
  /\ \E segment \in Segment \cup {<<>>} :
       cl' = CASE cl.connState \in {"MQTT_DATA", "MQTT_KEEPALIVE_SEND"}
                    -> [cl EXCEPT !.queue = QUEUE_Puts(@, Replies(segment))]
               [] cl.connState = "MQTT_CONNECT_SENDING" /\ segment # <<>>
                    -> Answered(cl, Head(segment))
               [] OTHER -> cl
  /\ system_os_post

-----------------------------------------------------------------------------
(* The timer.                                                              *)

(* A second passes: for the packets on their way, and for a send.          *)
Ticked ==
  [cl EXCEPT !.age = IF cl.flight = <<>> \/ @ = Late THEN @ ELSE @ + 1,
             !.sendTimeout = IF @ > 0 THEN @ - 1 ELSE 0]

Due == cl.timer /\ ev # "late"

Elapse == ev' = (IF ev = "own" THEN "late" ELSE ev) /\ UNCHANGED lost

(* What the timer posts is new, unless an event is waiting already.        *)
TimerPosts == IF ev = "own" THEN Elapse ELSE system_os_post

(* (Mutant: the task is not told of it.)                                   *)
TimerUnposted ==
  /\ Due
  /\ cl.connState = "TCP_RECONNECT_REQ"
  /\ cl' = IF cl.reconnectTick < ReconnectTicks
           THEN [Ticked EXCEPT !.reconnectTick = @ + 1]
           ELSE [Ticked EXCEPT !.reconnectTick = 0, !.connState = "TCP_RECONNECT"]
  /\ Elapse

TimerReconnect ==
  /\ Due
  /\ cl.connState = "TCP_RECONNECT_REQ"
  /\ IF cl.reconnectTick < ReconnectTicks
     THEN cl' = [Ticked EXCEPT !.reconnectTick = @ + 1] /\ Elapse
     ELSE /\ cl' = [Ticked EXCEPT !.reconnectTick = 0, !.connState = "TCP_RECONNECT"]
          /\ TimerPosts

TimerKeepAlive ==
  /\ Due
  /\ cl.connState = "MQTT_DATA"
  /\ IF cl.keepAliveTick < KeepAliveDue
     THEN cl' = [Ticked EXCEPT !.keepAliveTick = @ + 1] /\ Elapse
     ELSE /\ cl' = [Ticked EXCEPT !.keepAliveTick = @ + 1,
                                  !.connState = "MQTT_KEEPALIVE_SEND"]
          /\ TimerPosts

TimerIdle ==
  /\ Due
  /\ cl.connState \notin {"TCP_RECONNECT_REQ", "MQTT_DATA"}
  /\ cl' = Ticked /\ Elapse

mqtt_timer == TimerReconnect \/ TimerKeepAlive \/ TimerIdle

-----------------------------------------------------------------------------
(* MQTT_Task, with the event taken from the queue.                         *)

Posted == ev \in {"own", "late"}
Runs == Posted /\ ev' = "none" /\ lost' = FALSE

TaskReconnect ==
  /\ Runs
  /\ cl.connState = "TCP_RECONNECT"
  /\ \E tried \in BOOLEAN : cl' = Connected(cl, tried)

(* An attempt still under way may be called off or not.                    *)
TaskDisconnect ==
  /\ Runs
  /\ cl.connState \in {"TCP_DISCONNECTING", "TCP_RECONNECT_DISCONNECTING"}
  /\ \/ cl' = espconn_disconnect(cl)
     \/ cl.link = "opening" /\ cl' = [cl EXCEPT !.link = "closing"]

(* The connection or the whole client is freed.                            *)
TaskDisconnected ==
  /\ Runs
  /\ cl.connState = "TCP_DISCONNECTED"
  /\ cl' = mqtt_tcpclient_delete(cl)

mqtt_client_delete ==
  /\ Runs
  /\ cl.connState = "MQTT_DELETED"
  /\ cl' = Cleared("unused")

(* mqtt_send_keepalive posts from within the task.                         *)
mqtt_send_keepalive ==
  /\ Posted /\ ev' = "own" /\ lost' = FALSE
  /\ cl.connState = "MQTT_KEEPALIVE_SEND"
  /\ \E accepted \in CanAccept(cl) :
       LET k == [espconn_send(cl, "PINGREQ", accepted)
                   EXCEPT !.pending = "PINGREQ", !.sendTimeout = SendTicks]
       IN  cl' = IF accepted
                 THEN [k EXCEPT !.keepAliveTick = 0, !.connState = "MQTT_DATA"]
                 ELSE [k EXCEPT !.connState = "TCP_RECONNECT_DISCONNECTING"]

(* (Mutant: the packet before this one may still be on its way.)           *)
SendAnyTime ==
  /\ Runs
  /\ cl.connState = "MQTT_DATA"
  /\ CanGet(cl.queue)
  /\ LET type == Head(FromNextFrame(cl.queue)).type
         k == [cl EXCEPT !.queue = AfterGet(@), !.pending = type,
                         !.sendTimeout = SendTicks, !.keepAliveTick = 0]
     IN  \E accepted \in CanAccept(cl) : cl' = espconn_send(k, type, accepted)

(* The next packet goes; whether the stack accepts it is not looked at.    *)
TaskSend ==
  /\ Runs
  /\ cl.connState = "MQTT_DATA"
  /\ cl.sendTimeout = 0 /\ CanGet(cl.queue)
  /\ LET type == Head(FromNextFrame(cl.queue)).type
         k == [cl EXCEPT !.queue = AfterGet(@), !.pending = type,
                         !.sendTimeout = SendTicks, !.keepAliveTick = 0]
     IN  \E accepted \in CanAccept(cl) : cl' = espconn_send(k, type, accepted)

TaskNothingToSend ==
  /\ Runs
  /\ cl.connState = "MQTT_DATA"
  /\ cl.sendTimeout # 0 \/ ~CanGet(cl.queue)
  /\ cl' = [cl EXCEPT !.queue = IF cl.sendTimeout = 0 THEN AfterGet(@) ELSE @]

TaskIgnore ==
  /\ Runs
  /\ cl.connState \in {"WIFI_INIT", "TCP_CONNECTING", "MQTT_CONNECT_SENDING",
                       "TCP_RECONNECT_REQ"}
  /\ UNCHANGED cl

MQTT_Task == \/ TaskReconnect \/ TaskDisconnect \/ TaskDisconnected
             \/ mqtt_client_delete \/ mqtt_send_keepalive
             \/ TaskSend \/ TaskNothingToSend \/ TaskIgnore

(* Other clients of the same task post and are run.                        *)
RivalPosts == Rival /\ ev = "none" /\ ev' = "other" /\ UNCHANGED <<cl, lost>>
RivalRuns == ev = "other" /\ ev' = "none" /\ UNCHANGED <<cl, lost>>

-----------------------------------------------------------------------------
Calls == MQTT \/ MQTT_Connect \/ MQTT_Disconnect \/ MQTT_DeleteClient
         \/ MQTT_Publish \/ MQTT_Subscribe \/ MQTT_UnSubscribe \/ MQTT_Ping

Callbacks == \/ mqtt_tcpclient_connect_cb \/ mqtt_tcpclient_recon_cb
             \/ mqtt_tcpclient_discon_cb \/ mqtt_tcpclient_sent_cb
             \/ mqtt_tcpclient_recv

Next == Calls \/ Callbacks \/ mqtt_timer \/ MQTT_Task \/ RivalPosts \/ RivalRuns

Spec == Init /\ [][Next]_vars

(* The system runs posted events and due timers, and the TCP stack calls   *)
(* back for what it was asked to do: a packet is acknowledged unless its   *)
(* connection ends, a disconnection is reported.  Nothing is assumed of    *)
(* the broker, of attempts to connect or of the program.                   *)
Fairness ==
  /\ WF_vars(MQTT_Task) /\ WF_vars(RivalRuns) /\ WF_vars(mqtt_timer)
  /\ WF_vars(mqtt_tcpclient_sent_cb)
  /\ WF_vars(cl.link = "closing" /\ mqtt_tcpclient_discon_cb)

FairSpec == Spec /\ Fairness

-----------------------------------------------------------------------------
(* Properties.                                                             *)

(* The type invariant: states, ticks within their timeouts, a queue within *)
(* its ring.                                                               *)
TypeOK ==
  /\ cl \in Memory
  /\ ev \in {"none", "own", "late", "other"}
  /\ lost \in BOOLEAN

(* A state in which MQTT_Task has something to do is left to nobody: its   *)
(* event is waiting, unless the post was lost to another client.  (The     *)
(* timer looks at none of these states.)                                   *)
NeedsTask(k) ==
  \/ k.connState \in {"TCP_RECONNECT", "MQTT_DELETED", "MQTT_KEEPALIVE_SEND"}
  \/ k.connState = "TCP_DISCONNECTED" /\ k.link # "none"
  \/ k.connState \in {"TCP_DISCONNECTING", "TCP_RECONNECT_DISCONNECTING"} /\ k.link = "up"

TaskCovered == NeedsTask(cl) => Posted \/ lost

(* At most one packet is on its way, and it is the one pending_msg_type    *)
(* says, so that publishedCb is called for publications and for nothing    *)
(* else, until a packet is late; from then on acknowledgements may be      *)
(* credited to a later packet, until all that was sent is acknowledged or  *)
(* the connection has gone.                                                *)
PendingInFlight == cl.age < Late => cl.flight \in {<<>>, <<cl.pending>>}

(* A client that reports itself as connected has a connection its handlers *)
(* may send on and disconnect, until it is deleted.                        *)
ConnectedHasLink ==
  isConnected(cl) /\ cl.use = "alive" => cl.link \in {"up", "closing"}

(* After MQTT_Disconnect or MQTT_DeleteClient no further attempt to        *)
(* connect is made, also when the call met a reconnection under way.       *)
NoReconnect ==
  [][cl'.connState = "TCP_CONNECTING" /\ cl.connState # "TCP_CONNECTING" => cl'.wanted]_vars

(* A client whose connection was lost tries again, unless the program has  *)
(* changed its mind or the event was lost to another client.               *)
LostReconnects ==
  cl.wanted /\ cl.connState \in {"TCP_RECONNECT_REQ", "TCP_RECONNECT",
                                 "TCP_RECONNECT_DISCONNECTING"}
    ~> cl.connState = "TCP_CONNECTING" \/ ~cl.wanted \/ lost

(* A packet in the queue of a session is not left there: sooner or later   *)
(* one is read from the queue, if only because a keepalive was due, unless *)
(* the session ends, the event is lost to another client again and again,  *)
(* or packets are late again and again: an acknowledgement that comes when *)
(* a keepalive is due is followed by the keepalive, and the queue waits.   *)
Waiting ==
  /\ cl.wanted /\ cl.connState \in {"MQTT_DATA", "MQTT_KEEPALIVE_SEND"}
  /\ cl.queue # <<>> /\ ~lost

QueueServed == <>[](Waiting /\ cl.age < Late) => []<><<TaskSend>>_vars
=============================================================================
