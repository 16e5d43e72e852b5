------------------------------- MODULE Broker -------------------------------
(***************************************************************************)
(* The MQTT broker of mqtt_server.cpp: the array clientcons of accepted    *)
(* TCP connections that MQTT_network_loop polls, the list clientcon_list   *)
(* of client states, the subscription and retained tables, the one-place   *)
(* event queue of MQTT_ServerTask, and the per-client timers.              *)
(*                                                                         *)
(* The whole of the broker's memory is one record, srv.  A C function that *)
(* changes it is an operator from records to records with the function's   *)
(* name, so that handlers compose the way the code calls.  A client state  *)
(* (MQTT_ClientCon) is named by the slot of its connection.                *)
(*                                                                         *)
(* The code runs on one processor.  The system task and the timers run     *)
(* only where the loop yields, which is between the slots it polls and     *)
(* never while a callback is running: `busy' is the callback in progress.  *)
(***************************************************************************)
EXTENDS Outbox, Tables

CONSTANTS
  MaxClients,     \* MAX_CLIENTS
  ClientId,       \* the non-empty client identifiers
  ZeroLenId,      \* zero_len_id
  NulId,          \* an identifier of some length that starts with a NUL
  Local,          \* LOCAL_MQTT_CLIENT
  Dummy, Stale,   \* events: &dummy_clientcon, and a client state since freed
  SendTicks,      \* MQTT_SEND_TIMOUT
  ConnectTicks,   \* the connection timeout set on accept
  KeepTicks,      \* the one set after each message, 2 * keepalive + 10
  Input,          \* the messages clients may send
  Chaining,       \* what may follow a message in the receive buffer
  Mishaps,        \* what may go wrong, see below
  Budget          \* bounds the connections, messages and local calls

Slot == 1..MaxClients

ASSUME BrokerAssumption ==
  /\ MaxClients \in Nat \ {0}
  /\ {None, Local, Dummy, Stale} \cap Slot = {}
  /\ None # Local /\ None # Dummy /\ None # Stale /\ Dummy # Stale
  /\ {None, ZeroLenId, NulId} \cap ClientId = {}
  /\ None # ZeroLenId /\ None # NulId /\ ZeroLenId # NulId
  /\ SendTicks \in Nat /\ ConnectTicks \in Nat /\ KeepTicks \in Nat
  /\ Chaining \subseteq {"none", "next", "partial"}
  /\ Budget \in Nat

(* The failures a model admits: no memory for a client state, a connection *)
(* refused (by the connect callback, or for want of memory), a write that  *)
(* finds no room, and the three ways a peer's closing can look (below).    *)
ASSUME MishapAssumption ==
  Mishaps \subseteq {"no_state", "refused", "no_room", "fin", "stuck", "down"}

-----------------------------------------------------------------------------
(* Messages.  A verdict says which check of the CONNECT code stops it.  An *)
(* OVERRUN is a PUBLISH whose topic would not end inside in_buffer.        *)

Will == [topic : Topic, data : Data, retain : BOOLEAN]
Verdict == {"accepted", "bad_header", "malformed", "no_mem", "unauthorized"}

Message ==
       [type : {"CONNECT"}, id : ClientId \cup {ZeroLenId, NulId},
        login : BOOLEAN, will : Will \cup {None}, verdict : Verdict]
  \cup [type : {"SUBSCRIBE"}, filters : Seq(Filter) \ {<<>>}]
  \cup [type : {"UNSUBSCRIBE"}, filters : SUBSET Filter]
  \cup [type : {"PUBLISH"}, topic : Topic, data : Data, retain : BOOLEAN]
  \cup [type : {"PINGREQ", "DISCONNECT", "IGNORED", "MALFORMED",
                "TOO_LONG", "PARTIAL", "OVERRUN"}]

(* Topics starting with '$', and topics with wildcards in them.            *)
CONSTANTS Dollar, Wild

ASSUME InputAssumption == Input \subseteq Message /\ Dollar \cup Wild \subseteq Topic

-----------------------------------------------------------------------------
VARIABLES
  srv,      \* the broker's memory and the state of its TCP connections
  pos,      \* where MQTT_network_loop is: 0 at the accept, s at slot s
  busy,     \* "no", or the callback in progress: "packet", "cleanup"
  budget    \* what is left of Budget

vars == <<srv, pos, busy, budget>>

SlotKind == {"free", "null", "con", "dummy", "dangling"}
Link == {"up", "fin", "stuck", "down"}
ConnState == {"NONE", "TCP_DISCONNECT", "TCP_CONNECTED", "TCP_DISCONNECTING",
              "MQTT_DATA"}
Fault == {"none", "null_write", "double_free", "stale_event", "misread"}

(* slot    clientcons[s] and what its `reverse' refers to: no connection,  *)
(*         NULL, a client state, dummy_clientcon, a client state freed     *)
(* doomed  clientcons[s]->tobedeleted                                      *)
(* link    the TCP connection: up; closed by the peer with a message still *)
(*         unread (fin) or one single byte (stuck); down                   *)
(* state, id, will, queue, sendTimeout, connectionTimeout                  *)
(*         connState, connect_info.client_id and .will_*, msgQueue and the *)
(*         timeouts of the client state                                    *)
(* clist   clientcon_list, head first                                      *)
(* subs, ret   topic_list and retained_list                                *)
(* ev      the event waiting for MQTT_ServerTask                           *)
(* dummy   dummy_clientcon.pCon                                            *)
(* fault   the undefined behaviour the broker has run into                 *)
(* quiet   history: the last handler ended without a look at who is next   *)
Memory ==
  [slot   : [Slot -> SlotKind],
   doomed : [Slot -> BOOLEAN],
   link   : [Slot -> Link],
   state  : [Slot -> ConnState],
   id     : [Slot -> ClientId \cup {ZeroLenId, NulId, None}],
   will   : [Slot -> Will \cup {None}],
   queue  : [Slot -> Queue],
   sendTimeout : [Slot -> 0..SendTicks],
   connectionTimeout : [Slot -> Nat],
   clist  : Seq(Slot),
   subs   : Subscriptions(Slot \cup {Local}),
   ret    : RetainedList,
   ev     : Slot \cup {None, Dummy, Stale},
   dummy  : Slot \cup {None},
   fault  : Fault,
   quiet  : BOOLEAN]

Boot ==
  [slot   |-> [s \in Slot |-> "free"],
   doomed |-> [s \in Slot |-> FALSE],
   link   |-> [s \in Slot |-> "down"],
   state  |-> [s \in Slot |-> "NONE"],
   id     |-> [s \in Slot |-> None],
   will   |-> [s \in Slot |-> None],
   queue  |-> [s \in Slot |-> <<>>],
   sendTimeout |-> [s \in Slot |-> 0],
   connectionTimeout |-> [s \in Slot |-> 0],
   clist  |-> <<>>,
   subs   |-> create_topiclist,
   ret    |-> create_retainedlist,
   ev     |-> None,
   dummy  |-> None,
   fault  |-> "none",
   quiet  |-> FALSE]

Init == srv = Boot /\ pos = 0 /\ busy = "no" /\ budget = Budget

-----------------------------------------------------------------------------
(* The list of client states, the events, and who is served next.          *)

InList(h, s) == \E i \in DOMAIN h.clist : h.clist[i] = s
Place(h, s) == CHOOSE i \in DOMAIN h.clist : h.clist[i] = s

(* (Mutant: the head goes, whichever was meant.)                           *)
UnlinkHead(list, i) == Tail(list)

Unlink(list, i) ==
  [j \in 1..(Len(list) - 1) |-> IF j < i THEN list[j] ELSE list[j + 1]]

(* WiFiClient::connected() and available(), as the loop uses them.         *)
connected(h, s) == h.link[s] # "down"
HasMessage(h, s) == h.link[s] \in {"up", "fin"}

(* WiFiClient::stop(), and read() of all there is.                         *)
stop(h, s) == [h EXCEPT !.link[s] = "down"]
read(h, s) == [h EXCEPT !.link[s] = IF @ = "fin" THEN "down" ELSE @]

(* The event queue has one place: a post that finds it taken is lost.      *)
system_os_post(h, e) ==
  [h EXCEPT !.ev = IF @ = None THEN e ELSE @, !.quiet = FALSE]

(* The first client in the list with output waiting and its link open.     *)
Waiting(h) == {i \in DOMAIN h.clist : /\ ~QUEUE_IsEmpty(h.queue[h.clist[i]])
                                      /\ connected(h, h.clist[i])}

activate_next_client(h) ==
  IF Waiting(h) = {}
  THEN [h EXCEPT !.quiet = FALSE]
  ELSE system_os_post(h, h.clist[Lowest(Waiting(h))])

Hush(h) == [h EXCEPT !.quiet = TRUE]

-----------------------------------------------------------------------------
(* Publishing: find_topic with publish_topic as its callback.  The encoder *)
(* writes through the owner's mqtt_connection.buffer, which is NULL while  *)
(* the owner is being deleted (it has left the list but not the table).    *)

publish(h, topic, data) ==
  LET copies(s) == [i \in 1..Cardinality(Hits(h.subs, s, topic)) |->
                      Publication(topic, data)]
  IN  [h EXCEPT
        !.queue = [s \in Slot |-> QUEUE_Puts(@[s], copies(s))],
        !.fault = IF \E s \in Slot : ~InList(h, s) /\ Hits(h.subs, s, topic) # {}
                  THEN "null_write" ELSE @]

retain(h, topic, data) == [h EXCEPT !.ret = update_retainedtopic(@, topic, data)]

put(h, s, type) == [h EXCEPT !.queue[s] = QUEUE_Puts(@, <<Packet(type)>>)]

-----------------------------------------------------------------------------
(* The end of a client state.                                              *)

(* (Mutant: no will while the connection is still open.)                   *)
WillOnlyIfBroken(h, s) ==
  LET w == h.will[s]
  IN  IF w = None \/ connected(h, s) THEN h
      ELSE activate_next_client(publish(h, w.topic, w.data))

publish_will(h, s) ==
  LET w == h.will[s]
      p == activate_next_client(publish(h, w.topic, w.data))
  IN  IF w = None THEN h
      ELSE IF w.retain THEN retain(p, w.topic, w.data) ELSE p

(* The memory of a client state: nothing of it is left.  An event that     *)
(* refers to it stays, and so does the connection's `reverse'.             *)
os_free(h, s) ==
  [h EXCEPT !.slot[s] = "dangling", !.state[s] = "NONE", !.id[s] = None,
            !.will[s] = None, !.queue[s] = <<>>,
            !.sendTimeout[s] = 0, !.connectionTimeout[s] = 0,
            !.ev = IF @ = s THEN Stale ELSE @]

(* The client state leaves the list, its will is published, its            *)
(* subscriptions go and it is freed.                                       *)
MQTT_server_deleteClientCon(h, s) ==
  LET off == [h EXCEPT
               !.clist = IF InList(h, s) THEN Unlink(@, Place(h, s)) ELSE @]
      lwt == publish_will(off, s)
  IN  os_free([lwt EXCEPT !.subs = delete_topic(@, s, Filter)], s)

(* (Mutant: the connection keeps its reference to the client state.)       *)
DisconnectDetached(h, s) ==
  system_os_post(MQTT_server_deleteClientCon(h, s), Dummy)

(* The server ends a session: the connection is handed to the one and only *)
(* dummy_clientcon, whose event is to stop it.                             *)
MQTT_server_disconnectClientCon(h, s) ==
  LET del == MQTT_server_deleteClientCon(h, s)
  IN  system_os_post([del EXCEPT !.slot[s] = "dummy", !.dummy = s], Dummy)

(* The clients in the list of that name.  The name is compared where it    *)
(* lies in the receive buffer and ends at a NUL: one that starts with a    *)
(* NUL is the empty name of the clients that have none.                    *)
SameName(a, b) == a = b \/ {a, b} \subseteq {ZeroLenId, NulId}
Named(h, id) == {i \in DOMAIN h.clist : SameName(h.id[h.clist[i]], id)}
First(h, id) == h.clist[Lowest(Named(h, id))]

(* (Mutant: only the head of the list is compared.)                        *)
DeleteHeadById(h, id) ==
  IF Named(h, id) # {} /\ 1 \in Named(h, id)
  THEN MQTT_server_disconnectClientCon(h, h.clist[1]) ELSE h

delete_client_by_id(h, id) ==
  IF Named(h, id) = {} THEN h
  ELSE MQTT_server_disconnectClientCon(h, First(h, id))

-----------------------------------------------------------------------------
(* Connections come and go: MQTT_ClientCon_connected_cb, _discon_cb.       *)

(* Memory for a client state, perhaps that of one freed earlier to which   *)
(* an event still refers.                                                  *)
zalloc(h, s, reuse) ==
  [h EXCEPT !.slot[s] = "con", !.ev = IF reuse THEN s ELSE @]

MQTT_server_initClientCon(h, s) ==
  [h EXCEPT !.state[s] = "TCP_CONNECTED", !.id[s] = ZeroLenId,
            !.clist = <<s>> \o @, !.connectionTimeout[s] = ConnectTicks]

Refuse(h, s) == system_os_post([h EXCEPT !.state[s] = "TCP_DISCONNECT"], s)

(* (Mutant: dummy_clientcon keeps the connection that has gone.)           *)
DisconKeepsDummy(h, s) ==
  IF h.slot[s] = "con" THEN MQTT_server_deleteClientCon(h, s) ELSE h

MQTT_ClientCon_discon_cb(h, s) ==
  CASE h.slot[s] = "con"      -> MQTT_server_deleteClientCon(h, s)
    [] h.slot[s] = "dummy"    -> [h EXCEPT !.dummy = None]
    [] h.slot[s] = "dangling" -> [h EXCEPT !.fault = "double_free"]
    [] OTHER                  -> h

MQTT_ClientCon_sent_cb(h, s) ==
  LET sent == [h EXCEPT !.sendTimeout[s] = 0]
  IN  activate_next_client(IF h.state[s] = "TCP_DISCONNECTING"
                           THEN MQTT_server_disconnectClientCon(sent, s)
                           ELSE sent)

-----------------------------------------------------------------------------
(* CONNECT, received in state TCP_CONNECTED.                               *)

Refused(h, s) == put([h EXCEPT !.state[s] = "TCP_DISCONNECTING"], s, "REFUSED")

(* A CONNECT without further fields ends with the client identifier, and   *)
(* a NUL follows it only when nothing else is in the buffer; will topic    *)
(* and user name start with a length whose high byte is the NUL.           *)
Terminated(m, more) ==
  m.login \/ m.will # None \/ m.id = NulId \/ more = "none"

Takeover(h, s, m, more) ==
  LET free == IF m.id # ZeroLenId /\ Terminated(m, more)
              THEN delete_client_by_id(h, m.id) ELSE h
  IN  [free EXCEPT !.id[s] = m.id]

(* The will is stored field by field: its topic before it is looked at,    *)
(* its data after that.                                                    *)
WillRejected(m) == m.will # None /\ m.will.topic \in Dollar \cup Wild

StoreWill(h, s, m) ==
  [h EXCEPT !.will[s] =
     IF WillRejected(m) THEN [m.will EXCEPT !.data = NoPayload] ELSE m.will]

(* From the user name on: what remains to be read, the authorisation and   *)
(* the answer.                                                             *)
FinishConnect(h, s, m) ==
  CASE m.verdict = "malformed"    -> MQTT_server_disconnectClientCon(h, s)
    [] m.verdict = "no_mem"       -> Refused(h, s)
    [] m.verdict = "unauthorized" -> Refused([h EXCEPT !.will[s] = None], s)
    [] m.verdict = "accepted"     -> put([h EXCEPT !.state[s] = "MQTT_DATA"], s, "CONNACK")

recv_connect(h, s, m, more) ==
  LET known == StoreWill(Takeover(h, s, m, more), s, m)
  IN  IF m.verdict = "bad_header" THEN Refused(h, s)
      ELSE IF WillRejected(m) THEN MQTT_server_disconnectClientCon(known, s)
      ELSE FinishConnect(known, s, m)

-----------------------------------------------------------------------------
(* The messages of a session, received in state MQTT_DATA.                 *)

(* Retained messages are looked up for the last filter of the request.     *)
recv_subscribe(h, s, m) ==
  LET last == m.filters[Len(m.filters)]
      hits == find_retainedtopic(h.ret, last)
      acked == put([h EXCEPT !.subs = add_topics(@, s, m.filters)], s, "SUBACK")
  IN  [acked EXCEPT !.queue[s] = QUEUE_Puts(@,
         [i \in DOMAIN hits |-> Retained(hits[i].topic, hits[i].data)])]

recv_unsubscribe(h, s, m) ==
  put([h EXCEPT !.subs = delete_topic(@, s, m.filters)], s, "UNSUBACK")

recv_publish(h, m) ==
  IF m.topic \in Dollar THEN h
  ELSE LET p == publish(h, m.topic, m.data)
       IN  IF m.retain THEN retain(p, m.topic, m.data) ELSE p

recv_disconnect(h, s) ==
  MQTT_server_disconnectClientCon([h EXCEPT !.will[s] = None], s)

recv_data(h, s, m) ==
  CASE m.type = "SUBSCRIBE"   -> recv_subscribe(h, s, m)
    [] m.type = "UNSUBSCRIBE" -> recv_unsubscribe(h, s, m)
    [] m.type = "PUBLISH"     -> recv_publish(h, m)
    [] m.type = "PINGREQ"     -> put(h, s, "PINGRESP")
    [] m.type = "DISCONNECT"  -> recv_disconnect(h, s)
    [] m.type = "MALFORMED"   -> MQTT_server_disconnectClientCon(h, s)
    [] OTHER                  -> h

(* (Mutant: the state of the connection is not looked at.)                 *)
MessageInAnyState(h, s, m, more) ==
  IF m.type = "CONNECT" THEN recv_connect(h, s, m, more) ELSE recv_data(h, s, m)

(* One round of READPACKET for a client state that is in the list.  In     *)
(* TCP_DISCONNECTING the message is read and ignored.                      *)
recv_message(h, s, m, more) ==
  CASE m.type = "TOO_LONG" -> MQTT_server_disconnectClientCon(h, s)
    [] m.type = "PARTIAL" -> Hush(h)
    [] m.type \notin {"TOO_LONG", "PARTIAL"} /\ h.state[s] = "TCP_CONNECTED"
         -> IF m.type = "CONNECT" THEN recv_connect(h, s, m, more)
            ELSE MQTT_server_disconnectClientCon(h, s)
    [] m.type \notin {"TOO_LONG", "PARTIAL"} /\ h.state[s] = "MQTT_DATA"
         -> recv_data(h, s, m)
    [] OTHER -> h

(* What follows the switch unless the client state has gone: the timeout   *)
(* starts again, and after the last message of the buffer the output of    *)
(* this client, or after a PUBLISH of the first with any, is asked for;    *)
(* the code returns without that when an incomplete message is left over.  *)
after_message(h, s, m, more) ==
  LET alive == [h EXCEPT !.connectionTimeout[s] = KeepTicks]
  IN  CASE ~InList(h, s) \/ m.type = "PARTIAL" -> h
        [] InList(h, s) /\ m.type # "PARTIAL" /\ more = "partial" -> Hush(alive)
        [] InList(h, s) /\ m.type # "PARTIAL" /\ more = "next" -> alive
        [] OTHER -> IF m.type = "PUBLISH" THEN activate_next_client(alive)
                    ELSE system_os_post(alive, s)

(* Two messages make their handler leave its memory.  For an OVERRUN the   *)
(* topic is copied from NULL and terminated behind topic_buffer.  And the  *)
(* client of an empty name that a CONNECT deletes may be its own sender,   *)
(* who has none yet: the handler goes on in the memory it has freed.       *)
Overruns(h, s, m) == h.state[s] = "MQTT_DATA" /\ m.type = "OVERRUN"

FreesItself(h, s, m) ==
  /\ h.state[s] = "TCP_CONNECTED"
  /\ m.type = "CONNECT" /\ m.verdict # "bad_header" /\ m.id = NulId
  /\ First(h, NulId) = s

Misreads(h, s, m) == Overruns(h, s, m) \/ FreesItself(h, s, m)

(* Data for a connection that has no client state in the list is copied    *)
(* to the NULL in_buffer of its client state, or of dummy_clientcon.       *)
MQTT_ClientCon_recv_cb(h, s, m, more) ==
  CASE h.slot[s] = "null" -> h
    [] h.slot[s] # "null" /\ InList(h, s) /\ Misreads(h, s, m)
         -> [h EXCEPT !.fault = "misread"]
    [] h.slot[s] # "null" /\ InList(h, s) /\ ~Misreads(h, s, m)
         -> after_message(recv_message(h, s, m, more), s, m, more)
    [] OTHER -> [h EXCEPT !.fault = "null_write"]

-----------------------------------------------------------------------------
(* MQTT_network_loop: accept, then poll the slots in order.                *)

Idle == srv.fault = "none" /\ busy = "no"
Spend == budget > 0 /\ budget' = budget - 1
Onward == pos' = (pos + 1) % (MaxClients + 1)

FreeSlots == {s \in Slot : srv.slot[s] = "free"}

(* No connection is waiting, or every slot is taken and it is stopped.     *)
NoAccept ==
  /\ Idle /\ pos = 0
  /\ Onward
  /\ UNCHANGED <<srv, busy, budget>>

(* Memory for the client state may be lacking, memory for its buffers may  *)
(* be lacking or the connect callback may refuse it.                       *)
Accept ==
  /\ Idle /\ pos = 0
  /\ FreeSlots # {}
  /\ LET s == Lowest(FreeSlots)
         up == [srv EXCEPT !.link[s] = "up"]
     IN \/ "no_state" \in Mishaps /\ srv' = [up EXCEPT !.slot[s] = "null"]
        \/ \E reuse \in {FALSE, srv.ev = Stale} :
             LET h == zalloc(up, s, reuse)
             IN  \/ "refused" \in Mishaps /\ srv' = Refuse(h, s)
                 \/ srv' = MQTT_server_initClientCon(h, s)
  /\ Onward
  /\ Spend
  /\ UNCHANGED busy

(* Slot s is free, or there is nothing to read and its link is open.       *)
Skip(s) ==
  /\ Idle /\ pos = s
  /\ srv.slot[s] = "free" \/ srv.link[s] \in {"up", "stuck"}
  /\ Onward
  /\ UNCHANGED <<srv, busy, budget>>

(* (Mutant: a slot whose client state was deleted before is passed over.)  *)
DisconOnlyOwned(s) ==
  /\ Idle /\ pos = s
  /\ srv.slot[s] # "free" /\ ~connected(srv, s)
  /\ srv' = IF srv.slot[s] = "con"
            THEN LET h == MQTT_ClientCon_discon_cb(srv, s)
                 IN  [h EXCEPT !.slot[s] = "free"]
            ELSE srv
  /\ Onward
  /\ UNCHANGED <<busy, budget>>

(* The link is down and nothing is left to read: remembered in one round,  *)
(* acted upon in the next.                                                 *)
Discon(s) ==
  /\ Idle /\ pos = s
  /\ srv.slot[s] # "free" /\ ~connected(srv, s)
  /\ srv' = IF srv.doomed[s]
            THEN LET h == MQTT_ClientCon_discon_cb(srv, s)
                 IN  [h EXCEPT !.slot[s] = "free", !.doomed[s] = FALSE]
            ELSE [srv EXCEPT !.doomed[s] = TRUE]
  /\ Onward
  /\ UNCHANGED <<busy, budget>>

(* A message is read, or the next one found in what was read.  After a     *)
(* "next" the loop stays with this slot.                                   *)
Receive(s) ==
  /\ srv.fault = "none" /\ pos = s
  /\ busy = "packet" \/ (busy = "no" /\ HasMessage(srv, s))
  /\ \E m \in Input, more \in Chaining :
       /\ m.type \in {"PARTIAL", "TOO_LONG"} => busy = "no" /\ more = "none"
       /\ more = "next" => budget > 1
       /\ srv' = MQTT_ClientCon_recv_cb(read(srv, s), s, m, more)
       /\ IF more = "next" /\ InList(srv', s) /\ srv'.slot[s] = "con"
          THEN busy' = "packet" /\ UNCHANGED pos
          ELSE busy' = "no" /\ Onward
  /\ IF srv.link[s] = "fin" THEN UNCHANGED budget ELSE Spend

-----------------------------------------------------------------------------
(* MQTT_ServerTask runs the event; mqtt_server_timer runs every second for *)
(* each client in the list.                                                *)

Taken == [srv EXCEPT !.ev = None]

(* (Mutant: the event ends with the stop, as it did before the FIX-FOR.)   *)
TaskStopOnly ==
  /\ Idle
  /\ \E s \in Slot \cup {None} :
       /\ \/ srv.ev = Dummy /\ s = srv.dummy
          \/ s # None /\ srv.ev = s /\ srv.state[s] = "TCP_DISCONNECT"
       /\ srv' = IF s = None THEN Taken ELSE stop(Taken, s)
  /\ UNCHANGED <<pos, busy, budget>>

(* The event is a state in TCP_DISCONNECT: dummy_clientcon, or a client    *)
(* refused on accept.  Its connection, if it has one, is stopped.          *)
TaskStop ==
  /\ Idle
  /\ \E s \in Slot \cup {None} :
       /\ \/ srv.ev = Dummy /\ s = srv.dummy
          \/ s # None /\ srv.ev = s /\ srv.state[s] = "TCP_DISCONNECT"
       /\ srv' = activate_next_client(IF s = None THEN Taken ELSE stop(Taken, s))
  /\ UNCHANGED <<pos, busy, budget>>

(* The event is a client that may be sent the next packet of its queue.    *)
(* The packet is lost when the socket has no room for it.                  *)
Sending(s) == srv.ev = s /\ srv.state[s] \in {"MQTT_DATA", "TCP_DISCONNECTING"}
MaySend(s) == srv.sendTimeout[s] = 0 /\ CanGet(srv.queue[s])

TaskSend(s) ==
  /\ Idle
  /\ Sending(s) /\ MaySend(s)
  /\ LET got == [Taken EXCEPT !.queue[s] = AfterGet(@),
                              !.sendTimeout[s] = SendTicks]
     IN \/ connected(srv, s) /\ srv' = MQTT_ClientCon_sent_cb(got, s)
        \/ (connected(srv, s) => "no_room" \in Mishaps) /\ srv' = Hush(got)
  /\ UNCHANGED <<pos, busy, budget>>

(* Otherwise a refused client has had its CONNACK and is disconnected.     *)
TaskNothingToSend(s) ==
  /\ Idle
  /\ Sending(s) /\ ~MaySend(s)
  /\ LET got == [Taken EXCEPT !.queue[s] =
                   IF srv.sendTimeout[s] = 0 THEN AfterGet(@) ELSE @]
     IN  srv' = IF srv.state[s] = "TCP_DISCONNECTING"
                THEN MQTT_server_disconnectClientCon(got, s) ELSE Hush(got)
  /\ UNCHANGED <<pos, busy, budget>>

(* The event is a client that has not sent its CONNECT: no case for it.    *)
TaskIgnore ==
  /\ Idle
  /\ srv.ev \in Slot /\ srv.state[srv.ev] = "TCP_CONNECTED"
  /\ srv' = Hush(Taken)
  /\ UNCHANGED <<pos, busy, budget>>

(* The event is a client state that has been freed: what is found there    *)
(* may be taken for nothing to do, for a packet to send, or be fatal.      *)
TaskStale ==
  /\ Idle
  /\ srv.ev = Stale
  /\ \/ srv' = Hush(Taken)
     \/ srv' = activate_next_client(Taken)
     \/ srv' = [Taken EXCEPT !.fault = "stale_event"]
  /\ UNCHANGED <<pos, busy, budget>>

ServerTask == TaskStop \/ TaskIgnore \/ TaskStale
              \/ \E s \in Slot : TaskSend(s) \/ TaskNothingToSend(s)

(* (Mutant: only sessions time out.)                                       *)
TimerForSessions(s) ==
  /\ Idle
  /\ InList(srv, s)
  /\ srv' = IF srv.connectionTimeout[s] > 0
            THEN [srv EXCEPT !.connectionTimeout[s] = @ - 1]
            ELSE IF srv.state[s] = "MQTT_DATA"
                 THEN MQTT_server_disconnectClientCon(srv, s) ELSE srv
  /\ UNCHANGED <<pos, busy, budget>>

mqtt_server_timer(s) ==
  /\ Idle
  /\ InList(srv, s)
  /\ LET h == [srv EXCEPT !.sendTimeout[s] = IF @ > 0 THEN @ - 1 ELSE 0]
     IN  srv' = IF h.connectionTimeout[s] > 0
                THEN [h EXCEPT !.connectionTimeout[s] = @ - 1]
                ELSE MQTT_server_disconnectClientCon(h, s)
  /\ UNCHANGED <<pos, busy, budget>>

-----------------------------------------------------------------------------
(* The local interface, called by the program's loop() between two runs of *)
(* MQTT_network_loop.                                                      *)

LocalCall == Idle /\ pos = 0 /\ Spend /\ UNCHANGED <<pos, busy>>

MQTT_local_publish ==
  /\ LocalCall
  /\ \E m \in Input :
       /\ m.type = "PUBLISH"
       /\ LET p == publish(srv, m.topic, m.data)
          IN  srv' = activate_next_client(
                       IF m.retain THEN retain(p, m.topic, m.data) ELSE p)

MQTT_local_subscribe ==
  /\ LocalCall
  /\ \E m \in Input :
       /\ m.type = "SUBSCRIBE"
       /\ srv' = [srv EXCEPT !.subs = add_topics(@, Local, <<m.filters[1]>>)]

MQTT_local_unsubscribe ==
  /\ LocalCall
  /\ \E m \in Input :
       /\ m.type = "UNSUBSCRIBE"
       /\ srv' = [srv EXCEPT !.subs = delete_topic(@, Local, m.filters)]

(* MQTT_server_cleanupClientCons walks the list and deletes every client   *)
(* state whose link is down, one in each round of its loop.                *)
Broken(h) == {i \in DOMAIN h.clist : ~connected(h, h.clist[i])}

CleanupBegin ==
  /\ Idle /\ pos = 0 /\ Spend
  /\ Broken(srv) # {}
  /\ busy' = "cleanup"
  /\ UNCHANGED <<srv, pos>>

MQTT_server_cleanupClientCons ==
  /\ srv.fault = "none" /\ busy = "cleanup"
  /\ IF Broken(srv) # {}
     THEN /\ srv' = MQTT_server_deleteClientCon(srv, srv.clist[Lowest(Broken(srv))])
          /\ UNCHANGED busy
     ELSE busy' = "no" /\ UNCHANGED srv
  /\ UNCHANGED <<pos, budget>>

-----------------------------------------------------------------------------
(* The peer closes, perhaps with data of its own still on the way.  A      *)
(* fault restarts the processor.                                           *)
PeerClose(s) ==
  /\ Idle
  /\ srv.link[s] = "up"
  /\ \E l \in {"fin", "stuck", "down"} \cap Mishaps :
       /\ srv' = [srv EXCEPT !.link[s] = l]
       /\ IF l = "fin" THEN Spend ELSE UNCHANGED budget
  /\ UNCHANGED <<pos, busy>>

Reboot ==
  /\ srv.fault # "none"
  /\ srv' = Boot /\ pos' = 0 /\ busy' = "no"
  /\ UNCHANGED budget

Loop == NoAccept \/ \E s \in Slot : Skip(s) \/ Discon(s) \/ Receive(s)

Next ==
  \/ Loop \/ Accept
  \/ ServerTask \/ \E s \in Slot : mqtt_server_timer(s)
  \/ MQTT_local_publish \/ MQTT_local_subscribe \/ MQTT_local_unsubscribe
  \/ CleanupBegin \/ MQTT_server_cleanupClientCons
  \/ \E s \in Slot : PeerClose(s)
  \/ Reboot

Spec == Init /\ [][Next]_vars

(* The loop goes round for ever, posted events and due timers are run, and *)
(* a faulting processor is restarted by its watchdog.  Nothing is assumed  *)
(* of the peers.                                                           *)
Fairness ==
  /\ WF_vars(Loop)
  /\ WF_vars(ServerTask)
  /\ WF_vars(MQTT_server_cleanupClientCons)
  /\ WF_vars(Reboot)
  /\ \A s \in Slot : WF_vars(mqtt_server_timer(s))

FairSpec == Spec /\ Fairness

-----------------------------------------------------------------------------
(* Properties.                                                             *)

(* The type invariant: every field of the broker's memory holds a value of *)
(* its kind, no queue holds more frames than its ring has room for, and    *)
(* the tables keep their sizes.                                            *)
TypeOK ==
  /\ srv \in Memory
  /\ pos \in 0..MaxClients
  /\ busy \in {"no", "packet", "cleanup"}
  /\ budget \in 0..Budget

(* clientcon_list holds, once each, exactly the client states that were    *)
(* initialised and have not been freed, whatever the order of takeovers,   *)
(* timeouts, refusals and cleanups.                                        *)
ListExact ==
  /\ \A i, j \in DOMAIN srv.clist : srv.clist[i] = srv.clist[j] => i = j
  /\ \A s \in Slot : InList(srv, s) <=>
       srv.slot[s] = "con" /\ srv.state[s] # "TCP_DISCONNECT"

(* publish_topic follows the clientcon pointer of every matching entry of  *)
(* topic_list: each must be the local client or a client in a session,     *)
(* never one that has been freed or one that has not been acknowledged.    *)
SubscriberLive ==
  \A i \in 1..MaxSubs :
    srv.subs[i] # None =>
      \/ srv.subs[i].owner = Local
      \/ /\ InList(srv, srv.subs[i].owner)
         /\ srv.state[srv.subs[i].owner] = "MQTT_DATA"

(* The connection that the event of dummy_clientcon will stop is one that  *)
(* was handed to it and is still in its slot: never that of a client which *)
(* was accepted there since, however late MQTT_ServerTask runs.            *)
DummyHandedOver == srv.dummy # None => srv.slot[srv.dummy] = "dummy"

(* The first packet a client gets is the answer to its CONNECT: nothing is *)
(* queued before it, and nothing at all after a refusal.                   *)
ConnackFirst ==
  \A s \in Slot :
    /\ srv.state[s] \in {"NONE", "TCP_DISCONNECT", "TCP_CONNECTED"} => srv.queue[s] = <<>>
    /\ srv.state[s] = "TCP_DISCONNECTING" => srv.queue[s] \in {<<>>, <<Packet("REFUSED")>>}
    /\ srv.state[s] = "MQTT_DATA" =>
         \A i \in DOMAIN srv.queue[s] :
           /\ srv.queue[s][i].type # "REFUSED"
           /\ srv.queue[s][i].type = "CONNACK" => i = 1

(* With no event pending, a connected client has output waiting only when  *)
(* the last handler was one that ends without calling activate_next_client *)
(* or posting: an incomplete message left in the buffer, a failed write, a *)
(* client with nothing to send.  Every other path hands the turn on.       *)
WakeupCovered ==
  (srv.fault = "none" /\ busy = "no" /\ srv.ev = None /\ ~srv.quiet) => Waiting(srv) = {}

(* retained_list has one entry for a topic, and none with empty data, also *)
(* when wills and publications update it in any order.                     *)
RetainedUnique ==
  /\ \A i, j \in 1..MaxRetained :
       (srv.ret[i] # None /\ srv.ret[j] # None /\ srv.ret[i].topic = srv.ret[j].topic) => i = j
  /\ \A i \in 1..MaxRetained : srv.ret[i] # None => srv.ret[i].data # NoPayload

(* Two clients of the same name are never in the list together.            *)
SingleSession ==
  \A s, t \in Slot :
    (InList(srv, s) /\ InList(srv, t) /\ srv.id[s] = srv.id[t] /\ srv.id[s] \in ClientId) => s = t

(* The step handles a message of ms that came from client s.               *)
Handles(s, ms) ==
  /\ pos = s
  /\ \E m \in ms, more \in Chaining :
       srv' = MQTT_ClientCon_recv_cb(read(srv, s), s, m, more)

(* Client s leaves by itself: by a DISCONNECT, which drops its will first, *)
(* or by a CONNECT that fails before it has a session.                     *)
LeavesItself(s) ==
  Handles(s, {m \in Input : m.type \in {"CONNECT", "DISCONNECT"}})

(* A client with a will that does not leave by itself (its link is lost,   *)
(* its message malformed or too long, it times out, is taken over or is    *)
(* cleaned up) leaves the will in the queue of every subscriber that stays,*)
(* unless that queue is full.                                              *)
Gone(s) == InList(srv, s) /\ ~InList(srv', s) /\ ~LeavesItself(s)

WillDelivered ==
  [][\A s, u \in Slot :
       ( /\ Gone(s) /\ srv.will[s] # None /\ srv'.fault = "none"
         /\ InList(srv', u)
         /\ Hits(srv.subs, u, srv.will[s].topic) # {} )
       => LET q == srv.queue[u]  r == srv'.queue[u]
              w == Publication(srv.will[s].topic, srv.will[s].data)
          IN  Room(r) = 0 \/ \E i \in DOMAIN r : i > Len(q) /\ r[i] = w]_vars

(* A message with a length or a name that the broker does not check.       *)
Unchecked ==
  {m \in Input : m.type = "OVERRUN" \/ (m.type = "CONNECT" /\ m.id = NulId)}

(* A connection is still polled although its client state was refused, was *)
(* deleted, or is about to be.                                             *)
Lingers(s) == srv.slot[s] \in {"dummy", "dangling"} \/ srv.state[s] = "TCP_DISCONNECT"

(* A client that goes has subscribed to the topic of its own will.         *)
MournsItself(s) ==
  /\ InList(srv, s) /\ ~InList(srv', s)
  /\ srv.will[s] # None /\ Hits(srv.subs, s, srv.will[s].topic) # {}

(* The broker runs into undefined behaviour only by a message of the two   *)
(* kinds it does not check, by a will its own client has subscribed to, at *)
(* a connection that outlives its client state, or by an event that does;  *)
(* and no connection but one the forced cleanup went over ever keeps a     *)
(* reference to memory that was freed.  All other handlers, in any order,  *)
(* have cleared or redirected whatever refers to the state they free.      *)
FaultsExplained ==
  [][/\ srv.fault = "none" /\ srv'.fault # "none" =>
          \/ \E s \in Slot : Handles(s, Unchecked) \/ MournsItself(s)
          \/ pos \in Slot /\ Lingers(pos)
          \/ srv.ev = Stale
     /\ \A s \in Slot :
          srv'.slot[s] = "dangling" /\ srv.slot[s] # "dangling" => busy = "cleanup"]_vars

(* A slot whose link is down is free again in the end, whether its client  *)
(* state is in the list, refused, or already handed to dummy_clientcon.    *)
ClosedReclaimed ==
  \A s \in Slot : srv.link[s] = "down" ~> srv.slot[s] = "free"

(* A client that stays silent is evicted: once no more messages come, every *)
(* client state leaves the list.                                           *)
IdleEvicted == \A s \in Slot : InList(srv, s) ~> ~InList(srv, s)
=============================================================================
