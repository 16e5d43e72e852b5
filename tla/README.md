# A TLA+ model of uMQTTBroker

This directory holds TLA+ specifications of uMQTTBroker, an MQTT broker for the
ESP8266, the TLC configurations that check them, and theorems about them that
TLAPS proves. Paths are relative to the root of the repository.

    tlc -workers 2 -config MCBroker_wills.cfg MCBroker      # one run
    tlapm BrokerProofs.tla                                  # one proof module

`PROJECT.json` lists every run, every theorem, the source lines each definition
stands for, and, for every property, a small change of the model that breaks it.

## 1. The system

| part | source | state | operations |
|---|---|---|---|
| network loop | `src/mqtt_server.cpp` 62-160 | `clientcons[MAX_CLIENTS]`: connection, `reverse`, `tobedeleted` | accept, poll every slot, read, free |
| client states | `src/mqtt_server.cpp` 224-435, 973-1035 | list `clientcon_list` of `MQTT_ClientCon`; the single `dummy_clientcon` | init, delete, disconnect, take over by name, cleanup, timers |
| sessions | `src/mqtt_server.cpp` 437-967 | per client: `connState`, identifier, will, receive buffer, timeouts | CONNECT, SUBSCRIBE, UNSUBSCRIBE, PUBLISH, PINGREQ, DISCONNECT |
| server task | `src/mqtt_server.cpp` 1036-1098 | an event queue of one place | stop a connection, send the next packet |
| local interface | `src/mqtt_server.cpp` 1155-1170, `src/uMQTTBroker.cpp` | callbacks | publish, subscribe, unsubscribe |
| subscription table | `src/mqtt_topiclist.cpp` | array of `topic_entry` | add, delete, find |
| retained table | `src/mqtt_retainedlist.c` | array of `retained_entry` | update, find, clear, serialise |
| persistence | `src/config_flash.c`, `src/mqtt_retainedlist.c` | one flash sector | save (erase, write), load |
| outbound queue | `src/queue.c`, `src/proto.c`, `src/ringbuf_mqtt.c` | per client: a ring of `QUEUE_BUFFER_SIZE` bytes | put a frame, get a frame |
| topic names | `src/mqtt_topics.c` | none | validity, wildcards, matching |
| packets | `src/mqtt_msg.c` | an encode buffer | encode and decode |
| MQTT client | `src/mqtt.c`, `src/MQTT.cpp` | its own connection state machine, queue, timer | connect, publish, subscribe, reconnect |

How they interact:

* The program's `loop()` calls `MQTT_network_loop`. It accepts at most one
  connection and then looks at each slot: with more than one byte to read it
  calls `MQTT_ClientCon_recv_cb`; with nothing to read and the link down it marks
  the slot, and in the next round calls `MQTT_ClientCon_discon_cb` and frees it.
* A message handler changes its own client state, the two tables, and, through
  `publish_topic`, the queue of every subscriber. A CONNECT may delete another
  client's state (takeover), which publishes that client's will to further ones.
* Output leaves only through `MQTT_ServerTask`. Somebody has to post an event
  that names the client to be served; the system keeps one event and drops the
  others. `activate_next_client` picks the first client that has output.
* A session the server ends loses its client state at once; its connection is
  handed to `dummy_clientcon`, whose event is to stop it. The network loop finds
  the link down later and frees the slot.
* A timer fires every second for each client in the list.
* The MQTT client is a second program over the TCP stack of the SDK. It shares the
  queue and the encoder with the broker, but no state. Its state machine advances
  in `MQTT_Task`, which runs when someone has posted an event; the timer, the
  callbacks and the program's calls write `connState` and post. All clients share
  one event queue of one place.

What is hard about it: pointers to a client state are kept in the list, in every
subscription, in the pending event and in the connection, and a client state can
be freed by its own message, by a message of another client, by a timer, by the
task, by the loop or by the forced cleanup; the event queue loses posts;
`dummy_clientcon` holds one connection; frames may be cut by a full ring; the
peer may go at any time, with or without data under way, and the network cuts its
messages where it likes. In the client, four parties write one state variable, and
the event that makes the task look at it may be lost.

What makes each part correct:

* client states: listed if and only if in use; nothing refers to a freed one; no
  two sessions of one name; each will is delivered when, and only when, it should;
* network loop: a slot whose link is down is freed in the end; a silent client is
  evicted;
* server task: output that waits has an event that will lead to it;
* sessions: nothing is sent before the answer to CONNECT and nothing after a
  refusal;
* tables: subscriptions belong to live sessions; one entry for a retained topic;
* queue: what was accepted arrives once, unaltered, in order;
* receive buffer: the messages taken are the messages sent, wherever they were cut
  and whatever length they announce;
* topic names: the functions on strings decide what the levels of the names say;
* client: no state waits for an event that nobody posts; a lost connection is tried
  again, one the program has ended is not; an acknowledgement is attributed to the
  packet it is for, as long as packets are acknowledged in time.

The places in the code where each of these is at risk are listed as "hazards" in
`PROJECT.json`.

## 2. The modules

| module | models | in terms of |
|---|---|---|
| `Content` | topics, payloads | constants |
| `Order` | the order in which loops visit an array | |
| `Outbox` | the outbound queue in whole frames, as operators on sequences | `Content` |
| `Tables` | the subscription and retained tables, as operators on arrays | `Content`, `Order` |
| `Broker` | everything in `mqtt_server.cpp` | `Outbox`, `Tables` |
| `RingQueue` | the outbound queue byte by byte | `Content`, `Order`; instances of `Outbox`, `LossyQueue`, `FrameQueue` |
| `LossyQueue` | abstract: what a queue that may refuse promises at all | `Content` |
| `FrameQueue` | abstract: `Outbox` as a state machine | `Outbox` |
| `RetainStore` | the retained table with its memory, its callback and its image in flash | `Tables`, `Order` |
| `Client` | the MQTT client of `mqtt.c` and its C++ class | `Outbox`, `Order` |
| `RecvBuffer` | how bytes become messages: the read loop, `in_buffer`, the fixed header | |
| `TopicMatch` | the functions of `mqtt_topics.c` on strings | `Order` |
| `TopicLevels` | reference: what the levels of a name mean | `TopicMatch` |
| `MCBroker`, `MCRingQueue`, `MCRetainStore`, `MCClient`, `MCRecvBuffer` | instances for TLC | |
| `SequenceProofs` | lemmas about sequences, recursive functions and the k-th element of a set | `Order` |
| `OutboxProofs`, `BrokerProofs`, `RingQueueProofs`, `ClientProofs`, `RecvBufferProofs`, `RetainStoreProofs` | lemmas, theorems, proofs | the modules they are named for, `SequenceProofs` |
| `TopicProofs` | that strings and levels agree | `TopicLevels`, `SequenceProofs` |

### Broker

The broker's memory is one record, `srv`; `Boot` is its value after a start. A C
function that changes memory is an operator from records to records with the
function's name, so that `recv_connect` uses `delete_client_by_id`, which uses
`MQTT_server_disconnectClientCon`, as the code does. A client state is named by
the slot of its connection. What a connection's `reverse` refers to is the kind
of its slot:

| `srv.slot[s]` | code |
|---|---|
| `"free"` | `clientcons[s] == NULL` |
| `"null"` | `reverse == NULL`: no memory for a client state |
| `"con"` | a client state, in the list unless `connState` is `TCP_DISCONNECT` |
| `"dummy"` | `&dummy_clientcon` |
| `"dangling"` | a client state that has been freed |

`srv.ev` is the pending event: `None`, a slot, `Dummy` for `&dummy_clientcon`, or
`Stale` for a client state since freed. A stale event becomes the event of a new
client when the allocator hands out the same memory (`zalloc`); otherwise what
`MQTT_ServerTask` reads there is a choice (`TaskStale`): nothing to do, something
that ends in `activate_next_client`, or a fault. `srv.fault` records undefined
behaviour; after it only `Reboot` is enabled.

The actions are the units that run without a yield. `pos` is the place of
`Network_clients_loop`: `NoAccept` and `Accept` at 0, then `Skip`, `Receive` or
`Discon` for each slot. Several messages in one packet are handled in one
callback: `Receive` is taken again with `busy = "packet"`, and nothing else may
happen in between; the same holds for the forced cleanup, one client a step.
`ServerTask` and `mqtt_server_timer` run when `busy = "no"`, that is between two
slots, which is where the Arduino core may yield. The local calls come from
`loop()`, so only between two rounds.

A message is a record. A CONNECT carries a `verdict`, the check of the code that
stops it, so that each early return is taken without its bytes. `Chaining` says
what follows a message in the receive buffer: nothing, another message, or an
incomplete one.

Not in the model, and why:

* Encoding and decoding, lengths, the bytes of names, but for what the code gets
  wrong about them. `delete_client_by_id` compares C strings, the identifier as it
  lies in the buffer: `Terminated` says when a NUL follows it, and `SameName` that
  an identifier of some length that starts with a NUL, `NulId`, is the empty one.
  (One with a NUL further in is the name that ends there. That an identifier without
  a NUL, with the bytes behind it, happens to be another client's name is left out.)
* `OVERRUN` is a PUBLISH whose topic length reaches beyond `in_buffer`, where
  `mqtt_get_publish_topic` returns NULL. The function is told the size of the
  buffer, not of the message, so a topic longer than its message but within the
  buffer is one more topic, with no data.
* Matching is the relation `Match`, the outcome of `Topics_isValidName` and
  `Topics_hasWildcards` the sets `BadFilter` and `Wild`.
* Frames have one size. `RingQueue` shows that the ring then does what `Outbox`
  says; with other sizes it still is a `LossyQueue`.
* Memory runs out for a client state or its buffers, for the identifier, the will
  topic, the user name, the password and the client state, but not for the will's
  data or for entries of the tables (for those of the retained table it does in
  `RetainStore`).
* At most 16 filters in one SUBSCRIBE. Two connections never have the same peer
  address and port. The program's callbacks do not call back into the broker.
  `MQTT_ServerTask` writes to a client state it has just freed (line 1089), which
  changes nothing that is read.
* The getters and the iteration functions read only. The TLS server goes through
  the same functions.
* With `slot` `"dummy"`, or refused, data that arrives is copied through a NULL
  pointer, whatever its length; the model has that as a fault.
* What the handler does after a copy from NULL, or in a client state it has freed
  itself: both are the fault `misread`.

### RingQueue

`rb` is the `RINGBUF` with its pointers as offsets. `PROTO_AddRb` gives the bytes
of a frame, and `RINGBUF_Put` puts as many of them as fit, as the loop in the code
does before it returns -1. `QUEUE_Gets` reads up to the first 0x7F, or everything.
`isBegin`, which `PROTO_Init` does not initialise, is a choice. `q` is a history
variable, the frames in the ring, always `FramesIn(Held(rb))`, each of them
`FrameOf` the bytes from one start to the next: it is what the abstract queues are
compared with. `FitAssumption` says that no packet is longer than the buffer
`QUEUE_Gets` reads it into: both that buffer and the one messages are encoded in
have `MQTT_BUF_SIZE` bytes.

### RetainStore

`list` is `retained_list`, with the operators of `Tables`; contents are sequences
of bytes here, because what an interrupted write leaves behind depends on the
encoding. `serialize_retainedtopics`, `deserialize_retainedtopics` and
`load_retainedtopics` are operators with the names of the functions.
`save_retainedtopics` is two steps, the erased sector and the written one
(`blob_save`), with nothing but a `Restart` in between; a restart leaves any
number of words of the write. `clear_retainedtopics` is `ClearBegin`, one
`ClearEntry` per entry, as each deletion saves the table, and `ClearEnd`. `Update`
has two outcomes, with and without memory. `retained_cb` says whether `onRetain`
of `src/uMQTTBroker.cpp` is registered: by the constructor (`uMQTTBroker`), by
`MQTT_server_onRetain`, and no longer after `MQTT_server_start`. A topic is any
sequence of bytes without a NUL, the empty one included: `recv_publish` and
`MQTT_local_publish` take it, and it is retained like any other. But an entry that
starts with a NUL is the end of the table to `deserialize_retainedtopics`, so that
what comes back is `FoundOf` the table: what stands in front of such an entry. `image`, `whole`
and `behind` are history variables: what was last being saved, whether that save
came to its end, and whether there was a change since that nobody reported or that
did not fit.

What it assumes:

* The build defines `MQTT_RETAIN_PERSISTANCE`. `buf[pos++] + (buf[pos++] << 8)` is
  evaluated from left to right (C leaves that open), and `char` is unsigned, as on
  the ESP8266.
* Erasing a sector is atomic; a write goes word by word. `spi_flash_write` and
  `spi_flash_erase_sector` belong to the SDK.
* There is memory while the table is loaded, except for an entry whose length
  reaches beyond the buffer: parsing ends there.
* The buffer is read from one sector and in words: `MAX_RETAINED_LEN` is a multiple of
  four and at most `SPI_FLASH_SEC_SIZE`. So a length of which only the low byte was
  written, the high one being that of erased flash, reaches beyond the buffer.
* The retained messages come from anywhere; who publishes them is `Broker`'s
  business.

### Client

One client is one record, `cl`: the `MQTT_Client` (`connState`, the three tick
counters, `pending_msg_type`, `msgQueue`, whether `mqttTimer` is armed) and the
state of its connection in the TCP stack, `link` and `flight`, the packets accepted
and not acknowledged, at most `MaxFlight`. `wanted` and `age` are history variables:
`age` counts the ticks since nothing was on its way, up to `Late`, from where the
code may send the next packet, or a keepalive, without an acknowledgement. `ev` is
the event queue; `"late"` is an event that has waited since before the timer's last firing.
Other clients are reduced to what they do to this one: they take the place in the
queue (`RivalPosts`) and give it back (`RivalRuns`). The program's calls, the
callbacks and `mqtt_timer` are an action each, with the names of the functions;
`MQTT_Task` is the disjunction of what it does in each state. The replies to a
segment are queued with `QUEUE_Puts`, which may drop them; the program's own packets
with `Insist`, which drops the oldest instead.

What it assumes of the parts that belong to the SDK:

* A call of `espconn_connect`, `espconn_disconnect` or `espconn_send` that is
  accepted is answered by one callback, in the order of the packets; `espconn_send`
  may refuse. An attempt still under way when it is called off may go on or end.
* An acknowledgement takes as long as it likes. `mqtt.c` has one `pending_msg_type`
  for all packets on their way, so `PendingInFlight` says what that is good for:
  until a packet is late there is no other, afterwards `publishedCb` may be called
  for the wrong one.
* An event does not wait for longer than until the timer fires twice.
* Packets take frames of one size, as in `Broker`.
* There is memory for a client when it is set up. TLS is the same over other calls
  of the stack. The program's callbacks do not call back into the client.

### RecvBuffer

`pipe` is what the peer has sent, `buf` the receive buffer up to
`message_length_read`. A read takes any number of bytes from 2 on, which is how the
network cuts a stream. `Take` and `Wait` are the rounds of `READPACKET`.
`mqtt_get_total_length` is the function of that name, on whatever bytes the buffer
holds; `Remaining` is the length the peer goes by. A peer sends any number of digits.
The code counts in an `int` and keeps the count in the `uint16_t` `message_length`:
`MessageLengths` cuts it to that width (`Modulus`), and is anything where the count
or a shift is beyond the `int` (`IntMax`, `IntDigits`). A message of length zero is
taken again and again: `Spin`, after which the connection is `"stuck"`, and with it
the program. `Slips` says that what is taken is not the message it was. The base of the
digits and the widths are parameters (128, 2^16, 5 and 2^31 - 1 in the code), so that
small messages reach every one of these limits. What a message does, and may do to the
session, is `Broker`'s business.
The copy that moves the remaining bytes to the front of the buffer overlaps itself
when they are more than the message taken; it is taken to go forward, as `os_memcpy`
of the SDK does. A read of more than `MQTT_BUF_SIZE` bytes is written beyond the
loop's own buffer; the model stops there (`con = "overrun"`).

### TopicMatch and TopicLevels

Names are sequences of characters; `At`, `strtok` and `_strrev` stand for the string
functions, and `Topics_isValidName` and `Topics_matches` put them together as the
code does. `TopicLevels` says what a filter means without strings (`Means`): a name
is the sequence of its levels, an empty one before a leading slash included; a plus
meets one, a hash any number. The run compares the two on every filter and topic up to
a length. The meaning is that of MQTT as far as the table of tests in
`src/mqtt_topics.c` goes along: a plus does not stand for an empty level, and a hash
may come first. A hash that is alone stays away from topics that start with a
dollar, other filters do not. Where the code differs from the levels is stated in
properties of their own: empty levels inside a name are passed over
(`EmptyLevelsIgnored`), and a leading slash of the topic is lost unless the filter
starts with a slash, a plus or a hash (`SlashOverlooked`, `LeadingSlashLost`).

## 3. The runs

All runs of `MCBroker` use one topic, one filter that matches it, one more that is
invalid, a `$` topic and one payload: no property compares two topics. Two slots
let one client act on another, the third in `takeover` lets a third one watch.
`QueueCap = 2` with `Slack` lets queues overflow and leave a cut frame. `WillDelivered`
excepts a client that leaves by its own DISCONNECT, which drops the will, or by a
CONNECT that fails; that it says so of the message, and not of the state of the link,
came out of its proof: with several messages in one packet the DISCONNECT of a client
may be handled when its link is closing already. `Budget`
bounds the connections, messages and local calls of a behaviour; within it they
come in any order. `Mishaps` are the failures a run admits.

| run | expects | shows |
|---|---|---|
| `wills` | pass | `ListExact`, `SubscriberLive`, `DummyHandedOver`, `WillDelivered`: sessions that end in every way, with every mishap; `FaultsExplained`: undefined behaviour has no causes but those of section 5; 690 thousand states |
| `traffic` | pass | `ConnackFirst`, `WakeupCovered`, `RetainedUnique`: subscriptions, retained messages, several messages in one packet; 650 thousand states |
| `takeover` | pass | `SingleSession`, `WillDelivered` when each CONNECT is alone in its packet; 430 thousand states |
| `live` | pass | `ClosedReclaimed`, `IdleEvicted` under `Fairness`, with clients that err; 30 thousand states |
| `equal` | pass | `ImplementsOutbox`: the ring with frames of one size is the queue of the broker's model |
| `mixed` | pass | `StartsWithFrame`, `DeliversStored`: frames of three sizes in a ring of eleven bytes, so that each wraps and is cut at every place |
| `store` | pass | `FlashCurrent`, `SavedSurvives`, `RestoredPrefix`: what the next start finds in flash, with restarts at every word of a write memory that runs out and a topic that is empty; 190 thousand states |
| `client` | pass | `TaskCovered`, `PendingInFlight`, `ConnectedHasLink`, `NoReconnect` and, under `Fairness`, `LostReconnects`, `QueueServed`: every order of calls, timer, callbacks and task events, two packets on their way; 230 thousand states |
| `stream` | pass | `Faithful`, `SlipsKnown` and, under `FairSpec`, `AllTaken`: three messages of one to five length digits, cut at every byte, at and beyond the width of every integer; 260 thousand states |
| `match` | pass | `ValidByLevels`, `TestTable`, `MatchesLevels`, `LeadingSlashLost`, `EmptyLevelsIgnored`: all filters of up to five characters with all topics of up to three; 2.4 million states |
| `pipelined_takeover` | violation | two sessions of one name, when something follows the CONNECT |
| `retain_lost` | violation | starting the broker removes the callback that stores retained messages |

Why the bounds are enough: a behaviour that breaks one of the invariants needs a
client state to go and something that refers to it, which takes two connections,
the messages to start two sessions, and one event; the budgets of 5 to 7 leave
room for what follows. The changes listed in `PROJECT.json` as mutants are all
found within them.

`MCRetainStore` has topics of no, one and two bytes and contents of none to three, a
NUL among them, in a buffer of sixteen. An entry takes five to nine bytes, so one
always fits and two fit or do not, on both sides of the limit; an entry starts and
ends in any byte of a word, and the one with the empty topic comes first or second. One
quality of service is enough, as no step looks at it. Nothing has to be bounded: the
state is finite.

`MCClient` has a ring of one packet and room for a cut one, so that every second
publication meets a full queue; a send timeout of two ticks and a keepalive that is
due after one, so that either may be what sends a second packet while the first is
on its way. `MaxFlight` is two: an acknowledgement then is for the older of two
packets, of which `pending_msg_type` names the younger. Segments carry the answers to
CONNECT, and two packets of which both, or only the first, are looked at. Nothing else
is bounded.

`MCRecvBuffer` counts to the base 2 in a buffer of 10 with a `message_length` of less
than 12 and an `int` of up to 19 that is shifted for four digits. Messages of 2 and of
8 bytes fit; one of 13 bytes is cut to 1 and one of 12 to 0; one of 20 is beyond the
`int`, and one of 6 has more digits than are shifted. Three of them are sent, in any
order. `match` includes every row of the source's own table, some of which are longer,
as initial states.

`CHECK_DEADLOCK` is on in the runs of `Broker`, `RingQueue`, `RetainStore` and
`Client`: each always has a next step, a broker that has faulted included. It is off
in `stream`, which is over when the bounded stream has been read, and in `match`,
which only enumerates names.

**Fairness.** `WF(Loop)`: `loop()` is called for ever. `WF(ServerTask)`: the
system runs a posted event. `WF(mqtt_server_timer(s))`: a repeating timer fires.
`WF` of a cleanup under way: it is a loop. `WF(Reboot)`: the watchdog. Nothing is
assumed of the peers, nor that a connection is accepted or a message comes. A weak
fairness condition suffices for each: they stay enabled between two slots, and
a callback in progress always ends.

In `Client`: `WF(MQTT_Task)` and `WF(RivalRuns)`, the system runs posted events;
`WF(mqtt_timer)`, an armed timer fires; `WF(mqtt_tcpclient_sent_cb)`, a packet on its
way is acknowledged some time, unless its connection ends first; `WF` of the disconnect callback
for a connection being closed. Attempts to connect may hang for ever, the broker may
be silent, the program need not call. A post lost to another client excuses both
liveness properties (`lost`): the code posts nothing again. `QueueServed` is excused
also by packets that are late for ever again: an acknowledgement that arrives when a
keepalive is due is followed by the keepalive, and the queue waits. In `RecvBuffer`:
`WF(Loop)`, as in `Broker`.

## 4. What is proved

For every number of clients, topics and filters, every size of tables, queues and
ring, and every set of messages and mishaps the assumptions allow:

| theorem | module | states |
|---|---|---|
| `TypeCorrect` | `BrokerProofs` | `[]TypeOK` |
| `ListCorrect` | `BrokerProofs` | `[]ListExact` |
| `SubscribersAlive` | `BrokerProofs` | `[]SubscriberLive` |
| `DummyCorrect` | `BrokerProofs` | `[]DummyHandedOver` |
| `RetainedCorrect` | `BrokerProofs` | `[]RetainedUnique` |
| `ClientTypeOK` | `ClientProofs` | `[]TypeOK` of the client |
| `ClientTaskCovered` | `ClientProofs` | `[]TaskCovered` |
| `ClientPendingInFlight` | `ClientProofs` | `[]PendingInFlight` |
| `ClientConnectedHasLink` | `ClientProofs` | `[]ConnectedHasLink` |
| `ClientNoReconnect` | `ClientProofs` | `NoReconnect` |
| `ConnackComesFirst` | `BrokerProofs` | `[]ConnackFirst` |
| `TurnsCovered` | `BrokerProofs` | `[]WakeupCovered` |
| `SessionsSingle` | `BrokerProofs` | `NamesTerminated` implies `[]SingleSession` |
| `WillsDelivered` | `BrokerProofs` | `WillDelivered` |
| `FaultsAreExplained` | `BrokerProofs` | `FaultsExplained` |
| `RingTyped` | `RingQueueProofs` | `[]TypeOK` of the ring |
| `RingStarts` | `RingQueueProofs` | `[]StartsWithFrame` |
| `RingDelivers` | `RingQueueProofs` | `DeliversStored`, a refinement of `LossyQueue` |
| `RingImplementsOutbox` | `RingQueueProofs` | `OneSize` implies `ImplementsOutbox`, a refinement of `FrameQueue` |
| `RecvTypeOK` | `RecvBufferProofs` | `[]TypeOK` of the receive buffer |
| `StreamFaithful` | `RecvBufferProofs` | `[]Faithful` |
| `SlipsAreKnown` | `RecvBufferProofs` | `SlipsKnown` |
| `StoreTypeOK` | `RetainStoreProofs` | `[]TypeOK` of the retained table and its flash |
| `FlashIsCurrent` | `RetainStoreProofs` | `[]FlashCurrent` |
| `SavesSurvive` | `RetainStoreProofs` | `SavedSurvives` |
| `RestoresPrefix` | `RetainStoreProofs` | `RestoredPrefix` |
| `ValidNames` | `TopicProofs` | `[]ValidByLevels` |
| `EmptyLevels` | `TopicProofs` | `[]EmptyLevelsIgnored` |
| `MatchesByLevels` | `TopicProofs` | `[]MatchesLevels` |
| `SlashesLost` | `TopicProofs` | `[]LeadingSlashLost` |

**Broker.** The inductive invariant is `IInv`: `Good(srv)` and the types of the
other variables. `Good` is `Consistent` (types, the list without repetition and
exact, owners live, references live, retained topics unique) and `Fresh`: a client
that has not sent its CONNECT has the empty identifier. `Fresh` is what makes it
inductive: CONNECT deletes the first client of the same name in the middle of its
own handler and then goes on with its own client state; without `Fresh` the client
found could be the one the handler works for. Most functions change only queues,
timeouts, the event and the fault; `Calm(h, k)` says so once, is transitive, and
keeps `Good`. `MQTT_server_deleteClientCon` is the exception: `DeleteConsistent`
shows that it removes the client state from the list, its subscriptions and the
event together. Each handler is then a chain of calm steps around it. The facts
about sequences and arrays are in `OutboxProofs` and `SequenceProofs`, those about the
tables in the first part of `BrokerProofs`; those of `OutboxProofs` hold for every set of frames, so that the
client uses them too.

**Broker, what clients do to each other.** The second half of `BrokerProofs` adds to `IInv` the
three parts that the properties need to be inductive; together they are `SafeInv`.
`Tidy` says what a slot may hold: `Ordered`, what may wait in a queue in each
state; `Vacated`, that nothing is left where there is no client state, so that a
new connection starts with an empty queue; `FreeDown`, that the link of a free slot is
down, so that data never arrives in one. `PacketListed`: a callback that still has
messages to handle is one for a client in the list. `TurnHandedOn`: except in such a
callback, output waits only with an event pending or after a handler that ends without
handing the turn on.

The handlers are followed once for all five theorems. Most operators are `Additive`:
they add output for sessions and leave all else alone. The end of a client state is
described by `Ended`: what it does to itself, that every subscriber who stays has
heard its will, and that it is the only one whose own subscription may have led to a
write through a NULL buffer. A message that is a `misread` has no handler to follow:
`Misreads` says which messages these are, and they are `Unchecked`. Every handler has an `Outcome`, in which a CONNECT that
ends another client and then goes on with its own is the one composition. An action
adds only where it was called from. `ConnackFirst` and `WakeupCovered` follow from the
invariant, `WillDelivered` and `FaultsExplained` from `SafeStep`, what every step does
from a state that satisfies it. `SingleSession` is preserved if a NUL follows every
identifier that can be sent, `NamesTerminated`: this is so of the messages of
`takeover`, and not of those of `pipelined_takeover`, where the property fails.

**RingQueue.** `Marked`: the first byte held starts a frame, and after each end of
a frame comes a start. A frame has its end only as its last byte
(`FramedProperties`), so whatever prefix of it the ring takes keeps `Marked`; a
read removes everything up to an end, so a start is next. That and the pointers
are `RInv`.

Both refinements map `q` to the frames in the ring, by the invariant
`RInv /\ q = FramesIn(Held(rb))`. `ParseFramed` says that parsing undoes encoding: the
places `Goes` gives to the bytes of a packet are increasing, and are those of the bytes
that count. `FramesJoined` says that the frames of bytes followed by the start of a
frame are the frames of the two parts (`SequenceProofs` has what it needs about the k-th
element of a set). So a call of `QUEUE_Puts` adds the frame of the piece it puts
(`PutsAdds`, `QueueAdds`) and one of `QUEUE_Gets` removes the cut frames up to the first
whole one, and that one (`GetsSplits`, `QueueSplits`). `DeliversStored` follows for
every size of packets.

`Outbox` counts frames where the ring counts bytes, so `ImplementsOutbox` needs more:
`EInv` adds `Measured`, that each frame in the ring has `FrameSize` bytes or, if it is
cut, as many as `Size % FrameSize`; and `Balanced`, that at most one frame is cut, and
that the free bytes are those of the frames for which there is room and, unless a
frame was cut, the spare ones. The hypothesis `OneSize`, that all packets have frames of
`FrameSize` bytes, holds in run `equal`.

**Client.** The inductive invariant is `IInv`: `Good(cl)`, the type of the event
queue, and `TaskCovered`. `Good` is the type and three parts. `Paced` says of the
ticks that a packet which is not late is `Alone`: it is the one that is pending,
`sendTimeout` and its age add up to at least the send timeout, and in `MQTT_DATA`
`keepAliveTick` is not ahead of its age. With an age below both limits
(`LateInTime`) neither the next packet nor a keepalive can go. Nothing is claimed of a
packet that is late, and `age` falls back to zero only when all are acknowledged or the
connection has gone. `Linked`: the states of a session have a connection. `Wanted`: an
armed timer and a due reconnection belong to a program that wants one. `Linked` and
`Wanted` give `ConnectedHasLink` and `NoReconnect`.

**RecvBuffer.** The inductive invariant is `RecvInv`. `SentOK`: what was sent is a
sequence of messages, and the bytes of its first ones begin the stream. `Aligned`:
until a header has been mistaken, the messages taken are the first ones sent, and
their bytes, those in the buffer and those not yet read are the stream. From these a
round of `READPACKET` knows that the buffer starts with the next message or with a
part of it (`NextMessage`), and `HeaderFound` shows what `mqtt_get_total_length` then
finds. A whole header gives the length of the message, whatever its digits; one that is
cut gives no more than the buffer has only if every digit so far is zero. So what is
taken is the message, or the count does not fit `message_length` or an `int`, or the
cut is one that `SlipsKnown` names. The functions
that flatten a sequence, weigh a digit and add the digits up are recursive. The
library's induction theorems are of no use here, but lemma `Induction` of
`SequenceProofs`, a set that has 0 and is closed under successor contains all numbers,
serves to show that they exist and satisfy their equations.

**RetainStore.** The proof is about the bytes. `CodeForm` says which byte of an entry is
where: a topic without a NUL, the NUL, two bytes of length, the content, the QoS. The
topic may be empty: then the reader ends before the entry (`EmptyTopicRead`), also when
the entry was cut, and what is behind does not matter (`TailStops`). `EntryRead` reads
one entry of a serialisation of which the first n words are in the flash and the rest is
erased: an entry written to its end is read as it was; of one that was cut either
nothing is read, or its topic and length are right and content and QoS are not known,
and then it is the last. A cut topic has no NUL behind it, as erased bytes are 255, and
a cut length reaches beyond the buffer. `ReadBack` goes through the entries from the
last to the first and joins this to what all of them read as, `TailRead`; `LoadFills`
and `FilledImage` show that loading puts what was read into the table in the same order,
as no topic comes twice. For a whole image the result is `FoundOf` it (`WholeRead`).

The inductive invariant is `StoreInv`: `GoodList`, that each topic of the table is
there once and every entry can be encoded; `SectorInv`, that the flash is a prefix of the
encoding of `image`, in words, over an erased sector, all of it if `whole` and none of
it while `saving`, when it is that of the table; `Flags`, the types of the rest; and
`FlashCurrent`, which says that a change of the table starts from what the
flash has. TLC checked it on run `store` before it was proved. `GoodList` and
`SectorInv` need each other: a damaged entry becomes one of the table, and is saved
again. An update finds the entry of its topic or a free one, so topics stay unique;
an entry without content cannot be in the table, but a damaged one with content that no
client ever sent can. `SavedSurvives` and `RestoredPrefix` are then `ReadBack` at the
start of the broker.

**TopicLevels.** The names of a behaviour grow by a character at a time; that they are
sequences of characters is the invariant (`NamesTyped`), and the properties are facts
about all such names. A level is a place: `IsLevel(name, i, j)` says that it goes from i
up to before j, and `LevelPlace` that this is what `Levels` and `strtok` cut out.
`ValidNames` joins each wildcard to the level it is in (`WildcardsLevel`). For
`EmptyLevels`, `TokensMove` says where the levels that are not empty are when a slash is
put beside a slash or an end, and `SlashPassedOver` that the tokens stay the same; that
this also holds of the names reversed follows from `TokensBackwards`: the tokens of the
reversed name are those of the name, reversed and in the opposite order. For
`MatchesByLevels`, `CoversUnfolds` takes what the levels mean apart into a comparison
from the first level on (`Ahead`) and one from the last (`Behind`). `StepsAhead` and
`StepsBehind` show that the loop over the tokens makes the one or the other,
`CleanTokens` says which levels the tokens are, and `MatchesAgree` goes through the
characters a filter can start with; a filter that starts with none of them does not
cover the empty first level of a rooted topic, which is why that case is excepted.
`SlashesLost` is about it: a slash in front adds no token (`OverlookedSlash`), so the
answer is that for the topic without it.

The assumptions are those in the modules (`BrokerAssumption`, `MishapAssumption`,
`InputAssumption`, `TablesAssumption`, `QueueAssumption`, `ContentAssumption`,
`RingAssumption`, `FitAssumption`, `ClientAssumption`, `RecvAssumption`,
`RetainAssumption`): sizes are positive, model values differ, a length is a sequence of
digits of which all but the last are flagged, topics consist of bytes that are not NUL,
the buffer of the retained table is read from one sector, and a packet fits the buffer
it is read into. `NamesTerminated` and `OneSize` are no assumptions of a module but the
hypotheses of `SessionsSingle` and of `RingImplementsOutbox` alone.

Only model-checked: `ClosedReclaimed`, `IdleEvicted`, `LostReconnects`, `QueueServed`
and `AllTaken`, as liveness, fairness and `ENABLED` are out of the prover's reach; and
`TestTable`, 17 results of `Topics_matches` on given names, of which TLC's evaluation
leaves nothing open. Every other invariant and action property of the runs that pass is
stated by a theorem.

## 5. Where code and documents part

1. `src/mqtt_server.cpp` 587 says "Delete any existing status for that id". Line 588
   passes the identifier without its terminator; it is not found when the CONNECT
   ends with it and more data follows (`pipelined_takeover`).
2. `README.md` 9 says "Retain topics are stored in flash". The constructor of
   `uMQTTBroker` registers the callback that stores them, and
   `create_retainedlist` clears it when the broker is started (`retain_lost`). An
   application has to call `MQTT_server_onRetain` again after `init()`.

The models also contain, without a run of their own:

* `README.md` 129 says that `MQTT_server_cleanupClientCons` "will remove all broken
  connections, publishing LWT if defined". It leaves the connection in its slot with
  a pointer to the freed client state, which the loop frees again. It also writes
  through a NULL buffer when the client has subscribed to the topic of its own will,
  because the buffer goes first and the subscriptions last.
* `README.md` 121 says that the connect callback rejects requests "in an early
  stage", and that with it "you can reject too many concurrent connections". The
  refused connection is read in the same round when data is there, into a buffer it
  does not have, and the event that is to stop it may be lost: it is then neither
  stopped nor served until the peer closes it.

`FaultsExplained` states what may lead to undefined behaviour in the model, and that
nothing else does:

* a PUBLISH whose topic length reaches beyond `in_buffer` (`src/mqtt_server.cpp`
  868-873: a copy from NULL, a NUL written behind `topic_buffer`);
* a CONNECT with an identifier of some length that starts with a NUL, which deletes
  the first client without a name, its own sender, if that is the first (588, 590);
* the end of a client that has subscribed to the topic of its own will;
* a poll of a connection whose client state has gone: handed to `dummy_clientcon`,
  refused, or gone over by the forced cleanup;
* an event for a client state that has been freed.

Further:

* The disconnect callback is not called for a client with the empty identifier (line
  329; `README.md` 123 says "each time a client disconnects").
* A retained table that does not fit `MAX_RETAINED_LEN` is not stored any more, and
  the flash keeps an older one.
* `src/mqtt_server.cpp` 477 says "Expect minimum the full fixed size header". What is
  checked is the size of the last read, at least 2, and not whether the buffer holds
  the whole length. The broker loses its place in the stream (`SlipsKnown`) when the
  first byte of a message is left over behind another message, which is taken for a
  complete one; and when all that is there is the start of a message whose length so
  far has only zero digits: `01 80`, with `01` to follow, or `01 80 80`.
* It does so also when a message is announced that is longer than `message_length`
  holds (482 assigns an `int` to an `uint16_t`): the count is cut, the message taken for
  a shorter one. A total of 65536 becomes 0, and `READPACKET` never ends. None of these
  lengths fits the buffer, but only what is there is compared with its size.
* The last byte of a message that arrives alone is not fetched until another follows.
* A message published to the empty topic may be retained. In flash its entry starts
  with a NUL, where `src/mqtt_retainedlist.c` 174 stops: it is lost at the next start,
  with all entries behind it (`SavedSurvives`).
* `src/mqtt_topics.c` 164-166 says that "we have to check whether the first character
  is / explicitly"; the code does so only when the filter starts with a slash or a plus:
  the filter `a/b` matches the topic `/a/b` (`LeadingSlashLost`).
* `src/mqtt.c` 452 attributes an acknowledgement to the type of the packet sent last. When
  packets are late, `publishedCb` is called for something else, or not at all.
* An attempt to connect that is under way when `MQTT_Disconnect` is called may still
  succeed, and becomes a session: the callback does not ask.
* The client drops what follows a message other than PUBLISH in one segment. A client
  that is deleted while its connection is closing is never freed: the callback
  overwrites `MQTT_DELETED`, and the timer is off.

The invariants of the passing runs of `MCBroker` hold in the presence of all of
these: the model goes on to the fault and the restart.

## 6. What is not modelled yet, and the plan

In this order:

1. `PubSub`: an abstract broker (sessions, subscriptions, deliveries that may be
   dropped) which `Broker` implements.
2. Several clients of `Client` over one event queue, instead of a `Rival`.

Not planned: `src/mqtt_msg.c` beyond the lengths in the fixed header, since no behaviour over time
depends on the rest; `src/utils.c` and `src/debug.cpp`, string
conversions and output that keep no state; the examples and the load-test scripts.
