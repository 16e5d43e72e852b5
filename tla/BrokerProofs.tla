---------------------------- MODULE BrokerProofs ----------------------------
(***************************************************************************)
(* That the broker's memory stays consistent, and what its handlers do to  *)
(* other clients, for every number of clients, every set of messages and   *)
(* mishaps, and every size of table and ring.                              *)
(*                                                                         *)
(* The handlers are compositions of operators from memories to memories,   *)
(* so the proof goes operator by operator.  Most of them are Calm: they    *)
(* leave alone which client states there are and who refers to them.  The  *)
(* rest, accept, CONNECT, SUBSCRIBE, and the end of a client state, each   *)
(* have a lemma of their own; the actions only put them together.  First   *)
(* what the operations on the two tables return and preserve.              *)
(***************************************************************************)
EXTENDS Broker, OutboxProofs, SequenceProofs

-----------------------------------------------------------------------------
(* Subscriptions.                                                          *)

LEMMA NoSubscriptions ==
  ASSUME NEW owners
  PROVE  create_topiclist \in Subscriptions(owners)
BY DEF create_topiclist, Subscriptions

(* add_topic leaves every entry as it was or gives it to the subscriber.   *)
LEMMA AddTyped ==
  ASSUME NEW owners, NEW subs \in Subscriptions(owners),
         NEW owner \in owners, NEW filters \in Seq(Filter)
  PROVE  /\ add_topics(subs, owner, filters) \in Subscriptions(owners)
         /\ \A i \in 1..MaxSubs :
              \/ add_topics(subs, owner, filters)[i] = subs[i]
              \/ add_topics(subs, owner, filters)[i].owner = owner
<1> DEFINE new == add_topics(subs, owner, filters)
<1>1. ASSUME NEW i \in 1..MaxSubs
      PROVE  /\ new[i] \in Subscription(owners) \cup {None}
             /\ new[i] = subs[i] \/ new[i].owner = owner
  <2> DEFINE fits == {k \in DOMAIN filters :
                        /\ filters[k] \notin BadFilter
                        /\ FilterRank(filters, k) = FreeRank(subs, i)}
             f == filters[CHOOSE k \in fits : TRUE]
  <2>1. new[i] = IF subs[i] = None /\ fits # {}
                 THEN [owner |-> owner, filter |-> f] ELSE subs[i]
    BY DEF add_topics
  <2>2. subs[i] \in Subscription(owners) \cup {None}
    BY DEF Subscriptions
  <2>3. ASSUME fits # {} PROVE f \in Filter
    <3>1. (CHOOSE k \in fits : TRUE) \in fits  BY <2>3
    <3>2. \A k \in DOMAIN filters : filters[k] \in Filter  OBVIOUS
    <3> QED  BY <3>1, <3>2
  <2> HIDE DEF fits, f, new
  <2> QED  BY <2>1, <2>2, <2>3 DEF Subscription
<1>2. DOMAIN new = 1..MaxSubs /\ new = [i \in 1..MaxSubs |-> new[i]]
  BY DEF add_topics
<1> HIDE DEF new
<1>3. new \in [1..MaxSubs -> Subscription(owners) \cup {None}]
  BY <1>1, <1>2
<1> QED  BY <1>1, <1>3 DEF Subscriptions, new

(* delete_topic leaves every entry as it was or frees it; with every       *)
(* filter, it leaves the owner none.                                       *)
LEMMA DeleteTyped ==
  ASSUME NEW owners, NEW subs \in Subscriptions(owners), NEW owner, NEW filters
  PROVE  /\ delete_topic(subs, owner, filters) \in Subscriptions(owners)
         /\ \A i \in 1..MaxSubs : delete_topic(subs, owner, filters)[i] \in {subs[i], None}
BY DEF delete_topic, Subscriptions

LEMMA DeleteAll ==
  ASSUME NEW owners, NEW subs \in Subscriptions(owners), NEW owner, NEW i \in 1..MaxSubs,
         delete_topic(subs, owner, Filter)[i] # None
  PROVE  delete_topic(subs, owner, Filter)[i].owner # owner
BY DEF delete_topic, Subscriptions, Subscription

(* The number of copies a publication makes for one owner is a number.     *)
LEMMA HitsFinite ==
  ASSUME NEW subs, NEW owner, NEW topic
  PROVE  Cardinality(Hits(subs, owner, topic)) \in Nat
<1>1. Hits(subs, owner, topic) \subseteq 1..MaxSubs  BY DEF Hits
<1>2. MaxSubs \in Nat  BY TablesAssumption
<1> QED  BY <1>1, <1>2, IndexSetFinite

-----------------------------------------------------------------------------
(* Retained messages.                                                      *)

(* One entry for a topic, none with empty data.                            *)
Unique(ret) ==
  /\ \A i, j \in 1..MaxRetained :
       (ret[i] # None /\ ret[j] # None /\ ret[i].topic = ret[j].topic) => i = j
  /\ \A i \in 1..MaxRetained : ret[i] # None => ret[i].data # NoPayload

LEMMA NothingRetained ==
  create_retainedlist \in RetainedList /\ Unique(create_retainedlist)
BY DEF create_retainedlist, RetainedList, Unique

(* update_retainedtopic keeps the table well-formed: it never makes a      *)
(* second entry for a topic, nor one with empty data.                      *)
LEMMA UpdateTyped ==
  ASSUME NEW ret \in RetainedList, NEW topic \in Topic, NEW data \in Data
  PROVE  /\ update_retainedtopic(ret, topic, data) \in RetainedList
         /\ Unique(ret) => Unique(update_retainedtopic(ret, topic, data))
<1> DEFINE new == update_retainedtopic(ret, topic, data)
           e == [topic |-> topic, data |-> data]
<1>1. e \in RetainedEntry  BY DEF RetainedEntry
<1>2. CASE Holding(ret, topic) # {}
  <2> DEFINE k == Lowest(Holding(ret, topic))
  <2>1. k \in 1..MaxRetained /\ ret[k] # None /\ ret[k].topic = topic
    <3>1. Holding(ret, topic) \subseteq Nat  BY DEF Holding
    <3>2. k \in Holding(ret, topic)  BY <3>1, <1>2, LowestProperties
    <3> QED  BY <3>2 DEF Holding
  <2>2. new = [ret EXCEPT ![k] = IF data = NoPayload THEN None ELSE e]
    BY <1>2 DEF update_retainedtopic
  <2> HIDE DEF k, new
  <2> QED  BY <1>1, <2>1, <2>2 DEF RetainedList, Unique, RetainedEntry, new
<1>3. CASE Holding(ret, topic) = {} /\ data # NoPayload /\ Vacant(ret) # {}
  <2> DEFINE k == Lowest(Vacant(ret))
  <2>1. k \in 1..MaxRetained
    <3>1. Vacant(ret) \subseteq Nat  BY DEF Vacant
    <3>2. k \in Vacant(ret)  BY <3>1, <1>3, LowestProperties
    <3> QED  BY <3>2 DEF Vacant
  <2>2. new = [ret EXCEPT ![k] = e]
    BY <1>3 DEF update_retainedtopic
  <2>3. \A i \in 1..MaxRetained : ret[i] # None => ret[i].topic # topic
    BY <1>3 DEF Holding
  <2> HIDE DEF k, new
  <2> QED  BY <1>1, <1>3, <2>1, <2>2, <2>3 DEF RetainedList, Unique, RetainedEntry, new
<1>4. CASE Holding(ret, topic) = {} /\ (data = NoPayload \/ Vacant(ret) = {})
  BY <1>4 DEF update_retainedtopic
<1> QED  BY <1>2, <1>3, <1>4

(* find_retainedtopic hands out entries of the table.                      *)
LEMMA FindTyped ==
  ASSUME NEW ret \in RetainedList, NEW filter
  PROVE  find_retainedtopic(ret, filter) \in Seq(RetainedEntry)
<1> DEFINE found == {i \in 1..MaxRetained :
                       ret[i] # None /\ Topics_matches(filter, ret[i].topic)}
           out == [k \in 1..Cardinality(found) |-> ret[Nth(found, k)]]
<1>1. MaxRetained \in Nat /\ found \subseteq 1..MaxRetained  BY TablesAssumption
<1>2. Cardinality(found) \in Nat  BY <1>1, IndexSetFinite
<1>3. \A k \in 1..Cardinality(found) : Nth(found, k) \in found  BY <1>1, NthExists
<1>4. \A i \in found : ret[i] \in RetainedEntry  BY DEF RetainedList
<1> HIDE DEF found
<1>5. \A k \in 1..Cardinality(found) : ret[Nth(found, k)] \in RetainedEntry  BY <1>3, <1>4
<1>6. out \in [1..Cardinality(found) -> RetainedEntry]  BY <1>5
<1>7. out \in Seq(RetainedEntry)
  <2> HIDE DEF out
  <2> QED  BY <1>2, <1>6, SeqDef
<1> QED  BY <1>7 DEF find_retainedtopic, found

-----------------------------------------------------------------------------
(* The broker's memory.                                                    *)

(* The fields that say which client states there are and who refers to     *)
(* them are the same in h and k.                                           *)
SameShape(h, k) ==
  /\ k.slot = h.slot /\ k.state = h.state /\ k.id = h.id
  /\ k.clist = h.clist /\ k.subs = h.subs /\ k.dummy = h.dummy

(* A step that leaves the shape alone and posts, if anything, a client     *)
(* that is in the list.                                                    *)
Calm(h, k) ==
  /\ k \in Memory
  /\ SameShape(h, k)
  /\ k.ev # h.ev => InList(h, k.ev)
  /\ Unique(h.ret) => Unique(k.ret)

LEMMA PublishCalm ==
  ASSUME NEW h \in Memory, NEW topic \in Topic, NEW data \in Data
  PROVE  Calm(h, publish(h, topic, data)) /\ publish(h, topic, data).ev = h.ev
<1> DEFINE copies(s) == [i \in 1..Cardinality(Hits(h.subs, s, topic)) |->
                           Publication(topic, data)]
           k == publish(h, topic, data)
           newq == [s \in Slot |-> QUEUE_Puts(h.queue[s], copies(s))]
           newf == IF \E s \in Slot : ~InList(h, s) /\ Hits(h.subs, s, topic) # {}
                   THEN "null_write" ELSE h.fault
<1>1. newq \in [Slot -> Queue]
  <2> SUFFICES ASSUME NEW s \in Slot PROVE QUEUE_Puts(h.queue[s], copies(s)) \in Queue
    OBVIOUS
  <2>1. Cardinality(Hits(h.subs, s, topic)) \in Nat  BY HitsFinite
  <2>2. copies(s) \in Seq(Frame)
    <3>1. Publication(topic, data) \in Frame  BY PublicationTyped
    <3> QED  BY <2>1, <3>1
  <2>3. h.queue[s] \in Queue  BY DEF Memory
  <2> HIDE DEF copies
  <2> QED  BY <2>2, <2>3, PutsTyped
<1>2. k = [h EXCEPT !.queue = newq, !.fault = newf]
  BY DEF publish
<1>3. newf \in Fault  BY DEF Memory, Fault
<1> HIDE DEF newq, newf, k
<1>4. k \in Memory  BY <1>1, <1>2, <1>3 DEF Memory
<1>5. k.ev = h.ev /\ SameShape(h, k) /\ k.ret = h.ret
  BY <1>2 DEF Memory, SameShape
<1> QED  BY <1>4, <1>5 DEF Calm, k

LEMMA CalmTransitive ==
  ASSUME NEW h, NEW k, NEW l, Calm(h, k), Calm(k, l)
  PROVE  Calm(h, l)
BY DEF Calm, SameShape, InList

LEMMA CalmSelf ==
  ASSUME NEW h \in Memory
  PROVE  Calm(h, h)
BY DEF Calm, SameShape

LEMMA RetainCalm ==
  ASSUME NEW h \in Memory, NEW topic \in Topic, NEW data \in Data
  PROVE  Calm(h, retain(h, topic, data))
<1> DEFINE new == update_retainedtopic(h.ret, topic, data)
<1>1. h.ret \in RetainedList  BY DEF Memory
<1>2. new \in RetainedList /\ (Unique(h.ret) => Unique(new))
  BY <1>1, UpdateTyped
<1>3. retain(h, topic, data) = [h EXCEPT !.ret = new]  BY DEF retain
<1> HIDE DEF new
<1> QED  BY <1>2, <1>3 DEF Memory, Calm, SameShape

(* Anything that only changes the queue of one client.                     *)
LEMMA QueueCalm ==
  ASSUME NEW h \in Memory, NEW s \in Slot, NEW q \in Queue
  PROVE  Calm(h, [h EXCEPT !.queue[s] = q])
BY DEF Memory, Calm, SameShape

LEMMA PutCalm ==
  ASSUME NEW h \in Memory, NEW s \in Slot,
         NEW type \in {"CONNACK", "REFUSED", "SUBACK", "UNSUBACK", "PINGRESP"}
  PROVE  Calm(h, put(h, s, type)) /\ put(h, s, type).ev = h.ev
<1> DEFINE q == QUEUE_Puts(h.queue[s], <<Packet(type)>>)
<1>1. h.queue[s] \in Queue  BY DEF Memory
<1>2. q \in Queue  BY <1>1, PacketTyped, PutsOne
<1>3. put(h, s, type) = [h EXCEPT !.queue[s] = q]  BY DEF put
<1> HIDE DEF q
<1>4. [h EXCEPT !.queue[s] = q].ev = h.ev  BY DEF Memory
<1> QED  BY <1>2, <1>3, <1>4, QueueCalm

LEMMA PostCalm ==
  ASSUME NEW h \in Memory, NEW e \in Slot, InList(h, e)
  PROVE  Calm(h, system_os_post(h, e))
BY DEF system_os_post, Memory, Calm, SameShape

LEMMA HushCalm ==
  ASSUME NEW h \in Memory
  PROVE  Calm(h, Hush(h)) /\ Hush(h).ev = h.ev
BY DEF Hush, Memory, Calm, SameShape

LEMMA LinkCalm ==
  ASSUME NEW h \in Memory, NEW s \in Slot, NEW l \in Link
  PROVE  Calm(h, [h EXCEPT !.link[s] = l])
BY DEF Memory, Calm, SameShape

(* activate_next_client posts a client that is in the list, or none.       *)
LEMMA ActivateCalm ==
  ASSUME NEW h \in Memory
  PROVE  Calm(h, activate_next_client(h))
<1>1. CASE Waiting(h) = {}
  <2>1. activate_next_client(h) = [h EXCEPT !.quiet = FALSE]
    BY <1>1 DEF activate_next_client
  <2> QED  BY <2>1 DEF Memory, Calm, SameShape
<1>2. CASE Waiting(h) # {}
  <2> DEFINE i == Lowest(Waiting(h))
  <2>1. h.clist \in Seq(Slot)  BY DEF Memory
  <2>2. Waiting(h) \subseteq Nat  BY <2>1 DEF Waiting
  <2>3. i \in Waiting(h)  BY <2>2, <1>2, LowestProperties
  <2>4. i \in DOMAIN h.clist  BY <2>3 DEF Waiting
  <2>5. h.clist[i] \in Slot /\ InList(h, h.clist[i])
    BY <2>1, <2>4 DEF InList
  <2>6. activate_next_client(h) = system_os_post(h, h.clist[i])
    BY <1>2 DEF activate_next_client
  <2> QED  BY <2>5, <2>6, PostCalm
<1> QED  BY <1>1, <1>2

(* The will is published, perhaps retained, and a subscriber asked for.    *)
LEMMA WillCalm ==
  ASSUME NEW h \in Memory, NEW s \in Slot
  PROVE  Calm(h, publish_will(h, s))
<1> DEFINE w == h.will[s]
           p1 == publish(h, w.topic, w.data)
           p2 == activate_next_client(p1)
<1>1. CASE w = None
  BY <1>1, CalmSelf DEF publish_will
<1>2. CASE w # None
  <2>1. w.topic \in Topic /\ w.data \in Data /\ w.retain \in BOOLEAN
    BY <1>2 DEF Memory, Will
  <2>2. Calm(h, p1)  BY <2>1, PublishCalm
  <2>3. Calm(p1, p2)  BY <2>2, ActivateCalm DEF Calm
  <2>4. Calm(h, p2)  BY <2>2, <2>3, CalmTransitive
  <2>5. Calm(p2, retain(p2, w.topic, w.data))  BY <2>1, <2>4, RetainCalm DEF Calm
  <2>6. Calm(h, retain(p2, w.topic, w.data))  BY <2>4, <2>5, CalmTransitive
  <2>7. publish_will(h, s) = IF w.retain THEN retain(p2, w.topic, w.data) ELSE p2
    BY <1>2 DEF publish_will
  <2> QED  BY <2>1, <2>4, <2>6, <2>7
<1> QED  BY <1>1, <1>2

-----------------------------------------------------------------------------
(* The invariant of the broker's memory: its type, and that the list, the  *)
(* subscription table, the event and dummy_clientcon agree with the slots. *)

ListOnce(h) == \A i, j \in DOMAIN h.clist : h.clist[i] = h.clist[j] => i = j

ListIsOwned(h) ==
  \A s \in Slot : InList(h, s) <=> h.slot[s] = "con" /\ h.state[s] # "TCP_DISCONNECT"

OwnersLive(h) ==
  \A i \in 1..MaxSubs :
    h.subs[i] # None =>
      \/ h.subs[i].owner = Local
      \/ /\ InList(h, h.subs[i].owner)
         /\ h.state[h.subs[i].owner] = "MQTT_DATA"

RefsLive(h) ==
  /\ h.ev \in Slot => h.slot[h.ev] = "con"
  /\ h.dummy # None => h.slot[h.dummy] = "dummy"

Consistent(h) ==
  /\ h \in Memory
  /\ ListOnce(h) /\ ListIsOwned(h) /\ OwnersLive(h) /\ RefsLive(h)
  /\ Unique(h.ret)

LEMMA CalmConsistent ==
  ASSUME NEW h, NEW k, Consistent(h), Calm(h, k)
  PROVE  Consistent(k)
<1>1. k \in Memory /\ SameShape(h, k) /\ Unique(k.ret)
  BY DEF Consistent, Calm
<1>2. \A s : InList(k, s) <=> InList(h, s)  BY <1>1 DEF SameShape, InList
<1>3. k.ev \in Slot => k.slot[k.ev] = "con"
  BY <1>1 DEF Consistent, Calm, SameShape, RefsLive, ListIsOwned
<1>4. ListOnce(k) /\ ListIsOwned(k) /\ OwnersLive(k)
  BY <1>1, <1>2 DEF Consistent, SameShape, ListOnce, ListIsOwned, OwnersLive
<1> QED  BY <1>1, <1>3, <1>4 DEF Consistent, RefsLive, SameShape

(* A list without one of its elements.                                     *)
LEMMA UnlinkProperties ==
  ASSUME NEW list \in Seq(Slot), NEW i \in DOMAIN list,
         \A j, k \in DOMAIN list : list[j] = list[k] => j = k
  PROVE  /\ Unlink(list, i) \in Seq(Slot)
         /\ \A j, k \in DOMAIN Unlink(list, i) :
              Unlink(list, i)[j] = Unlink(list, i)[k] => j = k
         /\ \A s : (\E j \in DOMAIN Unlink(list, i) : Unlink(list, i)[j] = s) <=>
                 (s # list[i] /\ \E j \in DOMAIN list : list[j] = s)
<1> DEFINE n == Len(list)
           new == Unlink(list, i)
<1>1. n \in Nat /\ DOMAIN list = 1..n /\ i \in 1..n  BY LenProperties
<1>2. DOMAIN new = 1..(n - 1) /\ n - 1 \in Nat
  BY <1>1 DEF Unlink
<1>3. \A j \in 1..(n - 1) : new[j] = IF j < i THEN list[j] ELSE list[j + 1]
  BY DEF Unlink
<1>4. \A j \in 1..(n - 1) : new[j] \in Slot
  BY <1>1, <1>3
<1>5. new \in Seq(Slot)
  <2>1. new = [j \in 1..(n - 1) |-> new[j]]  BY DEF Unlink
  <2> HIDE DEF new
  <2>2. new \in [1..(n - 1) -> Slot]  BY <2>1, <1>4
  <2> QED  BY <2>2, <1>2, SeqDef
<1> HIDE DEF new, n
<1>6. ASSUME NEW j \in 1..(n - 1), NEW k \in 1..(n - 1), new[j] = new[k] PROVE j = k
  BY <1>1, <1>3, <1>6
<1>7. ASSUME NEW s
      PROVE  (\E j \in 1..(n - 1) : new[j] = s) <=>
             (s # list[i] /\ \E j \in 1..n : list[j] = s)
  <2>1. ASSUME NEW j \in 1..(n - 1), new[j] = s
        PROVE  s # list[i] /\ \E k \in 1..n : list[k] = s
    BY <2>1, <1>1, <1>3
  <2>2. ASSUME s # list[i], NEW k \in 1..n, list[k] = s
        PROVE  \E j \in 1..(n - 1) : new[j] = s
    <3>1. CASE k < i
      <4>1. k \in 1..(n - 1) /\ new[k] = s  BY <3>1, <2>2, <1>1, <1>3
      <4> QED  BY <4>1
    <3>2. CASE ~(k < i)
      <4>1. k - 1 \in 1..(n - 1) /\ ~(k - 1 < i)  /\ (k - 1) + 1 = k
        BY <3>2, <2>2, <1>1
      <4>2. new[k - 1] = list[k]  BY <4>1, <1>3
      <4> QED  BY <4>1, <4>2, <2>2
    <3> QED  BY <3>1, <3>2
  <2> QED  BY <2>1, <2>2
<1> QED  BY <1>1, <1>2, <1>5, <1>6, <1>7 DEF new

-----------------------------------------------------------------------------
(* The end of a client state.                                              *)

(* Everything but s is as it was.                                          *)
OthersKept(h, k, s) ==
  \A r \in Slot \ {s} :
    /\ k.slot[r] = h.slot[r] /\ k.state[r] = h.state[r] /\ k.id[r] = h.id[r]
    /\ InList(k, r) <=> InList(h, r)

LEMMA FreeTyped ==
  ASSUME NEW h \in Memory, NEW s \in Slot
  PROVE  LET k == os_free(h, s)
         IN  /\ k \in Memory
             /\ k.slot = [h.slot EXCEPT ![s] = "dangling"]
             /\ k.state = [h.state EXCEPT ![s] = "NONE"]
             /\ k.id = [h.id EXCEPT ![s] = None]
             /\ k.ev = IF h.ev = s THEN Stale ELSE h.ev
             /\ k.clist = h.clist /\ k.subs = h.subs /\ k.dummy = h.dummy /\ k.ret = h.ret
<1> DEFINE m1 == [h EXCEPT !.slot = [@ EXCEPT ![s] = "dangling"],
                           !.state = [@ EXCEPT ![s] = "NONE"],
                           !.id = [@ EXCEPT ![s] = None]]
           m2 == [m1 EXCEPT !.will = [@ EXCEPT ![s] = None],
                            !.queue = [@ EXCEPT ![s] = <<>>]]
           m3 == [m2 EXCEPT !.sendTimeout = [@ EXCEPT ![s] = 0],
                            !.connectionTimeout = [@ EXCEPT ![s] = 0]]
           m4 == [m3 EXCEPT !.ev = IF @ = s THEN Stale ELSE @]
<1>1. m1 \in Memory  BY DEF Memory, SlotKind, ConnState
<1>2. m2 \in Memory
  <2> HIDE DEF m1
  <2> QED  BY <1>1, EmptyQueue DEF Memory
<1>3. m3 \in Memory
  <2> HIDE DEF m2
  <2>1. 0 \in 0..SendTicks /\ 0 \in Nat  BY BrokerAssumption
  <2> QED  BY <1>2, <2>1 DEF Memory
<1>4. m4 \in Memory
  <2> HIDE DEF m3
  <2> QED  BY <1>3, ZenonT(40) DEF Memory
<1>5. os_free(h, s) = m4
  BY DEF os_free, Memory
<1>6. LET k == os_free(h, s)
      IN  /\ k.slot = [h.slot EXCEPT ![s] = "dangling"]
          /\ k.state = [h.state EXCEPT ![s] = "NONE"]
          /\ k.id = [h.id EXCEPT ![s] = None]
          /\ k.ev = IF h.ev = s THEN Stale ELSE h.ev
          /\ k.clist = h.clist /\ k.subs = h.subs /\ k.dummy = h.dummy /\ k.ret = h.ret
  BY DEF os_free, Memory
<1> HIDE DEF m4
<1> QED  BY <1>4, <1>5, <1>6

(* Deleting a client state takes it out of the list, the subscription      *)
(* table and the event, and touches no other.                              *)
LEMMA DeleteConsistent ==
  ASSUME NEW h, Consistent(h), NEW s \in Slot, h.slot[s] = "con"
  PROVE  LET k == MQTT_server_deleteClientCon(h, s)
         IN  /\ Consistent(k) /\ OthersKept(h, k, s)
             /\ k.slot[s] = "dangling" /\ k.state[s] = "NONE" /\ ~InList(k, s)
             /\ k.dummy = h.dummy
<1> DEFINE list == IF InList(h, s) THEN Unlink(h.clist, Place(h, s)) ELSE h.clist
           off == [h EXCEPT !.clist = list]
           lwt == publish_will(off, s)
           subs == delete_topic(lwt.subs, s, Filter)
           mid == [lwt EXCEPT !.subs = subs]
           ev == IF lwt.ev = s THEN Stale ELSE lwt.ev
           k == MQTT_server_deleteClientCon(h, s)
<1>1. h \in Memory /\ h.clist \in Seq(Slot)  BY DEF Consistent, Memory
<1>2. /\ list \in Seq(Slot)
      /\ \A i, j \in DOMAIN list : list[i] = list[j] => i = j
      /\ \A r : (\E i \in DOMAIN list : list[i] = r) <=> (r # s /\ InList(h, r))
  <2>1. \A i, j \in DOMAIN h.clist : h.clist[i] = h.clist[j] => i = j
    BY DEF Consistent, ListOnce
  <2>2. CASE InList(h, s)
    <3>1. Place(h, s) \in DOMAIN h.clist /\ h.clist[Place(h, s)] = s
      BY <2>2 DEF InList, Place
    <3>2. list = Unlink(h.clist, Place(h, s))  BY <2>2
    <3>3. \A r : InList(h, r) <=> \E j \in DOMAIN h.clist : h.clist[j] = r
      BY DEF InList
    <3> HIDE DEF list
    <3>4. /\ list \in Seq(Slot)
          /\ \A i, j \in DOMAIN list : list[i] = list[j] => i = j
          /\ \A r : (\E i \in DOMAIN list : list[i] = r) <=>
                  (r # h.clist[Place(h, s)] /\ \E i \in DOMAIN h.clist : h.clist[i] = r)
      <4> DEFINE c == h.clist
                 i == Place(h, s)
      <4>1. c \in Seq(Slot) /\ i \in DOMAIN c /\ list = Unlink(c, i)
        BY <1>1, <3>1, <3>2
      <4> HIDE DEF c, i
      <4>2. \A j, n \in DOMAIN c : c[j] = c[n] => j = n  BY <2>1 DEF c
      <4>3. /\ list \in Seq(Slot)
            /\ \A j, n \in DOMAIN list : list[j] = list[n] => j = n
            /\ \A r : (\E j \in DOMAIN list : list[j] = r) <=>
                    (r # c[i] /\ \E j \in DOMAIN c : c[j] = r)
        <5>1. /\ Unlink(c, i) \in Seq(Slot)
              /\ \A j, n \in DOMAIN Unlink(c, i) : Unlink(c, i)[j] = Unlink(c, i)[n] => j = n
              /\ \A r : (\E j \in DOMAIN Unlink(c, i) : Unlink(c, i)[j] = r) <=>
                      (r # c[i] /\ \E j \in DOMAIN c : c[j] = r)
          BY <4>1, <4>2, UnlinkProperties, Zenon
        <5> QED  BY <5>1, <4>1
      <4> QED  BY <4>3 DEF c, i
    <3> QED  BY <3>1, <3>3, <3>4
  <2>3. CASE ~InList(h, s)
    BY <1>1, <2>1, <2>3 DEF InList
  <2> QED  BY <2>2, <2>3
<1> HIDE DEF list
<1>3. /\ off \in Memory /\ off.clist = list
      /\ off.slot = h.slot /\ off.state = h.state /\ off.id = h.id
      /\ off.subs = h.subs /\ off.dummy = h.dummy /\ off.ev = h.ev /\ off.ret = h.ret
  BY <1>1, <1>2 DEF Memory
<1> HIDE DEF off
<1>4. Calm(off, lwt)  BY <1>3, WillCalm
<1> HIDE DEF lwt
<1>5. /\ lwt \in Memory /\ lwt.clist = list
      /\ lwt.slot = h.slot /\ lwt.state = h.state /\ lwt.id = h.id
      /\ lwt.subs = h.subs /\ lwt.dummy = h.dummy
      /\ lwt.ev # h.ev => lwt.ev # s /\ InList(h, lwt.ev)
      /\ Unique(lwt.ret)
  BY <1>2, <1>3, <1>4 DEF Calm, SameShape, Consistent, InList
<1>6. /\ subs \in Subscriptions(Slot \cup {Local})
      /\ \A i \in 1..MaxSubs :
           /\ subs[i] \in {h.subs[i], None}
           /\ subs[i] # None => subs[i].owner # s
  <2>1. h.subs \in Subscriptions(Slot \cup {Local})  BY <1>1 DEF Memory
  <2> QED  BY <2>1, <1>5, DeleteTyped, DeleteAll
<1> HIDE DEF subs
<1>7. ev \in Slot => ev # s /\ h.slot[ev] = "con"
  BY <1>1, <1>5, BrokerAssumption DEF Consistent, RefsLive, ListIsOwned
<1>8. mid \in Memory /\ mid.subs = subs
      /\ mid.slot = lwt.slot /\ mid.state = lwt.state /\ mid.id = lwt.id
      /\ mid.ev = lwt.ev /\ mid.clist = lwt.clist /\ mid.dummy = lwt.dummy
      /\ mid.ret = lwt.ret
  BY <1>5, <1>6 DEF Memory
<1>9. k = os_free(mid, s)
  BY DEF MQTT_server_deleteClientCon, subs, lwt, off, list
<1> HIDE DEF k, mid
<1>10. k \in Memory  BY <1>8, <1>9, FreeTyped
<1>11. /\ k.slot = [h.slot EXCEPT ![s] = "dangling"]
       /\ k.state = [h.state EXCEPT ![s] = "NONE"]
       /\ k.id = [h.id EXCEPT ![s] = None]
       /\ k.clist = list /\ k.subs = subs /\ k.dummy = h.dummy /\ k.ev = ev
       /\ k.ret = lwt.ret
  <2>1. /\ k.slot = [mid.slot EXCEPT ![s] = "dangling"]
        /\ k.state = [mid.state EXCEPT ![s] = "NONE"]
        /\ k.id = [mid.id EXCEPT ![s] = None]
        /\ k.ev = IF mid.ev = s THEN Stale ELSE mid.ev
        /\ k.clist = mid.clist /\ k.subs = mid.subs /\ k.dummy = mid.dummy
        /\ k.ret = mid.ret
    BY <1>8, <1>9, FreeTyped, ZenonT(40)
  <2> QED  BY <2>1, <1>5, <1>8
<1>12. \A r : InList(k, r) <=> r # s /\ InList(h, r)
  <2>1. \A r : InList(k, r) <=> \E i \in DOMAIN list : list[i] = r
    BY <1>11 DEF InList
  <2> QED  BY <1>2, <2>1
<1>13. /\ h.slot \in [Slot -> SlotKind] /\ h.state \in [Slot -> ConnState]
       /\ h.id \in [Slot -> ClientId \cup {ZeroLenId, NulId, None}]
  BY <1>1 DEF Memory
<1>14. k.slot[s] = "dangling" /\ k.state[s] = "NONE" /\ ~InList(k, s)
  BY <1>11, <1>12, <1>13
<1>15. OthersKept(h, k, s)
  BY <1>11, <1>12, <1>13 DEF OthersKept
<1>16. ListOnce(k)  BY <1>2, <1>11 DEF ListOnce
<1>17. ListIsOwned(k)
  BY <1>14, <1>15 DEF ListIsOwned, OthersKept, Consistent
<1>18. OwnersLive(k)
  <2> SUFFICES ASSUME NEW i \in 1..MaxSubs, k.subs[i] # None, k.subs[i].owner # Local
               PROVE  InList(k, k.subs[i].owner) /\ k.state[k.subs[i].owner] = "MQTT_DATA"
    BY DEF OwnersLive
  <2>1. k.subs[i] = h.subs[i] /\ k.subs[i].owner # s  BY <1>6, <1>11
  <2>2. InList(h, h.subs[i].owner) /\ h.state[h.subs[i].owner] = "MQTT_DATA"
    BY <2>1 DEF Consistent, OwnersLive
  <2>3. h.subs[i].owner \in Slot
    BY <1>1, <2>2 DEF InList
  <2> QED  BY <2>1, <2>2, <2>3, <1>11, <1>12, <1>13
<1>19. RefsLive(k)
  BY <1>7, <1>11, <1>13 DEF RefsLive, Consistent
<1>20. Unique(k.ret)  BY <1>5, <1>11
<1>21. Consistent(k)
  BY <1>10, <1>16, <1>17, <1>18, <1>19, <1>20 DEF Consistent
<1> QED  BY <1>11, <1>14, <1>15, <1>21 DEF k

(* Handing the connection to dummy_clientcon as well.                      *)
LEMMA DisconnectConsistent ==
  ASSUME NEW h, Consistent(h), NEW s \in Slot, h.slot[s] = "con"
  PROVE  LET k == MQTT_server_disconnectClientCon(h, s)
         IN  Consistent(k) /\ OthersKept(h, k, s) /\ k.state[s] = "NONE" /\ ~InList(k, s)
<1> DEFINE del == MQTT_server_deleteClientCon(h, s)
           mid == [del EXCEPT !.slot[s] = "dummy", !.dummy = s]
           k == system_os_post(mid, Dummy)
<1>1. /\ Consistent(del) /\ OthersKept(h, del, s)
      /\ del.slot[s] = "dangling" /\ del.state[s] = "NONE" /\ ~InList(del, s)
  BY DeleteConsistent
<1>2. k = MQTT_server_disconnectClientCon(h, s)
  BY DEF MQTT_server_disconnectClientCon
<1> HIDE DEF del
<1>3. del \in Memory  BY <1>1 DEF Consistent
<1>4. /\ k \in Memory
      /\ k.slot = [del.slot EXCEPT ![s] = "dummy"] /\ k.dummy = s
      /\ k.state = del.state /\ k.id = del.id /\ k.clist = del.clist
      /\ k.subs = del.subs /\ k.ret = del.ret
      /\ k.ev = del.ev \/ k.ev = Dummy
  BY <1>3 DEF system_os_post, Memory, SlotKind
<1> HIDE DEF k
<1>5. \A r : InList(k, r) <=> InList(del, r)  BY <1>4 DEF InList
<1>6. del.slot \in [Slot -> SlotKind]  BY <1>3 DEF Memory
<1>7. OthersKept(h, k, s)  BY <1>1, <1>4, <1>5, <1>6 DEF OthersKept
<1>8. ListOnce(k) /\ Unique(k.ret)  BY <1>1, <1>4 DEF Consistent, ListOnce
<1>9. ListIsOwned(k)
  BY <1>1, <1>4, <1>5, <1>6 DEF Consistent, ListIsOwned
<1>10. OwnersLive(k)  BY <1>1, <1>4, <1>5 DEF Consistent, OwnersLive
<1>11. RefsLive(k)
  <2>1. del.ev # s  BY <1>1 DEF Consistent, RefsLive
  <2> QED  BY <1>1, <1>4, <1>6, <2>1, BrokerAssumption DEF Consistent, RefsLive
<1> QED
  BY <1>1, <1>2, <1>4, <1>5, <1>7, <1>8, <1>9, <1>10, <1>11 DEF Consistent

-----------------------------------------------------------------------------
(* A client that has not sent its CONNECT has no name yet, so a CONNECT    *)
(* can not take over the connection it arrived on.                         *)

FreshBut(h, s) ==
  \A r \in Slot \ {s} : h.state[r] = "TCP_CONNECTED" => h.id[r] = ZeroLenId
Fresh(h) == \A r \in Slot : h.state[r] = "TCP_CONNECTED" => h.id[r] = ZeroLenId

Good(h) == Consistent(h) /\ Fresh(h)

(* A client state in the list, at a point of the handler of its messages.  *)
Serving(h, s) == Consistent(h) /\ FreshBut(h, s) /\ InList(h, s)

LEMMA CalmGood ==
  ASSUME NEW h, NEW k, Good(h), Calm(h, k)
  PROVE  Good(k)
<1>1. Consistent(k)  BY CalmConsistent DEF Good
<1> QED  BY <1>1 DEF Good, Fresh, Calm, SameShape

LEMMA ListedOwned ==
  ASSUME NEW h, Consistent(h), NEW s \in Slot, InList(h, s)
  PROVE  h.slot[s] = "con"
BY DEF Consistent, ListIsOwned

LEMMA ListedIsSlot ==
  ASSUME NEW h \in Memory, NEW i \in DOMAIN h.clist
  PROVE  h.clist[i] \in Slot /\ InList(h, h.clist[i])
BY DEF Memory, InList

LEMMA DisconnectGood ==
  ASSUME NEW h, NEW s \in Slot, Consistent(h), FreshBut(h, s), h.slot[s] = "con"
  PROVE  Good(MQTT_server_disconnectClientCon(h, s))
<1> DEFINE k == MQTT_server_disconnectClientCon(h, s)
<1>1. Consistent(k) /\ OthersKept(h, k, s) /\ k.state[s] = "NONE"
  BY DisconnectConsistent
<1> HIDE DEF k
<1>2. Fresh(k)  BY <1>1 DEF Fresh, FreshBut, OthersKept
<1> QED  BY <1>1, <1>2 DEF Good, k

LEMMA GoodBut ==
  ASSUME NEW h, Good(h), NEW s \in Slot
  PROVE  Consistent(h) /\ h \in Memory /\ Fresh(h) /\ FreshBut(h, s)
BY DEF Good, Fresh, FreshBut, Consistent

(* Changes that concern neither the list nor the tables.                   *)

LEMMA FaultCalm ==
  ASSUME NEW h \in Memory, NEW f \in Fault
  PROVE  Calm(h, [h EXCEPT !.fault = f])
BY DEF Memory, Calm, SameShape

LEMMA WillSetCalm ==
  ASSUME NEW h \in Memory, NEW s \in Slot, NEW w \in Will \cup {None}
  PROVE  Calm(h, [h EXCEPT !.will[s] = w])
BY DEF Memory, Calm, SameShape

LEMMA SendTimeoutCalm ==
  ASSUME NEW h \in Memory, NEW s \in Slot, NEW n \in 0..SendTicks
  PROVE  Calm(h, [h EXCEPT !.sendTimeout[s] = n])
BY DEF Memory, Calm, SameShape

LEMMA ConnectionTimeoutCalm ==
  ASSUME NEW h \in Memory, NEW s \in Slot, NEW n \in Nat
  PROVE  Calm(h, [h EXCEPT !.connectionTimeout[s] = n])
BY DEF Memory, Calm, SameShape

LEMMA DoomedCalm ==
  ASSUME NEW h \in Memory, NEW s \in Slot, NEW b \in BOOLEAN
  PROVE  Calm(h, [h EXCEPT !.doomed[s] = b])
BY DEF Memory, Calm, SameShape

LEMMA ReadCalm ==
  ASSUME NEW h \in Memory, NEW s \in Slot
  PROVE  Calm(h, read(h, s)) /\ Calm(h, stop(h, s))
<1>1. "down" \in Link /\ (IF h.link[s] = "fin" THEN "down" ELSE h.link[s]) \in Link
  BY DEF Memory, Link
<1>2. read(h, s) = [h EXCEPT !.link[s] = IF h.link[s] = "fin" THEN "down" ELSE h.link[s]]
  BY DEF read, Memory
<1>3. stop(h, s) = [h EXCEPT !.link[s] = "down"]  BY DEF stop
<1> QED  BY <1>1, <1>2, <1>3, LinkCalm

(* Taking the event leaves none.                                           *)
LEMMA TakenGood ==
  ASSUME NEW h, Good(h)
  PROVE  /\ Good([h EXCEPT !.ev = None])
         /\ SameShape(h, [h EXCEPT !.ev = None])
         /\ [h EXCEPT !.ev = None].queue = h.queue
<1> DEFINE k == [h EXCEPT !.ev = None]
<1>1. h \in Memory  BY DEF Good, Consistent
<1>2. k \in Memory /\ SameShape(h, k) /\ k.ret = h.ret /\ k.ev = None /\ k.queue = h.queue
  BY <1>1 DEF Memory, SameShape
<1> HIDE DEF k
<1>3. \A r : InList(k, r) <=> InList(h, r)  BY <1>2 DEF SameShape, InList
<1>4. ListOnce(k) /\ ListIsOwned(k) /\ OwnersLive(k) /\ Unique(k.ret)
  BY <1>2, <1>3 DEF Good, Consistent, SameShape, ListOnce, ListIsOwned, OwnersLive
<1>5. RefsLive(k)
  BY <1>2, BrokerAssumption DEF Good, Consistent, RefsLive, SameShape
<1>6. Fresh(k)  BY <1>2 DEF Good, Fresh, SameShape
<1> QED  BY <1>2, <1>4, <1>5, <1>6 DEF Good, Consistent, k

(* A client state whose CONNECT has been dealt with.                       *)
LEMMA StateGood ==
  ASSUME NEW h, NEW s \in Slot, Serving(h, s), h.state[s] = "TCP_CONNECTED",
         NEW v \in {"TCP_DISCONNECTING", "MQTT_DATA"}
  PROVE  /\ Good([h EXCEPT !.state[s] = v])
         /\ InList([h EXCEPT !.state[s] = v], s)
<1> DEFINE k == [h EXCEPT !.state[s] = v]
<1>1. h \in Memory  BY DEF Serving, Consistent
<1>2. /\ k \in Memory /\ k.state = [h.state EXCEPT ![s] = v]
      /\ k.slot = h.slot /\ k.id = h.id /\ k.clist = h.clist /\ k.subs = h.subs
      /\ k.dummy = h.dummy /\ k.ev = h.ev /\ k.ret = h.ret
  BY <1>1 DEF Memory, ConnState
<1> HIDE DEF k
<1>3. \A r : InList(k, r) <=> InList(h, r)  BY <1>2 DEF InList
<1>4. h.state \in [Slot -> ConnState]  BY <1>1 DEF Memory
<1>5. ListOnce(k) /\ Unique(k.ret) /\ RefsLive(k)
  BY <1>2 DEF Serving, Consistent, ListOnce, RefsLive
<1>6. ListIsOwned(k)
  BY <1>2, <1>3, <1>4 DEF Serving, Consistent, ListIsOwned
<1>7. OwnersLive(k)
  <2> SUFFICES ASSUME NEW i \in 1..MaxSubs, k.subs[i] # None, k.subs[i].owner # Local
               PROVE  InList(k, k.subs[i].owner) /\ k.state[k.subs[i].owner] = "MQTT_DATA"
    BY DEF OwnersLive
  <2>1. InList(h, h.subs[i].owner) /\ h.state[h.subs[i].owner] = "MQTT_DATA"
    BY <1>2 DEF Serving, Consistent, OwnersLive
  <2>2. h.subs[i].owner \in Slot /\ h.subs[i].owner # s
    BY <1>1, <2>1 DEF Memory, InList
  <2> QED  BY <1>2, <1>3, <1>4, <2>1, <2>2
<1>8. Fresh(k)  BY <1>2, <1>4 DEF Serving, FreshBut, Fresh
<1> QED  BY <1>2, <1>3, <1>5, <1>6, <1>7, <1>8 DEF Good, Consistent, Serving, k

(* New subscriptions of the local client or of a client in a session, and  *)
(* subscriptions ended.                                                    *)
LEMMA SubscribedGood ==
  ASSUME NEW h, Good(h), NEW filters \in Seq(Filter), NEW owner \in Slot \cup {Local},
         owner = Local \/ (InList(h, owner) /\ h.state[owner] = "MQTT_DATA")
  PROVE  Good([h EXCEPT !.subs = add_topics(h.subs, owner, filters)])
<1> DEFINE new == add_topics(h.subs, owner, filters)
           k == [h EXCEPT !.subs = new]
<1>1. h \in Memory  BY DEF Good, Consistent
<1>2. h.subs \in Subscriptions(Slot \cup {Local})  BY <1>1 DEF Memory
<1>3. /\ new \in Subscriptions(Slot \cup {Local})
      /\ \A i \in 1..MaxSubs : new[i] = h.subs[i] \/ new[i].owner = owner
  <2> DEFINE owners == Slot \cup {Local}
  <2>1. h.subs \in Subscriptions(owners) /\ owner \in owners  BY <1>2
  <2> HIDE DEF owners
  <2>2. /\ add_topics(h.subs, owner, filters) \in Subscriptions(owners)
        /\ \A i \in 1..MaxSubs :
             \/ add_topics(h.subs, owner, filters)[i] = h.subs[i]
             \/ add_topics(h.subs, owner, filters)[i].owner = owner
    BY <2>1, AddTyped
  <2> QED  BY <2>2 DEF owners
<1> HIDE DEF new
<1>4. /\ k \in Memory /\ k.subs = new
      /\ k.slot = h.slot /\ k.state = h.state /\ k.id = h.id /\ k.clist = h.clist
      /\ k.dummy = h.dummy /\ k.ev = h.ev /\ k.ret = h.ret
  BY <1>1, <1>3 DEF Memory
<1> HIDE DEF k
<1>5. \A r : InList(k, r) <=> InList(h, r)  BY <1>4 DEF InList
<1>6. ListOnce(k) /\ ListIsOwned(k) /\ RefsLive(k) /\ Unique(k.ret) /\ Fresh(k)
  BY <1>4, <1>5 DEF Good, Consistent, ListOnce, ListIsOwned, RefsLive, Fresh
<1>7. OwnersLive(k)
  <2> SUFFICES ASSUME NEW i \in 1..MaxSubs, k.subs[i] # None, k.subs[i].owner # Local
               PROVE  InList(k, k.subs[i].owner) /\ k.state[k.subs[i].owner] = "MQTT_DATA"
    BY DEF OwnersLive
  <2>1. CASE k.subs[i] = h.subs[i]
    BY <2>1, <1>4, <1>5 DEF Good, Consistent, OwnersLive
  <2>2. CASE k.subs[i].owner = owner
    BY <2>2, <1>4, <1>5
  <2> QED  BY <2>1, <2>2, <1>3, <1>4
<1> QED  BY <1>4, <1>6, <1>7 DEF Good, Consistent, k, new

LEMMA UnsubscribedGood ==
  ASSUME NEW h, Good(h), NEW filters, NEW owner
  PROVE  Good([h EXCEPT !.subs = delete_topic(h.subs, owner, filters)])
<1> DEFINE new == delete_topic(h.subs, owner, filters)
           k == [h EXCEPT !.subs = new]
<1>1. h \in Memory  BY DEF Good, Consistent
<1>2. h.subs \in Subscriptions(Slot \cup {Local})  BY <1>1 DEF Memory
<1>3. /\ new \in Subscriptions(Slot \cup {Local})
      /\ \A i \in 1..MaxSubs : new[i] \in {h.subs[i], None}
  BY <1>2, DeleteTyped
<1> HIDE DEF new
<1>4. /\ k \in Memory /\ k.subs = new
      /\ k.slot = h.slot /\ k.state = h.state /\ k.id = h.id /\ k.clist = h.clist
      /\ k.dummy = h.dummy /\ k.ev = h.ev /\ k.ret = h.ret
  BY <1>1, <1>3 DEF Memory
<1> HIDE DEF k
<1>5. \A r : InList(k, r) <=> InList(h, r)  BY <1>4 DEF InList
<1>6. ListOnce(k) /\ ListIsOwned(k) /\ RefsLive(k) /\ Unique(k.ret) /\ Fresh(k)
  BY <1>4, <1>5 DEF Good, Consistent, ListOnce, ListIsOwned, RefsLive, Fresh
<1>7. OwnersLive(k)
  <2>1. \A i \in 1..MaxSubs : k.subs[i] # None => k.subs[i] = h.subs[i]
    BY <1>3, <1>4
  <2> QED  BY <2>1, <1>4, <1>5 DEF Good, Consistent, OwnersLive
<1> QED  BY <1>4, <1>6, <1>7 DEF Good, Consistent, k, new

-----------------------------------------------------------------------------
(* The handlers of received messages.                                      *)

(* A CONNECT ends the session of its name, which is not the connection     *)
(* the CONNECT arrived on, and gives this one the name.                    *)
LEMMA TakeoverServing ==
  ASSUME NEW h, Good(h), NEW s \in Slot, InList(h, s), h.state[s] = "TCP_CONNECTED",
         NEW m \in Message, m.type = "CONNECT", m.id = NulId => First(h, NulId) # s,
         NEW more
  PROVE  LET k == Takeover(h, s, m, more)
         IN  Serving(k, s) /\ k.state[s] = "TCP_CONNECTED"
<1> DEFINE free == IF m.id # ZeroLenId /\ Terminated(m, more)
                   THEN delete_client_by_id(h, m.id) ELSE h
           k == [free EXCEPT !.id[s] = m.id]
<1>1. m.id \in ClientId \cup {ZeroLenId, NulId}  BY DEF Message
<1>2. h \in Memory /\ h.clist \in Seq(Slot)  BY DEF Good, Consistent, Memory
<1>3. Good(free) /\ InList(free, s) /\ free.state[s] = "TCP_CONNECTED"
  <2>1. CASE free = h  BY <2>1
  <2>2. CASE m.id # ZeroLenId /\ Named(h, m.id) # {} /\ free = delete_client_by_id(h, m.id)
    <3> DEFINE i == Lowest(Named(h, m.id))
               t == h.clist[i]
    <3>1. Named(h, m.id) \subseteq Nat  BY <1>2 DEF Named
    <3>2. i \in Named(h, m.id)  BY <2>2, <3>1, LowestProperties
    <3>3. i \in DOMAIN h.clist /\ SameName(h.id[t], m.id)  BY <3>2 DEF Named
    <3>4. t \in Slot /\ InList(h, t)  BY <1>2, <3>3, ListedIsSlot
    <3>5. t # s
      <4>1. h.id[s] = ZeroLenId  BY DEF Good, Fresh
      <4>2. m.id # NulId => t # s
        BY <1>1, <2>2, <3>3, <4>1, BrokerAssumption DEF SameName
      <4>3. m.id = NulId => t = First(h, NulId)  BY DEF First
      <4> QED  BY <4>2, <4>3
    <3>6. free = MQTT_server_disconnectClientCon(h, t)
      BY <2>2 DEF delete_client_by_id, First
    <3> HIDE DEF t, i, free
    <3>7. h.slot[t] = "con" /\ Consistent(h) /\ FreshBut(h, t)
      BY <3>4, ListedOwned, GoodBut DEF Good
    <3>8. Good(free)  BY <3>4, <3>6, <3>7, DisconnectGood
    <3>9. OthersKept(h, free, t)  BY <3>4, <3>6, <3>7, DisconnectConsistent
    <3> QED  BY <3>5, <3>8, <3>9 DEF OthersKept
  <2>3. CASE Named(h, m.id) = {}
    BY <2>3 DEF delete_client_by_id
  <2> QED  BY <2>1, <2>2, <2>3
<1>4. k = Takeover(h, s, m, more)  BY DEF Takeover
<1> HIDE DEF free
<1>5. free \in Memory  BY <1>3 DEF Good, Consistent
<1>6. /\ k \in Memory /\ k.id = [free.id EXCEPT ![s] = m.id]
      /\ k.slot = free.slot /\ k.state = free.state /\ k.clist = free.clist
      /\ k.subs = free.subs /\ k.dummy = free.dummy /\ k.ev = free.ev /\ k.ret = free.ret
  BY <1>1, <1>5 DEF Memory
<1> HIDE DEF k
<1>7. \A r : InList(k, r) <=> InList(free, r)  BY <1>6 DEF InList
<1>8. Consistent(k)
  BY <1>3, <1>6, <1>7
     DEF Good, Consistent, ListOnce, ListIsOwned, OwnersLive, RefsLive
<1>9. FreshBut(k, s)
  <2>1. free.id \in [Slot -> ClientId \cup {ZeroLenId, NulId, None}]  BY <1>5 DEF Memory
  <2> QED  BY <2>1, <1>3, <1>6 DEF Good, Fresh, FreshBut
<1> QED  BY <1>3, <1>4, <1>6, <1>7, <1>8, <1>9 DEF Serving

LEMMA ServingCalm ==
  ASSUME NEW h, NEW s \in Slot, Serving(h, s), NEW k, Calm(h, k)
  PROVE  Serving(k, s) /\ k.state = h.state
<1>1. Consistent(k)  BY CalmConsistent DEF Serving
<1> QED  BY <1>1 DEF Serving, FreshBut, Calm, SameShape, InList

LEMMA RefusedGood ==
  ASSUME NEW h, NEW s \in Slot, Serving(h, s), h.state[s] = "TCP_CONNECTED"
  PROVE  Good(Refused(h, s))
<1> DEFINE k == [h EXCEPT !.state[s] = "TCP_DISCONNECTING"]
<1>1. Good(k)  BY StateGood
<1>2. k \in Memory  BY <1>1 DEF Good, Consistent
<1> HIDE DEF k
<1>3. Calm(k, put(k, s, "REFUSED"))  BY <1>2, PutCalm
<1>4. Good(put(k, s, "REFUSED"))  BY <1>1, <1>3, CalmGood
<1> QED  BY <1>4 DEF Refused, k

LEMMA ConnectGood ==
  ASSUME NEW h, Good(h), NEW s \in Slot, InList(h, s), h.state[s] = "TCP_CONNECTED",
         NEW m \in Message, m.type = "CONNECT", ~FreesItself(h, s, m), NEW more
  PROVE  Good(recv_connect(h, s, m, more))
<1> DEFINE taken == Takeover(h, s, m, more)
           known == StoreWill(taken, s, m)
<1>13. Good(Refused(h, s))
  <2>1. Serving(h, s)  BY GoodBut DEF Serving
  <2> QED  BY <2>1, RefusedGood
<1>14. CASE m.verdict = "bad_header"  BY <1>13, <1>14 DEF recv_connect
<1> SUFFICES ASSUME m.verdict # "bad_header" PROVE Good(recv_connect(h, s, m, more))
  BY <1>14
<1>1. Serving(taken, s) /\ taken.state[s] = "TCP_CONNECTED"
  BY TakeoverServing DEF FreesItself
<1>2. taken \in Memory  BY <1>1 DEF Serving, Consistent
<1>3. m.will \in Will \cup {None} /\ m.verdict \in Verdict  BY DEF Message
<1> HIDE DEF taken
<1>4. Calm(taken, known)
  <2> DEFINE w == IF WillRejected(m) THEN [m.will EXCEPT !.data = NoPayload] ELSE m.will
  <2>1. w \in Will \cup {None}
    BY <1>3 DEF WillRejected, Will, Data
  <2>2. known = [taken EXCEPT !.will[s] = w]  BY DEF StoreWill
  <2> HIDE DEF w, known
  <2> QED  BY <1>2, <2>1, <2>2, WillSetCalm
<1>5. Serving(known, s) /\ known.state[s] = "TCP_CONNECTED"
  BY <1>1, <1>4, ServingCalm
<1>6. known \in Memory /\ known.slot[s] = "con"
  BY <1>5, ListedOwned DEF Serving, Consistent
<1> DEFINE mute == [known EXCEPT !.will[s] = None]
           full == [known EXCEPT !.state[s] = "MQTT_DATA"]
<1>7. recv_connect(h, s, m, more) \in
        {MQTT_server_disconnectClientCon(known, s), Refused(known, s),
         Refused(mute, s), put(full, s, "CONNACK")}
  BY <1>3 DEF recv_connect, FinishConnect, Verdict, taken
<1> HIDE DEF known
<1>9. Good(MQTT_server_disconnectClientCon(known, s))
  BY <1>5, <1>6, DisconnectGood DEF Serving
<1>10. Good(Refused(known, s))  BY <1>5, RefusedGood
<1>11. Good(Refused(mute, s))
  <2>1. Calm(known, mute)  BY <1>6, WillSetCalm
  <2> HIDE DEF mute
  <2>2. Serving(mute, s) /\ mute.state = known.state  BY <2>1, <1>5, ServingCalm
  <2> QED  BY <2>2, <1>5, RefusedGood
<1>12. Good(put(full, s, "CONNACK"))
  <2>1. Good(full)  BY <1>5, StateGood
  <2> HIDE DEF full
  <2>2. full \in Memory  BY <2>1 DEF Good, Consistent
  <2>3. Calm(full, put(full, s, "CONNACK"))  BY <2>2, PutCalm
  <2> QED  BY <2>1, <2>3, CalmGood
<1> HIDE DEF mute, full
<1> QED  BY <1>7, <1>9, <1>10, <1>11, <1>12

LEMMA PutGood ==
  ASSUME NEW h, Good(h), NEW s \in Slot,
         NEW type \in {"CONNACK", "REFUSED", "SUBACK", "UNSUBACK", "PINGRESP"}
  PROVE  Good(put(h, s, type))
<1>1. h \in Memory  BY DEF Good, Consistent
<1>2. Calm(h, put(h, s, type))  BY <1>1, PutCalm
<1> QED  BY <1>2, CalmGood

(* Publishing and, if asked for, retaining.                                *)
LEMMA PublishGood ==
  ASSUME NEW h, Good(h), NEW topic \in Topic, NEW data \in Data
  PROVE  /\ Good(publish(h, topic, data))
         /\ Good(retain(publish(h, topic, data), topic, data))
<1> DEFINE p == publish(h, topic, data)
<1>1. h \in Memory  BY DEF Good, Consistent
<1>2. Calm(h, p)  BY <1>1, PublishCalm
<1> HIDE DEF p
<1>3. Good(p) /\ p \in Memory  BY <1>2, CalmGood DEF Calm
<1>4. Calm(p, retain(p, topic, data))  BY <1>3, RetainCalm
<1>5. Good(retain(p, topic, data))  BY <1>3, <1>4, CalmGood
<1> QED  BY <1>3, <1>5 DEF p

LEMMA SubscribeGood ==
  ASSUME NEW h, Good(h), NEW s \in Slot, InList(h, s), h.state[s] = "MQTT_DATA",
         NEW m \in Message, m.type = "SUBSCRIBE"
  PROVE  Good(recv_subscribe(h, s, m))
<1> DEFINE last == m.filters[Len(m.filters)]
           hits == find_retainedtopic(h.ret, last)
           added == [h EXCEPT !.subs = add_topics(h.subs, s, m.filters)]
           acked == put(added, s, "SUBACK")
           ms == [i \in DOMAIN hits |-> Retained(hits[i].topic, hits[i].data)]
           q == QUEUE_Puts(acked.queue[s], ms)
<1>1. m.filters \in Seq(Filter)  BY DEF Message
<1>2. h.ret \in RetainedList  BY DEF Good, Consistent, Memory
<1>3. Good(added)  BY <1>1, SubscribedGood
<1>4. recv_subscribe(h, s, m) = [acked EXCEPT !.queue[s] = q]
  BY DEF recv_subscribe
<1> HIDE DEF added
<1>5. Good(acked)  BY <1>3, PutGood
<1> HIDE DEF acked
<1>6. acked \in Memory /\ acked.queue[s] \in Queue  BY <1>5 DEF Good, Consistent, Memory
<1>7. hits \in Seq(RetainedEntry)  BY <1>2, FindTyped
<1> HIDE DEF hits
<1>8. ms \in Seq(Frame)
  <2>1. ASSUME NEW i \in DOMAIN hits
        PROVE  Retained(hits[i].topic, hits[i].data) \in Frame
    <3>1. hits[i] \in RetainedEntry  BY <1>7
    <3>2. hits[i].topic \in Topic /\ hits[i].data \in Data  BY <3>1 DEF RetainedEntry
    <3> QED  BY <3>2, PublicationTyped
  <2>2. DOMAIN hits = 1..Len(hits) /\ Len(hits) \in Nat  BY <1>7, LenProperties
  <2>3. ms \in [1..Len(hits) -> Frame]  BY <2>1, <2>2
  <2> HIDE DEF ms
  <2> QED  BY <2>2, <2>3, SeqDef
<1> HIDE DEF ms
<1>9. q \in Queue  BY <1>6, <1>8, PutsTyped
<1> HIDE DEF q
<1>10. Calm(acked, [acked EXCEPT !.queue[s] = q])  BY <1>6, <1>9, QueueCalm
<1> QED  BY <1>4, <1>5, <1>10, CalmGood

LEMMA DataGood ==
  ASSUME NEW h, Good(h), NEW s \in Slot, InList(h, s), h.state[s] = "MQTT_DATA",
         NEW m \in Message
  PROVE  Good(recv_data(h, s, m))
<1>1. h \in Memory /\ Consistent(h) /\ FreshBut(h, s) /\ h.slot[s] = "con"
  BY GoodBut, ListedOwned
<1>2. CASE m.type = "SUBSCRIBE"  BY <1>2, SubscribeGood DEF recv_data
<1>3. CASE m.type = "UNSUBSCRIBE"
  <2> DEFINE off == [h EXCEPT !.subs = delete_topic(h.subs, s, m.filters)]
  <2>1. Good(off)  BY UnsubscribedGood
  <2>2. recv_data(h, s, m) = put(off, s, "UNSUBACK")
    BY <1>3 DEF recv_data, recv_unsubscribe
  <2> HIDE DEF off
  <2> QED  BY <2>1, <2>2, PutGood
<1>4. CASE m.type = "PUBLISH"
  <2>1. m.topic \in Topic /\ m.data \in Data  BY <1>4 DEF Message
  <2>2. recv_data(h, s, m) \in {h, publish(h, m.topic, m.data),
                                retain(publish(h, m.topic, m.data), m.topic, m.data)}
    BY <1>4 DEF recv_data, recv_publish
  <2> QED  BY <2>1, <2>2, PublishGood
<1>5. CASE m.type = "PINGREQ"
  <2>1. recv_data(h, s, m) = put(h, s, "PINGRESP")  BY <1>5 DEF recv_data
  <2> QED  BY <2>1, PutGood
<1>6. CASE m.type = "DISCONNECT"
  <2> DEFINE mute == [h EXCEPT !.will[s] = None]
  <2>1. Calm(h, mute)  BY <1>1, WillSetCalm
  <2>2. recv_data(h, s, m) = MQTT_server_disconnectClientCon(mute, s)
    BY <1>6 DEF recv_data, recv_disconnect
  <2> HIDE DEF mute
  <2>3. Good(mute) /\ mute.slot[s] = "con"
    BY <1>1, <2>1, CalmGood DEF Calm, SameShape
  <2>4. Consistent(mute) /\ FreshBut(mute, s)  BY <2>3, GoodBut
  <2> QED  BY <2>2, <2>3, <2>4, DisconnectGood
<1>7. CASE m.type = "MALFORMED"
  <2>1. recv_data(h, s, m) = MQTT_server_disconnectClientCon(h, s)
    BY <1>7 DEF recv_data
  <2> QED  BY <1>1, <2>1, DisconnectGood
<1>8. CASE m.type \notin {"SUBSCRIBE", "UNSUBSCRIBE", "PUBLISH", "PINGREQ",
                          "DISCONNECT", "MALFORMED"}
  BY <1>8 DEF recv_data
<1> QED  BY <1>2, <1>3, <1>4, <1>5, <1>6, <1>7, <1>8

LEMMA MessageGood ==
  ASSUME NEW h, Good(h), NEW s \in Slot, InList(h, s), NEW m \in Message,
         ~FreesItself(h, s, m), NEW more
  PROVE  Good(recv_message(h, s, m, more))
<1>1. h \in Memory /\ Consistent(h) /\ FreshBut(h, s) /\ h.slot[s] = "con"
  BY GoodBut, ListedOwned
<1>2. Good(MQTT_server_disconnectClientCon(h, s))  BY <1>1, DisconnectGood
<1>3. Good(Hush(h))  BY <1>1, HushCalm, CalmGood
<1>4. CASE m.type = "TOO_LONG"  BY <1>2, <1>4 DEF recv_message
<1>5. CASE m.type = "PARTIAL"  BY <1>3, <1>5 DEF recv_message
<1>6. CASE m.type \notin {"TOO_LONG", "PARTIAL"} /\ h.state[s] = "TCP_CONNECTED"
  <2>1. recv_message(h, s, m, more) =
          IF m.type = "CONNECT" THEN recv_connect(h, s, m, more)
          ELSE MQTT_server_disconnectClientCon(h, s)
    BY <1>6 DEF recv_message
  <2> QED  BY <1>2, <1>6, <2>1, ConnectGood
<1>7. CASE m.type \notin {"TOO_LONG", "PARTIAL"} /\ h.state[s] = "MQTT_DATA"
  <2>1. recv_message(h, s, m, more) = recv_data(h, s, m)  BY <1>7 DEF recv_message
  <2> QED  BY <1>7, <2>1, DataGood
<1>8. CASE /\ m.type \notin {"TOO_LONG", "PARTIAL"}
           /\ h.state[s] \notin {"TCP_CONNECTED", "MQTT_DATA"}
  BY <1>8 DEF recv_message
<1> QED  BY <1>4, <1>5, <1>6, <1>7, <1>8

LEMMA AfterMessageGood ==
  ASSUME NEW h, Good(h), NEW s \in Slot, NEW m, NEW more
  PROVE  Good(after_message(h, s, m, more))
<1> DEFINE alive == [h EXCEPT !.connectionTimeout[s] = KeepTicks]
<1>1. h \in Memory  BY GoodBut
<1>2. Calm(h, alive)  BY <1>1, BrokerAssumption, ConnectionTimeoutCalm
<1>3. after_message(h, s, m, more) \in {h, Hush(alive), alive, activate_next_client(alive)}
      \/ (InList(h, s) /\ after_message(h, s, m, more) = system_os_post(alive, s))
  BY DEF after_message
<1> HIDE DEF alive
<1>4. Good(alive) /\ alive \in Memory /\ (InList(h, s) => InList(alive, s))
  BY <1>2, CalmGood DEF Calm, SameShape, InList
<1>5. Good(Hush(alive))  BY <1>4, HushCalm, CalmGood
<1>6. Good(activate_next_client(alive))  BY <1>4, ActivateCalm, CalmGood
<1>7. InList(h, s) => Good(system_os_post(alive, s))
  BY <1>4, PostCalm, CalmGood
<1> QED  BY <1>3, <1>4, <1>5, <1>6, <1>7

LEMMA ReceiveGood ==
  ASSUME NEW h, Good(h), NEW s \in Slot, NEW m \in Message, NEW more
  PROVE  Good(MQTT_ClientCon_recv_cb(read(h, s), s, m, more))
<1> DEFINE r == read(h, s)
<1>1. h \in Memory  BY GoodBut
<1>2. Calm(h, r)  BY <1>1, ReadCalm
<1> HIDE DEF r
<1>3. Good(r) /\ r \in Memory  BY <1>2, CalmGood DEF Calm
<1>4. Good([r EXCEPT !.fault = "null_write"]) /\ Good([r EXCEPT !.fault = "misread"])
  BY <1>3, FaultCalm, CalmGood DEF Fault
<1>5. InList(r, s) /\ ~Misreads(r, s, m) => Good(after_message(recv_message(r, s, m, more), s, m, more))
  BY <1>3, MessageGood, AfterMessageGood DEF Misreads
<1> QED  BY <1>3, <1>4, <1>5 DEF MQTT_ClientCon_recv_cb, r

-----------------------------------------------------------------------------
(* Connections.                                                            *)

LEMMA ActivateGood ==
  ASSUME NEW h, Good(h)
  PROVE  Good(activate_next_client(h))
<1>1. h \in Memory  BY DEF Good, Consistent
<1> QED  BY <1>1, ActivateCalm, CalmGood

LEMMA SentGood ==
  ASSUME NEW h, Good(h), NEW s \in Slot, h.slot[s] = "con"
  PROVE  Good(MQTT_ClientCon_sent_cb(h, s))
<1> DEFINE sent == [h EXCEPT !.sendTimeout[s] = 0]
<1>1. h \in Memory /\ 0 \in 0..SendTicks  BY BrokerAssumption DEF Good, Consistent
<1>2. Calm(h, sent)  BY <1>1, SendTimeoutCalm
<1>3. MQTT_ClientCon_sent_cb(h, s) \in
        {activate_next_client(sent),
         activate_next_client(MQTT_server_disconnectClientCon(sent, s))}
  BY DEF MQTT_ClientCon_sent_cb
<1> HIDE DEF sent
<1>4. Good(sent) /\ sent.slot[s] = "con"  BY <1>2, CalmGood DEF Calm, SameShape
<1>5. Consistent(sent) /\ FreshBut(sent, s)  BY <1>4, GoodBut
<1>6. Good(MQTT_server_disconnectClientCon(sent, s))  BY <1>4, <1>5, DisconnectGood
<1> QED  BY <1>3, <1>4, <1>6, ActivateGood

(* The connection leaves its slot.                                         *)
LEMMA DisconGood ==
  ASSUME NEW h, Good(h), NEW s \in Slot, h.slot[s] # "free"
  PROVE  Good([MQTT_ClientCon_discon_cb(h, s) EXCEPT !.slot[s] = "free", !.doomed[s] = FALSE])
<1> DEFINE gone == MQTT_ClientCon_discon_cb(h, s)
           k == [gone EXCEPT !.slot[s] = "free", !.doomed[s] = FALSE]
<1>1. h \in Memory /\ Consistent(h) /\ Fresh(h)  BY GoodBut
<1>2. h.slot[s] \in SlotKind  BY <1>1 DEF Memory
<1>3. /\ Consistent(gone) /\ Fresh(gone) /\ ~InList(gone, s)
      /\ gone.ev # s /\ gone.dummy # s
  <2>1. CASE h.slot[s] = "con"
    <3>1. gone = MQTT_server_deleteClientCon(h, s)
      BY <2>1 DEF MQTT_ClientCon_discon_cb
    <3> HIDE DEF gone
    <3>2. /\ Consistent(gone) /\ OthersKept(h, gone, s)
          /\ gone.slot[s] = "dangling" /\ gone.state[s] = "NONE" /\ ~InList(gone, s)
          /\ gone.dummy = h.dummy
      BY <1>1, <2>1, <3>1, DeleteConsistent
    <3>3. Fresh(gone)  BY <1>1, <3>2 DEF Fresh, OthersKept
    <3>4. gone.ev # s /\ gone.dummy # s
      BY <1>1, <2>1, <3>2, BrokerAssumption DEF Consistent, RefsLive
    <3> QED  BY <3>2, <3>3, <3>4
  <2>2. CASE h.slot[s] = "dummy"
    <3>1. gone = [h EXCEPT !.dummy = None]
      BY <2>2 DEF MQTT_ClientCon_discon_cb
    <3> HIDE DEF gone
    <3>2. /\ gone \in Memory /\ gone.dummy = None
          /\ gone.slot = h.slot /\ gone.state = h.state /\ gone.id = h.id
          /\ gone.clist = h.clist /\ gone.subs = h.subs /\ gone.ev = h.ev /\ gone.ret = h.ret
      BY <1>1, <3>1 DEF Memory
    <3>3. \A r : InList(gone, r) <=> InList(h, r)  BY <3>2 DEF InList
    <3>4. Consistent(gone)
      BY <1>1, <3>2, <3>3 DEF Consistent, ListOnce, ListIsOwned, OwnersLive, RefsLive
    <3>5. Fresh(gone)  BY <1>1, <3>2 DEF Fresh
    <3>6. ~InList(gone, s) /\ gone.ev # s
      BY <2>2, <3>2, <3>4 DEF Consistent, ListIsOwned, RefsLive
    <3>7. gone.dummy # s  BY <3>2, BrokerAssumption
    <3> QED  BY <3>4, <3>5, <3>6, <3>7
  <2>3. CASE h.slot[s] \in {"null", "dangling"}
    <3>1. gone = h \/ gone = [h EXCEPT !.fault = "double_free"]
      BY <2>3 DEF MQTT_ClientCon_discon_cb
    <3>2. Calm(h, h) /\ Calm(h, [h EXCEPT !.fault = "double_free"])
      BY <1>1, CalmSelf, FaultCalm DEF Fault
    <3>3. Calm(h, gone)  BY <3>1, <3>2
    <3> HIDE DEF gone
    <3>4. Good(gone) /\ gone.slot = h.slot  BY <3>3, CalmGood DEF Calm, SameShape
    <3>5. Consistent(gone) /\ Fresh(gone)  BY <3>4 DEF Good
    <3>6. ~InList(gone, s) /\ gone.ev # s /\ gone.dummy # s
      BY <2>3, <3>4, <3>5, BrokerAssumption DEF Consistent, ListIsOwned, RefsLive
    <3> QED  BY <3>5, <3>6
  <2> QED  BY <1>2, <2>1, <2>2, <2>3 DEF SlotKind
<1> HIDE DEF gone
<1>4. gone \in Memory  BY <1>3 DEF Consistent
<1>5. /\ k \in Memory /\ k.slot = [gone.slot EXCEPT ![s] = "free"]
      /\ k.state = gone.state /\ k.id = gone.id /\ k.clist = gone.clist
      /\ k.subs = gone.subs /\ k.dummy = gone.dummy /\ k.ev = gone.ev /\ k.ret = gone.ret
  BY <1>4 DEF Memory, SlotKind
<1> HIDE DEF k
<1>6. \A r : InList(k, r) <=> InList(gone, r)  BY <1>5 DEF InList
<1>7. gone.slot \in [Slot -> SlotKind]  BY <1>4 DEF Memory
<1>8. ListOnce(k) /\ OwnersLive(k) /\ Unique(k.ret) /\ Fresh(k)
  BY <1>3, <1>5, <1>6 DEF Consistent, ListOnce, OwnersLive, Fresh
<1>9. ListIsOwned(k)
  BY <1>3, <1>5, <1>6, <1>7 DEF Consistent, ListIsOwned
<1>10. RefsLive(k)
  <2>1. gone.dummy \in Slot \cup {None}  BY <1>4 DEF Memory
  <2> QED  BY <1>3, <1>5, <1>7, <2>1 DEF Consistent, RefsLive
<1> QED  BY <1>5, <1>8, <1>9, <1>10 DEF Good, Consistent, k, gone

(* A new connection in a free slot: without a client state, refused, or    *)
(* with a client state at the head of the list.                            *)
LEMMA NoStateGood ==
  ASSUME NEW h, Good(h), NEW s \in Slot, h.slot[s] = "free"
  PROVE  Good([h EXCEPT !.link[s] = "up", !.slot[s] = "null"])
<1> DEFINE k == [h EXCEPT !.link[s] = "up", !.slot[s] = "null"]
<1>1. h \in Memory /\ Consistent(h) /\ Fresh(h)  BY GoodBut
<1>2. /\ k \in Memory /\ k.slot = [h.slot EXCEPT ![s] = "null"]
      /\ k.state = h.state /\ k.id = h.id /\ k.clist = h.clist
      /\ k.subs = h.subs /\ k.dummy = h.dummy /\ k.ev = h.ev /\ k.ret = h.ret
  BY <1>1 DEF Memory, SlotKind, Link
<1> HIDE DEF k
<1>3. \A r : InList(k, r) <=> InList(h, r)  BY <1>2 DEF InList
<1>4. h.slot \in [Slot -> SlotKind] /\ h.dummy \in Slot \cup {None}  BY <1>1 DEF Memory
<1>5. ListOnce(k) /\ OwnersLive(k) /\ Unique(k.ret) /\ Fresh(k)
  BY <1>1, <1>2, <1>3 DEF Consistent, ListOnce, OwnersLive, Fresh
<1>6. ListIsOwned(k)
  BY <1>1, <1>2, <1>3, <1>4 DEF Consistent, ListIsOwned
<1>7. RefsLive(k)
  BY <1>1, <1>2, <1>4 DEF Consistent, RefsLive
<1> QED  BY <1>2, <1>5, <1>6, <1>7 DEF Good, Consistent, k

LEMMA RefuseGood ==
  ASSUME NEW h, Good(h), NEW s \in Slot, h.slot[s] = "free", NEW reuse \in BOOLEAN
  PROVE  Good(Refuse(zalloc([h EXCEPT !.link[s] = "up"], s, reuse), s))
<1> DEFINE k == Refuse(zalloc([h EXCEPT !.link[s] = "up"], s, reuse), s)
           m1 == [h EXCEPT !.link[s] = "up", !.slot[s] = "con", !.ev = IF reuse THEN s ELSE @]
           m2 == [m1 EXCEPT !.state[s] = "TCP_DISCONNECT"]
<1>1. h \in Memory /\ Consistent(h) /\ Fresh(h)  BY GoodBut
<1>2. /\ m1 \in Memory /\ m1.slot = [h.slot EXCEPT ![s] = "con"]
      /\ m1.state = h.state /\ m1.id = h.id /\ m1.clist = h.clist
      /\ m1.subs = h.subs /\ m1.dummy = h.dummy /\ m1.ev \in {h.ev, s} /\ m1.ret = h.ret
  BY <1>1 DEF Memory, SlotKind, Link
<1>3. k = system_os_post(m2, s)
  BY DEF Refuse, zalloc
<1> HIDE DEF m1
<1>4. /\ m2 \in Memory /\ m2.state = [h.state EXCEPT ![s] = "TCP_DISCONNECT"]
      /\ m2.slot = m1.slot /\ m2.id = m1.id /\ m2.clist = m1.clist
      /\ m2.subs = m1.subs /\ m2.dummy = m1.dummy /\ m2.ev = m1.ev /\ m2.ret = m1.ret
  BY <1>2 DEF Memory, ConnState
<1> HIDE DEF m2
<1>5. /\ k \in Memory /\ k.state = m2.state
      /\ k.slot = m2.slot /\ k.id = m2.id /\ k.clist = m2.clist
      /\ k.subs = m2.subs /\ k.dummy = m2.dummy /\ k.ev \in {m2.ev, s} /\ k.ret = m2.ret
  BY <1>3, <1>4, ZenonT(40) DEF system_os_post, Memory
<1> HIDE DEF k
<1>6. /\ k.slot = [h.slot EXCEPT ![s] = "con"]
      /\ k.state = [h.state EXCEPT ![s] = "TCP_DISCONNECT"]
      /\ k.id = h.id /\ k.clist = h.clist /\ k.subs = h.subs /\ k.dummy = h.dummy
      /\ k.ev \in {h.ev, s} /\ k.ret = h.ret
  BY <1>2, <1>4, <1>5
<1>7. \A r : InList(k, r) <=> InList(h, r)  BY <1>6 DEF InList
<1>8. /\ h.slot \in [Slot -> SlotKind] /\ h.state \in [Slot -> ConnState]
      /\ h.clist \in Seq(Slot) /\ h.dummy \in Slot \cup {None}
  BY <1>1 DEF Memory
<1>9. ~InList(h, s)  BY <1>1 DEF Consistent, ListIsOwned
<1>10. ListOnce(k) /\ Unique(k.ret) /\ Fresh(k)
  BY <1>1, <1>6, <1>8 DEF Consistent, ListOnce, Fresh
<1>11. ListIsOwned(k)
  BY <1>1, <1>6, <1>7, <1>8, <1>9 DEF Consistent, ListIsOwned
<1>12. OwnersLive(k)
  <2> SUFFICES ASSUME NEW i \in 1..MaxSubs, k.subs[i] # None, k.subs[i].owner # Local
               PROVE  InList(k, k.subs[i].owner) /\ k.state[k.subs[i].owner] = "MQTT_DATA"
    BY DEF OwnersLive
  <2>1. InList(h, h.subs[i].owner) /\ h.state[h.subs[i].owner] = "MQTT_DATA"
    BY <1>1, <1>6 DEF Consistent, OwnersLive
  <2>2. h.subs[i].owner \in Slot /\ h.subs[i].owner # s
    BY <1>8, <1>9, <2>1 DEF InList
  <2> QED  BY <1>6, <1>7, <1>8, <2>1, <2>2
<1>13. RefsLive(k)  BY <1>1, <1>6, <1>8 DEF Consistent, RefsLive
<1> QED  BY <1>5, <1>10, <1>11, <1>12, <1>13 DEF Good, Consistent, k

LEMMA PushProperties ==
  ASSUME NEW list \in Seq(Slot), NEW s \in Slot,
         \A j, k \in DOMAIN list : list[j] = list[k] => j = k,
         \A j \in DOMAIN list : list[j] # s
  PROVE  LET new == <<s>> \o list
         IN  /\ new \in Seq(Slot)
             /\ \A j, k \in DOMAIN new : new[j] = new[k] => j = k
             /\ \A r : (\E j \in DOMAIN new : new[j] = r) <=>
                     (r = s \/ \E j \in DOMAIN list : list[j] = r)
<1> DEFINE new == <<s>> \o list
           n == Len(list)
<1>1. n \in Nat /\ DOMAIN list = 1..n  BY LenProperties
<1>2. <<s>> \in Seq(Slot) /\ Len(<<s>>) = 1 /\ <<s>>[1] = s  OBVIOUS
<1>3. /\ new \in Seq(Slot) /\ DOMAIN new = 1..(n + 1)
      /\ \A j \in 1..(n + 1) : new[j] = IF j <= 1 THEN <<s>>[j] ELSE list[j - 1]
  BY <1>1, <1>2, ConcatProperties, LenProperties
<1> HIDE DEF new, n
<1>4. /\ new[1] = s
      /\ \A j \in 2..(n + 1) : new[j] = list[j - 1] /\ j - 1 \in DOMAIN list
  BY <1>1, <1>2, <1>3
<1>5. ASSUME NEW j \in 1..(n + 1), NEW k \in 1..(n + 1), new[j] = new[k] PROVE j = k
  <2>1. CASE j = 1 \/ k = 1
    <3>1. \A i \in 2..(n + 1) : new[i] # new[1]  BY <1>4
    <3> QED  BY <1>1, <1>5, <2>1, <3>1
  <2>2. CASE j \in 2..(n + 1) /\ k \in 2..(n + 1)
    <3>1. list[j - 1] = list[k - 1] /\ j - 1 \in DOMAIN list /\ k - 1 \in DOMAIN list
      BY <1>4, <1>5, <2>2
    <3>2. j - 1 = k - 1  BY <3>1
    <3> QED  BY <3>2, <2>2, <1>1
  <2> QED  BY <2>1, <2>2, <1>1
<1>6. ASSUME NEW r
      PROVE  (\E j \in 1..(n + 1) : new[j] = r) <=> (r = s \/ \E j \in DOMAIN list : list[j] = r)
  <2>1. ASSUME NEW j \in 1..(n + 1), new[j] = r
        PROVE  r = s \/ \E i \in DOMAIN list : list[i] = r
    <3>1. CASE j = 1  BY <3>1, <2>1, <1>4
    <3>2. CASE j \in 2..(n + 1)  BY <3>2, <2>1, <1>4
    <3> QED  BY <3>1, <3>2, <1>1
  <2>2. ASSUME r = s PROVE \E j \in 1..(n + 1) : new[j] = r
    <3>1. 1 \in 1..(n + 1)  BY <1>1
    <3> QED  BY <3>1, <2>2, <1>4
  <2>3. ASSUME NEW i \in DOMAIN list, list[i] = r
        PROVE  \E j \in 1..(n + 1) : new[j] = r
    <3>1. i + 1 \in 2..(n + 1) /\ i + 1 \in 1..(n + 1) /\ (i + 1) - 1 = i  BY <1>1
    <3>2. new[i + 1] = list[i]  BY <3>1, <1>4
    <3> QED  BY <3>1, <3>2, <2>3
  <2> QED  BY <2>1, <2>2, <2>3
<1> QED  BY <1>3, <1>5, <1>6 DEF new

LEMMA InitClientGood ==
  ASSUME NEW h, Good(h), NEW s \in Slot, h.slot[s] = "free", NEW reuse \in BOOLEAN
  PROVE  Good(MQTT_server_initClientCon(zalloc([h EXCEPT !.link[s] = "up"], s, reuse), s))
<1> DEFINE list == <<s>> \o h.clist
           k == MQTT_server_initClientCon(zalloc([h EXCEPT !.link[s] = "up"], s, reuse), s)
           m1 == [h EXCEPT !.link[s] = "up", !.slot[s] = "con", !.ev = IF reuse THEN s ELSE @]
           m2 == [m1 EXCEPT !.state[s] = "TCP_CONNECTED", !.id[s] = ZeroLenId]
           m3 == [m2 EXCEPT !.connectionTimeout[s] = ConnectTicks]
<1>1. h \in Memory /\ Consistent(h) /\ Fresh(h)  BY GoodBut
<1>2. /\ m1 \in Memory /\ m1.slot = [h.slot EXCEPT ![s] = "con"]
      /\ m1.state = h.state /\ m1.id = h.id /\ m1.clist = h.clist
      /\ m1.subs = h.subs /\ m1.dummy = h.dummy /\ m1.ev \in {h.ev, s} /\ m1.ret = h.ret
  BY <1>1 DEF Memory, SlotKind, Link
<1>3. k = [m3 EXCEPT !.clist = <<s>> \o h.clist]
  <2>1. zalloc([h EXCEPT !.link[s] = "up"], s, reuse) = m1
    BY DEF zalloc
  <2>2. k = MQTT_server_initClientCon(m1, s)  BY <2>1
  <2> HIDE DEF m1, k
  <2>3. k = [m1 EXCEPT !.state[s] = "TCP_CONNECTED", !.id[s] = ZeroLenId,
                       !.clist = <<s>> \o m1.clist,
                       !.connectionTimeout[s] = ConnectTicks]
    BY <2>2 DEF MQTT_server_initClientCon
  <2> QED  BY <1>2, <2>3 DEF Memory
<1> HIDE DEF m1
<1>4. /\ m2 \in Memory /\ m2.state = [h.state EXCEPT ![s] = "TCP_CONNECTED"]
      /\ m2.id = [h.id EXCEPT ![s] = ZeroLenId]
      /\ m2.slot = m1.slot /\ m2.clist = m1.clist
      /\ m2.subs = m1.subs /\ m2.dummy = m1.dummy /\ m2.ev = m1.ev /\ m2.ret = m1.ret
  BY <1>2 DEF Memory, ConnState
<1> HIDE DEF m2
<1>5. m3 \in Memory /\ SameShape(m2, m3) /\ m3.ev = m2.ev /\ m3.ret = m2.ret
  BY <1>4, BrokerAssumption DEF Memory, SameShape
<1> HIDE DEF m3
<1>6. ~InList(h, s)  BY <1>1 DEF Consistent, ListIsOwned
<1>7. /\ h.slot \in [Slot -> SlotKind] /\ h.state \in [Slot -> ConnState]
      /\ h.id \in [Slot -> ClientId \cup {ZeroLenId, NulId, None}]
      /\ h.clist \in Seq(Slot) /\ h.dummy \in Slot \cup {None}
  BY <1>1 DEF Memory
<1>8. /\ list \in Seq(Slot)
      /\ \A i, j \in DOMAIN list : list[i] = list[j] => i = j
      /\ \A r : (\E i \in DOMAIN list : list[i] = r) <=> (r = s \/ InList(h, r))
  <2> DEFINE c == h.clist
  <2>1. /\ c \in Seq(Slot)
        /\ \A j, i \in DOMAIN c : c[j] = c[i] => j = i
        /\ \A j \in DOMAIN c : c[j] # s
    BY <1>1, <1>6, <1>7 DEF Consistent, ListOnce, InList
  <2>2. \A r : InList(h, r) <=> \E j \in DOMAIN c : c[j] = r  BY DEF InList
  <2> HIDE DEF c
  <2>3. /\ <<s>> \o c \in Seq(Slot)
        /\ \A j, i \in DOMAIN (<<s>> \o c) : (<<s>> \o c)[j] = (<<s>> \o c)[i] => j = i
        /\ \A r : (\E j \in DOMAIN (<<s>> \o c) : (<<s>> \o c)[j] = r) <=>
                (r = s \/ \E j \in DOMAIN c : c[j] = r)
    BY <2>1, PushProperties
  <2>4. list = <<s>> \o c  BY DEF c
  <2> HIDE DEF list
  <2> QED  BY <2>2, <2>3, <2>4
<1>9. k = [m3 EXCEPT !.clist = list]  BY <1>3
<1> HIDE DEF k, list
<1>11. /\ k \in Memory /\ k.clist = list
       /\ k.slot = m3.slot /\ k.state = m3.state /\ k.id = m3.id /\ k.subs = m3.subs
       /\ k.dummy = m3.dummy /\ k.ev = m3.ev /\ k.ret = m3.ret
  BY <1>5, <1>8, <1>9 DEF Memory
<1>12. /\ k.slot = [h.slot EXCEPT ![s] = "con"]
       /\ k.state = [h.state EXCEPT ![s] = "TCP_CONNECTED"]
       /\ k.id = [h.id EXCEPT ![s] = ZeroLenId]
       /\ k.subs = h.subs /\ k.dummy = h.dummy /\ k.ev \in {h.ev, s} /\ k.ret = h.ret
  BY <1>2, <1>4, <1>5, <1>11 DEF SameShape
<1>13. \A r : InList(k, r) <=> (r = s \/ InList(h, r))
  <2>1. \A r : InList(k, r) <=> \E i \in DOMAIN list : list[i] = r
    BY <1>11 DEF InList
  <2> QED  BY <1>8, <2>1
<1>14. ListOnce(k) /\ Unique(k.ret)
  BY <1>1, <1>8, <1>11, <1>12 DEF Consistent, ListOnce
<1>15. Fresh(k)  BY <1>1, <1>7, <1>12 DEF Fresh
<1>16. ListIsOwned(k)
  BY <1>1, <1>7, <1>12, <1>13 DEF Consistent, ListIsOwned
<1>17. OwnersLive(k)
  <2> SUFFICES ASSUME NEW i \in 1..MaxSubs, k.subs[i] # None, k.subs[i].owner # Local
               PROVE  InList(k, k.subs[i].owner) /\ k.state[k.subs[i].owner] = "MQTT_DATA"
    BY DEF OwnersLive
  <2>1. InList(h, h.subs[i].owner) /\ h.state[h.subs[i].owner] = "MQTT_DATA"
    BY <1>1, <1>12 DEF Consistent, OwnersLive
  <2>2. h.subs[i].owner \in Slot /\ h.subs[i].owner # s
    BY <1>6, <1>7, <2>1 DEF InList
  <2> QED  BY <1>7, <1>12, <1>13, <2>1, <2>2
<1>18. RefsLive(k)  BY <1>1, <1>7, <1>12 DEF Consistent, RefsLive
<1> QED  BY <1>11, <1>14, <1>15, <1>16, <1>17, <1>18 DEF Good, Consistent, k

-----------------------------------------------------------------------------
(* The specification.  IInv is inductive: the properties alone are not,    *)
(* for a takeover would break them if it could find the connection that    *)
(* sends the CONNECT.                                                      *)

IInv ==
  /\ Good(srv)
  /\ pos \in 0..MaxClients
  /\ busy \in {"no", "packet", "cleanup"}
  /\ budget \in 0..Budget

LEMMA BootGood == Good(Boot)
<1>1. Boot \in Memory
  <2>1. /\ create_topiclist \in Subscriptions(Slot \cup {Local})
        /\ create_retainedlist \in RetainedList /\ <<>> \in Queue
    BY NoSubscriptions, NothingRetained, EmptyQueue
  <2>2. 0 \in 0..SendTicks /\ <<>> \in Seq(Slot)  BY BrokerAssumption
  <2> QED  BY <2>1, <2>2 DEF Boot, Memory, SlotKind, Link, ConnState, Fault
<1>2. \A s : ~InList(Boot, s)  BY DEF InList, Boot
<1>3. ListOnce(Boot) /\ ListIsOwned(Boot) /\ Fresh(Boot)
  <2>1. ListOnce(Boot)
    <3>1. \A i \in DOMAIN Boot.clist : FALSE  BY DEF Boot
    <3> QED  BY <3>1 DEF ListOnce
  <2>2. \A s \in Slot : Boot.slot[s] = "free" /\ Boot.state[s] = "NONE"  BY DEF Boot
  <2> QED  BY <1>2, <2>1, <2>2 DEF ListIsOwned, Fresh
<1>4. OwnersLive(Boot)  BY DEF OwnersLive, Boot, create_topiclist
<1>5. RefsLive(Boot)  BY BrokerAssumption DEF RefsLive, Boot
<1>6. Unique(Boot.ret)  BY NothingRetained DEF Boot
<1> QED  BY <1>1, <1>3, <1>4, <1>5, <1>6 DEF Good, Consistent

(* The loop's steps.                                                       *)

LEMMA AcceptGood ==
  ASSUME IInv, Accept
  PROVE  Good(srv')
<1> DEFINE s == Lowest(FreeSlots)
           up == [srv EXCEPT !.link[s] = "up"]
<1>1. s \in Slot /\ srv.slot[s] = "free"
  <2>1. FreeSlots # {}  BY DEF Accept
  <2>2. FreeSlots \subseteq Nat  BY DEF FreeSlots, Slot
  <2>3. s \in FreeSlots  BY <2>1, <2>2, LowestProperties
  <2> QED  BY <2>3 DEF FreeSlots
<1>2. Good(srv)  BY DEF IInv
<1>3. \/ srv' = [up EXCEPT !.slot[s] = "null"]
      \/ \E reuse \in BOOLEAN :
           \/ srv' = Refuse(zalloc(up, s, reuse), s)
           \/ srv' = MQTT_server_initClientCon(zalloc(up, s, reuse), s)
  BY DEF Accept
<1> HIDE DEF s
<1>4. [up EXCEPT !.slot[s] = "null"] = [srv EXCEPT !.link[s] = "up", !.slot[s] = "null"]
  OBVIOUS
<1>5. CASE srv' = [up EXCEPT !.slot[s] = "null"]
  <2>1. Good([srv EXCEPT !.link[s] = "up", !.slot[s] = "null"])
    BY <1>1, <1>2, NoStateGood
  <2> QED  BY <2>1, <1>4, <1>5, Zenon
<1>6. ASSUME NEW reuse \in BOOLEAN, srv' = Refuse(zalloc(up, s, reuse), s)
      PROVE  Good(srv')
  <2>1. Good(Refuse(zalloc(up, s, reuse), s))
    BY <1>1, <1>2, RefuseGood
  <2> QED  BY <1>6, <2>1, Zenon
<1>7. ASSUME NEW reuse \in BOOLEAN,
             srv' = MQTT_server_initClientCon(zalloc(up, s, reuse), s)
      PROVE  Good(srv')
  <2>1. Good(MQTT_server_initClientCon(zalloc(up, s, reuse), s))
    BY <1>1, <1>2, InitClientGood
  <2> QED  BY <1>7, <2>1, Zenon
<1> QED  BY <1>3, <1>5, <1>6, <1>7

LEMMA DisconStep ==
  ASSUME IInv, NEW s \in Slot, Discon(s)
  PROVE  Good(srv')
<1>1. Good(srv) /\ srv \in Memory /\ srv.slot[s] # "free"
  BY DEF IInv, Discon, Good, Consistent
<1>2. CASE srv.doomed[s]
  <2>1. srv' = [MQTT_ClientCon_discon_cb(srv, s) EXCEPT !.slot[s] = "free", !.doomed[s] = FALSE]
    BY <1>2 DEF Discon
  <2>2. Good([MQTT_ClientCon_discon_cb(srv, s) EXCEPT !.slot[s] = "free", !.doomed[s] = FALSE])
    BY <1>1, DisconGood
  <2> QED  BY <2>1, <2>2, Zenon
<1>3. CASE ~srv.doomed[s]
  <2> DEFINE k == [srv EXCEPT !.doomed[s] = TRUE]
  <2>1. srv' = k  BY <1>3 DEF Discon
  <2>2. Calm(srv, k)  BY <1>1, DoomedCalm
  <2> HIDE DEF k
  <2>3. Good(k)  BY <1>1, <2>2, CalmGood
  <2> QED  BY <2>1, <2>3
<1> QED  BY <1>2, <1>3

LEMMA ReceiveStep ==
  ASSUME IInv, NEW s \in Slot, Receive(s)
  PROVE  Good(srv')
<1>1. Good(srv)  BY DEF IInv
<1>2. PICK m \in Input, more \in Chaining :
        srv' = MQTT_ClientCon_recv_cb(read(srv, s), s, m, more)
  BY DEF Receive
<1>3. m \in Message  BY InputAssumption
<1>4. Good(MQTT_ClientCon_recv_cb(read(srv, s), s, m, more))
  BY <1>1, <1>3, ReceiveGood
<1> QED  BY <1>2, <1>4

(* MQTT_ServerTask and the timer.                                          *)

LEMMA TakenProperties ==
  ASSUME IInv
  PROVE  /\ Good(Taken) /\ Taken \in Memory /\ SameShape(srv, Taken)
         /\ Taken.queue = srv.queue
<1>1. Good(srv)  BY DEF IInv
<1>2. Good(Taken) /\ SameShape(srv, Taken) /\ Taken.queue = srv.queue
  BY <1>1, TakenGood DEF Taken
<1> QED  BY <1>2 DEF Good, Consistent

LEMMA EventOwned ==
  ASSUME IInv, NEW s \in Slot, srv.ev = s
  PROVE  srv.slot[s] = "con"
BY DEF IInv, Good, Consistent, RefsLive

LEMMA TaskStopGood ==
  ASSUME IInv, TaskStop
  PROVE  Good(srv')
<1>1. PICK s \in Slot \cup {None} :
        srv' = activate_next_client(IF s = None THEN Taken ELSE stop(Taken, s))
  BY DEF TaskStop
<1>2. Good(Taken) /\ Taken \in Memory  BY TakenProperties
<1>3. s # None => Good(stop(Taken, s))
  <2> SUFFICES ASSUME s \in Slot PROVE Good(stop(Taken, s))  OBVIOUS
  <2>1. Calm(Taken, stop(Taken, s))  BY <1>2, ReadCalm
  <2> QED  BY <1>2, <2>1, CalmGood
<1>4. Good(IF s = None THEN Taken ELSE stop(Taken, s))  BY <1>2, <1>3
<1>5. Good(activate_next_client(IF s = None THEN Taken ELSE stop(Taken, s)))
  BY <1>4, ActivateGood
<1> QED  BY <1>1, <1>5, Zenon

LEMMA HushTakenGood ==
  ASSUME IInv
  PROVE  Good(Hush(Taken))
<1>1. Good(Taken) /\ Taken \in Memory  BY TakenProperties
<1>2. Calm(Taken, Hush(Taken))  BY <1>1, HushCalm
<1> QED  BY <1>1, <1>2, CalmGood

LEMMA TaskSendGood ==
  ASSUME IInv, NEW s \in Slot, TaskSend(s)
  PROVE  Good(srv')
<1> DEFINE q == AfterGet(Taken.queue[s])
           m1 == [Taken EXCEPT !.queue[s] = q]
           got == [m1 EXCEPT !.sendTimeout[s] = SendTicks]
<1>1. Good(Taken) /\ Taken \in Memory /\ SameShape(srv, Taken)  BY TakenProperties
<1>2. q \in Queue
  <2>1. Taken.queue[s] \in Queue  BY <1>1 DEF Memory
  <2> QED  BY <2>1, AfterGetTyped
<1>3. srv' = MQTT_ClientCon_sent_cb(got, s) \/ srv' = Hush(got)
  BY DEF TaskSend
<1> HIDE DEF q
<1>4. Calm(Taken, m1)  BY <1>1, <1>2, QueueCalm
<1> HIDE DEF m1
<1>5. m1 \in Memory /\ SendTicks \in 0..SendTicks
  BY <1>4, BrokerAssumption DEF Calm
<1>6. Calm(m1, got)  BY <1>5, SendTimeoutCalm
<1> HIDE DEF got
<1>7. Calm(Taken, got)  BY <1>4, <1>6, CalmTransitive
<1>8. Good(got) /\ got \in Memory  BY <1>1, <1>7, CalmGood DEF Calm
<1>9. got.slot[s] = "con"
  <2>1. srv.slot[s] = "con"  BY EventOwned DEF TaskSend, Sending
  <2> QED  BY <1>1, <1>7, <2>1 DEF Calm, SameShape
<1>10. Good(MQTT_ClientCon_sent_cb(got, s))  BY <1>8, <1>9, SentGood
<1>11. Good(Hush(got))  BY <1>8, HushCalm, CalmGood
<1> QED  BY <1>3, <1>10, <1>11

LEMMA TaskNothingToSendGood ==
  ASSUME IInv, NEW s \in Slot, TaskNothingToSend(s)
  PROVE  Good(srv')
<1> DEFINE q == IF srv.sendTimeout[s] = 0 THEN AfterGet(Taken.queue[s]) ELSE Taken.queue[s]
           got == [Taken EXCEPT !.queue[s] = q]
<1>1. Good(Taken) /\ Taken \in Memory /\ SameShape(srv, Taken)  BY TakenProperties
<1>2. q \in Queue
  <2>1. Taken.queue[s] \in Queue  BY <1>1 DEF Memory
  <2> QED  BY <2>1, AfterGetTyped
<1>3. srv' = MQTT_server_disconnectClientCon(got, s) \/ srv' = Hush(got)
  BY DEF TaskNothingToSend
<1> HIDE DEF q
<1>4. Calm(Taken, got)  BY <1>1, <1>2, QueueCalm
<1> HIDE DEF got
<1>5. Good(got) /\ got \in Memory  BY <1>1, <1>4, CalmGood DEF Calm
<1>6. got.slot[s] = "con"
  <2>1. srv.slot[s] = "con"  BY EventOwned DEF TaskNothingToSend, Sending
  <2> QED  BY <1>1, <1>4, <2>1 DEF Calm, SameShape
<1>7. Consistent(got) /\ FreshBut(got, s)  BY <1>5, GoodBut
<1>8. Good(MQTT_server_disconnectClientCon(got, s))  BY <1>6, <1>7, DisconnectGood
<1>9. Good(Hush(got))  BY <1>5, HushCalm, CalmGood
<1> QED  BY <1>3, <1>8, <1>9

LEMMA TaskStaleGood ==
  ASSUME IInv, TaskStale
  PROVE  Good(srv')
<1>1. Good(Taken) /\ Taken \in Memory  BY TakenProperties
<1>2. Good(Hush(Taken))  BY HushTakenGood
<1>3. Good(activate_next_client(Taken))  BY <1>1, ActivateGood
<1>4. Calm(Taken, [Taken EXCEPT !.fault = "stale_event"])  BY <1>1, FaultCalm DEF Fault
<1>5. Good([Taken EXCEPT !.fault = "stale_event"])  BY <1>1, <1>4, CalmGood
<1>6. \/ srv' = Hush(Taken) \/ srv' = activate_next_client(Taken)
      \/ srv' = [Taken EXCEPT !.fault = "stale_event"]
  BY DEF TaskStale
<1> QED  BY <1>2, <1>3, <1>5, <1>6, Zenon

LEMMA TimerGood ==
  ASSUME IInv, NEW s \in Slot, mqtt_server_timer(s)
  PROVE  Good(srv')
<1> DEFINE n == IF srv.sendTimeout[s] > 0 THEN srv.sendTimeout[s] - 1 ELSE 0
           h == [srv EXCEPT !.sendTimeout[s] = n]
           k == [h EXCEPT !.connectionTimeout[s] = h.connectionTimeout[s] - 1]
<1>1. Good(srv) /\ srv \in Memory /\ InList(srv, s)
  BY DEF IInv, Good, Consistent, mqtt_server_timer
<1>2. n \in 0..SendTicks
  <2>1. srv.sendTimeout[s] \in 0..SendTicks  BY <1>1 DEF Memory
  <2> QED  BY <2>1, BrokerAssumption
<1>3. \/ h.connectionTimeout[s] > 0 /\ srv' = k
      \/ srv' = MQTT_server_disconnectClientCon(h, s)
  BY DEF mqtt_server_timer
<1> HIDE DEF n
<1>4. Calm(srv, h)  BY <1>1, <1>2, SendTimeoutCalm
<1> HIDE DEF h
<1>5. Good(h) /\ h \in Memory /\ InList(h, s)
  BY <1>1, <1>4, CalmGood DEF Calm, SameShape, InList
<1>6. Consistent(h) /\ FreshBut(h, s) /\ h.slot[s] = "con"
  BY <1>5, GoodBut, ListedOwned
<1>7. Good(MQTT_server_disconnectClientCon(h, s))  BY <1>6, DisconnectGood
<1>8. h.connectionTimeout[s] > 0 => Good(k)
  <2> SUFFICES ASSUME h.connectionTimeout[s] > 0 PROVE Good(k)  OBVIOUS
  <2>1. h.connectionTimeout[s] \in Nat  BY <1>5 DEF Memory
  <2>2. h.connectionTimeout[s] - 1 \in Nat  BY <2>1
  <2>3. Calm(h, k)  BY <1>5, <2>2, ConnectionTimeoutCalm
  <2> HIDE DEF k
  <2> QED  BY <1>5, <2>3, CalmGood
<1> HIDE DEF k
<1> QED  BY <1>3, <1>7, <1>8

(* The local interface.                                                    *)

LEMMA LocalGood ==
  ASSUME IInv, MQTT_local_publish \/ MQTT_local_subscribe \/ MQTT_local_unsubscribe
  PROVE  Good(srv')
<1>1. Good(srv)  BY DEF IInv
<1>2. CASE MQTT_local_publish
  <2>1. PICK m \in Input :
          /\ m.type = "PUBLISH"
          /\ srv' = activate_next_client(
                      IF m.retain THEN retain(publish(srv, m.topic, m.data), m.topic, m.data)
                      ELSE publish(srv, m.topic, m.data))
    BY <1>2 DEF MQTT_local_publish
  <2>2. m \in Message  BY InputAssumption
  <2>3. m.topic \in Topic /\ m.data \in Data  BY <2>1, <2>2 DEF Message
  <2> DEFINE k == IF m.retain THEN retain(publish(srv, m.topic, m.data), m.topic, m.data)
                  ELSE publish(srv, m.topic, m.data)
  <2>4. Good(k)  BY <1>1, <2>3, PublishGood
  <2>5. srv' = activate_next_client(k)  BY <2>1
  <2> HIDE DEF k
  <2> QED  BY <2>4, <2>5, ActivateGood
<1>3. CASE MQTT_local_subscribe
  <2>1. PICK m \in Input :
          /\ m.type = "SUBSCRIBE"
          /\ srv' = [srv EXCEPT !.subs = add_topics(srv.subs, Local, <<m.filters[1]>>)]
    BY <1>3 DEF MQTT_local_subscribe
  <2>2. m \in Message  BY InputAssumption
  <2>3. m.filters \in Seq(Filter) \ {<<>>}  BY <2>1, <2>2 DEF Message
  <2>4. <<m.filters[1]>> \in Seq(Filter)
    <3> DEFINE f == m.filters
    <3>1. f \in Seq(Filter) /\ f # <<>>  BY <2>3
    <3> HIDE DEF f
    <3>2. f[1] \in Filter  BY <3>1
    <3> QED  BY <3>2 DEF f
  <2>5. Good([srv EXCEPT !.subs = add_topics(srv.subs, Local, <<m.filters[1]>>)])
    BY <1>1, <2>4, SubscribedGood
  <2> QED  BY <2>1, <2>5, Zenon
<1>4. CASE MQTT_local_unsubscribe
  <2>1. PICK m \in Input :
          srv' = [srv EXCEPT !.subs = delete_topic(srv.subs, Local, m.filters)]
    BY <1>4 DEF MQTT_local_unsubscribe
  <2>2. Good([srv EXCEPT !.subs = delete_topic(srv.subs, Local, m.filters)])
    BY <1>1, UnsubscribedGood
  <2> QED  BY <2>1, <2>2, Zenon
<1> QED  BY <1>2, <1>3, <1>4

LEMMA CleanupGood ==
  ASSUME IInv, MQTT_server_cleanupClientCons
  PROVE  Good(srv')
<1>1. Good(srv) /\ Consistent(srv) /\ Fresh(srv) /\ srv \in Memory
  BY DEF IInv, Good, Consistent
<1>2. CASE Broken(srv) # {}
  <2> DEFINE i == Lowest(Broken(srv))
             s == srv.clist[i]
             k == MQTT_server_deleteClientCon(srv, s)
  <2>1. srv' = k  BY <1>2 DEF MQTT_server_cleanupClientCons
  <2>2. i \in DOMAIN srv.clist
    <3>1. srv.clist \in Seq(Slot)  BY <1>1 DEF Memory
    <3>2. Broken(srv) \subseteq Nat  BY <3>1 DEF Broken
    <3>3. i \in Broken(srv)  BY <1>2, <3>2, LowestProperties
    <3> QED  BY <3>3 DEF Broken
  <2>3. s \in Slot /\ InList(srv, s)  BY <1>1, <2>2, ListedIsSlot
  <2>4. srv.slot[s] = "con"  BY <1>1, <2>3, ListedOwned
  <2> HIDE DEF s
  <2>5. Consistent(k) /\ OthersKept(srv, k, s) /\ k.state[s] = "NONE"
    BY <1>1, <2>3, <2>4, DeleteConsistent
  <2> HIDE DEF k
  <2>6. Fresh(k)  BY <1>1, <2>5 DEF Fresh, OthersKept
  <2> QED  BY <2>1, <2>5, <2>6 DEF Good
<1>3. CASE Broken(srv) = {}
  BY <1>1, <1>3 DEF MQTT_server_cleanupClientCons
<1> QED  BY <1>2, <1>3

LEMMA PeerCloseGood ==
  ASSUME IInv, NEW s \in Slot, PeerClose(s)
  PROVE  Good(srv')
<1>1. Good(srv) /\ srv \in Memory  BY DEF IInv, Good, Consistent
<1>2. PICK l \in {"fin", "stuck", "down"} : srv' = [srv EXCEPT !.link[s] = l]
  BY DEF PeerClose
<1>3. Calm(srv, [srv EXCEPT !.link[s] = l])  BY <1>1, LinkCalm DEF Link
<1>4. Good([srv EXCEPT !.link[s] = l])  BY <1>1, <1>3, CalmGood
<1> QED  BY <1>2, <1>4, Zenon

-----------------------------------------------------------------------------
(* Every step keeps the invariant.                                         *)

LEMMA InitInvariant == Init => IInv
<1> SUFFICES ASSUME Init PROVE IInv  OBVIOUS
<1>1. Good(srv)  BY BootGood DEF Init
<1>2. 0 \in 0..MaxClients /\ Budget \in 0..Budget  BY BrokerAssumption
<1> QED  BY <1>1, <1>2 DEF Init, IInv

(* The loop goes on to the next slot, and from the last to the accept.     *)
LEMMA OnwardTyped ==
  ASSUME IInv, Onward
  PROVE  pos' \in 0..MaxClients
<1>1. MaxClients \in Nat /\ MaxClients + 1 > 0 /\ pos + 1 \in Int
  BY BrokerAssumption DEF IInv
<1>2. (pos + 1) % (MaxClients + 1) \in 0..MaxClients
  <2> DEFINE a == pos + 1
             b == MaxClients + 1
  <2>1. a \in Int /\ b \in Int /\ b > 0  BY <1>1
  <2> HIDE DEF a, b
  <2>2. a % b \in 0..(b - 1)  BY <2>1
  <2> QED  BY <1>1, <2>2 DEF a, b
<1> QED  BY <1>2 DEF Onward

LEMMA SpendTyped ==
  ASSUME IInv, Spend
  PROVE  budget' \in 0..Budget
BY BrokerAssumption DEF IInv, Spend

LEMMA NextInvariant == IInv /\ [Next]_vars => IInv'
<1> SUFFICES ASSUME IInv, [Next]_vars PROVE IInv'  OBVIOUS
<1> USE DEF IInv
<1>1. ASSUME NoAccept PROVE IInv'
  BY <1>1, OnwardTyped DEF NoAccept
<1>2. ASSUME Accept PROVE IInv'
  <2>1. Good(srv')  BY <1>2, AcceptGood
  <2>2. Onward /\ Spend /\ UNCHANGED busy  BY <1>2 DEF Accept
  <2> QED  BY <2>1, <2>2, OnwardTyped, SpendTyped
<1>3. ASSUME NEW s \in Slot, Skip(s) PROVE IInv'
  BY <1>3, OnwardTyped DEF Skip
<1>4. ASSUME NEW s \in Slot, Discon(s) PROVE IInv'
  <2>1. Good(srv')  BY <1>4, DisconStep
  <2>2. Onward /\ UNCHANGED <<busy, budget>>  BY <1>4 DEF Discon
  <2> QED  BY <2>1, <2>2, OnwardTyped
<1>5. ASSUME NEW s \in Slot, Receive(s) PROVE IInv'
  <2>1. Good(srv')  BY <1>5, ReceiveStep
  <2>2. /\ (busy' = "packet" /\ UNCHANGED pos) \/ (busy' = "no" /\ Onward)
        /\ UNCHANGED budget \/ Spend
    BY <1>5 DEF Receive
  <2> QED  BY <2>1, <2>2, OnwardTyped, SpendTyped
<1>6. ASSUME ServerTask PROVE IInv'
  <2>1. Good(srv')
    <3>1. CASE TaskStop  BY <3>1, TaskStopGood
    <3>2. CASE TaskIgnore
      <4>1. srv' = Hush(Taken)  BY <3>2 DEF TaskIgnore
      <4> QED  BY <4>1, HushTakenGood
    <3>3. CASE TaskStale  BY <3>3, TaskStaleGood
    <3>4. ASSUME NEW s \in Slot, TaskSend(s) PROVE Good(srv')
      BY <3>4, TaskSendGood
    <3>5. ASSUME NEW s \in Slot, TaskNothingToSend(s) PROVE Good(srv')
      BY <3>5, TaskNothingToSendGood
    <3> QED  BY <1>6, <3>1, <3>2, <3>3, <3>4, <3>5 DEF ServerTask
  <2>2. UNCHANGED <<pos, busy, budget>>
    BY <1>6 DEF ServerTask, TaskStop, TaskIgnore, TaskStale, TaskSend, TaskNothingToSend
  <2> QED  BY <2>1, <2>2
<1>7. ASSUME NEW s \in Slot, mqtt_server_timer(s) PROVE IInv'
  <2>1. Good(srv')  BY <1>7, TimerGood
  <2>2. UNCHANGED <<pos, busy, budget>>  BY <1>7 DEF mqtt_server_timer
  <2> QED  BY <2>1, <2>2
<1>8. ASSUME MQTT_local_publish \/ MQTT_local_subscribe \/ MQTT_local_unsubscribe
      PROVE  IInv'
  <2>1. Good(srv')  BY <1>8, LocalGood
  <2>2. Spend /\ UNCHANGED <<pos, busy>>
    BY <1>8 DEF MQTT_local_publish, MQTT_local_subscribe, MQTT_local_unsubscribe, LocalCall
  <2> QED  BY <2>1, <2>2, SpendTyped
<1>9. ASSUME CleanupBegin PROVE IInv'
  <2>1. Spend /\ busy' = "cleanup" /\ UNCHANGED <<srv, pos>>  BY <1>9 DEF CleanupBegin
  <2> QED  BY <2>1, SpendTyped
<1>10. ASSUME MQTT_server_cleanupClientCons PROVE IInv'
  <2>1. Good(srv')  BY <1>10, CleanupGood
  <2>2. UNCHANGED <<pos, budget>> /\ busy' \in {busy, "no"}
    BY <1>10 DEF MQTT_server_cleanupClientCons
  <2> QED  BY <2>1, <2>2
<1>11. ASSUME NEW s \in Slot, PeerClose(s) PROVE IInv'
  <2>1. Good(srv')  BY <1>11, PeerCloseGood
  <2>2. UNCHANGED <<pos, busy>> /\ (UNCHANGED budget \/ Spend)
    BY <1>11 DEF PeerClose
  <2> QED  BY <2>1, <2>2, SpendTyped
<1>12. ASSUME Reboot PROVE IInv'
  BY <1>12, BootGood, BrokerAssumption DEF Reboot
<1>13. CASE UNCHANGED vars  BY <1>13 DEF vars
<1> QED
  BY <1>1, <1>2, <1>3, <1>4, <1>5, <1>6, <1>7, <1>8, <1>9, <1>10, <1>11, <1>12, <1>13
     DEF Next, Loop

LEMMA Invariant == Spec => []IInv
BY InitInvariant, NextInvariant, PTL DEF Spec

(* Type correctness: whatever clients send and however connections come    *)
(* and go, no table grows, no queue exceeds its ring, no timeout falls     *)
(* below zero.                                                             *)
THEOREM TypeCorrect == Spec => []TypeOK
<1>1. IInv => TypeOK  BY DEF IInv, TypeOK, Good, Consistent
<1> QED  BY <1>1, Invariant, PTL

(* clientcon_list holds exactly the client states in use, once each: no    *)
(* order of takeovers, refusals, timeouts and cleanups leaves a freed one  *)
(* in the list or loses one that is in use.                                *)
THEOREM ListCorrect == Spec => []ListExact
<1>1. IInv => ListExact
  BY DEF IInv, ListExact, Good, Consistent, ListOnce, ListIsOwned
<1> QED  BY <1>1, Invariant, PTL

(* The clientcon pointer that publish_topic follows is always that of a    *)
(* client in a session.                                                    *)
THEOREM SubscribersAlive == Spec => []SubscriberLive
<1>1. IInv => SubscriberLive
  BY DEF IInv, SubscriberLive, Good, Consistent, OwnersLive
<1> QED  BY <1>1, Invariant, PTL

(* dummy_clientcon only ever stops a connection that was handed to it and  *)
(* is still in its slot, however late its event is run.                    *)
THEOREM DummyCorrect == Spec => []DummyHandedOver
<1>1. IInv => DummyHandedOver
  BY DEF IInv, DummyHandedOver, Good, Consistent, RefsLive
<1> QED  BY <1>1, Invariant, PTL

(* retained_list never has two entries for a topic or one without data.    *)
THEOREM RetainedCorrect == Spec => []RetainedUnique
<1>1. IInv => RetainedUnique
  BY DEF IInv, RetainedUnique, Good, Consistent, Unique
<1> QED  BY <1>1, Invariant, PTL


-----------------------------------------------------------------------------
(* What the handlers do to the queues, the names, the wills and the event  *)
(* of other clients.                                                       *)
(*                                                                         *)
(* What follows rests on the consistency of the memory and goes through    *)
(* the handlers a second time, with their effect on all the rest.  Most    *)
(* operators are Additive: they add output for sessions and leave the rest *)
(* alone.  What the end of a client state does is stated once (Ended).  An *)
(* Outcome is what a handler may have done by the time it returns; the     *)
(* handlers are shown to have one, and the actions only add where the      *)
(* handler was called from.                                                *)

-----------------------------------------------------------------------------
(* Queues.                                                                 *)

(* r is q with more behind it; a full queue stays full.                    *)
Longer(q, r) ==
  /\ Len(q) <= Len(r)
  /\ \A i \in 1..Len(q) : r[i] = q[i]
  /\ Room(q) = 0 => Room(r) = 0

(* Nothing but the answer to a CONNECT that was accepted, and that first.  *)
Ordinary(q) ==
  \A i \in DOMAIN q : q[i].type # "REFUSED" /\ (q[i].type = "CONNACK" => i = 1)

(* Frame w has been put behind q, unless r is full.                        *)
Heard(q, r, w) == Room(r) = 0 \/ \E i \in DOMAIN r : i > Len(q) /\ r[i] = w

LEMMA QueueTyped ==
  ASSUME NEW q \in Queue
  PROVE  /\ q \in Seq(Frame \cup {CUT}) /\ Len(q) \in Nat /\ DOMAIN q = 1..Len(q)
         /\ Room(q) \in Nat
BY FramesBounded, LenProperties DEF Queue

LEMMA LongerTransitive ==
  ASSUME NEW q \in Queue, NEW r \in Queue, NEW t \in Queue, Longer(q, r), Longer(r, t)
  PROVE  Longer(q, t)
<1>1. Len(q) \in Nat /\ Len(r) \in Nat /\ Len(t) \in Nat  BY QueueTyped
<1>2. Len(q) <= Len(t)  BY <1>1 DEF Longer
<1>3. \A i \in 1..Len(q) : i \in 1..Len(r)  BY <1>1 DEF Longer
<1> QED  BY <1>2, <1>3 DEF Longer

(* What has been heard is not unsaid by more output.                       *)
LEMMA HeardLonger ==
  ASSUME NEW q \in Queue, NEW r \in Queue, NEW t \in Queue, NEW w, Heard(q, r, w), Longer(r, t)
  PROVE  Heard(q, t, w)
<1>1. Len(q) \in Nat /\ Len(r) \in Nat /\ Len(t) \in Nat /\ DOMAIN r = 1..Len(r) /\ DOMAIN t = 1..Len(t)
  BY QueueTyped
<1>2. CASE Room(r) = 0  BY <1>2 DEF Longer, Heard
<1>3. ASSUME NEW i \in DOMAIN r, i > Len(q), r[i] = w PROVE Heard(q, t, w)
  BY <1>1, <1>3 DEF Longer, Heard
<1> QED  BY <1>2, <1>3 DEF Heard

(* QUEUE_Puts adds what it is given behind what there is, and perhaps a    *)
(* cut frame; the first packet of a batch goes in whole if there is room.  *)
LEMMA PutsShape ==
  ASSUME NEW q \in Queue, NEW ms \in Seq(Frame)
  PROVE  LET r == QUEUE_Puts(q, ms)
         IN  /\ r \in Queue /\ Longer(q, r)
             /\ \A i \in DOMAIN r : i > Len(q) => r[i] = CUT \/ \E j \in DOMAIN ms : r[i] = ms[j]
             /\ ms = <<>> => r = q
             /\ ms # <<>> => Heard(q, r, ms[1])
<1> DEFINE r == QUEUE_Puts(q, ms)
           n == Room(q)
           F == Frame \cup {CUT}
<1>1. q \in Seq(F) /\ Len(q) \in Nat /\ DOMAIN q = 1..Len(q) /\ n \in Nat
  BY QueueTyped
<1>2. r \in Queue  BY PutsTyped
<1>3. ms \in Seq(F) /\ Len(ms) \in Nat /\ DOMAIN ms = 1..Len(ms)
  BY LenProperties
<1>4. CASE Len(ms) <= n
  <2>1. r = q \o ms  BY <1>4 DEF QUEUE_Puts
  <2> HIDE DEF r, n, F
  <2>2. /\ Len(r) = Len(q) + Len(ms) /\ DOMAIN r = 1..(Len(q) + Len(ms))
        /\ \A i \in 1..(Len(q) + Len(ms)) :
             r[i] = IF i <= Len(q) THEN q[i] ELSE ms[i - Len(q)]
    BY <2>1, <1>1, <1>3, ConcatProperties, LenProperties
  <2>3. ms = <<>> => r = q  BY <2>1, <1>1, EmptySeq, ConcatEmptySeq
  <2>4. n = 0 => ms = <<>>  BY <1>3, <1>4, EmptySeq
  <2>5. \A i \in DOMAIN r : i > Len(q) => \E j \in DOMAIN ms : r[i] = ms[j]
    <3> SUFFICES ASSUME NEW i \in DOMAIN r, i > Len(q) PROVE \E j \in DOMAIN ms : r[i] = ms[j]
      OBVIOUS
    <3>1. i - Len(q) \in DOMAIN ms /\ r[i] = ms[i - Len(q)]  BY <2>2, <1>1, <1>3
    <3> QED  BY <3>1
  <2>6. Longer(q, r)
    <3>1. Len(q) <= Len(r) /\ \A i \in 1..Len(q) : r[i] = q[i]  BY <2>2, <1>1, <1>3
    <3>2. Room(q) = 0 => Room(r) = 0  BY <2>3, <2>4 DEF n
    <3> QED  BY <3>1, <3>2 DEF Longer
  <2>7. ms # <<>> => Heard(q, r, ms[1])
    <3> SUFFICES ASSUME ms # <<>> PROVE Heard(q, r, ms[1])  OBVIOUS
    <3>1. Len(ms) > 0  BY <1>3, EmptySeq
    <3>2. Len(q) + 1 \in DOMAIN r /\ r[Len(q) + 1] = ms[1] /\ Len(q) + 1 > Len(q)
      BY <3>1, <2>2, <1>1, <1>3
    <3> QED  BY <3>2 DEF Heard
  <2> QED  BY <1>2, <2>3, <2>5, <2>6, <2>7 DEF r
<1>5. CASE ~(Len(ms) <= n)
  <2> DEFINE t == SubSeq(ms, 1, n)
             stored == q \o t
  <2>1. r = IF Slack /\ ~HasCut(q) THEN Append(stored, CUT) ELSE stored
    BY <1>5 DEF QUEUE_Puts
  <2>2. t \in Seq(F) /\ Len(t) = n /\ \A i \in 1..n : t[i] = ms[i]
    <3>1. n <= Len(ms)  BY <1>1, <1>3, <1>5
    <3>2. \A i \in 1..n : ms[i] \in F  BY <3>1, <1>1, <1>3
    <3> HIDE DEF n, F
    <3>3. /\ t \in Seq(F)
          /\ Len(t) = IF 1 <= n THEN n - 1 + 1 ELSE 0
          /\ \A i \in 1..(n - 1 + 1) : t[i] = ms[1 + i - 1]
      BY <3>2, <1>1, SubSeqProperties
    <3> QED  BY <3>3, <1>1
  <2> HIDE DEF r, n, t, F
  <2>3. /\ stored \in Seq(F) /\ Len(stored) = Len(q) + n /\ DOMAIN stored = 1..(Len(q) + n)
        /\ \A i \in 1..(Len(q) + n) : stored[i] = IF i <= Len(q) THEN q[i] ELSE t[i - Len(q)]
    <3>1. /\ stored \in Seq(F) /\ Len(stored) = Len(q) + Len(t)
          /\ \A i \in 1..(Len(q) + Len(t)) :
               stored[i] = IF i <= Len(q) THEN q[i] ELSE t[i - Len(q)]
      BY <2>2, <1>1, ConcatProperties
    <3> HIDE DEF stored
    <3> QED  BY <3>1, <2>2, LenProperties
  <2>4. /\ \A i \in 1..Len(q) : stored[i] = q[i]
        /\ \A i \in DOMAIN stored : i > Len(q) => i - Len(q) \in 1..n /\ stored[i] = ms[i - Len(q)]
    BY <2>2, <2>3, <1>1
  <2> HIDE DEF stored
  <2>5. /\ Len(r) \in Nat /\ Len(stored) <= Len(r) /\ DOMAIN r = 1..Len(r)
        /\ \A i \in 1..Len(stored) : r[i] = stored[i]
        /\ \A i \in DOMAIN r : i > Len(stored) => r[i] = CUT
    <3>1. CUT \in F  BY DEF F
    <3>2. CASE Slack /\ ~HasCut(q)
      <4>1. r = Append(stored, CUT)  BY <2>1, <3>2
      <4>2. Len(r) = Len(stored) + 1 /\ r \in Seq(F) /\ r[Len(stored) + 1] = CUT
            /\ \A i \in 1..Len(stored) : r[i] = stored[i]
        BY <4>1, <3>1, <2>3, AppendProperties
      <4> QED  BY <4>2, <2>3, <1>1, LenProperties
    <3>3. CASE ~(Slack /\ ~HasCut(q))  BY <3>3, <2>1, <2>3, <1>1
    <3> QED  BY <3>2, <3>3
  <2>6. \A i \in DOMAIN r : i > Len(q) => r[i] = CUT \/ \E j \in DOMAIN ms : r[i] = ms[j]
    <3> SUFFICES ASSUME NEW i \in DOMAIN r, i > Len(q), r[i] # CUT
                 PROVE  \E j \in DOMAIN ms : r[i] = ms[j]
      OBVIOUS
    <3>1. i \in DOMAIN stored /\ r[i] = stored[i]  BY <2>3, <2>5, <1>1
    <3>2. i - Len(q) \in DOMAIN ms /\ r[i] = ms[i - Len(q)]  BY <3>1, <2>4, <1>1, <1>3, <1>5
    <3> QED  BY <3>2
  <2>7. Room(q) = 0 => Room(r) = 0
    <3> SUFFICES ASSUME n = 0 PROVE Room(r) = 0  BY DEF n
    <3>1. stored = q
      <4>1. t = <<>>  BY <2>2, EmptySeq
      <4> QED  BY <4>1, <1>1, ConcatEmptySeq DEF stored
    <3>2. CASE Slack /\ ~HasCut(q)
      <4>1. r = Append(q, CUT)  BY <2>1, <3>1, <3>2
      <4>2. Len(r) = Len(q) + 1 /\ r[Len(q) + 1] = CUT /\ DOMAIN r = 1..(Len(q) + 1)
        BY <4>1, <1>1, <2>5, AppendProperties DEF F
      <4>3. HasCut(r)  BY <4>2, <1>1 DEF HasCut
      <4>4. Frames(r) = Len(q) /\ Frames(q) = Len(q)  BY <4>2, <4>3, <3>2, <1>1 DEF Frames
      <4> QED  BY <4>4 DEF Room, n
    <3>3. CASE ~(Slack /\ ~HasCut(q))  BY <3>1, <3>3, <2>1 DEF n
    <3> QED  BY <3>2, <3>3
  <2>8. Longer(q, r)
    <3>1. Len(q) <= Len(r) /\ \A i \in 1..Len(q) : r[i] = q[i]
      BY <2>3, <2>4, <2>5, <1>1
    <3> QED  BY <3>1, <2>7 DEF Longer
  <2>9. Heard(q, r, ms[1])
    <3>1. CASE n = 0  BY <3>1, <2>7 DEF Heard, n
    <3>2. CASE n # 0
      <4>1. Len(q) + 1 \in DOMAIN stored /\ Len(q) + 1 > Len(q) /\ (Len(q) + 1) - Len(q) = 1
        BY <3>2, <2>3, <1>1
      <4>2. stored[Len(q) + 1] = ms[1]  BY <4>1, <2>4
      <4>3. Len(q) + 1 \in DOMAIN r /\ r[Len(q) + 1] = ms[1]
        BY <4>1, <4>2, <2>3, <2>5, <1>1
      <4> QED  BY <4>1, <4>3 DEF Heard
    <3> QED  BY <3>1, <3>2
  <2>10. ms # <<>>  BY <1>1, <1>3, <1>5, EmptySeq DEF n
  <2> QED  BY <1>2, <2>6, <2>8, <2>9, <2>10 DEF r
<1> QED  BY <1>1, <1>3, <1>4, <1>5

LEMMA OrdinaryPuts ==
  ASSUME NEW q \in Queue, NEW ms \in Seq(Frame), Ordinary(q),
         \A j \in DOMAIN ms : ms[j].type \notin {"REFUSED", "CONNACK"}
  PROVE  Ordinary(QUEUE_Puts(q, ms))
<1> DEFINE r == QUEUE_Puts(q, ms)
<1>1. CUT.type = "CUT"  BY DEF CUT, Packet
<1>2. /\ r \in Queue /\ Longer(q, r)
      /\ \A i \in DOMAIN r : i > Len(q) => r[i] = CUT \/ \E j \in DOMAIN ms : r[i] = ms[j]
  BY PutsShape
<1>3. Len(q) \in Nat /\ DOMAIN q = 1..Len(q) /\ DOMAIN r = 1..Len(r) /\ Len(r) \in Nat
  BY <1>2, QueueTyped
<1> HIDE DEF r
<1>4. ASSUME NEW i \in DOMAIN r
      PROVE  r[i].type # "REFUSED" /\ (r[i].type = "CONNACK" => i = 1)
  <2>1. CASE i > Len(q)
    <3>1. r[i] = CUT \/ \E j \in DOMAIN ms : r[i] = ms[j]  BY <1>2, <2>1
    <3> QED  BY <3>1, <1>1
  <2>2. CASE ~(i > Len(q))
    <3>1. i \in DOMAIN q /\ r[i] = q[i]  BY <2>2, <1>2, <1>3 DEF Longer
    <3> QED  BY <3>1 DEF Ordinary
  <2> QED  BY <2>1, <2>2
<1> QED  BY <1>4 DEF Ordinary, r

(* The first packet put into an empty ring fits.                           *)
LEMMA FirstPut ==
  ASSUME NEW m
  PROVE  QUEUE_Puts(<<>>, <<m>>) = <<m>>
<1>1. ~HasCut(<<>>)  BY DEF HasCut
<1>2. Room(<<>>) = QueueCap  BY <1>1, QueueAssumption DEF Room, Frames
<1>3. Len(<<m>>) <= Room(<<>>)  BY <1>2, QueueAssumption
<1> QED  BY <1>3 DEF QUEUE_Puts

(* Reading leaves no answer to a CONNECT behind the front.                 *)
LEMMA AfterGetOrdinary ==
  ASSUME NEW q \in Queue, Ordinary(q)
  PROVE  Ordinary(AfterGet(q))
<1> DEFINE F == Frame \cup {CUT}
<1>1. q \in Seq(F) /\ Ordinary(q)  BY QueueTyped
<1> HIDE DEF F
<1>2. ASSUME NEW t \in Seq(F), t # <<>>, Ordinary(t) PROVE Tail(t) \in Seq(F) /\ Ordinary(Tail(t))
  <2>1. /\ Tail(t) \in Seq(F) /\ Len(Tail(t)) = Len(t) - 1 /\ Len(t) \in Nat
        /\ \A i \in 1..(Len(t) - 1) : Tail(t)[i] = t[i + 1]
    BY <1>2, HeadTailProperties, LenProperties
  <2>2. \A i \in DOMAIN Tail(t) : i + 1 \in DOMAIN t /\ i + 1 # 1 /\ Tail(t)[i] = t[i + 1]
    BY <2>1, LenProperties
  <2> QED  BY <2>1, <2>2, <1>2 DEF Ordinary
<1>3. FromNextFrame(q) \in Seq(F) /\ Ordinary(FromNextFrame(q))
  BY <1>1, <1>2 DEF FromNextFrame
<1>4. CanGet(q) => Ordinary(Tail(FromNextFrame(q)))  BY <1>2, <1>3 DEF CanGet
<1>5. Ordinary(<<>>)  BY DEF Ordinary
<1> QED  BY <1>4, <1>5 DEF AfterGet

LEMMA AfterGetRefused ==
  /\ AfterGet(<<>>) = <<>>
  /\ AfterGet(<<Packet("REFUSED")>>) = <<>>
<1>1. FromNextFrame(<<>>) = <<>>  BY DEF FromNextFrame
<1>2. Packet("REFUSED") # CUT  BY DEF CUT, Packet
<1> DEFINE m == Packet("REFUSED")
<1>3. FromNextFrame(<<m>>) = <<m>>  BY <1>2 DEF FromNextFrame
<1>4. <<m>> # <<>> /\ Tail(<<m>>) = <<>>  OBVIOUS
<1> HIDE DEF m
<1> QED  BY <1>1, <1>3, <1>4 DEF AfterGet, CanGet, m

-----------------------------------------------------------------------------
(* What the memory looks like between two handlers.                        *)

(* What may wait for a client in a given state.                            *)
Orderly(state, q) ==
  /\ state \in {"NONE", "TCP_DISCONNECT", "TCP_CONNECTED"} => q = <<>>
  /\ state = "TCP_DISCONNECTING" => q \in {<<>>, <<Packet("REFUSED")>>}
  /\ state = "MQTT_DATA" => Ordinary(q)

Ordered(h) == \A s \in Slot : Orderly(h.state[s], h.queue[s])

(* A slot without a client state holds nothing of one.                     *)
Vacated(h) == \A s \in Slot : h.slot[s] # "con" => h.state[s] = "NONE"

(* A free slot has no connection.                                          *)
FreeDown(h) == \A s \in Slot : h.slot[s] = "free" => h.link[s] = "down"

Tidy(h) == Ordered(h) /\ Vacated(h) /\ FreeDown(h)

(* Names are given once.                                                   *)
OneEach(h) ==
  \A s, t \in Slot :
    (InList(h, s) /\ InList(h, t) /\ h.id[s] = h.id[t] /\ h.id[s] \in ClientId) => s = t

(* With no event pending nobody waits to be served, unless the last        *)
(* handler ended without a look.                                           *)
Settled(h) ==
  h.ev = None /\ ~h.quiet =>
    \A s \in Slot : InList(h, s) /\ connected(h, s) => h.queue[s] = <<>>

LEMMA SettledWaiting ==
  ASSUME NEW h \in Memory
  PROVE  (\A s \in Slot : InList(h, s) /\ connected(h, s) => h.queue[s] = <<>>)
           <=> Waiting(h) = {}
<1>1. \A i \in DOMAIN h.clist : h.clist[i] \in Slot /\ InList(h, h.clist[i])
  BY ListedIsSlot
<1>2. ASSUME NEW i \in DOMAIN h.clist
      PROVE  i \in Waiting(h) <=> (h.queue[h.clist[i]] # <<>> /\ connected(h, h.clist[i]))
  BY DEF Waiting, QUEUE_IsEmpty
<1>3. Waiting(h) \subseteq DOMAIN h.clist  BY DEF Waiting
<1> QED  BY <1>1, <1>2, <1>3 DEF InList

(* An operator that adds output for sessions and leaves the client states  *)
(* and their connections alone.                                            *)
Grown(state, q, r) ==
  r = q \/ (state = "MQTT_DATA" /\ Longer(q, r) /\ (Ordinary(q) => Ordinary(r)))

Additive(h, k) ==
  /\ k \in Memory
  /\ k.slot = h.slot /\ k.state = h.state /\ k.id = h.id /\ k.clist = h.clist
  /\ k.link = h.link
  /\ \A s \in Slot : Grown(h.state[s], h.queue[s], k.queue[s])

LEMMA GrownLonger ==
  ASSUME NEW q, NEW r, NEW state, Grown(state, q, r), Len(q) <= Len(q)
  PROVE  Longer(q, r)
BY DEF Grown, Longer

LEMMA GrownTransitive ==
  ASSUME NEW q \in Queue, NEW r \in Queue, NEW t \in Queue, NEW state,
         Grown(state, q, r), Grown(state, r, t)
  PROVE  Grown(state, q, t)
BY LongerTransitive DEF Grown

LEMMA GrownOrderly ==
  ASSUME NEW q, NEW r, NEW state, Grown(state, q, r), Orderly(state, q)
  PROVE  Orderly(state, r)
BY DEF Grown, Orderly

LEMMA HeardGrown ==
  ASSUME NEW q \in Queue, NEW r \in Queue, NEW t \in Queue, NEW w, NEW state,
         Heard(q, r, w), Grown(state, r, t)
  PROVE  Heard(q, t, w)
BY HeardLonger DEF Grown

LEMMA AdditiveTransitive ==
  ASSUME NEW h \in Memory, NEW k, NEW l, Additive(h, k), Additive(k, l)
  PROVE  Additive(h, l)
<1>1. k \in Memory /\ l \in Memory  BY DEF Additive
<1>2. ASSUME NEW s \in Slot PROVE Grown(h.state[s], h.queue[s], l.queue[s])
  <2>1. h.queue[s] \in Queue /\ k.queue[s] \in Queue /\ l.queue[s] \in Queue
    BY <1>1 DEF Memory
  <2>2. Grown(h.state[s], h.queue[s], k.queue[s]) /\ Grown(h.state[s], k.queue[s], l.queue[s])
    BY DEF Additive
  <2> QED  BY <2>1, <2>2, GrownTransitive
<1> QED  BY <1>1, <1>2 DEF Additive

LEMMA AdditiveTidy ==
  ASSUME NEW h, NEW k, Tidy(h), Additive(h, k)
  PROVE  Tidy(k) /\ (OneEach(h) => OneEach(k)) /\ \A s : InList(k, s) <=> InList(h, s)
<1>1. Ordered(k)  BY GrownOrderly DEF Tidy, Ordered, Additive
<1>2. Vacated(k) /\ FreeDown(k)  BY DEF Tidy, Vacated, FreeDown, Additive
<1>3. \A s : InList(k, s) <=> InList(h, s)  BY DEF Additive, InList
<1>4. OneEach(h) => OneEach(k)  BY <1>3 DEF OneEach, Additive
<1> QED  BY <1>1, <1>2, <1>3, <1>4 DEF Tidy

-----------------------------------------------------------------------------
(* The operators that add output.                                          *)

(* Nothing is changed that a client or its connection would notice.        *)
Aside(h, k) ==
  /\ k \in Memory
  /\ k.slot = h.slot /\ k.state = h.state /\ k.id = h.id /\ k.clist = h.clist
  /\ k.link = h.link /\ k.queue = h.queue /\ k.fault = h.fault

LEMMA AsideAdditive ==
  ASSUME NEW h, NEW k, Aside(h, k)
  PROVE  Additive(h, k) /\ k.fault = h.fault
BY DEF Aside, Additive, Grown

LEMMA RetainAside ==
  ASSUME NEW h \in Memory, NEW topic \in Topic, NEW data \in Data
  PROVE  LET k == retain(h, topic, data)
         IN  Aside(h, k) /\ k.ev = h.ev /\ k.quiet = h.quiet /\ k.will = h.will /\ k.subs = h.subs
<1> DEFINE new == update_retainedtopic(h.ret, topic, data)
<1>1. h.ret \in RetainedList  BY DEF Memory
<1>2. new \in RetainedList  BY <1>1, UpdateTyped
<1>3. retain(h, topic, data) = [h EXCEPT !.ret = new]  BY DEF retain
<1> HIDE DEF new
<1> QED  BY <1>2, <1>3 DEF Memory, Aside

LEMMA HushAside ==
  ASSUME NEW h \in Memory
  PROVE  Aside(h, Hush(h)) /\ Settled(Hush(h))
<1>1. Aside(h, Hush(h)) /\ Hush(h).quiet  BY DEF Hush, Memory, Aside
<1> QED  BY <1>1 DEF Settled

LEMMA PostAside ==
  ASSUME NEW h \in Memory, NEW e \in Slot \cup {Dummy}
  PROVE  LET k == system_os_post(h, e)
         IN  /\ Aside(h, k) /\ k.ev # None
             /\ k.will = h.will /\ k.subs = h.subs
<1>1. e # None  BY BrokerAssumption
<1>2. Aside(h, system_os_post(h, e))
  BY DEF system_os_post, Memory, Aside
<1>3. system_os_post(h, e).ev # None
  BY <1>1 DEF system_os_post, Memory
<1>4. system_os_post(h, e).will = h.will /\ system_os_post(h, e).subs = h.subs
  BY DEF system_os_post, Memory
<1> QED  BY <1>2, <1>3, <1>4

(* activate_next_client finds whoever waits.                               *)
LEMMA ActivateAside ==
  ASSUME NEW h \in Memory
  PROVE  LET k == activate_next_client(h)
         IN  Aside(h, k) /\ Settled(k) /\ k.will = h.will /\ k.subs = h.subs
<1> DEFINE k == activate_next_client(h)
<1>1. CASE Waiting(h) = {}
  <2>1. k = [h EXCEPT !.quiet = FALSE]
    BY <1>1 DEF activate_next_client
  <2> HIDE DEF k
  <2>2. Aside(h, k) /\ k.will = h.will /\ k.subs = h.subs  BY <2>1 DEF Memory, Aside
  <2>3. \A s \in Slot : InList(h, s) /\ connected(h, s) => h.queue[s] = <<>>
    BY <1>1, SettledWaiting
  <2>4. Settled(k)  BY <2>2, <2>3 DEF Settled, Aside, InList, connected
  <2> QED  BY <2>2, <2>4 DEF k
<1>2. CASE Waiting(h) # {}
  <2> DEFINE i == Lowest(Waiting(h))
  <2>1. h.clist \in Seq(Slot)  BY DEF Memory
  <2>2. Waiting(h) \subseteq Nat  BY <2>1 DEF Waiting
  <2>3. i \in Waiting(h)  BY <2>2, <1>2, LowestProperties
  <2>4. h.clist[i] \in Slot  BY <2>3, ListedIsSlot DEF Waiting
  <2>5. k = system_os_post(h, h.clist[i])
    BY <1>2 DEF activate_next_client
  <2> HIDE DEF i, k
  <2>6. Aside(h, k) /\ k.ev # None /\ k.will = h.will /\ k.subs = h.subs
    BY <2>4, <2>5, PostAside
  <2> QED  BY <2>6 DEF Settled, k
<1> QED  BY <1>1, <1>2

(* A publication reaches the queue of every subscriber, and no other.      *)
LEMMA PublishAdditive ==
  ASSUME NEW h \in Memory, NEW topic \in Topic, NEW data \in Data,
         \A r \in Slot : Hits(h.subs, r, topic) # {} => h.state[r] = "MQTT_DATA"
  PROVE  LET k == publish(h, topic, data)
         IN  /\ Additive(h, k) /\ k.will = h.will /\ k.subs = h.subs
             /\ k.fault = IF \E s \in Slot : ~InList(h, s) /\ Hits(h.subs, s, topic) # {}
                          THEN "null_write" ELSE h.fault
             /\ \A s \in Slot : Hits(h.subs, s, topic) # {} =>
                  Heard(h.queue[s], k.queue[s], Publication(topic, data))
<1> DEFINE w == Publication(topic, data)
           copies(s) == [i \in 1..Cardinality(Hits(h.subs, s, topic)) |-> w]
           k == publish(h, topic, data)
           newf == IF \E s \in Slot : ~InList(h, s) /\ Hits(h.subs, s, topic) # {}
                   THEN "null_write" ELSE h.fault
<1>1. w \in Frame /\ w.type = "PUBLISH"  BY PublicationTyped DEF Publication
<1> HIDE DEF w
<1>2. k \in Memory  BY PublishCalm DEF Calm
<1>3. /\ \A s \in Slot : k.queue[s] = QUEUE_Puts(h.queue[s], copies(s))
      /\ k.fault = newf /\ k.slot = h.slot /\ k.state = h.state /\ k.id = h.id
      /\ k.clist = h.clist /\ k.link = h.link /\ k.will = h.will /\ k.subs = h.subs
  BY DEF publish, Memory, w
<1> HIDE DEF k
<1>4. ASSUME NEW s \in Slot
      PROVE  /\ Grown(h.state[s], h.queue[s], k.queue[s])
             /\ Hits(h.subs, s, topic) # {} => Heard(h.queue[s], k.queue[s], w)
  <2> DEFINE H == Hits(h.subs, s, topic)
             ms == copies(s)
  <2>1. IsFiniteSet(H) /\ Cardinality(H) \in Nat
    <3>1. H \subseteq 1..MaxSubs  BY DEF Hits
    <3> HIDE DEF H
    <3> QED  BY <3>1, IndexSetFinite, TablesAssumption
  <2>2. Cardinality(H) = 0 <=> H = {}
    <3> HIDE DEF H
    <3> QED  BY <2>1, FS_EmptySet
  <2>3. ms \in Seq(Frame) /\ (\A j \in DOMAIN ms : ms[j] = w) /\ Len(ms) = Cardinality(H)
    BY <2>1, <1>1
  <2>4. h.queue[s] \in Queue /\ k.queue[s] = QUEUE_Puts(h.queue[s], ms)  BY <1>3 DEF Memory
  <2>5. H # {} => ms # <<>> /\ ms[1] = w
    <3> SUFFICES ASSUME H # {} PROVE ms # <<>> /\ ms[1] = w  OBVIOUS
    <3>1. 1 \in 1..Cardinality(H)  BY <2>1, <2>2
    <3>2. DOMAIN ms = 1..Cardinality(H)  OBVIOUS
    <3> HIDE DEF H, ms
    <3>3. 1 \in DOMAIN ms  BY <3>1, <3>2
    <3>4. DOMAIN <<>> = {}  OBVIOUS
    <3> QED  BY <3>3, <3>4, <2>3
  <2>6. H = {} => ms = <<>>
    <3> SUFFICES ASSUME H = {} PROVE ms = <<>>  OBVIOUS
    <3>1. Cardinality(H) = 0  BY <2>2
    <3> HIDE DEF H
    <3> QED  BY <3>1, <2>3, EmptySeq
  <2> HIDE DEF ms, H
  <2>7. /\ Longer(h.queue[s], k.queue[s])
        /\ ms = <<>> => k.queue[s] = h.queue[s]
        /\ ms # <<>> => Heard(h.queue[s], k.queue[s], ms[1])
    BY <2>3, <2>4, PutsShape
  <2>8. Ordinary(h.queue[s]) => Ordinary(k.queue[s])
    BY <2>3, <2>4, <1>1, OrdinaryPuts
  <2>9. H # {} => h.state[s] = "MQTT_DATA"  BY DEF H
  <2> QED  BY <2>5, <2>6, <2>7, <2>8, <2>9 DEF Grown, H
<1> QED  BY <1>2, <1>3, <1>4 DEF Additive, k, w

(* An answer to a client in a session.                                     *)
LEMMA PutAdditive ==
  ASSUME NEW h \in Memory, NEW s \in Slot, NEW type \in {"SUBACK", "UNSUBACK", "PINGRESP"},
         h.state[s] = "MQTT_DATA"
  PROVE  Additive(h, put(h, s, type)) /\ put(h, s, type).fault = h.fault
<1> DEFINE q == QUEUE_Puts(h.queue[s], <<Packet(type)>>)
           k == put(h, s, type)
<1>1. h.queue[s] \in Queue /\ <<Packet(type)>> \in Seq(Frame)
  BY PacketTyped DEF Memory
<1>2. q \in Queue /\ Longer(h.queue[s], q)  BY <1>1, PutsShape
<1>3. Ordinary(h.queue[s]) => Ordinary(q)
  <2>1. \A j \in DOMAIN <<Packet(type)>> : <<Packet(type)>>[j].type \notin {"REFUSED", "CONNACK"}
    BY DEF Packet
  <2> QED  BY <1>1, <2>1, OrdinaryPuts
<1>4. k = [h EXCEPT !.queue[s] = q]  BY DEF put
<1> HIDE DEF q, k
<1>5. /\ k \in Memory /\ k.queue = [h.queue EXCEPT ![s] = q] /\ k.fault = h.fault
      /\ k.slot = h.slot /\ k.state = h.state /\ k.id = h.id
      /\ k.clist = h.clist /\ k.link = h.link
  BY <1>2, <1>4 DEF Memory
<1>6. h.queue \in [Slot -> Queue]  BY DEF Memory
<1>7. \A r \in Slot : Grown(h.state[r], h.queue[r], k.queue[r])
  BY <1>2, <1>3, <1>5, <1>6 DEF Grown
<1> QED  BY <1>5, <1>7 DEF Additive, k

-----------------------------------------------------------------------------
(* The end of a client state.                                              *)

LEMMA HitsLive ==
  ASSUME NEW h, OwnersLive(h), NEW r \in Slot, NEW topic, Hits(h.subs, r, topic) # {}
  PROVE  InList(h, r) /\ h.state[r] = "MQTT_DATA"
<1>1. PICK i \in 1..MaxSubs : h.subs[i] # None /\ h.subs[i].owner = r
  BY DEF Hits
<1>2. r # Local  BY BrokerAssumption
<1> QED  BY <1>1, <1>2 DEF OwnersLive

(* A will reaches every subscriber, and whoever waits is looked for.       *)
LEMMA WillAdditive ==
  ASSUME NEW h \in Memory, NEW s \in Slot,
         \A r \in Slot, topic \in Topic : Hits(h.subs, r, topic) # {} => h.state[r] = "MQTT_DATA"
  PROVE  LET k == publish_will(h, s)
             w == h.will[s]
         IN  /\ Additive(h, k) /\ k.will = h.will /\ k.subs = h.subs
             /\ w = None => k = h
             /\ w # None =>
                  /\ Settled(k)
                  /\ k.fault = IF \E r \in Slot : ~InList(h, r) /\ Hits(h.subs, r, w.topic) # {}
                               THEN "null_write" ELSE h.fault
                  /\ \A r \in Slot : Hits(h.subs, r, w.topic) # {} =>
                       Heard(h.queue[r], k.queue[r], Publication(w.topic, w.data))
<1> DEFINE w == h.will[s]
           f == IF \E r \in Slot : ~InList(h, r) /\ Hits(h.subs, r, w.topic) # {}
                THEN "null_write" ELSE h.fault
           p1 == publish(h, w.topic, w.data)
           p2 == activate_next_client(p1)
           p3 == retain(p2, w.topic, w.data)
           k == publish_will(h, s)
<1>1. CASE w = None
  <2>1. k = h  BY <1>1 DEF publish_will
  <2>2. Additive(h, h)  BY DEF Additive, Grown
  <2> QED  BY <1>1, <2>1, <2>2
<1>2. CASE w # None
  <2>1. w.topic \in Topic /\ w.data \in Data /\ w.retain \in BOOLEAN
    BY <1>2 DEF Memory, Will
  <2>2. /\ Additive(h, p1) /\ p1.will = h.will /\ p1.subs = h.subs /\ p1.fault = f
        /\ \A r \in Slot : Hits(h.subs, r, w.topic) # {} =>
             Heard(h.queue[r], p1.queue[r], Publication(w.topic, w.data))
    BY <2>1, PublishAdditive, ZenonT(40)
  <2>3. k = IF w.retain THEN p3 ELSE p2  BY <1>2 DEF publish_will
  <2> HIDE DEF p1
  <2>4. p1 \in Memory  BY <2>2 DEF Additive
  <2>5. Aside(p1, p2) /\ Settled(p2) /\ p2.will = p1.will /\ p2.subs = p1.subs
    BY <2>4, ActivateAside
  <2> HIDE DEF p2
  <2>6. p2 \in Memory  BY <2>5 DEF Aside
  <2>7. /\ Aside(p2, p3) /\ p3.ev = p2.ev /\ p3.quiet = p2.quiet
        /\ p3.will = p2.will /\ p3.subs = p2.subs
    BY <2>1, <2>6, RetainAside
  <2> HIDE DEF p3, k, w
  <2>8. Settled(p3)  BY <2>5, <2>7 DEF Settled, Aside, InList, connected
  <2>9. Aside(p1, p3)  BY <2>5, <2>7 DEF Aside
  <2>10. Aside(p1, k) /\ Settled(k) /\ k.will = h.will /\ k.subs = h.subs
    BY <2>2, <2>3, <2>5, <2>7, <2>8, <2>9
  <2> HIDE DEF f
  <2>11. Additive(h, k) /\ k.fault = f /\ k.queue = p1.queue
    BY <2>2, <2>10, AsideAdditive, AdditiveTransitive DEF Aside
  <2> QED  BY <1>2, <2>2, <2>10, <2>11 DEF k, f, w
<1> QED  BY <1>1, <1>2

(* The list without one client state.                                      *)
LEMMA UnlinkedList ==
  ASSUME NEW h \in Memory, ListOnce(h), NEW s \in Slot
  PROVE  LET list == IF InList(h, s) THEN Unlink(h.clist, Place(h, s)) ELSE h.clist
         IN  /\ list \in Seq(Slot)
             /\ \A r : (\E i \in DOMAIN list : list[i] = r) <=> (r # s /\ InList(h, r))
<1> DEFINE c == h.clist
           i == Place(h, s)
<1>1. c \in Seq(Slot)  BY DEF Memory
<1>2. \A j, n \in DOMAIN c : c[j] = c[n] => j = n  BY DEF ListOnce
<1>3. \A r : InList(h, r) <=> \E j \in DOMAIN c : c[j] = r  BY DEF InList
<1>4. CASE InList(h, s)
  <2>1. i \in DOMAIN c /\ c[i] = s  BY <1>4 DEF InList, Place
  <2> HIDE DEF c, i
  <2>2. /\ Unlink(c, i) \in Seq(Slot)
        /\ \A r : (\E j \in DOMAIN Unlink(c, i) : Unlink(c, i)[j] = r) <=>
                (r # c[i] /\ \E j \in DOMAIN c : c[j] = r)
    BY <1>1, <1>2, <2>1, UnlinkProperties, Zenon
  <2>3. (IF InList(h, s) THEN Unlink(h.clist, Place(h, s)) ELSE h.clist) = Unlink(c, i)
    BY <1>4 DEF c, i
  <2> QED  BY <2>1, <2>2, <2>3, <1>3
<1>5. CASE ~InList(h, s)  BY <1>1, <1>3, <1>5
<1> QED  BY <1>4, <1>5

(* What is done is done to s: everyone else at most gets more output.      *)
Beside(h, k, s) ==
  /\ k \in Memory
  /\ \A r \in Slot \ {s} :
       /\ k.slot[r] = h.slot[r] /\ k.state[r] = h.state[r] /\ k.id[r] = h.id[r]
       /\ k.link[r] = h.link[r]
       /\ InList(k, r) <=> InList(h, r)
       /\ Grown(h.state[r], h.queue[r], k.queue[r])

(* Client t has gone and had subscribed to the topic of its own will.      *)
Mourns(h, k, t) ==
  /\ InList(h, t) /\ ~InList(k, t)
  /\ h.will[t] # None /\ Hits(h.subs, t, h.will[t].topic) # {}

(* Client t has gone, and everyone who stays has heard its will.           *)
WillHeard(h, k, t) ==
  ( /\ InList(h, t) /\ ~InList(k, t)
    /\ h.will[t] # None /\ k.fault = "none" ) =>
      \A u \in Slot : InList(k, u) /\ Hits(h.subs, u, h.will[t].topic) # {} =>
        Heard(h.queue[u], k.queue[u], Publication(h.will[t].topic, h.will[t].data))

(* The end of client state s, its connection left with a reference of the  *)
(* given kind: nothing remains of it but what it has willed.               *)
Ended(h, k, s, kind) ==
  /\ Beside(h, k, s)
  /\ k.slot[s] = kind /\ k.state[s] = "NONE" /\ k.id[s] = None /\ k.queue[s] = <<>>
  /\ k.link[s] = h.link[s]
  /\ ~InList(k, s)
  /\ WillHeard(h, k, s)
  /\ k.fault = h.fault \/ (k.fault = "null_write" /\ Mourns(h, k, s))
  /\ Settled(h) => Settled(k)

LEMMA DeleteEnded ==
  ASSUME NEW h, Consistent(h), NEW s \in Slot, h.slot[s] = "con"
  PROVE  Ended(h, MQTT_server_deleteClientCon(h, s), s, "dangling")
<1> DEFINE list == IF InList(h, s) THEN Unlink(h.clist, Place(h, s)) ELSE h.clist
           off == [h EXCEPT !.clist = list]
           lwt == publish_will(off, s)
           subs == delete_topic(lwt.subs, s, Filter)
           mid == [lwt EXCEPT !.subs = subs]
           k == MQTT_server_deleteClientCon(h, s)
           w == h.will[s]
           f == IF \E r \in Slot : ~InList(off, r) /\ Hits(off.subs, r, w.topic) # {}
                THEN "null_write" ELSE h.fault
<1>1. h \in Memory /\ h.clist \in Seq(Slot) /\ h.subs \in Subscriptions(Slot \cup {Local})
  BY DEF Consistent, Memory
<1>2. list \in Seq(Slot) /\ \A r : (\E i \in DOMAIN list : list[i] = r) <=> (r # s /\ InList(h, r))
  BY UnlinkedList DEF Consistent
<1> HIDE DEF list
<1>3. /\ off \in Memory /\ off.clist = list
      /\ off.slot = h.slot /\ off.state = h.state /\ off.id = h.id /\ off.link = h.link
      /\ off.queue = h.queue /\ off.will = h.will /\ off.subs = h.subs /\ off.fault = h.fault
      /\ off.ev = h.ev /\ off.quiet = h.quiet
  BY <1>1, <1>2 DEF Memory
<1> HIDE DEF off
<1>4. \A r : InList(off, r) <=> r # s /\ InList(h, r)
  <2>1. \A r : InList(off, r) <=> \E i \in DOMAIN list : list[i] = r  BY <1>3 DEF InList
  <2> QED  BY <1>2, <2>1
<1>5. \A r \in Slot : \A topic : Hits(h.subs, r, topic) # {} => InList(h, r) /\ h.state[r] = "MQTT_DATA"
  BY HitsLive DEF Consistent
<1>6. \A r \in Slot, topic \in Topic : Hits(off.subs, r, topic) # {} => off.state[r] = "MQTT_DATA"
  BY <1>3, <1>5
<1>7. /\ Additive(off, lwt) /\ lwt.will = h.will /\ lwt.subs = h.subs
      /\ w = None => lwt = off
      /\ w # None =>
           /\ Settled(lwt)
           /\ lwt.fault = f
           /\ \A r \in Slot : Hits(h.subs, r, w.topic) # {} =>
                Heard(h.queue[r], lwt.queue[r], Publication(w.topic, w.data))
  <2>1. /\ Additive(off, lwt) /\ lwt.will = off.will /\ lwt.subs = off.subs
        /\ off.will[s] = None => lwt = off
        /\ off.will[s] # None =>
             /\ Settled(lwt)
             /\ lwt.fault = IF \E r \in Slot : ~InList(off, r) /\ Hits(off.subs, r, off.will[s].topic) # {}
                            THEN "null_write" ELSE off.fault
             /\ \A r \in Slot : Hits(off.subs, r, off.will[s].topic) # {} =>
                  Heard(off.queue[r], lwt.queue[r],
                        Publication(off.will[s].topic, off.will[s].data))
    BY <1>3, <1>6, WillAdditive
  <2> HIDE DEF lwt
  <2> QED  BY <2>1, <1>3
<1> HIDE DEF lwt, f
<1>8. lwt \in Memory  BY <1>7 DEF Additive
<1>9. subs \in Subscriptions(Slot \cup {Local})  BY <1>1, <1>7, DeleteTyped
<1> HIDE DEF subs
<1>10. mid \in Memory /\ mid.slot = lwt.slot /\ mid.state = lwt.state /\ mid.id = lwt.id
       /\ mid.link = lwt.link /\ mid.queue = lwt.queue /\ mid.fault = lwt.fault
       /\ mid.clist = lwt.clist /\ mid.ev = lwt.ev /\ mid.quiet = lwt.quiet
  BY <1>8, <1>9 DEF Memory
<1>11. k = os_free(mid, s)
  BY DEF MQTT_server_deleteClientCon, subs, lwt, off, list
<1> HIDE DEF k, mid
<1>12. /\ k \in Memory
       /\ k.slot = [mid.slot EXCEPT ![s] = "dangling"]
       /\ k.state = [mid.state EXCEPT ![s] = "NONE"]
       /\ k.id = [mid.id EXCEPT ![s] = None]
       /\ k.clist = mid.clist
       /\ k.ev = IF mid.ev = s THEN Stale ELSE mid.ev
  BY <1>10, <1>11, FreeTyped, ZenonT(40)
<1>13. /\ k.queue = [mid.queue EXCEPT ![s] = <<>>]
       /\ k.link = mid.link /\ k.fault = mid.fault /\ k.quiet = mid.quiet
  BY <1>10, <1>11 DEF os_free, Memory
<1>14. /\ mid.slot \in [Slot -> SlotKind] /\ mid.state \in [Slot -> ConnState]
       /\ mid.id \in [Slot -> ClientId \cup {ZeroLenId, NulId, None}]
       /\ mid.queue \in [Slot -> Queue]
  BY <1>10 DEF Memory
<1>15. /\ lwt.slot = h.slot /\ lwt.state = h.state /\ lwt.id = h.id /\ lwt.link = h.link
       /\ lwt.clist = off.clist
       /\ \A r \in Slot : Grown(h.state[r], h.queue[r], lwt.queue[r])
  BY <1>3, <1>7 DEF Additive
<1>16. \A r : InList(k, r) <=> r # s /\ InList(h, r)
  BY <1>4, <1>10, <1>12, <1>15, SMTT(30) DEF InList
<1>17. /\ k.slot[s] = "dangling" /\ k.state[s] = "NONE" /\ k.id[s] = None /\ k.queue[s] = <<>>
       /\ k.link[s] = h.link[s] /\ ~InList(k, s)
  BY <1>10, <1>12, <1>13, <1>14, <1>15, <1>16
<1>18. \A r \in Slot \ {s} :
         /\ k.slot[r] = h.slot[r] /\ k.state[r] = h.state[r] /\ k.id[r] = h.id[r]
         /\ k.queue[r] = lwt.queue[r]
  BY <1>10, <1>12, <1>13, <1>14, <1>15
<1>19. Beside(h, k, s)
  BY <1>10, <1>12, <1>13, <1>15, <1>16, <1>18 DEF Beside
<1>20. WillHeard(h, k, s)
  <2> SUFFICES ASSUME w # None, NEW u \in Slot, InList(k, u), Hits(h.subs, u, w.topic) # {}
               PROVE  Heard(h.queue[u], k.queue[u], Publication(w.topic, w.data))
    BY DEF WillHeard
  <2>1. u # s  BY <1>16
  <2> QED  BY <1>7, <1>18, <2>1
<1>21. k.fault = h.fault \/ (k.fault = "null_write" /\ Mourns(h, k, s))
  <2>1. k.fault = lwt.fault  BY <1>10, <1>13
  <2>2. CASE w = None  BY <2>1, <2>2, <1>3, <1>7
  <2>3. CASE w # None
    <3>1. ASSUME NEW r \in Slot, ~InList(off, r), Hits(off.subs, r, w.topic) # {}
          PROVE  Mourns(h, k, s)
      <4>1. InList(h, r) /\ r = s  BY <3>1, <1>3, <1>4, <1>5
      <4> QED  BY <3>1, <4>1, <2>3, <1>3, <1>17 DEF Mourns
    <3> QED  BY <2>1, <2>3, <3>1, <1>7 DEF f
  <2> QED  BY <2>2, <2>3
<1>22. Settled(h) => Settled(k)
  <2>1. Settled(h) => Settled(lwt)
    <3>1. Settled(h) => Settled(off)
      BY <1>3, <1>4 DEF Settled, connected
    <3> QED  BY <3>1, <1>7
  <2>2. SUFFICES ASSUME Settled(lwt), k.ev = None, ~k.quiet,
                        NEW r \in Slot, InList(k, r), connected(k, r)
                 PROVE  k.queue[r] = <<>>
    BY <2>1 DEF Settled
  <2>3. lwt.ev = None /\ ~lwt.quiet
    BY <2>2, <1>10, <1>12, <1>13, BrokerAssumption
  <2>4. r # s  BY <2>2, <1>16
  <2>5. InList(lwt, r) /\ connected(lwt, r)
    BY <2>2, <1>10, <1>12, <1>13 DEF InList, connected
  <2> QED  BY <2>2, <2>3, <2>4, <2>5, <1>18 DEF Settled
<1> QED  BY <1>17, <1>19, <1>20, <1>21, <1>22 DEF Ended, k

LEMMA DisconnectEnded ==
  ASSUME NEW h, Consistent(h), NEW s \in Slot, h.slot[s] = "con"
  PROVE  LET k == MQTT_server_disconnectClientCon(h, s)
         IN  Ended(h, k, s, "dummy") /\ k.ev # None
<1> DEFINE del == MQTT_server_deleteClientCon(h, s)
           mid == [del EXCEPT !.slot[s] = "dummy", !.dummy = s]
           k == MQTT_server_disconnectClientCon(h, s)
<1>1. Ended(h, del, s, "dangling")  BY DeleteEnded
<1>2. k = system_os_post(mid, Dummy)  BY DEF MQTT_server_disconnectClientCon
<1> HIDE DEF del, k
<1>3. del \in Memory  BY <1>1 DEF Ended, Beside
<1>4. /\ mid \in Memory
      /\ mid.slot = [del.slot EXCEPT ![s] = "dummy"]
      /\ mid.state = del.state /\ mid.id = del.id /\ mid.clist = del.clist
      /\ mid.link = del.link /\ mid.queue = del.queue /\ mid.fault = del.fault
  BY <1>3 DEF Memory, SlotKind
<1> HIDE DEF mid
<1>5. Aside(mid, k) /\ k.ev # None  BY <1>2, <1>4, PostAside
<1>6. del.slot \in [Slot -> SlotKind]  BY <1>3 DEF Memory
<1>7. /\ k \in Memory /\ k.slot = [del.slot EXCEPT ![s] = "dummy"]
      /\ k.state = del.state /\ k.id = del.id /\ k.clist = del.clist
      /\ k.link = del.link /\ k.queue = del.queue /\ k.fault = del.fault
  BY <1>4, <1>5 DEF Aside
<1>8. \A r : InList(k, r) <=> InList(del, r)  BY <1>7 DEF InList
<1>9. Beside(h, k, s)  BY <1>1, <1>6, <1>7, <1>8 DEF Ended, Beside
<1>10. WillHeard(h, k, s)
  BY <1>1, <1>7, <1>8 DEF Ended, WillHeard
<1>11. k.fault = h.fault \/ (k.fault = "null_write" /\ Mourns(h, k, s))
  BY <1>1, <1>7, <1>8 DEF Ended, Mourns
<1>12. Settled(k)  BY <1>5 DEF Settled
<1>13. /\ k.slot[s] = "dummy" /\ k.state[s] = "NONE" /\ k.id[s] = None /\ k.queue[s] = <<>>
       /\ k.link[s] = h.link[s] /\ ~InList(k, s)
  BY <1>1, <1>6, <1>7, <1>8 DEF Ended
<1> QED  BY <1>5, <1>9, <1>10, <1>11, <1>12, <1>13 DEF Ended, k

-----------------------------------------------------------------------------
(* Outcomes.                                                               *)

TidyAt(h, s) ==
  /\ Orderly(h.state[s], h.queue[s])
  /\ h.slot[s] # "con" => h.state[s] = "NONE"
  /\ h.slot[s] = "free" => h.link[s] = "down"

(* What a handler may have done to client s, whose message it handles.     *)
Served(h, k, s) ==
  /\ Beside(h, k, s) /\ TidyAt(k, s)
  /\ k.slot[s] = "dangling" => h.slot[s] = "dangling"
  /\ InList(k, s) => InList(h, s) /\ k.id[s] = h.id[s]
  /\ k.fault = h.fault \/ (k.fault = "null_write" /\ Mourns(h, k, s))
  /\ InList(k, s) \/ k.ev # None

(* And to the broker as a whole.  The name of a client is still its own if *)
(* the handler found it where it is clean.                                 *)
Outcome(h, k, s, clean) ==
  /\ k \in Memory /\ Tidy(k)
  /\ \A r \in Slot : k.slot[r] = "dangling" => h.slot[r] = "dangling"
  /\ clean /\ OneEach(h) => OneEach(k)
  /\ \A t \in Slot \ {s} : WillHeard(h, k, t)
  /\ k.fault = h.fault \/ (k.fault = "null_write" /\ \E t \in Slot : Mourns(h, k, t))

LEMMA TidyEverywhere ==
  ASSUME NEW h
  PROVE  Tidy(h) <=> \A s \in Slot : TidyAt(h, s)
BY DEF Tidy, TidyAt, Ordered, Vacated, FreeDown

LEMMA BesideTidy ==
  ASSUME NEW h, NEW k, NEW s \in Slot, Tidy(h), Beside(h, k, s), TidyAt(k, s)
  PROVE  Tidy(k)
<1>1. ASSUME NEW r \in Slot \ {s} PROVE TidyAt(k, r)
  <2>1. TidyAt(h, r)  BY TidyEverywhere
  <2>2. Orderly(k.state[r], k.queue[r])
    BY <2>1, GrownOrderly DEF Beside, TidyAt
  <2> QED  BY <2>1, <2>2 DEF Beside, TidyAt
<1> QED  BY <1>1, TidyEverywhere

LEMMA BesideTransitive ==
  ASSUME NEW h \in Memory, NEW k, NEW l, NEW s \in Slot, Beside(h, k, s), Beside(k, l, s)
  PROVE  Beside(h, l, s)
<1>1. k \in Memory /\ l \in Memory  BY DEF Beside
<1>2. ASSUME NEW r \in Slot \ {s} PROVE Grown(h.state[r], h.queue[r], l.queue[r])
  <2>1. h.queue[r] \in Queue /\ k.queue[r] \in Queue /\ l.queue[r] \in Queue
    BY <1>1 DEF Memory
  <2>2. Grown(h.state[r], h.queue[r], k.queue[r]) /\ Grown(h.state[r], k.queue[r], l.queue[r])
    BY DEF Beside
  <2> QED  BY <2>1, <2>2, GrownTransitive
<1> QED  BY <1>1, <1>2 DEF Beside

LEMMA AdditiveBeside ==
  ASSUME NEW h, NEW k, NEW s \in Slot, Additive(h, k)
  PROVE  Beside(h, k, s)
<1>1. \A r : InList(k, r) <=> InList(h, r)  BY DEF Additive, InList
<1> QED  BY <1>1 DEF Additive, Beside

LEMMA BesideOneEach ==
  ASSUME NEW h, NEW k, NEW s \in Slot, Beside(h, k, s), OneEach(h),
         InList(k, s) /\ k.id[s] \in ClientId =>
           \A r \in Slot \ {s} : InList(h, r) => h.id[r] # k.id[s]
  PROVE  OneEach(k)
<1> SUFFICES ASSUME NEW r \in Slot, NEW t \in Slot, InList(k, r), InList(k, t),
                    k.id[r] = k.id[t], k.id[r] \in ClientId
             PROVE  r = t
  BY DEF OneEach
<1>1. CASE r # s /\ t # s
  <2>1. InList(h, r) /\ InList(h, t) /\ h.id[r] = k.id[r] /\ h.id[t] = k.id[t]
    BY <1>1 DEF Beside
  <2> QED  BY <2>1 DEF OneEach
<1>2. CASE r = s /\ t # s  BY <1>2 DEF Beside
<1>3. CASE r # s /\ t = s  BY <1>3 DEF Beside
<1> QED  BY <1>1, <1>2, <1>3

LEMMA ServedOutcome ==
  ASSUME NEW h, NEW k, NEW s \in Slot, Tidy(h), Served(h, k, s), NEW clean
  PROVE  Outcome(h, k, s, clean)
<1>1. Tidy(k)  BY BesideTidy DEF Served
<1>2. \A r \in Slot : k.slot[r] = "dangling" => h.slot[r] = "dangling"
  BY DEF Served, Beside
<1>3. OneEach(h) => OneEach(k)
  BY BesideOneEach DEF Served, OneEach
<1>4. \A t \in Slot \ {s} : WillHeard(h, k, t)
  BY DEF Served, Beside, WillHeard
<1>5. k.fault = h.fault \/ (k.fault = "null_write" /\ \E t \in Slot : Mourns(h, k, t))
  BY DEF Served
<1> QED  BY <1>1, <1>2, <1>3, <1>4, <1>5 DEF Outcome, Served, Beside

LEMMA EndedServed ==
  ASSUME NEW h, NEW k, NEW s \in Slot, Ended(h, k, s, "dummy"), k.ev # None
  PROVE  Served(h, k, s)
BY DEF Ended, Served, TidyAt, Orderly

LEMMA EndedTidy ==
  ASSUME NEW h, NEW k, NEW s \in Slot, NEW kind \in {"dummy", "dangling"},
         Tidy(h), Ended(h, k, s, kind)
  PROVE  Tidy(k) /\ (OneEach(h) => OneEach(k)) /\ \A t \in Slot : WillHeard(h, k, t)
<1>1. TidyAt(k, s)  BY DEF Ended, TidyAt, Orderly
<1>2. Tidy(k)  BY <1>1, BesideTidy DEF Ended
<1>3. OneEach(h) => OneEach(k)  BY BesideOneEach DEF Ended
<1>4. \A t \in Slot : WillHeard(h, k, t)  BY DEF Ended, Beside, WillHeard
<1> QED  BY <1>2, <1>3, <1>4

LEMMA AdditiveServed ==
  ASSUME NEW h, NEW k, NEW s \in Slot, Tidy(h), InList(h, s), Additive(h, k), k.fault = h.fault
  PROVE  Served(h, k, s)
<1>1. Beside(h, k, s)  BY AdditiveBeside
<1>2. TidyAt(k, s)
  <2>1. Tidy(k)  BY AdditiveTidy
  <2> QED  BY <2>1, TidyEverywhere
<1>3. InList(k, s)  BY DEF Additive, InList
<1> QED  BY <1>1, <1>2, <1>3 DEF Served, Additive

-----------------------------------------------------------------------------
(* The messages of a session.                                              *)

(* Whatever is done to the tables, nobody notices yet.                     *)
LEMMA SubsAside ==
  ASSUME NEW h \in Memory, NEW new \in Subscriptions(Slot \cup {Local})
  PROVE  LET k == [h EXCEPT !.subs = new]
         IN  Aside(h, k) /\ k.ev = h.ev /\ k.quiet = h.quiet
BY DEF Memory, Aside

LEMMA AddedSubs ==
  ASSUME NEW h \in Memory, NEW filters \in Seq(Filter), NEW owner \in Slot \cup {Local}
  PROVE  add_topics(h.subs, owner, filters) \in Subscriptions(Slot \cup {Local})
<1> DEFINE owners == Slot \cup {Local}
<1>1. h.subs \in Subscriptions(owners) /\ owner \in owners  BY DEF Memory
<1> HIDE DEF owners
<1>2. add_topics(h.subs, owner, filters) \in Subscriptions(owners)  BY <1>1, AddTyped
<1> QED  BY <1>2 DEF owners

LEMMA DeletedSubs ==
  ASSUME NEW h \in Memory, NEW filters, NEW owner
  PROVE  delete_topic(h.subs, owner, filters) \in Subscriptions(Slot \cup {Local})
<1>1. h.subs \in Subscriptions(Slot \cup {Local})  BY DEF Memory
<1> QED  BY <1>1, DeleteTyped

(* Retained messages for a client in a session.                            *)
LEMMA RetainedAdditive ==
  ASSUME NEW h \in Memory, NEW s \in Slot, h.state[s] = "MQTT_DATA",
         NEW hits \in Seq(RetainedEntry)
  PROVE  LET k == [h EXCEPT !.queue[s] = QUEUE_Puts(@,
                     [i \in DOMAIN hits |-> Retained(hits[i].topic, hits[i].data)])]
         IN  Additive(h, k) /\ k.fault = h.fault
<1> DEFINE ms == [i \in DOMAIN hits |-> Retained(hits[i].topic, hits[i].data)]
           q == QUEUE_Puts(h.queue[s], ms)
           k == [h EXCEPT !.queue[s] = q]
<1>1. ms \in Seq(Frame) /\ \A i \in DOMAIN ms : ms[i].type = "RETAINED"
  <2>1. ASSUME NEW i \in DOMAIN hits
        PROVE  Retained(hits[i].topic, hits[i].data) \in Frame
    <3>1. hits[i] \in RetainedEntry  OBVIOUS
    <3>2. hits[i].topic \in Topic /\ hits[i].data \in Data  BY <3>1 DEF RetainedEntry
    <3> QED  BY <3>2, PublicationTyped
  <2>2. DOMAIN hits = 1..Len(hits) /\ Len(hits) \in Nat  BY LenProperties
  <2>3. ms \in [1..Len(hits) -> Frame]  BY <2>1, <2>2
  <2>4. \A i \in DOMAIN ms : ms[i].type = "RETAINED"  BY DEF Retained
  <2> HIDE DEF ms
  <2> QED  BY <2>2, <2>3, <2>4, SeqDef
<1> HIDE DEF ms
<1>2. h.queue \in [Slot -> Queue] /\ h.queue[s] \in Queue  BY DEF Memory
<1>3. q \in Queue /\ Longer(h.queue[s], q)  BY <1>1, <1>2, PutsShape
<1>4. Ordinary(h.queue[s]) => Ordinary(q)  BY <1>1, <1>2, OrdinaryPuts
<1>5. [h EXCEPT !.queue[s] = QUEUE_Puts(@, ms)] = k  OBVIOUS
<1> HIDE DEF q
<1>6. /\ k \in Memory /\ k.queue = [h.queue EXCEPT ![s] = q] /\ k.fault = h.fault
      /\ k.slot = h.slot /\ k.state = h.state /\ k.id = h.id
      /\ k.clist = h.clist /\ k.link = h.link
  BY <1>3 DEF Memory
<1> HIDE DEF k
<1>7. \A r \in Slot : Grown(h.state[r], h.queue[r], k.queue[r])
  BY <1>2, <1>3, <1>4, <1>6 DEF Grown
<1>8. Additive(h, k)  BY <1>6, <1>7 DEF Additive
<1> QED  BY <1>5, <1>6, <1>8 DEF ms, Zenon

LEMMA SubscribeAdditive ==
  ASSUME NEW h \in Memory, NEW s \in Slot, h.state[s] = "MQTT_DATA",
         NEW m \in Message, m.type = "SUBSCRIBE"
  PROVE  Additive(h, recv_subscribe(h, s, m)) /\ recv_subscribe(h, s, m).fault = h.fault
<1> DEFINE new == add_topics(h.subs, s, m.filters)
           hits == find_retainedtopic(h.ret, m.filters[Len(m.filters)])
           added == [h EXCEPT !.subs = new]
           acked == put(added, s, "SUBACK")
           k == recv_subscribe(h, s, m)
<1>1. m.filters \in Seq(Filter)  BY DEF Message
<1>2. h.ret \in RetainedList  BY DEF Memory
<1>3. hits \in Seq(RetainedEntry)  BY <1>2, FindTyped
<1>4. new \in Subscriptions(Slot \cup {Local})  BY <1>1, AddedSubs
<1>5. k = [acked EXCEPT !.queue[s] = QUEUE_Puts(acked.queue[s],
                [i \in DOMAIN hits |-> Retained(hits[i].topic, hits[i].data)])]
  BY DEF recv_subscribe
<1> HIDE DEF new, hits
<1>6. Aside(h, added)  BY <1>4, SubsAside
<1> HIDE DEF added
<1>7. Additive(h, added) /\ added.fault = h.fault /\ added \in Memory /\ added.state[s] = "MQTT_DATA"
  BY <1>6, AsideAdditive DEF Aside
<1>8. Additive(added, acked) /\ acked.fault = h.fault  BY <1>7, PutAdditive
<1> HIDE DEF acked
<1>9. acked \in Memory /\ acked.state[s] = "MQTT_DATA"  BY <1>7, <1>8 DEF Additive
<1>10. Additive(acked, k) /\ k.fault = h.fault
  BY <1>3, <1>5, <1>8, <1>9, RetainedAdditive
<1> HIDE DEF k
<1> QED  BY <1>7, <1>8, <1>10, AdditiveTransitive DEF k

(* A message of a session finds every subscriber alive.                    *)
LEMMA PublishServed ==
  ASSUME NEW h, Consistent(h), NEW topic \in Topic, NEW data \in Data
  PROVE  LET p == publish(h, topic, data)
         IN  /\ Additive(h, p) /\ p.fault = h.fault
             /\ Additive(h, retain(p, topic, data)) /\ retain(p, topic, data).fault = h.fault
<1> DEFINE p == publish(h, topic, data)
           k == retain(p, topic, data)
<1>1. h \in Memory  BY DEF Consistent
<1>2. \A r \in Slot : Hits(h.subs, r, topic) # {} => InList(h, r) /\ h.state[r] = "MQTT_DATA"
  BY HitsLive DEF Consistent
<1>3. Additive(h, p) /\ p.fault = h.fault
  <2>1. /\ Additive(h, p)
        /\ p.fault = IF \E s \in Slot : ~InList(h, s) /\ Hits(h.subs, s, topic) # {}
                     THEN "null_write" ELSE h.fault
    BY <1>1, <1>2, PublishAdditive
  <2> HIDE DEF p
  <2> QED  BY <2>1, <1>2
<1> HIDE DEF p
<1>4. p \in Memory  BY <1>3 DEF Additive
<1>5. Aside(p, k)  BY <1>4, RetainAside
<1> HIDE DEF k
<1>6. Additive(p, k) /\ k.fault = h.fault  BY <1>3, <1>5, AsideAdditive
<1> QED  BY <1>1, <1>3, <1>6, AdditiveTransitive DEF k, p

LEMMA DataServed ==
  ASSUME NEW h, Consistent(h), Tidy(h), NEW s \in Slot, InList(h, s), h.state[s] = "MQTT_DATA",
         NEW m \in Message
  PROVE  LET k == recv_data(h, s, m)
         IN  Served(h, k, s) /\ (m.type # "DISCONNECT" => WillHeard(h, k, s))
<1> DEFINE k == recv_data(h, s, m)
<1>1. h \in Memory /\ h.slot[s] = "con"  BY ListedOwned DEF Consistent
<1>2. SUFFICES \/ Served(h, k, s) /\ (m.type # "DISCONNECT" => WillHeard(h, k, s))
               \/ Additive(h, k) /\ k.fault = h.fault
  <2> HIDE DEF k
  <2>1. SUFFICES ASSUME Additive(h, k), k.fault = h.fault
                 PROVE  Served(h, k, s) /\ WillHeard(h, k, s)
    BY DEF k
  <2>2. InList(k, s)  BY <2>1 DEF Additive, InList
  <2> QED  BY <2>1, <2>2, AdditiveServed DEF WillHeard
<1>3. CASE m.type = "SUBSCRIBE"
  <2>1. k = recv_subscribe(h, s, m)  BY <1>3 DEF recv_data
  <2> HIDE DEF k
  <2> QED  BY <1>1, <1>3, <2>1, SubscribeAdditive
<1>4. CASE m.type = "UNSUBSCRIBE"
  <2> DEFINE new == delete_topic(h.subs, s, m.filters)
             off == [h EXCEPT !.subs = new]
  <2>1. k = put(off, s, "UNSUBACK")  BY <1>4 DEF recv_data, recv_unsubscribe
  <2>2. new \in Subscriptions(Slot \cup {Local})  BY <1>1, DeletedSubs
  <2> HIDE DEF k, new
  <2>3. Aside(h, off)  BY <1>1, <2>2, SubsAside
  <2> HIDE DEF off
  <2>4. Additive(h, off) /\ off.fault = h.fault /\ off \in Memory /\ off.state[s] = "MQTT_DATA"
    BY <2>3, AsideAdditive DEF Aside
  <2>5. Additive(off, k) /\ k.fault = off.fault  BY <2>1, <2>4, PutAdditive
  <2> QED  BY <1>1, <2>4, <2>5, AdditiveTransitive
<1>5. CASE m.type = "PUBLISH"
  <2>1. m.topic \in Topic /\ m.data \in Data  BY <1>5 DEF Message
  <2>2. k \in {h, publish(h, m.topic, m.data),
               retain(publish(h, m.topic, m.data), m.topic, m.data)}
    BY <1>5 DEF recv_data, recv_publish
  <2>3. Additive(h, h)  BY <1>1 DEF Additive, Grown
  <2> HIDE DEF k
  <2> QED  BY <2>1, <2>2, <2>3, PublishServed
<1>6. CASE m.type = "PINGREQ"
  <2>1. k = put(h, s, "PINGRESP")  BY <1>6 DEF recv_data
  <2> HIDE DEF k
  <2> QED  BY <1>1, <2>1, PutAdditive
<1>7. CASE m.type = "DISCONNECT"
  <2> DEFINE mute == [h EXCEPT !.will[s] = None]
  <2>1. Calm(h, mute)  BY <1>1, WillSetCalm
  <2>2. k = MQTT_server_disconnectClientCon(mute, s)
    BY <1>7 DEF recv_data, recv_disconnect
  <2>3. Aside(h, mute) /\ mute.will[s] = None
    BY <1>1 DEF Memory, Aside
  <2> HIDE DEF mute, k
  <2>4. Consistent(mute) /\ mute.slot[s] = "con"
    BY <1>1, <2>1, CalmConsistent DEF Calm, SameShape
  <2>5. Ended(mute, k, s, "dummy") /\ k.ev # None  BY <2>2, <2>4, DisconnectEnded
  <2>6. Served(mute, k, s)  BY <2>5, EndedServed
  <2>7. k.fault = h.fault  BY <2>3, <2>5 DEF Ended, Mourns, Aside
  <2>8. Beside(h, mute, s)  BY <2>3, AsideAdditive, AdditiveBeside
  <2>9. Beside(h, k, s)  BY <1>1, <2>6, <2>8, BesideTransitive DEF Served
  <2> QED  BY <1>7, <2>3, <2>5, <2>6, <2>7, <2>9 DEF Served, Ended
<1>8. CASE m.type = "MALFORMED"
  <2>1. k = MQTT_server_disconnectClientCon(h, s)  BY <1>8 DEF recv_data
  <2> HIDE DEF k
  <2>2. Ended(h, k, s, "dummy") /\ k.ev # None  BY <1>1, <2>1, DisconnectEnded
  <2>3. Served(h, k, s)  BY <2>2, EndedServed
  <2> QED  BY <2>2, <2>3 DEF Ended
<1>9. CASE m.type \notin {"SUBSCRIBE", "UNSUBSCRIBE", "PUBLISH", "PINGREQ",
                          "DISCONNECT", "MALFORMED"}
  <2>1. k = h  BY <1>9 DEF recv_data
  <2>2. Additive(h, h)  BY <1>1 DEF Additive, Grown
  <2> QED  BY <2>1, <2>2
<1> QED  BY <1>3, <1>4, <1>5, <1>6, <1>7, <1>8, <1>9

-----------------------------------------------------------------------------
(* CONNECT.                                                                *)

(* What a takeover ends is another client, and no other is left of a name  *)
(* that was given once.                                                    *)
LEMMA TakeoverFrees ==
  ASSUME NEW h, Good(h), NEW s \in Slot, InList(h, s), h.state[s] = "TCP_CONNECTED",
         NEW id \in ClientId \cup {NulId}, id = NulId => First(h, NulId) # s
  PROVE  LET free == delete_client_by_id(h, id)
         IN  /\ free = h \/ \E t \in Slot \ {s} : Ended(h, free, t, "dummy")
             /\ OneEach(h) /\ id \in ClientId => \A r \in Slot \ {s} : InList(free, r) => free.id[r] # id
<1> DEFINE free == delete_client_by_id(h, id)
           i == Lowest(Named(h, id))
           t == h.clist[i]
<1>1. h \in Memory /\ h.clist \in Seq(Slot) /\ Consistent(h)  BY DEF Good, Consistent, Memory
<1>2. CASE Named(h, id) = {}
  <2>1. free = h  BY <1>2 DEF delete_client_by_id
  <2>2. \A r \in Slot : InList(h, r) => h.id[r] # id
    <3> SUFFICES ASSUME NEW r \in Slot, InList(h, r), h.id[r] = id PROVE FALSE  OBVIOUS
    <3>1. PICK j \in DOMAIN h.clist : h.clist[j] = r  BY DEF InList
    <3>2. j \in Named(h, id)  BY <3>1 DEF Named, SameName
    <3> QED  BY <3>2, <1>2
  <2> QED  BY <2>1, <2>2
<1>3. CASE Named(h, id) # {}
  <2>1. Named(h, id) \subseteq Nat  BY <1>1 DEF Named
  <2>2. i \in Named(h, id)  BY <1>3, <2>1, LowestProperties
  <2>3. i \in DOMAIN h.clist /\ SameName(h.id[t], id)  BY <2>2 DEF Named
  <2>4. t \in Slot /\ InList(h, t)  BY <1>1, <2>3, ListedIsSlot
  <2>5. t # s
    <3>1. h.id[s] = ZeroLenId  BY DEF Good, Fresh
    <3>2. id # NulId => t # s  BY <3>1, <2>3, BrokerAssumption DEF SameName
    <3>3. id = NulId => t = First(h, NulId)  BY DEF First
    <3> QED  BY <3>2, <3>3
  <2>6. free = MQTT_server_disconnectClientCon(h, t)
    BY <1>3 DEF delete_client_by_id, First
  <2> HIDE DEF t, i, free
  <2>7. h.slot[t] = "con"  BY <1>1, <2>4, ListedOwned
  <2>8. Ended(h, free, t, "dummy")  BY <1>1, <2>4, <2>6, <2>7, DisconnectEnded
  <2>9. ASSUME OneEach(h), id \in ClientId, NEW r \in Slot \ {s}, InList(free, r)
        PROVE  free.id[r] # id
    <3>1. r # t  BY <2>8, <2>9 DEF Ended
    <3>2. InList(h, r) /\ free.id[r] = h.id[r]  BY <2>8, <2>9, <3>1 DEF Ended, Beside
    <3>3. h.id[t] = id  BY <2>3, <2>9, BrokerAssumption DEF SameName
    <3> QED  BY <2>4, <2>9, <3>1, <3>2, <3>3 DEF OneEach
  <2> QED  BY <2>4, <2>5, <2>8, <2>9 DEF free
<1> QED  BY <1>2, <1>3

(* The rest of CONNECT concerns the client it is from.                     *)
Answered(h, k, s) ==
  /\ Beside(h, k, s) /\ TidyAt(k, s)
  /\ k.slot[s] # "dangling"
  /\ InList(k, s) => k.id[s] = h.id[s]
  /\ k.fault = h.fault
  /\ InList(k, s) \/ k.ev # None

LEMMA AnswerPut ==
  ASSUME NEW h \in Memory, NEW s \in Slot, InList(h, s), h.slot[s] = "con", h.queue[s] = <<>>,
         NEW type \in {"CONNACK", "REFUSED"},
         NEW v \in {"MQTT_DATA", "TCP_DISCONNECTING"},
         v = "MQTT_DATA" <=> type = "CONNACK"
  PROVE  Answered(h, put([h EXCEPT !.state[s] = v], s, type), s)
<1> DEFINE h1 == [h EXCEPT !.state[s] = v]
           q == <<Packet(type)>>
           k == put(h1, s, type)
<1>1. /\ h1 \in Memory /\ h1.state = [h.state EXCEPT ![s] = v]
      /\ h1.slot = h.slot /\ h1.id = h.id /\ h1.clist = h.clist /\ h1.link = h.link
      /\ h1.queue = h.queue /\ h1.fault = h.fault
  BY DEF Memory, ConnState
<1>2. q \in Queue /\ QUEUE_Puts(h.queue[s], q) = q
  <2>1. h.queue[s] \in Queue  BY DEF Memory
  <2>2. QUEUE_Puts(h.queue[s], q) \in Queue  BY <2>1, PacketTyped, PutsOne
  <2>3. QUEUE_Puts(h.queue[s], q) = q  BY FirstPut
  <2> QED  BY <2>2, <2>3
<1>3. k = [h1 EXCEPT !.queue[s] = QUEUE_Puts(h1.queue[s], q)]  BY DEF put
<1>4. Orderly(v, q)
  <2>1. type # "REFUSED" => Ordinary(q)  BY DEF Ordinary, Packet
  <2>2. type = "REFUSED" => q = <<Packet("REFUSED")>>  OBVIOUS
  <2> HIDE DEF q
  <2> QED  BY <2>1, <2>2 DEF Orderly
<1> HIDE DEF h1, q
<1>5. k = [h1 EXCEPT !.queue[s] = q]  BY <1>1, <1>2, <1>3
<1> HIDE DEF k
<1>6. /\ k \in Memory /\ k.queue = [h.queue EXCEPT ![s] = q]
      /\ k.state = [h.state EXCEPT ![s] = v]
      /\ k.slot = h.slot /\ k.id = h.id /\ k.clist = h.clist /\ k.link = h.link
      /\ k.fault = h.fault
  BY <1>1, <1>2, <1>5 DEF Memory
<1>7. h.queue \in [Slot -> Queue] /\ h.state \in [Slot -> ConnState]  BY DEF Memory
<1>8. \A r : InList(k, r) <=> InList(h, r)  BY <1>6 DEF InList
<1>9. Beside(h, k, s)  BY <1>6, <1>7, <1>8 DEF Beside, Grown
<1>10. TidyAt(k, s)  BY <1>4, <1>6, <1>7 DEF TidyAt
<1> QED  BY <1>6, <1>8, <1>9, <1>10 DEF Answered, k, h1

(* The handler after the takeover, and before it for a CONNECT whose       *)
(* header is refused.                                                      *)
LEMMA ConnectAnswered ==
  ASSUME NEW h, NEW s \in Slot, Serving(h, s), h.state[s] = "TCP_CONNECTED", h.queue[s] = <<>>
  PROVE  /\ Answered(h, Refused(h, s), s)
         /\ Answered(h, put([h EXCEPT !.state[s] = "MQTT_DATA"], s, "CONNACK"), s)
         /\ Answered(h, MQTT_server_disconnectClientCon(h, s), s)
<1> DEFINE k == MQTT_server_disconnectClientCon(h, s)
<1>1. h \in Memory /\ Consistent(h) /\ InList(h, s) /\ h.slot[s] = "con"
  BY ListedOwned DEF Serving, Consistent
<1>2. Answered(h, Refused(h, s), s)  BY <1>1, AnswerPut DEF Refused
<1>3. Answered(h, put([h EXCEPT !.state[s] = "MQTT_DATA"], s, "CONNACK"), s)
  BY <1>1, AnswerPut
<1>4. Answered(h, k, s)
  <2>1. Ended(h, k, s, "dummy") /\ k.ev # None  BY <1>1, DisconnectEnded
  <2> HIDE DEF k
  <2>2. ~Mourns(h, k, s)
    <3>1. \A topic : Hits(h.subs, s, topic) = {}
      BY <1>1, HitsLive DEF Consistent
    <3> QED  BY <3>1 DEF Mourns
  <2> QED  BY <2>1, <2>2 DEF Ended, Answered, TidyAt, Orderly
<1> QED  BY <1>2, <1>3, <1>4

(* A name is taken in silence.                                             *)
LEMMA NamedBeside ==
  ASSUME NEW h \in Memory, NEW s \in Slot, NEW id \in ClientId \cup {ZeroLenId, NulId}
  PROVE  LET k == [h EXCEPT !.id[s] = id]
         IN  /\ Beside(h, k, s) /\ k.fault = h.fault /\ k.id[s] = id
             /\ k.slot = h.slot /\ k.state = h.state /\ k.queue = h.queue
<1> DEFINE k == [h EXCEPT !.id[s] = id]
<1>1. /\ k \in Memory /\ k.id = [h.id EXCEPT ![s] = id]
      /\ k.slot = h.slot /\ k.state = h.state /\ k.clist = h.clist /\ k.link = h.link
      /\ k.queue = h.queue /\ k.fault = h.fault
  BY DEF Memory
<1>2. h.id \in [Slot -> ClientId \cup {ZeroLenId, NulId, None}]  BY DEF Memory
<1> HIDE DEF k
<1>3. \A r : InList(k, r) <=> InList(h, r)  BY <1>1 DEF InList
<1>4. Beside(h, k, s)  BY <1>1, <1>2, <1>3 DEF Beside, Grown
<1> QED  BY <1>1, <1>2, <1>4 DEF k

LEMMA ConnectOutcome ==
  ASSUME NEW h, Good(h), Tidy(h), NEW s \in Slot, InList(h, s), h.state[s] = "TCP_CONNECTED",
         NEW m \in Message, m.type = "CONNECT", ~FreesItself(h, s, m), NEW more
  PROVE  LET k == recv_connect(h, s, m, more)
         IN  Outcome(h, k, s, Terminated(m, more)) /\ (InList(k, s) \/ k.ev # None)
<1> DEFINE free == IF m.id # ZeroLenId /\ Terminated(m, more)
                   THEN delete_client_by_id(h, m.id) ELSE h
           w == IF WillRejected(m) THEN [m.will EXCEPT !.data = NoPayload] ELSE m.will
           taken == Takeover(h, s, m, more)
           known == StoreWill(taken, s, m)
           mute == [known EXCEPT !.will[s] = None]
           full == [known EXCEPT !.state[s] = "MQTT_DATA"]
           k == recv_connect(h, s, m, more)
<1>1. h \in Memory /\ Consistent(h) /\ h.queue[s] = <<>>
  BY DEF Good, Consistent, Tidy, Ordered, Orderly
<1>2. /\ m.id \in ClientId \cup {ZeroLenId, NulId} /\ m.verdict \in Verdict
      /\ w \in Will \cup {None}
  BY DEF Message, WillRejected, Will, Data
<1>3. \/ k = Refused(h, s)
      \/ /\ m.verdict # "bad_header"
         /\ k \in {MQTT_server_disconnectClientCon(known, s), Refused(known, s),
                   Refused(mute, s), put(full, s, "CONNACK")}
  BY <1>2 DEF recv_connect, FinishConnect, Verdict
<1>4. CASE k = Refused(h, s)
  <2>1. Serving(h, s)  BY GoodBut DEF Serving
  <2>2. Answered(h, Refused(h, s), s)  BY <1>1, <2>1, ConnectAnswered
  <2>3. Served(h, Refused(h, s), s)  BY <2>2 DEF Answered, Served
  <2> QED  BY <1>4, <2>3, ServedOutcome DEF Served
<1>5. CASE k # Refused(h, s)
  <2> DEFINE named == m.id # ZeroLenId /\ Terminated(m, more)
  <2>21. m.id = NulId => First(h, NulId) # s
    BY <1>3, <1>5 DEF FreesItself
  <2>1. /\ free = h \/ \E t \in Slot \ {s} : Ended(h, free, t, "dummy")
        /\ Terminated(m, more) /\ OneEach(h) /\ m.id \in ClientId =>
             \A r \in Slot \ {s} : InList(free, r) => free.id[r] # m.id
    <3>1. ZeroLenId \notin ClientId  BY BrokerAssumption
    <3>2. CASE named
      <4>1. free = delete_client_by_id(h, m.id)  BY <3>2
      <4>2. m.id \in ClientId \cup {NulId}  BY <1>2, <3>2
      <4> HIDE DEF free
      <4> QED  BY <2>21, <4>1, <4>2, TakeoverFrees
    <3>3. CASE ~named  BY <3>1, <3>3
    <3> QED  BY <3>2, <3>3
  <2>2. taken = [free EXCEPT !.id[s] = m.id]  BY DEF Takeover
  <2>3. Serving(taken, s) /\ taken.state[s] = "TCP_CONNECTED"
    BY <2>21, TakeoverServing
  <2>4. known = [taken EXCEPT !.will[s] = w]  BY DEF StoreWill
  <2>5. free \in Memory  BY <1>1, <2>1 DEF Ended, Beside
  <2>6. free.state[s] = "TCP_CONNECTED" /\ free.queue[s] = <<>> /\ Tidy(free)
    <3>1. CASE free = h  BY <3>1, <1>1
    <3>2. ASSUME NEW t \in Slot \ {s}, Ended(h, free, t, "dummy")
          PROVE  free.state[s] = "TCP_CONNECTED" /\ free.queue[s] = <<>> /\ Tidy(free)
      <4>1. Tidy(free)  BY <3>2, EndedTidy
      <4>2. free.state[s] = "TCP_CONNECTED"  BY <3>2 DEF Ended, Beside
      <4> QED  BY <4>1, <4>2 DEF Tidy, Ordered, Orderly
    <3> QED  BY <2>1, <3>1, <3>2
  <2> HIDE DEF free, taken, w
  <2>7. taken \in Memory  BY <2>3 DEF Serving, Consistent
  <2>9. Calm(taken, known)
    BY <1>2, <2>4, <2>7, WillSetCalm
  <2> HIDE DEF known
  <2>10. /\ Beside(free, known, s) /\ known.fault = free.fault /\ known.id[s] = m.id
         /\ known.slot = free.slot /\ known.state = free.state /\ known.queue = free.queue
    <3>1. /\ Beside(free, taken, s) /\ taken.fault = free.fault /\ taken.id[s] = m.id
          /\ taken.slot = free.slot /\ taken.state = free.state /\ taken.queue = free.queue
      BY <1>2, <2>2, <2>5, NamedBeside
    <3>2. Aside(taken, known)  BY <1>2, <2>4, <2>7 DEF Memory, Aside
    <3>3. Beside(taken, known, s)  BY <3>2, AsideAdditive, AdditiveBeside
    <3> QED  BY <2>5, <3>1, <3>2, <3>3, BesideTransitive DEF Aside
  <2>11. Serving(known, s) /\ known.state[s] = "TCP_CONNECTED" /\ known.queue[s] = <<>>
    BY <2>3, <2>6, <2>9, <2>10, ServingCalm
  <2>12. known \in Memory  BY <2>10 DEF Beside
  <2>13. /\ Beside(known, mute, s) /\ mute.fault = known.fault /\ mute.id = known.id
         /\ Serving(mute, s) /\ mute.state[s] = "TCP_CONNECTED" /\ mute.queue[s] = <<>>
    <3>1. Calm(known, mute)  BY <2>12, WillSetCalm
    <3>2. Aside(known, mute)  BY <2>12 DEF Memory, Aside
    <3> HIDE DEF mute
    <3>3. Beside(known, mute, s)  BY <3>2, AsideAdditive, AdditiveBeside
    <3>4. Serving(mute, s)  BY <2>11, <3>1, ServingCalm
    <3> QED  BY <2>11, <3>2, <3>3, <3>4 DEF Aside
  <2> HIDE DEF mute
  <2>14. Answered(known, k, s)
    <3>1. CASE k = Refused(mute, s)
      <4>1. Answered(mute, k, s)  BY <2>13, <3>1, ConnectAnswered
      <4>2. Beside(known, k, s)  BY <2>12, <2>13, <4>1, BesideTransitive DEF Answered
      <4> QED  BY <2>13, <4>1, <4>2 DEF Answered
    <3>2. /\ Answered(known, Refused(known, s), s)
          /\ Answered(known, put(full, s, "CONNACK"), s)
          /\ Answered(known, MQTT_server_disconnectClientCon(known, s), s)
      BY <2>11, ConnectAnswered
    <3> HIDE DEF full, k
    <3> QED  BY <1>3, <1>5, <3>1, <3>2
  <2> HIDE DEF full, k
  <2>15. /\ Beside(free, k, s) /\ k.fault = free.fault
         /\ InList(k, s) => k.id[s] = m.id
    BY <2>5, <2>10, <2>14, BesideTransitive DEF Answered
  <2>16. Tidy(k)  BY <2>6, <2>14, <2>15, BesideTidy DEF Answered
  <2>17. \A r \in Slot : k.slot[r] = "dangling" => h.slot[r] = "dangling"
    <3>1. \A r \in Slot : free.slot[r] = "dangling" => h.slot[r] = "dangling"
      BY <2>1 DEF Ended, Beside
    <3> QED  BY <2>14, <2>15, <3>1 DEF Answered, Beside
  <2>18. Terminated(m, more) /\ OneEach(h) => OneEach(k)
    <3> SUFFICES ASSUME Terminated(m, more), OneEach(h) PROVE OneEach(k)  OBVIOUS
    <3>1. OneEach(free)  BY <2>1, <1>1, EndedTidy
    <3>2. InList(k, s) /\ k.id[s] \in ClientId =>
            \A r \in Slot \ {s} : InList(free, r) => free.id[r] # k.id[s]
      BY <2>1, <2>15
    <3> QED  BY <2>15, <3>1, <3>2, BesideOneEach
  <2>19. \A t \in Slot \ {s} : WillHeard(h, k, t)
    <3> SUFFICES ASSUME NEW t \in Slot \ {s} PROVE WillHeard(h, k, t)  OBVIOUS
    <3>1. CASE free = h  BY <2>15, <3>1 DEF Beside, WillHeard
    <3>2. ASSUME NEW t1 \in Slot \ {s}, Ended(h, free, t1, "dummy")
          PROVE  WillHeard(h, k, t)
      <4>1. WillHeard(h, free, t)  BY <3>2, EndedTidy
      <4> DEFINE v == Publication(h.will[t].topic, h.will[t].data)
      <4>2. SUFFICES ASSUME InList(h, t), ~InList(k, t), h.will[t] # None, k.fault = "none",
                            NEW u \in Slot, InList(k, u), Hits(h.subs, u, h.will[t].topic) # {}
                     PROVE  Heard(h.queue[u], k.queue[u], v)
        BY DEF WillHeard
      <4>3. u # s
        <5>1. h.state[u] = "MQTT_DATA"  BY <1>1, <4>2, HitsLive DEF Consistent
        <5> QED  BY <5>1
      <4>4. ~InList(free, t) /\ InList(free, u) /\ free.fault = "none"
        BY <2>15, <4>2, <4>3 DEF Beside
      <4>5. Heard(h.queue[u], free.queue[u], v)  BY <4>1, <4>2, <4>4 DEF WillHeard
      <4>6. Grown(free.state[u], free.queue[u], k.queue[u])  BY <2>15, <4>3 DEF Beside
      <4>7. h.queue[u] \in Queue /\ free.queue[u] \in Queue /\ k.queue[u] \in Queue
        BY <1>1, <2>5, <2>15 DEF Memory, Beside
      <4> HIDE DEF v
      <4> QED  BY <4>5, <4>6, <4>7, HeardGrown
    <3> QED  BY <2>1, <3>1, <3>2
  <2>20. k.fault = h.fault \/ (k.fault = "null_write" /\ \E t \in Slot : Mourns(h, k, t))
    <3>1. CASE free = h  BY <2>15, <3>1
    <3>2. ASSUME NEW t \in Slot \ {s}, Ended(h, free, t, "dummy")
          PROVE  k.fault = h.fault \/ (k.fault = "null_write" /\ Mourns(h, k, t))
      <4>1. free.fault = h.fault \/ (free.fault = "null_write" /\ Mourns(h, free, t))
        BY <3>2 DEF Ended
      <4> QED  BY <2>15, <4>1 DEF Mourns, Beside
    <3> QED  BY <2>1, <3>1, <3>2
  <2> QED
    BY <2>14, <2>15, <2>16, <2>17, <2>18, <2>19, <2>20 DEF Outcome, Answered, Beside, k
<1> QED  BY <1>4, <1>5

-----------------------------------------------------------------------------
(* A message, and what follows it.                                         *)

LEMMA MessageOutcome ==
  ASSUME NEW h, Good(h), Tidy(h), NEW s \in Slot, InList(h, s), NEW m \in Message,
         ~FreesItself(h, s, m), NEW more
  PROVE  LET k == recv_message(h, s, m, more)
         IN  /\ Outcome(h, k, s, m.type = "CONNECT" => Terminated(m, more))
             /\ InList(k, s) \/ k.ev # None
             /\ m.type \notin {"CONNECT", "DISCONNECT"} => WillHeard(h, k, s)
<1> DEFINE k == recv_message(h, s, m, more)
           clean == m.type = "CONNECT" => Terminated(m, more)
           dis == MQTT_server_disconnectClientCon(h, s)
           own == m.type \notin {"CONNECT", "DISCONNECT"}
<1>1. h \in Memory /\ Consistent(h) /\ h.slot[s] = "con"
  BY GoodBut, ListedOwned
<1>2. SUFFICES \/ Served(h, k, s) /\ (own => WillHeard(h, k, s))
               \/ Outcome(h, k, s, clean) /\ (InList(k, s) \/ k.ev # None) /\ ~own
  <2> HIDE DEF k, clean
  <2> QED  BY ServedOutcome DEF Served, k, clean
<1>3. Served(h, dis, s) /\ WillHeard(h, dis, s)
  <2>1. Ended(h, dis, s, "dummy") /\ dis.ev # None  BY <1>1, DisconnectEnded
  <2> HIDE DEF dis
  <2>2. Served(h, dis, s)  BY <2>1, EndedServed
  <2> QED  BY <2>1, <2>2 DEF Ended
<1> HIDE DEF dis
<1>4. Served(h, h, s) /\ WillHeard(h, h, s)
  <2>1. Additive(h, h)  BY <1>1 DEF Additive, Grown
  <2>2. Served(h, h, s)  BY <2>1, AdditiveServed
  <2> QED  BY <2>2 DEF WillHeard
<1>5. Served(h, Hush(h), s) /\ WillHeard(h, Hush(h), s)
  <2>1. Aside(h, Hush(h))  BY <1>1, HushAside
  <2>2. Served(h, Hush(h), s)  BY <2>1, AsideAdditive, AdditiveServed
  <2>3. InList(Hush(h), s)  BY <2>1 DEF Aside, InList
  <2> QED  BY <2>2, <2>3 DEF WillHeard
<1>6. CASE m.type = "TOO_LONG"
  BY <1>3, <1>6 DEF recv_message, dis
<1>7. CASE m.type = "PARTIAL"
  BY <1>5, <1>7 DEF recv_message
<1>8. CASE m.type \notin {"TOO_LONG", "PARTIAL"} /\ h.state[s] = "TCP_CONNECTED"
  <2>1. k = IF m.type = "CONNECT" THEN recv_connect(h, s, m, more) ELSE dis
    BY <1>8 DEF recv_message, dis
  <2>2. CASE m.type = "CONNECT"
    <3>1. k = recv_connect(h, s, m, more)  BY <2>1, <2>2
    <3> HIDE DEF k
    <3>2. Outcome(h, k, s, Terminated(m, more)) /\ (InList(k, s) \/ k.ev # None)
      BY <1>8, <2>2, <3>1, ConnectOutcome
    <3>3. (clean <=> Terminated(m, more)) /\ ~own  BY <2>2
    <3> QED  BY <3>2, <3>3 DEF Outcome
  <2> HIDE DEF k
  <2> QED  BY <1>3, <2>1, <2>2
<1>9. CASE m.type \notin {"TOO_LONG", "PARTIAL"} /\ h.state[s] = "MQTT_DATA"
  <2>1. k = recv_data(h, s, m)  BY <1>9 DEF recv_message
  <2> HIDE DEF k
  <2> QED  BY <1>1, <1>9, <2>1, DataServed
<1>10. CASE /\ m.type \notin {"TOO_LONG", "PARTIAL"}
            /\ h.state[s] \notin {"TCP_CONNECTED", "MQTT_DATA"}
  <2>1. k = h  BY <1>10 DEF recv_message
  <2> HIDE DEF k
  <2> QED  BY <1>4, <2>1
<1> QED  BY <1>6, <1>7, <1>8, <1>9, <1>10

LEMMA AsideTidy ==
  ASSUME NEW h, NEW k, Aside(h, k)
  PROVE  /\ Tidy(h) => Tidy(k)
         /\ \A r : InList(k, r) <=> InList(h, r)
<1>1. \A r : InList(k, r) <=> InList(h, r)  BY DEF Aside, InList
<1> QED  BY <1>1, AsideAdditive, AdditiveTidy

LEMMA AsideOutcome ==
  ASSUME NEW h, NEW k, NEW l, NEW s, NEW clean, Outcome(h, k, s, clean), Aside(k, l)
  PROVE  Outcome(h, l, s, clean)
<1>1. Tidy(l) /\ \A r : InList(l, r) <=> InList(k, r)  BY AsideTidy DEF Outcome
<1>2. OneEach(k) => OneEach(l)  BY <1>1 DEF OneEach, Aside
<1>3. \A t \in Slot \ {s} : WillHeard(h, l, t)
  BY <1>1 DEF Outcome, WillHeard, Aside
<1>4. l.fault = h.fault \/ (l.fault = "null_write" /\ \E t \in Slot : Mourns(h, l, t))
  BY <1>1 DEF Outcome, Mourns, Aside
<1> QED  BY <1>1, <1>2, <1>3, <1>4 DEF Outcome, Aside

(* After a message the turn is handed on, or the next message follows.     *)
LEMMA AfterAside ==
  ASSUME NEW h \in Memory, NEW s \in Slot, NEW m, NEW more, InList(h, s) \/ h.ev # None,
         m.type = "PARTIAL" => Settled(h)
  PROVE  LET k == after_message(h, s, m, more)
         IN  /\ Aside(h, k)
             /\ Settled(k) \/ (more = "next" /\ InList(k, s))
<1> DEFINE alive == [h EXCEPT !.connectionTimeout[s] = KeepTicks]
           k == after_message(h, s, m, more)
<1>1. Aside(h, alive)  BY BrokerAssumption DEF Memory, Aside
<1>2. Aside(h, h)  BY DEF Aside
<1>3. \/ k = h /\ (~InList(h, s) \/ m.type = "PARTIAL")
      \/ k = Hush(alive) \/ k = activate_next_client(alive) \/ k = system_os_post(alive, s)
      \/ k = alive /\ more = "next" /\ InList(h, s)
  BY DEF after_message
<1> HIDE DEF alive, k
<1>4. alive \in Memory  BY <1>1 DEF Aside
<1>5. Aside(alive, Hush(alive)) /\ Settled(Hush(alive))  BY <1>4, HushAside
<1>6. Aside(alive, activate_next_client(alive)) /\ Settled(activate_next_client(alive))
  BY <1>4, ActivateAside
<1>7. Aside(alive, system_os_post(alive, s)) /\ Settled(system_os_post(alive, s))
  BY <1>4, PostAside DEF Settled
<1>8. ~InList(h, s) => Settled(h)  BY DEF Settled
<1>9. InList(h, s) => InList(alive, s)  BY <1>1 DEF Aside, InList
<1>10. \A l : Aside(alive, l) => Aside(h, l)  BY <1>1 DEF Aside
<1> QED  BY <1>1, <1>2, <1>3, <1>5, <1>6, <1>7, <1>8, <1>9, <1>10 DEF k

(* The clients are as they were; a connection or the event may not be.     *)
Alike(h, k) ==
  /\ k \in Memory
  /\ k.slot = h.slot /\ k.state = h.state /\ k.id = h.id /\ k.clist = h.clist
  /\ k.queue = h.queue /\ k.will = h.will /\ k.subs = h.subs
  /\ k.fault = h.fault

(* A connection changes, and nothing else: read, or closed by the peer.    *)
Linked(h, k) ==
  /\ Alike(h, k)
  /\ k.ev = h.ev /\ k.quiet = h.quiet
  /\ \A r \in Slot : h.link[r] = "down" => k.link[r] = "down"

LEMMA LinkedTidy ==
  ASSUME NEW h, NEW k, Linked(h, k)
  PROVE  /\ Tidy(h) => Tidy(k)
         /\ OneEach(h) => OneEach(k)
         /\ Settled(h) => Settled(k)
         /\ \A r : InList(k, r) <=> InList(h, r)
<1>1. \A r : InList(k, r) <=> InList(h, r)  BY DEF Linked, Alike, InList
<1>2. Tidy(h) => Tidy(k)  BY DEF Tidy, Ordered, Vacated, FreeDown, Linked, Alike
<1>3. OneEach(h) => OneEach(k)  BY <1>1 DEF OneEach, Linked, Alike
<1>4. Settled(h) => Settled(k)  BY <1>1 DEF Settled, Linked, Alike, connected
<1> QED  BY <1>1, <1>2, <1>3, <1>4

LEMMA AlikeOutcome ==
  ASSUME NEW h, NEW k, NEW l, NEW s, NEW clean, Alike(h, k), Outcome(k, l, s, clean)
  PROVE  Outcome(h, l, s, clean)
<1>1. \A r : InList(k, r) <=> InList(h, r)  BY DEF Alike, InList
<1>2. OneEach(h) => OneEach(k)  BY <1>1 DEF OneEach, Alike
<1>3. \A t \in Slot \ {s} : WillHeard(h, l, t)
  BY <1>1 DEF Outcome, WillHeard, Alike
<1>4. l.fault = h.fault \/ (l.fault = "null_write" /\ \E t \in Slot : Mourns(h, l, t))
  BY <1>1 DEF Outcome, Mourns, Alike
<1> QED  BY <1>2, <1>3, <1>4 DEF Outcome, Alike

LEMMA LinkSet ==
  ASSUME NEW h \in Memory, NEW s \in Slot, NEW l \in Link, h.link[s] = "down" => l = "down"
  PROVE  Linked(h, [h EXCEPT !.link[s] = l])
<1> DEFINE k == [h EXCEPT !.link[s] = l]
<1>1. /\ k \in Memory /\ k.link = [h.link EXCEPT ![s] = l]
      /\ k.slot = h.slot /\ k.state = h.state /\ k.id = h.id /\ k.clist = h.clist
      /\ k.queue = h.queue /\ k.will = h.will /\ k.subs = h.subs
      /\ k.fault = h.fault /\ k.ev = h.ev /\ k.quiet = h.quiet
  BY DEF Memory
<1>2. h.link \in [Slot -> Link]  BY DEF Memory
<1> HIDE DEF k
<1> QED  BY <1>1, <1>2 DEF Linked, Alike, k

LEMMA ReadLinked ==
  ASSUME NEW h \in Memory, NEW s \in Slot
  PROVE  Linked(h, read(h, s)) /\ Linked(h, stop(h, s))
<1> DEFINE l == IF h.link[s] = "fin" THEN "down" ELSE h.link[s]
<1>1. l \in Link /\ "down" \in Link  BY DEF Memory, Link
<1>2. h.link[s] = "down" => l = "down"  OBVIOUS
<1>3. read(h, s) = [h EXCEPT !.link[s] = l]  BY DEF read, Memory
<1> HIDE DEF l
<1> QED  BY <1>1, <1>2, <1>3, LinkSet DEF stop

(* Nothing is done that any client would notice.                           *)
LEMMA SameOutcome ==
  ASSUME NEW h \in Memory, Tidy(h), NEW s, NEW clean
  PROVE  Outcome(h, h, s, clean)
BY DEF Outcome, WillHeard

(* The broker runs into undefined behaviour and changes nothing else.      *)
Faulted(h, k, f) ==
  /\ k \in Memory /\ k.fault = f /\ Tidy(k)
  /\ \A r \in Slot : k.slot[r] = "dangling" => h.slot[r] = "dangling"
  /\ OneEach(h) => OneEach(k)
  /\ \A r : InList(k, r) <=> InList(h, r)

LEMMA FaultSet ==
  ASSUME NEW h, NEW k, NEW f \in Fault, Linked(h, k), Tidy(h)
  PROVE  Faulted(h, [k EXCEPT !.fault = f], f)
<1> DEFINE l == [k EXCEPT !.fault = f]
<1>1. /\ k \in Memory /\ k.slot = h.slot /\ Tidy(k) /\ (OneEach(h) => OneEach(k))
      /\ \A r : InList(k, r) <=> InList(h, r)
  BY LinkedTidy DEF Linked, Alike
<1>2. /\ l \in Memory /\ l.fault = f
      /\ l.slot = k.slot /\ l.state = k.state /\ l.id = k.id /\ l.clist = k.clist
      /\ l.link = k.link /\ l.queue = k.queue
  BY <1>1 DEF Memory
<1> HIDE DEF l
<1>3. Additive(k, l)  BY <1>2 DEF Additive, Grown
<1>4. Tidy(l) /\ (OneEach(k) => OneEach(l)) /\ \A r : InList(l, r) <=> InList(k, r)
  BY <1>1, <1>3, AdditiveTidy
<1> QED  BY <1>1, <1>2, <1>4 DEF Faulted, l

(* Data for a connection whose client is gone, and the messages of the     *)
(* others.                                                                 *)
Unguarded(m) == m.type = "OVERRUN" \/ (m.type = "CONNECT" /\ m.id = NulId)

Receipt(h, k, s, m, more) ==
  \/ /\ Outcome(h, k, s, m.type = "CONNECT" => Terminated(m, more))
     /\ Settled(k) \/ (more = "next" /\ InList(k, s))
     /\ m.type \notin {"CONNECT", "DISCONNECT"} => WillHeard(h, k, s)
  \/ /\ ~InList(h, s) /\ h.slot[s] # "null"
     /\ Faulted(h, k, "null_write")
  \/ /\ InList(h, s) /\ Unguarded(m)
     /\ Faulted(h, k, "misread")

LEMMA ReceiveOutcome ==
  ASSUME NEW h, Good(h), Tidy(h), NEW s \in Slot, NEW m \in Message, NEW more,
         Settled(h) \/ InList(h, s)
  PROVE  Receipt(h, MQTT_ClientCon_recv_cb(read(h, s), s, m, more), s, m, more)
<1> DEFINE r == read(h, s)
           k == MQTT_ClientCon_recv_cb(r, s, m, more)
           clean == m.type = "CONNECT" => Terminated(m, more)
<1>1. h \in Memory /\ ListIsOwned(h)  BY DEF Good, Consistent
<1>2. Linked(h, r) /\ Calm(h, r)  BY <1>1, ReadLinked, ReadCalm
<1> HIDE DEF r
<1>3. Good(r) /\ r \in Memory  BY <1>2, CalmGood DEF Calm
<1>4. Tidy(r) /\ (InList(r, s) <=> InList(h, s)) /\ r.slot = h.slot
  BY <1>2, LinkedTidy DEF Linked, Alike
<1>5. CASE h.slot[s] = "null"
  <2>1. k = r  BY <1>4, <1>5 DEF MQTT_ClientCon_recv_cb
  <2>2. ~InList(h, s)  BY <1>1, <1>5 DEF ListIsOwned
  <2>3. Settled(r)  BY <1>2, <2>2, LinkedTidy
  <2> HIDE DEF k, clean
  <2>4. Outcome(h, r, s, clean)  BY <1>2, <1>3, <1>4, SameOutcome, AlikeOutcome DEF Linked
  <2> QED  BY <2>1, <2>2, <2>3, <2>4 DEF k, clean, r, WillHeard, Receipt
<1>6. CASE h.slot[s] # "null" /\ InList(h, s) /\ ~Misreads(r, s, m)
  <2> DEFINE done == recv_message(r, s, m, more)
  <2>1. k = after_message(done, s, m, more)
    BY <1>4, <1>6 DEF MQTT_ClientCon_recv_cb
  <2>2. /\ Outcome(r, done, s, clean) /\ (InList(done, s) \/ done.ev # None)
        /\ m.type \notin {"CONNECT", "DISCONNECT"} => WillHeard(r, done, s)
    BY <1>3, <1>4, <1>6, MessageOutcome DEF Misreads
  <2>3. m.type = "PARTIAL" => Settled(done)
    <3> SUFFICES ASSUME m.type = "PARTIAL" PROVE Settled(done)  OBVIOUS
    <3>1. done = Hush(r)  BY DEF recv_message
    <3> HIDE DEF done
    <3> QED  BY <1>3, <3>1, HushAside
  <2> HIDE DEF done, k, clean
  <2>4. done \in Memory  BY <2>2 DEF Outcome
  <2>5. Aside(done, k) /\ (Settled(k) \/ (more = "next" /\ InList(k, s)))
    BY <2>1, <2>2, <2>3, <2>4, AfterAside
  <2>6. Outcome(h, k, s, clean)
    BY <1>2, <2>2, <2>5, AsideOutcome, AlikeOutcome DEF Linked
  <2>7. WillHeard(r, done, s) => WillHeard(h, k, s)
    <3>1. \A t : InList(k, t) <=> InList(done, t)  BY <2>5 DEF Aside, InList
    <3>2. \A t : InList(r, t) <=> InList(h, t)  BY <1>2, LinkedTidy
    <3>3. k.queue = done.queue /\ k.fault = done.fault  BY <2>5 DEF Aside
    <3>4. r.will = h.will /\ r.subs = h.subs /\ r.queue = h.queue
      BY <1>2 DEF Linked, Alike
    <3> QED  BY <3>1, <3>2, <3>3, <3>4 DEF WillHeard
  <2> QED  BY <2>2, <2>5, <2>6, <2>7 DEF k, clean, r, Receipt
<1>7. CASE h.slot[s] # "null" /\ ~InList(h, s)
  <2>1. k = [r EXCEPT !.fault = "null_write"]
    BY <1>4, <1>7 DEF MQTT_ClientCon_recv_cb
  <2> HIDE DEF k
  <2>2. "null_write" \in Fault  BY DEF Fault
  <2>3. Faulted(h, [r EXCEPT !.fault = "null_write"], "null_write")  BY <1>2, <2>2, FaultSet
  <2>4. Faulted(h, k, "null_write")  BY <2>1, <2>3, Zenon
  <2> QED  BY <1>7, <2>4 DEF k, r, Receipt
<1>8. CASE h.slot[s] # "null" /\ InList(h, s) /\ Misreads(r, s, m)
  <2>1. k = [r EXCEPT !.fault = "misread"]
    BY <1>4, <1>8 DEF MQTT_ClientCon_recv_cb
  <2> HIDE DEF k
  <2>2. "misread" \in Fault  BY DEF Fault
  <2>3. Faulted(h, [r EXCEPT !.fault = "misread"], "misread")  BY <1>2, <2>2, FaultSet
  <2>4. Faulted(h, k, "misread")  BY <2>1, <2>3, Zenon
  <2>5. Unguarded(m)  BY <1>8 DEF Misreads, Overruns, FreesItself, Unguarded
  <2> QED  BY <1>8, <2>4, <2>5 DEF k, r, Receipt
<1> QED  BY <1>5, <1>6, <1>7, <1>8

-----------------------------------------------------------------------------
(* What the other handlers are made of.                                    *)

LEMMA BesideOutcome ==
  ASSUME NEW h, Tidy(h), NEW k, NEW s \in Slot, Beside(h, k, s), TidyAt(k, s),
         k.slot[s] = "dangling" => h.slot[s] = "dangling",
         InList(k, s) => (InList(h, s) /\ k.id[s] = h.id[s]) \/ k.id[s] \notin ClientId,
         InList(h, s) => InList(k, s),
         k.fault = h.fault, NEW x, NEW clean
  PROVE  Outcome(h, k, x, clean)
<1>1. Tidy(k)  BY BesideTidy
<1>2. \A r \in Slot : k.slot[r] = "dangling" => h.slot[r] = "dangling"  BY DEF Beside
<1>3. OneEach(h) => OneEach(k)  BY BesideOneEach DEF OneEach
<1>4. \A t \in Slot : WillHeard(h, k, t)  BY DEF Beside, WillHeard
<1> QED  BY <1>1, <1>2, <1>3, <1>4 DEF Outcome, Beside

LEMMA AdditiveOutcome ==
  ASSUME NEW h, Tidy(h), NEW k, Additive(h, k), k.fault = h.fault, NEW x, NEW clean
  PROVE  Outcome(h, k, x, clean)
<1>1. Tidy(k) /\ (OneEach(h) => OneEach(k)) /\ \A s : InList(k, s) <=> InList(h, s)
  BY AdditiveTidy
<1>2. \A t \in Slot : WillHeard(h, k, t)  BY <1>1 DEF WillHeard
<1> QED  BY <1>1, <1>2 DEF Outcome, Additive

(* What a handler does to the timeouts and the queue of client s before    *)
(* anything else.                                                          *)
Prelude(h, g, s) ==
  /\ g \in Memory
  /\ g.slot = h.slot /\ g.state = h.state /\ g.id = h.id /\ g.clist = h.clist
  /\ g.link = h.link /\ g.will = h.will /\ g.subs = h.subs /\ g.fault = h.fault
  /\ \A r \in Slot \ {s} : g.queue[r] = h.queue[r]

LEMMA PreludeOutcome ==
  ASSUME NEW h, Tidy(h), NEW g, NEW s \in Slot, Prelude(h, g, s),
         Orderly(h.state[s], g.queue[s]), NEW x, NEW clean
  PROVE  Tidy(g) /\ Outcome(h, g, x, clean)
<1>1. \A r : InList(g, r) <=> InList(h, r)  BY DEF Prelude, InList
<1>2. Beside(h, g, s)  BY <1>1 DEF Beside, Prelude, Grown
<1>3. TidyAt(g, s)
  <2>1. TidyAt(h, s)  BY TidyEverywhere
  <2> QED  BY <2>1 DEF TidyAt, Prelude
<1>4. Outcome(h, g, x, clean)
  BY <1>1, <1>2, <1>3, BesideOutcome DEF Prelude
<1> QED  BY <1>4 DEF Outcome

(* And when client s ends after that, all others have heard its will.      *)
LEMMA PreludeEnded ==
  ASSUME NEW h, Tidy(h), NEW g, NEW s \in Slot, Prelude(h, g, s),
         Orderly(h.state[s], g.queue[s]), NEW k, Ended(g, k, s, "dummy"), NEW x, NEW clean
  PROVE  Outcome(h, k, x, clean)
<1>1. \A r : InList(g, r) <=> InList(h, r)  BY DEF Prelude, InList
<1>2. Tidy(g)  BY PreludeOutcome
<1>3. Tidy(k) /\ (OneEach(g) => OneEach(k)) /\ \A t \in Slot : WillHeard(g, k, t)
  BY <1>2, EndedTidy
<1>4. OneEach(h) => OneEach(g)  BY <1>1 DEF OneEach, Prelude
<1>5. ASSUME NEW t \in Slot PROVE WillHeard(h, k, t)
  <2> DEFINE v == Publication(h.will[t].topic, h.will[t].data)
  <2>1. SUFFICES ASSUME InList(h, t), ~InList(k, t), h.will[t] # None, k.fault = "none",
                        NEW u \in Slot, InList(k, u), Hits(h.subs, u, h.will[t].topic) # {}
                 PROVE  Heard(h.queue[u], k.queue[u], v)
    BY DEF WillHeard
  <2>2. u # s  BY <2>1 DEF Ended
  <2>3. Heard(g.queue[u], k.queue[u], v)
    BY <1>1, <1>3, <2>1 DEF WillHeard, Prelude
  <2> QED  BY <2>2, <2>3 DEF Prelude
<1>6. k.fault = h.fault \/ (k.fault = "null_write" /\ Mourns(h, k, s))
  BY <1>1 DEF Ended, Prelude, Mourns
<1>7. \A r \in Slot : k.slot[r] = "dangling" => h.slot[r] = "dangling"
  BY DEF Ended, Beside, Prelude
<1> QED  BY <1>3, <1>4, <1>5, <1>6, <1>7 DEF Outcome, Ended, Beside

(* The slot is given back; its client state has gone before.               *)
LEMMA SlotFreed ==
  ASSUME NEW g \in Memory, NEW s \in Slot, Tidy(g), g.state[s] = "NONE", g.link[s] = "down"
  PROVE  LET k == [g EXCEPT !.slot[s] = "free", !.doomed[s] = FALSE]
         IN  /\ k \in Memory /\ Tidy(k) /\ k.slot = [g.slot EXCEPT ![s] = "free"]
             /\ k.state = g.state /\ k.id = g.id /\ k.clist = g.clist /\ k.link = g.link
             /\ k.queue = g.queue /\ k.fault = g.fault /\ k.ev = g.ev /\ k.quiet = g.quiet
<1> DEFINE k == [g EXCEPT !.slot[s] = "free", !.doomed[s] = FALSE]
<1>1. /\ k \in Memory /\ k.slot = [g.slot EXCEPT ![s] = "free"]
      /\ k.state = g.state /\ k.id = g.id /\ k.clist = g.clist /\ k.link = g.link
      /\ k.queue = g.queue /\ k.fault = g.fault /\ k.ev = g.ev /\ k.quiet = g.quiet
  BY DEF Memory, SlotKind
<1>2. g.slot \in [Slot -> SlotKind]  BY DEF Memory
<1> HIDE DEF k
<1>3. Tidy(k)
  BY <1>1, <1>2 DEF Tidy, Ordered, Vacated, FreeDown
<1> QED  BY <1>1, <1>3 DEF k

LEMMA FreedOutcome ==
  ASSUME NEW h, NEW g, NEW s \in Slot, NEW k, h \in Memory, g \in Memory,
         k \in Memory, Tidy(k), k.slot = [g.slot EXCEPT ![s] = "free"],
         k.id = g.id, k.clist = g.clist, k.queue = g.queue, k.fault = g.fault,
         \A r \in Slot \ {s} : g.slot[r] = "dangling" => h.slot[r] = "dangling",
         OneEach(h) => OneEach(g),
         \A t \in Slot : WillHeard(h, g, t),
         g.fault = h.fault \/ (g.fault = "null_write" /\ \E t \in Slot : Mourns(h, g, t)),
         NEW x, NEW clean
  PROVE  Outcome(h, k, x, clean)
<1>1. \A r : InList(k, r) <=> InList(g, r)  BY DEF InList
<1>2. g.slot \in [Slot -> SlotKind]  BY DEF Memory
<1>3. \A r \in Slot : k.slot[r] = "dangling" => h.slot[r] = "dangling"  BY <1>2
<1>4. OneEach(h) => OneEach(k)  BY <1>1 DEF OneEach
<1>5. \A t \in Slot : WillHeard(h, k, t)  BY <1>1 DEF WillHeard
<1>6. k.fault = h.fault \/ (k.fault = "null_write" /\ \E t \in Slot : Mourns(h, k, t))
  BY <1>1 DEF Mourns
<1> QED  BY <1>3, <1>4, <1>5, <1>6 DEF Outcome

-----------------------------------------------------------------------------
(* The specification.                                                      *)

(* A CONNECT never leaves its client identifier unterminated in the buffer.*)
NamesTerminated ==
  \A m \in Input, more \in Chaining : m.type = "CONNECT" => Terminated(m, more)

(* SafeInv is inductive.  The properties alone are not: that a queue is    *)
(* empty when a connection is accepted is known only because its slot was  *)
(* vacated, that data found in a free slot is no case because its link is  *)
(* down, and that the turn was handed on because a callback that still has *)
(* messages to handle is one for a client in the list.                     *)
PacketListed == busy = "packet" => pos \in Slot /\ InList(srv, pos)
TurnHandedOn == busy # "packet" /\ srv.fault = "none" => Settled(srv)

SafeInv == IInv /\ Tidy(srv) /\ PacketListed /\ TurnHandedOn

(* What a step may do to the fault.                                        *)
FaultStep ==
  \/ srv'.fault \in {srv.fault, "none"}
  \/ srv'.fault = "double_free" /\ pos \in Slot /\ srv.slot[pos] = "dangling"
  \/ srv'.fault = "stale_event" /\ srv.ev = Stale
  \/ srv'.fault = "null_write" /\ pos \in Slot /\ Lingers(pos)
  \/ srv'.fault = "null_write" /\ \E s \in Slot : MournsItself(s)
  \/ srv'.fault = "misread" /\ \E s \in Slot : Handles(s, Unchecked)

(* What every step does.                                                   *)
SafeStep ==
  /\ Tidy(srv') /\ PacketListed' /\ TurnHandedOn'
  /\ NamesTerminated /\ OneEach(srv) => OneEach(srv')
  /\ \A t \in Slot : WillHeard(srv, srv', t) \/ LeavesItself(t)
  /\ \A r \in Slot : srv'.slot[r] = "dangling" => srv.slot[r] = "dangling" \/ busy = "cleanup"
  /\ FaultStep

LEMMA MournsStep ==
  ASSUME NEW t \in Slot
  PROVE  Mourns(srv, srv', t) <=> MournsItself(t)
BY DEF Mourns, MournsItself

(* A handler that is not one of a message.                                 *)
LEMMA OutcomeStep ==
  ASSUME Outcome(srv, srv', None, TRUE), busy' # "packet", Settled(srv')
  PROVE  SafeStep
<1>1. \A t \in Slot : t # None  BY BrokerAssumption
<1>2. \A t \in Slot : WillHeard(srv, srv', t)  BY <1>1 DEF Outcome
<1>3. FaultStep  BY MournsStep DEF Outcome, FaultStep
<1>4. Tidy(srv') /\ (OneEach(srv) => OneEach(srv'))
      /\ \A r \in Slot : srv'.slot[r] = "dangling" => srv.slot[r] = "dangling"
  BY DEF Outcome
<1>5. PacketListed' /\ TurnHandedOn'  BY DEF PacketListed, TurnHandedOn
<1> QED  BY <1>2, <1>3, <1>4, <1>5 DEF SafeStep

LEMMA FaultedStep ==
  ASSUME NEW f \in Fault \ {"none"},
         Faulted(srv, srv', f), FaultStep, PacketListed'
  PROVE  SafeStep
<1>1. \A t \in Slot : WillHeard(srv, srv', t)  BY DEF Faulted, WillHeard
<1>2. TurnHandedOn'  BY DEF TurnHandedOn, Faulted
<1> QED  BY <1>1, <1>2 DEF SafeStep, Faulted

LEMMA SafeFacts ==
  ASSUME SafeInv
  PROVE  /\ Good(srv) /\ Consistent(srv) /\ srv \in Memory /\ Tidy(srv)
         /\ srv.fault = "none" /\ busy # "packet" => Settled(srv)
BY DEF SafeInv, IInv, Good, Consistent, TurnHandedOn

(* A step that leaves the memory as it is.                                 *)
LEMMA IdleStep ==
  ASSUME SafeInv, srv' = srv, srv.fault = "none", busy # "packet", busy' # "packet"
  PROVE  SafeStep
<1>1. Outcome(srv, srv, None, TRUE)  BY SafeFacts, SameOutcome
<1>2. Settled(srv)  BY SafeFacts
<1> QED  BY <1>1, <1>2, OutcomeStep

-----------------------------------------------------------------------------
(* The loop's steps.                                                       *)

LEMMA ReceiveSafe ==
  ASSUME SafeInv, NEW s \in Slot, Receive(s)
  PROVE  SafeStep
<1>1. Good(srv) /\ srv \in Memory /\ Tidy(srv) /\ Consistent(srv)  BY SafeFacts
<1>2. PICK m \in Input, more \in Chaining :
        /\ srv' = MQTT_ClientCon_recv_cb(read(srv, s), s, m, more)
        /\ IF more = "next" /\ InList(srv', s) /\ srv'.slot[s] = "con"
           THEN busy' = "packet" /\ UNCHANGED pos
           ELSE busy' = "no" /\ Onward
  BY DEF Receive
<1>3. m \in Message  BY InputAssumption
<1>4. pos = s /\ srv.fault = "none" /\ (busy = "packet" \/ HasMessage(srv, s))
  BY DEF Receive
<1>5. Settled(srv) \/ InList(srv, s)  BY <1>4 DEF SafeInv, PacketListed, TurnHandedOn
<1>6. Good(srv')  BY ReceiveStep DEF SafeInv
<1>7. InList(srv', s) => srv'.slot[s] = "con"  BY <1>6, ListedOwned DEF Good
<1> DEFINE clean == m.type = "CONNECT" => Terminated(m, more)
<1>12. Receipt(srv, srv', s, m, more)
  BY <1>1, <1>2, <1>3, <1>5, ReceiveOutcome, Zenon
<1>8. \/ /\ Outcome(srv, srv', s, clean)
         /\ Settled(srv') \/ (more = "next" /\ InList(srv', s))
         /\ m.type \notin {"CONNECT", "DISCONNECT"} => WillHeard(srv, srv', s)
      \/ /\ ~InList(srv, s) /\ srv.slot[s] # "null"
         /\ Faulted(srv, srv', "null_write")
      \/ /\ InList(srv, s) /\ Unguarded(m)
         /\ Faulted(srv, srv', "misread")
  BY <1>12 DEF Receipt
<1>9. CASE /\ Outcome(srv, srv', s, clean)
           /\ Settled(srv') \/ (more = "next" /\ InList(srv', s))
           /\ m.type \notin {"CONNECT", "DISCONNECT"} => WillHeard(srv, srv', s)
  <2>1. PacketListed'
    <3>1. CASE busy' = "packet"  BY <1>2, <1>4, <3>1 DEF PacketListed
    <3>2. CASE busy' # "packet"  BY <3>2 DEF PacketListed
    <3> QED  BY <3>1, <3>2
  <2>2. TurnHandedOn'  BY <1>2, <1>7, <1>9 DEF TurnHandedOn
  <2>3. NamesTerminated => clean  BY DEF NamesTerminated
  <2> HIDE DEF clean
  <2>4. ASSUME NEW t \in Slot PROVE WillHeard(srv, srv', t) \/ LeavesItself(t)
    <3>1. CASE t # s  BY <1>9, <3>1 DEF Outcome
    <3>2. CASE t = s /\ m.type \notin {"CONNECT", "DISCONNECT"}  BY <1>9, <3>2
    <3>3. CASE t = s /\ m.type \in {"CONNECT", "DISCONNECT"}
      BY <1>2, <1>4, <3>3 DEF LeavesItself, Handles
    <3> QED  BY <3>1, <3>2, <3>3, <1>9
  <2>5. FaultStep  BY <1>9, MournsStep DEF Outcome, FaultStep
  <2> QED  BY <1>9, <2>1, <2>2, <2>3, <2>4, <2>5 DEF SafeStep, Outcome
<1>10. CASE /\ ~InList(srv, s) /\ srv.slot[s] # "null"
            /\ Faulted(srv, srv', "null_write")
  <2>1. HasMessage(srv, s)  BY <1>4, <1>10 DEF SafeInv, PacketListed
  <2>2. srv.slot[s] # "free"  BY <1>1, <2>1 DEF Tidy, FreeDown, HasMessage
  <2>3. srv.slot[s] = "con" => srv.state[s] = "TCP_DISCONNECT"
    BY <1>1, <1>10 DEF Consistent, ListIsOwned
  <2>4. srv.slot[s] \in SlotKind  BY <1>1 DEF Memory
  <2>5. Lingers(s)  BY <1>10, <2>2, <2>3, <2>4 DEF Lingers, SlotKind
  <2>6. FaultStep  BY <1>4, <1>10, <2>5 DEF FaultStep, Faulted
  <2>7. ~InList(srv', s)  BY <1>10 DEF Faulted
  <2>8. PacketListed'  BY <1>2, <2>7 DEF PacketListed
  <2> QED  BY <1>10, <2>6, <2>8, FaultedStep DEF Fault
<1>11. CASE /\ InList(srv, s) /\ Unguarded(m)
            /\ Faulted(srv, srv', "misread")
  <2>1. m \in Unchecked  BY <1>11 DEF Unchecked, Unguarded
  <2>2. Handles(s, Unchecked)  BY <1>2, <1>4, <2>1 DEF Handles
  <2>3. FaultStep  BY <1>11, <2>2 DEF FaultStep, Faulted
  <2>4. InList(srv', s)  BY <1>11 DEF Faulted
  <2>5. PacketListed'  BY <1>2, <1>4, <2>4 DEF PacketListed
  <2> QED  BY <1>11, <2>3, <2>5, FaultedStep DEF Fault
<1> QED  BY <1>8, <1>9, <1>10, <1>11

(* A slot is taken; whoever was in it before has left nothing behind.      *)
LEMMA AcceptedOutcome ==
  ASSUME NEW h, Good(h), Tidy(h), NEW s \in Slot, h.slot[s] = "free", NEW k, k \in Memory,
         \A r \in Slot \ {s} : /\ k.slot[r] = h.slot[r] /\ k.state[r] = h.state[r]
                               /\ k.id[r] = h.id[r] /\ k.link[r] = h.link[r],
         k.queue = h.queue, k.fault = h.fault,
         k.slot[s] = "con" \/ (k.slot[s] = "null" /\ k.state[s] = "NONE"),
         k.state[s] \in {"NONE", "TCP_DISCONNECT", "TCP_CONNECTED"},
         \A r \in Slot \ {s} : InList(k, r) <=> InList(h, r),
         InList(k, s) => k.id[s] \notin ClientId
  PROVE  Outcome(h, k, None, TRUE)
<1>1. h.queue[s] = <<>> /\ h.state[s] = "NONE"  BY DEF Tidy, Ordered, Vacated, Orderly
<1>2. ~InList(h, s)  BY <1>1 DEF Good, Consistent, ListIsOwned
<1>3. Beside(h, k, s)  BY DEF Beside, Grown
<1>4. TidyAt(k, s)  BY <1>1 DEF TidyAt, Orderly
<1>5. Outcome(h, k, None, TRUE)  BY <1>2, <1>3, <1>4, BesideOutcome
<1> QED  BY <1>5

LEMMA NoStateOutcome ==
  ASSUME NEW h, Good(h), Tidy(h), Settled(h), NEW s \in Slot, h.slot[s] = "free"
  PROVE  LET k == [h EXCEPT !.link[s] = "up", !.slot[s] = "null"]
         IN  Outcome(h, k, None, TRUE) /\ Settled(k)
<1> DEFINE k == [h EXCEPT !.link[s] = "up", !.slot[s] = "null"]
<1>1. h \in Memory  BY DEF Good, Consistent
<1>2. /\ k \in Memory /\ k.slot = [h.slot EXCEPT ![s] = "null"]
      /\ k.link = [h.link EXCEPT ![s] = "up"]
      /\ k.state = h.state /\ k.id = h.id /\ k.clist = h.clist
      /\ k.queue = h.queue /\ k.fault = h.fault /\ k.ev = h.ev /\ k.quiet = h.quiet
  BY <1>1 DEF Memory, SlotKind, Link
<1> HIDE DEF k
<1>3. \A r : InList(k, r) <=> InList(h, r)  BY <1>2 DEF InList
<1>4. h.slot \in [Slot -> SlotKind] /\ h.link \in [Slot -> Link]  BY <1>1 DEF Memory
<1>5. h.state[s] = "NONE" /\ h.queue[s] = <<>>  BY DEF Tidy, Ordered, Vacated, Orderly
<1>6. ~InList(k, s)  BY <1>3, <1>5 DEF Good, Consistent, ListIsOwned
<1>7. Outcome(h, k, None, TRUE)
  <2>1. /\ \A r \in Slot \ {s} : /\ k.slot[r] = h.slot[r] /\ k.state[r] = h.state[r]
                                /\ k.id[r] = h.id[r] /\ k.link[r] = h.link[r]
        /\ k.slot[s] = "null" /\ k.state[s] = "NONE"
    BY <1>2, <1>4, <1>5
  <2> QED  BY <1>2, <1>3, <1>6, <2>1, AcceptedOutcome
<1>8. Settled(k)
  <2>1. \A r \in Slot : InList(k, r) /\ connected(k, r) => InList(h, r) /\ connected(h, r)
    BY <1>2, <1>3, <1>4, <1>6 DEF connected
  <2> QED  BY <1>2, <2>1 DEF Settled
<1> QED  BY <1>7, <1>8 DEF k

LEMMA RefuseOutcome ==
  ASSUME NEW h, Good(h), Tidy(h), NEW s \in Slot, h.slot[s] = "free", NEW reuse \in BOOLEAN
  PROVE  LET k == Refuse(zalloc([h EXCEPT !.link[s] = "up"], s, reuse), s)
         IN  Outcome(h, k, None, TRUE) /\ Settled(k)
<1> DEFINE k == Refuse(zalloc([h EXCEPT !.link[s] = "up"], s, reuse), s)
           m1 == [h EXCEPT !.link[s] = "up", !.slot[s] = "con", !.ev = IF reuse THEN s ELSE @]
           m2 == [m1 EXCEPT !.state[s] = "TCP_DISCONNECT"]
<1>1. h \in Memory  BY DEF Good, Consistent
<1>2. /\ m1 \in Memory /\ m1.slot = [h.slot EXCEPT ![s] = "con"]
      /\ m1.link = [h.link EXCEPT ![s] = "up"]
      /\ m1.state = h.state /\ m1.id = h.id /\ m1.clist = h.clist
      /\ m1.queue = h.queue /\ m1.fault = h.fault
  BY <1>1 DEF Memory, SlotKind, Link
<1>3. k = system_os_post(m2, s)  BY DEF Refuse, zalloc
<1> HIDE DEF m1
<1>4. /\ m2 \in Memory /\ m2.state = [h.state EXCEPT ![s] = "TCP_DISCONNECT"]
      /\ m2.slot = m1.slot /\ m2.link = m1.link /\ m2.id = m1.id /\ m2.clist = m1.clist
      /\ m2.queue = m1.queue /\ m2.fault = m1.fault
  BY <1>2 DEF Memory, ConnState
<1> HIDE DEF m2
<1>5. LET p == system_os_post(m2, s) IN Aside(m2, p) /\ p.ev # None
  BY <1>4, PostAside
<1>6. Aside(m2, k) /\ k.ev # None  BY <1>3, <1>5
<1> HIDE DEF k
<1>7. /\ k \in Memory /\ k.slot = [h.slot EXCEPT ![s] = "con"]
      /\ k.link = [h.link EXCEPT ![s] = "up"]
      /\ k.state = [h.state EXCEPT ![s] = "TCP_DISCONNECT"]
      /\ k.id = h.id /\ k.clist = h.clist /\ k.queue = h.queue /\ k.fault = h.fault
  BY <1>2, <1>4, <1>6 DEF Aside
<1>8. /\ h.slot \in [Slot -> SlotKind] /\ h.link \in [Slot -> Link]
      /\ h.state \in [Slot -> ConnState]
  BY <1>1 DEF Memory
<1>9. \A r : InList(k, r) <=> InList(h, r)  BY <1>7 DEF InList
<1>10. ~InList(k, s)  BY <1>9 DEF Good, Consistent, ListIsOwned
<1>11. /\ \A r \in Slot \ {s} : /\ k.slot[r] = h.slot[r] /\ k.state[r] = h.state[r]
                                /\ k.id[r] = h.id[r] /\ k.link[r] = h.link[r]
       /\ k.slot[s] = "con" /\ k.state[s] = "TCP_DISCONNECT"
  BY <1>7, <1>8
<1>12. Outcome(h, k, None, TRUE)  BY <1>7, <1>9, <1>10, <1>11, AcceptedOutcome
<1>13. Settled(k)  BY <1>6 DEF Settled
<1> QED  BY <1>12, <1>13 DEF k

LEMMA InitClientOutcome ==
  ASSUME NEW h, Good(h), Tidy(h), Settled(h), NEW s \in Slot, h.slot[s] = "free",
         NEW reuse \in BOOLEAN
  PROVE  LET k == MQTT_server_initClientCon(zalloc([h EXCEPT !.link[s] = "up"], s, reuse), s)
         IN  Outcome(h, k, None, TRUE) /\ Settled(k)
<1> DEFINE list == <<s>> \o h.clist
           z == zalloc([h EXCEPT !.link[s] = "up"], s, reuse)
           k == MQTT_server_initClientCon(z, s)
<1>1. h \in Memory  BY DEF Good, Consistent
<1>2. /\ z \in Memory /\ z.slot = [h.slot EXCEPT ![s] = "con"]
      /\ z.link = [h.link EXCEPT ![s] = "up"]
      /\ z.state = h.state /\ z.id = h.id /\ z.clist = h.clist /\ z.queue = h.queue
      /\ z.fault = h.fault /\ z.quiet = h.quiet /\ z.ev = IF reuse THEN s ELSE h.ev
  BY <1>1 DEF Memory, SlotKind, Link, zalloc
<1>3. Good(k)  BY InitClientGood
<1>4. k \in Memory  BY <1>3 DEF Good, Consistent
<1> HIDE DEF z
<1>5. /\ k.state = [h.state EXCEPT ![s] = "TCP_CONNECTED"]
      /\ k.id = [h.id EXCEPT ![s] = ZeroLenId]
      /\ k.clist = list
      /\ k.slot = z.slot /\ k.link = z.link /\ k.queue = z.queue
      /\ k.fault = z.fault /\ k.quiet = z.quiet /\ k.ev = z.ev
  BY <1>2 DEF MQTT_server_initClientCon, Memory
<1> HIDE DEF k, list
<1>6. /\ h.slot \in [Slot -> SlotKind] /\ h.link \in [Slot -> Link]
      /\ h.state \in [Slot -> ConnState]
      /\ h.id \in [Slot -> ClientId \cup {ZeroLenId, NulId, None}]
  BY <1>1 DEF Memory
<1>7. /\ \A r \in Slot \ {s} : /\ k.slot[r] = h.slot[r] /\ k.state[r] = h.state[r]
                               /\ k.id[r] = h.id[r] /\ k.link[r] = h.link[r]
      /\ k.slot[s] = "con" /\ k.state[s] = "TCP_CONNECTED" /\ k.id[s] = ZeroLenId
      /\ k.queue = h.queue /\ k.fault = h.fault
      /\ k.quiet = h.quiet /\ k.ev = IF reuse THEN s ELSE h.ev
  BY <1>2, <1>5, <1>6
<1>8. \A r \in Slot : InList(k, r) <=> k.slot[r] = "con" /\ k.state[r] # "TCP_DISCONNECT"
  BY <1>3 DEF Good, Consistent, ListIsOwned
<1>9. \A r \in Slot : InList(h, r) <=> h.slot[r] = "con" /\ h.state[r] # "TCP_DISCONNECT"
  BY DEF Good, Consistent, ListIsOwned
<1>10. \A r \in Slot \ {s} : InList(k, r) <=> InList(h, r)  BY <1>7, <1>8, <1>9
<1>11. k.id[s] \notin ClientId  BY <1>7, BrokerAssumption
<1>12. Outcome(h, k, None, TRUE)  BY <1>4, <1>7, <1>10, <1>11, AcceptedOutcome
<1>13. Settled(k)
  <2> SUFFICES ASSUME k.ev = None, ~k.quiet, NEW r \in Slot, InList(k, r), connected(k, r)
               PROVE  k.queue[r] = <<>>
    BY DEF Settled
  <2>1. s # None  BY BrokerAssumption
  <2>2. h.ev = None /\ ~h.quiet  BY <1>7, <2>1
  <2>3. CASE r = s  BY <1>7, <2>3 DEF Tidy, Ordered, Vacated, Orderly
  <2>4. CASE r # s  BY <1>7, <1>10, <2>2, <2>4 DEF Settled, connected
  <2> QED  BY <2>3, <2>4
<1> QED  BY <1>12, <1>13 DEF k, z

LEMMA AcceptSafe ==
  ASSUME SafeInv, Accept
  PROVE  SafeStep
<1> DEFINE s == Lowest(FreeSlots)
           up == [srv EXCEPT !.link[s] = "up"]
<1>1. s \in Slot /\ srv.slot[s] = "free"
  <2>1. FreeSlots # {}  BY DEF Accept
  <2>2. FreeSlots \subseteq Nat  BY DEF FreeSlots, Slot
  <2>3. s \in FreeSlots  BY <2>1, <2>2, LowestProperties
  <2> QED  BY <2>3 DEF FreeSlots
<1>2. Good(srv) /\ Tidy(srv)  BY SafeFacts
<1>3. busy' # "packet" /\ Settled(srv)  BY SafeFacts DEF Accept, Idle
<1>4. \/ srv' = [up EXCEPT !.slot[s] = "null"]
      \/ \E reuse \in BOOLEAN :
           \/ srv' = Refuse(zalloc(up, s, reuse), s)
           \/ srv' = MQTT_server_initClientCon(zalloc(up, s, reuse), s)
  BY DEF Accept
<1> HIDE DEF s
<1>5. [up EXCEPT !.slot[s] = "null"] = [srv EXCEPT !.link[s] = "up", !.slot[s] = "null"]
  OBVIOUS
<1>6. ASSUME srv' = [up EXCEPT !.slot[s] = "null"]
      PROVE  Outcome(srv, srv', None, TRUE) /\ Settled(srv')
  <2> DEFINE k == [srv EXCEPT !.link[s] = "up", !.slot[s] = "null"]
  <2>1. Outcome(srv, k, None, TRUE) /\ Settled(k)  BY <1>1, <1>2, <1>3, NoStateOutcome
  <2>2. srv' = k  BY <1>5, <1>6
  <2> HIDE DEF k
  <2> QED  BY <2>1, <2>2
<1>7. ASSUME NEW reuse \in BOOLEAN, srv' = Refuse(zalloc(up, s, reuse), s)
      PROVE  Outcome(srv, srv', None, TRUE) /\ Settled(srv')
  <2> DEFINE k == Refuse(zalloc(up, s, reuse), s)
  <2>1. Outcome(srv, k, None, TRUE) /\ Settled(k)  BY <1>1, <1>2, RefuseOutcome
  <2>2. srv' = k  BY <1>7
  <2> HIDE DEF k
  <2> QED  BY <2>1, <2>2
<1>8. ASSUME NEW reuse \in BOOLEAN,
             srv' = MQTT_server_initClientCon(zalloc(up, s, reuse), s)
      PROVE  Outcome(srv, srv', None, TRUE) /\ Settled(srv')
  <2> DEFINE k == MQTT_server_initClientCon(zalloc(up, s, reuse), s)
  <2>1. Outcome(srv, k, None, TRUE) /\ Settled(k)  BY <1>1, <1>2, <1>3, InitClientOutcome
  <2>2. srv' = k  BY <1>8
  <2> HIDE DEF k
  <2> QED  BY <2>1, <2>2
<1>9. Outcome(srv, srv', None, TRUE) /\ Settled(srv')  BY <1>4, <1>6, <1>7, <1>8
<1> QED  BY <1>3, <1>9, OutcomeStep

(* A connection is stopped and its slot given back, after the client state *)
(* that was in it has gone.                                                *)
LEMMA GivenBack ==
  ASSUME NEW h \in Memory, NEW g \in Memory, Tidy(g), NEW s \in Slot,
         g.state[s] = "NONE", g.link[s] = "down",
         \A r \in Slot \ {s} : g.slot[r] = "dangling" => h.slot[r] = "dangling",
         OneEach(h) => OneEach(g),
         \A t \in Slot : WillHeard(h, g, t),
         g.fault = h.fault \/ (g.fault = "null_write" /\ \E t \in Slot : Mourns(h, g, t)),
         Settled(g)
  PROVE  LET k == [g EXCEPT !.slot[s] = "free", !.doomed[s] = FALSE]
         IN  Outcome(h, k, None, TRUE) /\ Settled(k)
<1> DEFINE k == [g EXCEPT !.slot[s] = "free", !.doomed[s] = FALSE]
<1>1. /\ k \in Memory /\ Tidy(k) /\ k.slot = [g.slot EXCEPT ![s] = "free"]
      /\ k.id = g.id /\ k.clist = g.clist /\ k.link = g.link
      /\ k.queue = g.queue /\ k.fault = g.fault /\ k.ev = g.ev /\ k.quiet = g.quiet
  BY SlotFreed
<1> HIDE DEF k
<1>2. Outcome(h, k, None, TRUE)  BY <1>1, FreedOutcome
<1>3. \A r : InList(k, r) <=> InList(g, r)  BY <1>1 DEF InList
<1>4. Settled(k)  BY <1>1, <1>3 DEF Settled, connected
<1> QED  BY <1>2, <1>4 DEF k

LEMMA AsideUnheard ==
  ASSUME NEW h, NEW k, Aside(h, k)
  PROVE  /\ OneEach(h) => OneEach(k)
         /\ \A t \in Slot : WillHeard(h, k, t)
<1>1. \A r : InList(k, r) <=> InList(h, r)  BY AsideTidy
<1>2. k.id = h.id  BY DEF Aside
<1> QED  BY <1>1, <1>2 DEF OneEach, WillHeard

(* dummy_clientcon and tobedeleted are nobody's business.                  *)
LEMMA DummyAside ==
  ASSUME NEW h \in Memory
  PROVE  LET k == [h EXCEPT !.dummy = None]
         IN  Aside(h, k) /\ k.ev = h.ev /\ k.quiet = h.quiet
BY DEF Aside, Memory

LEMMA DoomedAside ==
  ASSUME NEW h \in Memory, NEW s \in Slot
  PROVE  LET k == [h EXCEPT !.doomed[s] = TRUE]
         IN  Aside(h, k) /\ k.ev = h.ev /\ k.quiet = h.quiet
BY DEF Aside, Memory

(* Aside of the event the turn is as it was.                               *)
LEMMA AsideSettled ==
  ASSUME NEW h, NEW k, Aside(h, k), k.ev = h.ev, k.quiet = h.quiet, Settled(h)
  PROVE  Settled(k)
<1>1. \A r : InList(k, r) <=> InList(h, r)  BY AsideTidy
<1>2. k.link = h.link /\ k.queue = h.queue  BY DEF Aside
<1> QED  BY <1>1, <1>2 DEF Settled, connected

LEMMA DisconOutcome ==
  ASSUME NEW h, Good(h), Tidy(h), Settled(h), NEW s \in Slot, h.slot[s] \in {"con", "dummy", "null"},
         h.link[s] = "down"
  PROVE  LET k == [MQTT_ClientCon_discon_cb(h, s) EXCEPT !.slot[s] = "free", !.doomed[s] = FALSE]
         IN  Outcome(h, k, None, TRUE) /\ Settled(k)
<1> DEFINE g == MQTT_ClientCon_discon_cb(h, s)
           k == [g EXCEPT !.slot[s] = "free", !.doomed[s] = FALSE]
<1> SUFFICES Outcome(h, k, None, TRUE) /\ Settled(k)  OBVIOUS
<1>1. h \in Memory /\ Consistent(h)  BY DEF Good, Consistent
<1>2. CASE h.slot[s] = "con"
  <2>1. g = MQTT_server_deleteClientCon(h, s)  BY <1>2 DEF MQTT_ClientCon_discon_cb
  <2>2. Ended(h, MQTT_server_deleteClientCon(h, s), s, "dangling")  BY <1>1, <1>2, DeleteEnded
  <2>3. Ended(h, g, s, "dangling")  BY <2>1, <2>2
  <2> HIDE DEF g
  <2>4. Tidy(g) /\ (OneEach(h) => OneEach(g)) /\ \A t \in Slot : WillHeard(h, g, t)
    BY <2>3, EndedTidy
  <2>5. /\ g \in Memory /\ g.state[s] = "NONE" /\ g.link[s] = "down" /\ Settled(g)
        /\ g.fault = h.fault \/ (g.fault = "null_write" /\ Mourns(h, g, s))
        /\ \A r \in Slot \ {s} : g.slot[r] = h.slot[r]
    BY <2>3 DEF Ended, Beside
  <2> QED  BY <1>1, <2>4, <2>5, GivenBack
<1>3. ASSUME Aside(h, g), g.ev = h.ev, g.quiet = h.quiet, h.slot[s] # "con"
      PROVE  Outcome(h, k, None, TRUE) /\ Settled(k)
  <2> HIDE DEF g
  <2>1. Tidy(g) /\ (OneEach(h) => OneEach(g)) /\ \A t \in Slot : WillHeard(h, g, t)
    BY <1>3, AsideTidy, AsideUnheard
  <2>2. g \in Memory /\ g.state[s] = "NONE" /\ g.link[s] = "down" /\ g.fault = h.fault
        /\ \A r \in Slot \ {s} : g.slot[r] = h.slot[r]
    BY <1>3 DEF Aside, Tidy, Vacated
  <2>3. Settled(g)  BY <1>3, AsideSettled
  <2> QED  BY <1>1, <2>1, <2>2, <2>3, GivenBack
<1>4. CASE h.slot[s] = "dummy"
  <2>1. g = [h EXCEPT !.dummy = None]  BY <1>4 DEF MQTT_ClientCon_discon_cb
  <2>2. LET d == [h EXCEPT !.dummy = None] IN Aside(h, d) /\ d.ev = h.ev /\ d.quiet = h.quiet
    BY <1>1, DummyAside
  <2>3. Aside(h, g) /\ g.ev = h.ev /\ g.quiet = h.quiet  BY <2>1, <2>2
  <2> QED  BY <1>3, <1>4, <2>3, Zenon
<1>5. CASE h.slot[s] = "null"
  <2>1. g = h  BY <1>5 DEF MQTT_ClientCon_discon_cb
  <2>2. Aside(h, g) /\ g.ev = h.ev /\ g.quiet = h.quiet  BY <1>1, <2>1 DEF Aside
  <2> QED  BY <1>3, <1>5, <2>2, Zenon
<1> QED  BY <1>2, <1>4, <1>5, Zenon

(* The client state is freed a second time.                                *)
LEMMA DoubleFree ==
  ASSUME NEW h, Good(h), Tidy(h), NEW s \in Slot, h.slot[s] = "dangling", h.link[s] = "down"
  PROVE  Faulted(h, [MQTT_ClientCon_discon_cb(h, s) EXCEPT !.slot[s] = "free", !.doomed[s] = FALSE],
                 "double_free")
<1> DEFINE g == [h EXCEPT !.fault = "double_free"]
           k == [g EXCEPT !.slot[s] = "free", !.doomed[s] = FALSE]
<1>1. MQTT_ClientCon_discon_cb(h, s) = g  BY DEF MQTT_ClientCon_discon_cb
<1>2. h \in Memory  BY DEF Good, Consistent
<1>3. Linked(h, h)  BY <1>2 DEF Linked, Alike
<1>4. Faulted(h, g, "double_free")  BY <1>3, FaultSet DEF Fault
<1>5. g.state = h.state /\ g.link = h.link /\ g.slot = h.slot /\ g.id = h.id  BY <1>2 DEF Memory
<1> HIDE DEF g
<1>6. g \in Memory /\ Tidy(g) /\ g.state[s] = "NONE" /\ g.link[s] = "down"
  BY <1>4, <1>5 DEF Faulted, Tidy, Vacated
<1>7. /\ k \in Memory /\ Tidy(k) /\ k.slot = [g.slot EXCEPT ![s] = "free"]
      /\ k.id = g.id /\ k.clist = g.clist /\ k.fault = g.fault
  BY <1>6, SlotFreed
<1> HIDE DEF k
<1>8. \A r : InList(k, r) <=> InList(h, r)
  <2>1. \A r : InList(k, r) <=> InList(g, r)  BY <1>7 DEF InList
  <2> QED  BY <1>4, <2>1 DEF Faulted
<1>9. \A r \in Slot : k.slot[r] = "dangling" => h.slot[r] = "dangling"
  <2>1. h.slot \in [Slot -> SlotKind]  BY <1>2 DEF Memory
  <2> QED  BY <1>5, <1>7, <2>1
<1>10. OneEach(h) => OneEach(k)  BY <1>5, <1>7, <1>8 DEF OneEach
<1>11. Faulted(h, k, "double_free")
  BY <1>4, <1>7, <1>8, <1>9, <1>10 DEF Faulted
<1> QED  BY <1>1, <1>11 DEF k

LEMMA DisconSafe ==
  ASSUME SafeInv, NEW s \in Slot, Discon(s)
  PROVE  SafeStep
<1>1. Good(srv) /\ srv \in Memory /\ Tidy(srv)  BY SafeFacts
<1>2. /\ srv.fault = "none" /\ pos = s /\ srv.slot[s] # "free" /\ srv.link[s] = "down"
      /\ busy' # "packet" /\ Settled(srv)
  BY SafeFacts DEF Discon, Idle, connected
<1>3. CASE ~srv.doomed[s]
  <2> DEFINE k == [srv EXCEPT !.doomed[s] = TRUE]
  <2>1. srv' = k  BY <1>3 DEF Discon
  <2>2. Aside(srv, k) /\ k.ev = srv.ev /\ k.quiet = srv.quiet  BY <1>1, DoomedAside
  <2> HIDE DEF k
  <2>3. Settled(k)  BY <1>2, <2>2, AsideSettled
  <2>4. Outcome(srv, k, None, TRUE)  BY <1>1, <2>2, AsideAdditive, AdditiveOutcome
  <2> QED  BY <1>2, <2>1, <2>3, <2>4, OutcomeStep
<1>4. CASE srv.doomed[s]
  <2> DEFINE k == [MQTT_ClientCon_discon_cb(srv, s) EXCEPT !.slot[s] = "free", !.doomed[s] = FALSE]
  <2>1. srv' = k  BY <1>4 DEF Discon
  <2>2. srv.slot[s] \in {"con", "dummy", "null", "dangling"}  BY <1>1, <1>2 DEF Memory, SlotKind
  <2>3. CASE srv.slot[s] = "dangling"
    <3>1. Faulted(srv, k, "double_free")  BY <1>1, <1>2, <2>3, DoubleFree
    <3> HIDE DEF k
    <3>2. FaultStep  BY <1>2, <2>1, <2>3, <3>1 DEF FaultStep, Faulted
    <3>3. PacketListed'  BY <1>2 DEF PacketListed
    <3> QED  BY <2>1, <3>1, <3>2, <3>3, FaultedStep DEF Fault
  <2>4. CASE srv.slot[s] # "dangling"
    <3>1. Outcome(srv, k, None, TRUE) /\ Settled(k)  BY <1>1, <1>2, <2>2, <2>4, DisconOutcome
    <3> HIDE DEF k
    <3> QED  BY <1>2, <2>1, <3>1, OutcomeStep
  <2> QED  BY <2>3, <2>4
<1> QED  BY <1>3, <1>4

(* The event is taken, and the memory is otherwise as it was.              *)
LEMMA TakenAlike ==
  ASSUME SafeInv
  PROVE  /\ Alike(srv, Taken) /\ Good(Taken) /\ Taken \in Memory /\ Tidy(Taken)
         /\ Taken.link = srv.link /\ Taken.sendTimeout = srv.sendTimeout /\ Taken.ev = None
<1>1. srv \in Memory /\ Tidy(srv)  BY SafeFacts
<1>2. Good(Taken) /\ Taken \in Memory  BY TakenProperties DEF SafeInv
<1>3. /\ Taken.slot = srv.slot /\ Taken.state = srv.state /\ Taken.id = srv.id
      /\ Taken.clist = srv.clist /\ Taken.queue = srv.queue /\ Taken.will = srv.will
      /\ Taken.subs = srv.subs /\ Taken.fault = srv.fault /\ Taken.link = srv.link
      /\ Taken.sendTimeout = srv.sendTimeout /\ Taken.ev = None
  BY <1>1 DEF Taken, Memory
<1>4. Tidy(Taken)  BY <1>1, <1>3 DEF Tidy, Ordered, Vacated, FreeDown
<1> QED  BY <1>2, <1>3, <1>4 DEF Alike

(* The task may end with a look at who is next, or without.                *)
LEMMA TaskEnds ==
  ASSUME SafeInv, NEW g, Alike(srv, g), Tidy(g), busy' # "packet",
         srv' = Hush(g) \/ srv' = activate_next_client(g)
  PROVE  SafeStep
<1>1. g \in Memory  BY DEF Alike
<1>2. Outcome(g, g, None, TRUE)  BY <1>1, SameOutcome
<1>3. ASSUME NEW k, Aside(g, k) PROVE Outcome(srv, k, None, TRUE)
  <2>1. Outcome(g, k, None, TRUE)  BY <1>2, <1>3, AsideOutcome
  <2> QED  BY <2>1, AlikeOutcome
<1>4. CASE srv' = Hush(g)
  <2>1. Aside(g, Hush(g)) /\ Settled(Hush(g))  BY <1>1, HushAside
  <2>2. Outcome(srv, Hush(g), None, TRUE)  BY <1>3, <2>1
  <2> QED  BY <1>4, <2>1, <2>2, OutcomeStep
<1>5. CASE srv' = activate_next_client(g)
  <2>1. LET k == activate_next_client(g) IN Aside(g, k) /\ Settled(k)  BY <1>1, ActivateAside
  <2>2. Outcome(srv, activate_next_client(g), None, TRUE)  BY <1>3, <2>1
  <2> QED  BY <1>5, <2>1, <2>2, OutcomeStep
<1> QED  BY <1>4, <1>5

LEMMA TaskStopSafe ==
  ASSUME SafeInv, TaskStop \/ TaskIgnore
  PROVE  SafeStep
<1>1. Alike(srv, Taken) /\ Taken \in Memory /\ Tidy(Taken)  BY TakenAlike
<1>2. busy' # "packet"  BY DEF TaskStop, TaskIgnore, Idle
<1>3. CASE TaskIgnore  BY <1>1, <1>2, <1>3, TaskEnds DEF TaskIgnore
<1>4. CASE TaskStop
  <2>1. PICK s \in Slot \cup {None} :
          srv' = activate_next_client(IF s = None THEN Taken ELSE stop(Taken, s))
    BY <1>4 DEF TaskStop
  <2>2. CASE s = None
    <3>1. srv' = activate_next_client(Taken)  BY <2>1, <2>2
    <3> QED  BY <1>1, <1>2, <3>1, TaskEnds
  <2>3. CASE s # None
    <3> DEFINE g == stop(Taken, s)
    <3>1. srv' = activate_next_client(g)  BY <2>1, <2>3
    <3>2. Linked(Taken, g)  BY <1>1, <2>3, ReadLinked
    <3> HIDE DEF g
    <3>3. Tidy(g)  BY <1>1, <3>2, LinkedTidy
    <3>4. Alike(srv, g)  BY <1>1, <3>2 DEF Linked, Alike
    <3> QED  BY <1>2, <3>1, <3>3, <3>4, TaskEnds
  <2> QED  BY <2>2, <2>3
<1> QED  BY <1>3, <1>4

LEMMA TaskStaleSafe ==
  ASSUME SafeInv, TaskStale
  PROVE  SafeStep
<1>1. Alike(srv, Taken) /\ Taken \in Memory /\ Tidy(Taken)  BY TakenAlike
<1>2. busy' # "packet" /\ srv.ev = Stale  BY DEF TaskStale, Idle
<1>3. \/ srv' = Hush(Taken) \/ srv' = activate_next_client(Taken)
      \/ srv' = [Taken EXCEPT !.fault = "stale_event"]
  BY DEF TaskStale
<1>4. CASE srv' = Hush(Taken) \/ srv' = activate_next_client(Taken)
  BY <1>1, <1>2, <1>4, TaskEnds
<1>5. CASE srv' = [Taken EXCEPT !.fault = "stale_event"]
  <2> DEFINE k == [Taken EXCEPT !.fault = "stale_event"]
  <2>1. Linked(Taken, Taken)  BY <1>1 DEF Linked, Alike
  <2>2. Faulted(Taken, k, "stale_event")  BY <1>1, <2>1, FaultSet DEF Fault
  <2> HIDE DEF k
  <2>3. Faulted(srv, k, "stale_event")
    <3>1. Taken.slot = srv.slot /\ Taken.id = srv.id /\ Taken.clist = srv.clist
      BY <1>1 DEF Alike
    <3>2. \A r : InList(Taken, r) <=> InList(srv, r)  BY <3>1 DEF InList
    <3>3. OneEach(srv) => OneEach(Taken)  BY <3>1, <3>2 DEF OneEach
    <3> QED  BY <2>2, <3>1, <3>2, <3>3 DEF Faulted
  <2>4. srv' = k  BY <1>5 DEF k
  <2>5. FaultStep  BY <1>2, <2>3, <2>4 DEF FaultStep, Faulted
  <2>6. PacketListed'  BY <1>2 DEF PacketListed
  <2> QED  BY <2>3, <2>4, <2>5, <2>6, FaultedStep DEF Fault
<1> QED  BY <1>3, <1>4, <1>5

(* A handler that begins with client s, and what may follow.               *)
Begun(g, s) ==
  /\ Good(g) /\ Prelude(srv, g, s) /\ Orderly(srv.state[s], g.queue[s])

LEMMA BegunQueue ==
  ASSUME SafeInv, NEW s \in Slot, srv.state[s] \in {"MQTT_DATA", "TCP_DISCONNECTING"},
         NEW q \in {srv.queue[s], AfterGet(srv.queue[s])}
  PROVE  Begun([Taken EXCEPT !.queue[s] = q], s)
<1> DEFINE g == [Taken EXCEPT !.queue[s] = q]
<1>1. Alike(srv, Taken) /\ Good(Taken) /\ Taken \in Memory /\ Taken.link = srv.link
  BY TakenAlike
<1>2. srv.queue[s] \in Queue  BY SafeFacts DEF Memory
<1>3. q \in Queue  BY <1>2, AfterGetTyped
<1>4. Good(g)
  <2>1. Calm(Taken, g)  BY <1>1, <1>3, QueueCalm
  <2> HIDE DEF g
  <2> QED  BY <1>1, <2>1, CalmGood
<1>5. /\ g.slot = Taken.slot /\ g.state = Taken.state /\ g.id = Taken.id /\ g.clist = Taken.clist
      /\ g.link = Taken.link /\ g.will = Taken.will /\ g.subs = Taken.subs /\ g.fault = Taken.fault
      /\ g.queue = [Taken.queue EXCEPT ![s] = q] /\ Taken.queue \in [Slot -> Queue]
  BY <1>1 DEF Memory
<1> HIDE DEF g
<1>6. Prelude(srv, g, s)  BY <1>1, <1>4, <1>5 DEF Prelude, Alike, Good, Consistent
<1>7. Orderly(srv.state[s], g.queue[s])
  <2>1. g.queue[s] = q  BY <1>5
  <2>2. Orderly(srv.state[s], srv.queue[s])  BY SafeFacts DEF Tidy, Ordered
  <2>3. Orderly(srv.state[s], AfterGet(srv.queue[s]))
    BY <1>2, <2>2, AfterGetOrdinary, AfterGetRefused DEF Orderly
  <2> QED  BY <2>1, <2>2, <2>3
<1> QED  BY <1>4, <1>6, <1>7 DEF Begun, g

LEMMA BegunTimeout ==
  ASSUME NEW g, NEW s \in Slot, Begun(g, s), NEW n \in 0..SendTicks
  PROVE  LET k == [g EXCEPT !.sendTimeout[s] = n] IN Begun(k, s) /\ k.ev = g.ev /\ k.quiet = g.quiet
<1> DEFINE k == [g EXCEPT !.sendTimeout[s] = n]
<1>1. Good(g) /\ g \in Memory  BY DEF Begun, Good, Consistent
<1>2. Good(k)
  <2>1. Calm(g, k)  BY <1>1, SendTimeoutCalm
  <2> HIDE DEF k
  <2> QED  BY <1>1, <2>1, CalmGood
<1>3. /\ k.slot = g.slot /\ k.state = g.state /\ k.id = g.id /\ k.clist = g.clist
      /\ k.link = g.link /\ k.will = g.will /\ k.subs = g.subs /\ k.fault = g.fault
      /\ k.queue = g.queue /\ k.ev = g.ev /\ k.quiet = g.quiet
  BY <1>1 DEF Memory
<1> HIDE DEF k
<1> QED  BY <1>2, <1>3 DEF Begun, Prelude, Good, Consistent, k

LEMMA BegunStarted ==
  ASSUME SafeInv, NEW s \in Slot
  PROVE  Begun(srv, s)
BY SafeFacts DEF Begun, Prelude, Tidy, Ordered

(* The client is left as it is.                                            *)
LEMMA BegunEnds ==
  ASSUME SafeInv, NEW s \in Slot, NEW g, Begun(g, s), busy' # "packet",
         Aside(g, srv'), Settled(srv')
  PROVE  SafeStep
<1>1. Tidy(srv)  BY SafeFacts
<1>2. Outcome(srv, g, None, TRUE)  BY <1>1, PreludeOutcome DEF Begun
<1>3. Outcome(srv, srv', None, TRUE)  BY <1>2, AsideOutcome
<1> QED  BY <1>3, OutcomeStep

(* The client is disconnected.                                             *)
LEMMA BegunDisconnects ==
  ASSUME SafeInv, NEW s \in Slot, NEW g, Begun(g, s), srv.slot[s] = "con", busy' # "packet",
         \/ srv' = MQTT_server_disconnectClientCon(g, s)
         \/ srv' = activate_next_client(MQTT_server_disconnectClientCon(g, s))
  PROVE  SafeStep
<1> DEFINE k == MQTT_server_disconnectClientCon(g, s)
<1>1. Tidy(srv)  BY SafeFacts
<1>2. Consistent(g) /\ g.slot[s] = "con" /\ Prelude(srv, g, s) /\ Orderly(srv.state[s], g.queue[s])
  BY DEF Begun, Good, Prelude
<1>3. Ended(g, k, s, "dummy") /\ k.ev # None  BY <1>2, DisconnectEnded
<1> HIDE DEF k
<1>4. Outcome(srv, k, None, TRUE)  BY <1>1, <1>2, <1>3, PreludeEnded
<1>5. CASE srv' = k
  <2>1. Settled(k)  BY <1>3 DEF Settled
  <2> QED  BY <1>4, <1>5, <2>1, OutcomeStep
<1>6. CASE srv' = activate_next_client(k)
  <2>1. k \in Memory  BY <1>4 DEF Outcome
  <2>2. LET l == activate_next_client(k) IN Aside(k, l) /\ Settled(l)  BY <2>1, ActivateAside
  <2>3. Aside(k, srv') /\ Settled(srv')  BY <1>6, <2>2
  <2>4. Outcome(srv, srv', None, TRUE)  BY <1>4, <2>3, AsideOutcome
  <2> QED  BY <2>3, <2>4, OutcomeStep
<1> QED  BY <1>5, <1>6 DEF k

LEMMA TaskSendSafe ==
  ASSUME SafeInv, NEW s \in Slot, TaskSend(s)
  PROVE  SafeStep
<1> DEFINE q == AfterGet(Taken.queue[s])
           m1 == [Taken EXCEPT !.queue[s] = q]
           got == [m1 EXCEPT !.sendTimeout[s] = SendTicks]
           sent == [got EXCEPT !.sendTimeout[s] = 0]
<1>1. srv.state[s] \in {"MQTT_DATA", "TCP_DISCONNECTING"} /\ srv.slot[s] = "con" /\ busy' # "packet"
  BY EventOwned DEF TaskSend, Sending, Idle, SafeInv
<1>2. q = AfterGet(srv.queue[s])  BY TakenAlike DEF Alike
<1>3. srv' = MQTT_ClientCon_sent_cb(got, s) \/ srv' = Hush(got)
  BY DEF TaskSend
<1> HIDE DEF q
<1>4. Begun(m1, s)  BY <1>1, <1>2, BegunQueue
<1> HIDE DEF m1
<1>5. SendTicks \in 0..SendTicks /\ 0 \in 0..SendTicks  BY BrokerAssumption
<1>6. Begun(got, s)  BY <1>4, <1>5, BegunTimeout
<1> HIDE DEF got
<1>7. Begun(sent, s)  BY <1>5, <1>6, BegunTimeout
<1>8. CASE srv' = Hush(got)
  <2>1. got \in Memory  BY <1>6 DEF Begun, Prelude
  <2>2. Aside(got, Hush(got)) /\ Settled(Hush(got))  BY <2>1, HushAside
  <2> QED  BY <1>1, <1>6, <1>8, <2>2, BegunEnds
<1>9. CASE srv' = MQTT_ClientCon_sent_cb(got, s)
  <2>1. \/ srv' = activate_next_client(MQTT_server_disconnectClientCon(sent, s))
        \/ srv' = activate_next_client(sent)
    BY <1>9 DEF MQTT_ClientCon_sent_cb
  <2> HIDE DEF sent
  <2>2. CASE srv' = activate_next_client(sent)
    <3>1. sent \in Memory  BY <1>7 DEF Begun, Prelude
    <3>2. LET k == activate_next_client(sent) IN Aside(sent, k) /\ Settled(k)
      BY <3>1, ActivateAside
    <3> QED  BY <1>1, <1>7, <2>2, <3>2, BegunEnds
  <2>3. CASE srv' = activate_next_client(MQTT_server_disconnectClientCon(sent, s))
    BY <1>1, <1>7, <2>3, BegunDisconnects
  <2> QED  BY <2>1, <2>2, <2>3
<1> QED  BY <1>3, <1>8, <1>9

LEMMA TaskNothingToSendSafe ==
  ASSUME SafeInv, NEW s \in Slot, TaskNothingToSend(s)
  PROVE  SafeStep
<1> DEFINE q == IF srv.sendTimeout[s] = 0 THEN AfterGet(Taken.queue[s]) ELSE Taken.queue[s]
           got == [Taken EXCEPT !.queue[s] = q]
<1>1. srv.state[s] \in {"MQTT_DATA", "TCP_DISCONNECTING"} /\ srv.slot[s] = "con" /\ busy' # "packet"
  BY EventOwned DEF TaskNothingToSend, Sending, Idle, SafeInv
<1>2. q \in {srv.queue[s], AfterGet(srv.queue[s])}  BY TakenAlike DEF Alike
<1>3. srv' = MQTT_server_disconnectClientCon(got, s) \/ srv' = Hush(got)
  BY DEF TaskNothingToSend
<1> HIDE DEF q
<1>4. Begun(got, s)  BY <1>1, <1>2, BegunQueue
<1> HIDE DEF got
<1>5. CASE srv' = Hush(got)
  <2>1. got \in Memory  BY <1>4 DEF Begun, Prelude
  <2>2. Aside(got, Hush(got)) /\ Settled(Hush(got))  BY <2>1, HushAside
  <2> QED  BY <1>1, <1>4, <1>5, <2>2, BegunEnds
<1>6. CASE srv' = MQTT_server_disconnectClientCon(got, s)
  BY <1>1, <1>4, <1>6, BegunDisconnects
<1> QED  BY <1>3, <1>5, <1>6

LEMMA TimerSafe ==
  ASSUME SafeInv, NEW s \in Slot, mqtt_server_timer(s)
  PROVE  SafeStep
<1> DEFINE n == IF srv.sendTimeout[s] > 0 THEN srv.sendTimeout[s] - 1 ELSE 0
           h == [srv EXCEPT !.sendTimeout[s] = n]
           c == h.connectionTimeout[s] - 1
           k == [h EXCEPT !.connectionTimeout[s] = c]
<1>1. Good(srv) /\ srv \in Memory /\ Consistent(srv)  BY SafeFacts
<1>2. srv.slot[s] = "con" /\ busy' # "packet" /\ Settled(srv)
  BY <1>1, ListedOwned, SafeFacts DEF mqtt_server_timer, Idle
<1>3. n \in 0..SendTicks
  <2>1. srv.sendTimeout[s] \in 0..SendTicks  BY <1>1 DEF Memory
  <2> QED  BY <2>1, BrokerAssumption
<1>4. \/ h.connectionTimeout[s] > 0 /\ srv' = k
      \/ srv' = MQTT_server_disconnectClientCon(h, s)
  BY DEF mqtt_server_timer
<1> HIDE DEF n
<1>5. Begun(h, s) /\ h.ev = srv.ev /\ h.quiet = srv.quiet
  <2>1. Begun(srv, s)  BY BegunStarted
  <2> QED  BY <1>3, <2>1, BegunTimeout
<1> HIDE DEF h
<1>6. CASE srv' = MQTT_server_disconnectClientCon(h, s)
  BY <1>2, <1>5, <1>6, BegunDisconnects
<1>7. CASE h.connectionTimeout[s] > 0 /\ srv' = k
  <2>1. h \in Memory  BY <1>5 DEF Begun, Prelude
  <2>2. h.connectionTimeout[s] \in Nat  BY <2>1 DEF Memory
  <2>3. c \in Nat  BY <1>7, <2>2
  <2> HIDE DEF c
  <2>4. Aside(h, k) /\ k.ev = h.ev /\ k.quiet = h.quiet  BY <2>1, <2>3 DEF Aside, Memory
  <2>5. srv' = k  BY <1>7
  <2> HIDE DEF k
  <2>6. Settled(h)
    <3>1. h.clist = srv.clist /\ h.link = srv.link  BY <1>5 DEF Begun, Prelude
    <3>2. \A r \in Slot \ {s} : h.queue[r] = srv.queue[r]  BY <1>5 DEF Begun, Prelude
    <3>3. h.queue[s] = srv.queue[s]  BY <1>1 DEF h, Memory
    <3>4. \A r : InList(h, r) <=> InList(srv, r)  BY <3>1 DEF InList
    <3> QED  BY <1>2, <1>5, <3>1, <3>2, <3>3, <3>4 DEF Settled, connected
  <2>7. Settled(k)  BY <2>4, <2>6, AsideSettled
  <2> QED  BY <1>2, <1>5, <2>4, <2>5, <2>7, BegunEnds
<1> QED  BY <1>4, <1>6, <1>7

(* The local interface.                                                    *)

LEMMA LocalSafe ==
  ASSUME SafeInv, MQTT_local_publish \/ MQTT_local_subscribe \/ MQTT_local_unsubscribe
  PROVE  SafeStep
<1>1. srv \in Memory /\ Tidy(srv) /\ Consistent(srv)  BY SafeFacts
<1>2. busy' # "packet" /\ Settled(srv)
  BY SafeFacts DEF MQTT_local_publish, MQTT_local_subscribe, MQTT_local_unsubscribe, LocalCall, Idle
<1>3. ASSUME NEW new \in Subscriptions(Slot \cup {Local}), srv' = [srv EXCEPT !.subs = new]
      PROVE  SafeStep
  <2> DEFINE k == [srv EXCEPT !.subs = new]
  <2>1. Aside(srv, k) /\ k.ev = srv.ev /\ k.quiet = srv.quiet  BY <1>1, SubsAside
  <2>2. srv' = k  BY <1>3
  <2> HIDE DEF k
  <2>3. Settled(k)  BY <1>2, <2>1, AsideSettled
  <2>4. Outcome(srv, k, None, TRUE)  BY <1>1, <2>1, AsideAdditive, AdditiveOutcome
  <2> QED  BY <1>2, <2>2, <2>3, <2>4, OutcomeStep
<1>4. CASE MQTT_local_publish
  <2>1. PICK m \in Input :
          /\ m.type = "PUBLISH"
          /\ srv' = activate_next_client(
                      IF m.retain THEN retain(publish(srv, m.topic, m.data), m.topic, m.data)
                      ELSE publish(srv, m.topic, m.data))
    BY <1>4 DEF MQTT_local_publish
  <2>2. m \in Message  BY InputAssumption
  <2>3. m.topic \in Topic /\ m.data \in Data  BY <2>1, <2>2 DEF Message
  <2> DEFINE k == IF m.retain THEN retain(publish(srv, m.topic, m.data), m.topic, m.data)
                  ELSE publish(srv, m.topic, m.data)
  <2>4. Additive(srv, k) /\ k.fault = srv.fault  BY <1>1, <2>3, PublishServed
  <2>5. srv' = activate_next_client(k)  BY <2>1
  <2> HIDE DEF k
  <2>6. k \in Memory  BY <2>4 DEF Additive
  <2>7. LET l == activate_next_client(k) IN Aside(k, l) /\ Settled(l)  BY <2>6, ActivateAside
  <2>8. Outcome(srv, k, None, TRUE)  BY <1>1, <2>4, AdditiveOutcome
  <2>9. Outcome(srv, srv', None, TRUE)  BY <2>5, <2>7, <2>8, AsideOutcome
  <2> QED  BY <1>2, <2>5, <2>7, <2>9, OutcomeStep
<1>5. CASE MQTT_local_subscribe
  <2>1. PICK m \in Input :
          /\ m.type = "SUBSCRIBE"
          /\ srv' = [srv EXCEPT !.subs = add_topics(srv.subs, Local, <<m.filters[1]>>)]
    BY <1>5 DEF MQTT_local_subscribe
  <2>2. m \in Message  BY InputAssumption
  <2> DEFINE f == m.filters
  <2>3. f \in Seq(Filter) \ {<<>>}  BY <2>1, <2>2 DEF Message
  <2> HIDE DEF f
  <2>4. <<f[1]>> \in Seq(Filter)
    <3>1. f[1] \in Filter  BY <2>3
    <3> QED  BY <3>1
  <2>5. add_topics(srv.subs, Local, <<f[1]>>) \in Subscriptions(Slot \cup {Local})
    BY <1>1, <2>4, AddedSubs
  <2> QED  BY <1>3, <2>1, <2>5 DEF f
<1>6. CASE MQTT_local_unsubscribe
  <2>1. PICK m \in Input : srv' = [srv EXCEPT !.subs = delete_topic(srv.subs, Local, m.filters)]
    BY <1>6 DEF MQTT_local_unsubscribe
  <2>2. delete_topic(srv.subs, Local, m.filters) \in Subscriptions(Slot \cup {Local})
    BY <1>1, DeletedSubs
  <2> QED  BY <1>3, <2>1, <2>2
<1> QED  BY <1>4, <1>5, <1>6

LEMMA CleanupSafe ==
  ASSUME SafeInv, MQTT_server_cleanupClientCons
  PROVE  SafeStep
<1>1. srv \in Memory /\ Tidy(srv) /\ Consistent(srv)  BY SafeFacts
<1>2. srv.fault = "none" /\ busy = "cleanup" /\ busy' # "packet" /\ Settled(srv)
  BY SafeFacts DEF MQTT_server_cleanupClientCons
<1>3. CASE Broken(srv) = {}
  <2>1. srv' = srv  BY <1>3 DEF MQTT_server_cleanupClientCons
  <2> QED  BY <1>2, <2>1, IdleStep
<1>4. CASE Broken(srv) # {}
  <2> DEFINE i == Lowest(Broken(srv))
             s == srv.clist[i]
             k == MQTT_server_deleteClientCon(srv, s)
  <2>1. srv' = k  BY <1>4 DEF MQTT_server_cleanupClientCons
  <2>2. i \in DOMAIN srv.clist
    <3>1. srv.clist \in Seq(Slot)  BY <1>1 DEF Memory
    <3>2. Broken(srv) \subseteq Nat  BY <3>1 DEF Broken
    <3>3. i \in Broken(srv)  BY <1>4, <3>2, LowestProperties
    <3> QED  BY <3>3 DEF Broken
  <2>3. s \in Slot /\ InList(srv, s)  BY <1>1, <2>2, ListedIsSlot
  <2>4. srv.slot[s] = "con"  BY <1>1, <2>3, ListedOwned
  <2> HIDE DEF s
  <2>5. Ended(srv, k, s, "dangling")  BY <1>1, <2>3, <2>4, DeleteEnded
  <2> HIDE DEF k
  <2>6. Tidy(k) /\ (OneEach(srv) => OneEach(k)) /\ \A t \in Slot : WillHeard(srv, k, t)
    BY <1>1, <2>3, <2>5, EndedTidy
  <2>7. Settled(k)  BY <1>2, <2>5 DEF Ended
  <2>8. FaultStep
    <3>1. k.fault = srv.fault \/ (k.fault = "null_write" /\ Mourns(srv, k, s))
      BY <2>5 DEF Ended
    <3> QED  BY <2>1, <2>3, <3>1, MournsStep DEF FaultStep
  <2>9. PacketListed' /\ TurnHandedOn'  BY <1>2, <2>1, <2>7 DEF PacketListed, TurnHandedOn
  <2> QED  BY <1>2, <2>1, <2>6, <2>8, <2>9 DEF SafeStep
<1> QED  BY <1>3, <1>4

LEMMA PeerCloseSafe ==
  ASSUME SafeInv, NEW s \in Slot, PeerClose(s)
  PROVE  SafeStep
<1>1. srv \in Memory /\ Tidy(srv)  BY SafeFacts
<1>2. busy' # "packet" /\ Settled(srv) /\ srv.link[s] = "up"  BY SafeFacts DEF PeerClose, Idle
<1>3. PICK l \in {"fin", "stuck", "down"} : srv' = [srv EXCEPT !.link[s] = l]
  BY DEF PeerClose
<1>4. Linked(srv, [srv EXCEPT !.link[s] = l])  BY <1>1, <1>2, LinkSet DEF Link
<1>5. Linked(srv, srv')  BY <1>3, <1>4
<1>6. Tidy(srv') /\ Settled(srv') /\ srv' \in Memory
  BY <1>1, <1>2, <1>5, LinkedTidy DEF Linked, Alike
<1>7. Outcome(srv', srv', None, TRUE)  BY <1>6, SameOutcome
<1>8. Outcome(srv, srv', None, TRUE)  BY <1>5, <1>7, AlikeOutcome DEF Linked
<1> QED  BY <1>2, <1>6, <1>8, OutcomeStep

(* Nothing is left to go wrong after a restart.                            *)
LEMMA BootTidy ==
  Tidy(Boot) /\ Settled(Boot) /\ OneEach(Boot) /\ \A s : ~InList(Boot, s)
<1>1. \A s : ~InList(Boot, s)  BY DEF InList, Boot
<1>2. Tidy(Boot)  BY DEF Tidy, Ordered, Vacated, FreeDown, Orderly, Boot
<1> QED  BY <1>1, <1>2 DEF Settled, OneEach

LEMMA RebootSafe ==
  ASSUME SafeInv, Reboot
  PROVE  SafeStep
<1>1. srv' = Boot /\ busy' = "no"  BY DEF Reboot
<1>2. Tidy(srv') /\ Settled(srv') /\ OneEach(srv') /\ \A s : ~InList(srv', s)
  BY <1>1, BootTidy
<1>3. srv'.fault = "none" /\ \A r \in Slot : srv'.slot[r] = "free"  BY <1>1 DEF Boot
<1>4. \A t \in Slot : WillHeard(srv, srv', t)  BY <1>2 DEF WillHeard
<1>5. PacketListed' /\ TurnHandedOn'  BY <1>1, <1>2 DEF PacketListed, TurnHandedOn
<1> QED  BY <1>2, <1>3, <1>4, <1>5 DEF SafeStep, FaultStep

-----------------------------------------------------------------------------
(* Every step keeps the invariant and is safe.                             *)

LEMMA SafeInit == Init => SafeInv /\ OneEach(srv)
<1> SUFFICES ASSUME Init PROVE SafeInv /\ OneEach(srv)  OBVIOUS
<1>1. srv = Boot /\ busy = "no"  BY DEF Init
<1>2. IInv  BY InitInvariant
<1> QED  BY <1>1, <1>2, BootTidy DEF SafeInv, PacketListed, TurnHandedOn

LEMMA NextSafe ==
  ASSUME SafeInv, Next
  PROVE  SafeStep
<1>1. CASE NoAccept
  BY <1>1, IdleStep DEF NoAccept, Idle
<1>2. CASE CleanupBegin
  BY <1>2, IdleStep DEF CleanupBegin, Idle
<1>3. CASE Accept  BY <1>3, AcceptSafe
<1>4. ASSUME NEW s \in Slot, Skip(s) PROVE SafeStep
  BY <1>4, IdleStep DEF Skip, Idle
<1>5. ASSUME NEW s \in Slot, Discon(s) PROVE SafeStep  BY <1>5, DisconSafe
<1>6. ASSUME NEW s \in Slot, Receive(s) PROVE SafeStep  BY <1>6, ReceiveSafe
<1>7. CASE TaskStop \/ TaskIgnore  BY <1>7, TaskStopSafe
<1>8. CASE TaskStale  BY <1>8, TaskStaleSafe
<1>9. ASSUME NEW s \in Slot, TaskSend(s) PROVE SafeStep  BY <1>9, TaskSendSafe
<1>10. ASSUME NEW s \in Slot, TaskNothingToSend(s) PROVE SafeStep
  BY <1>10, TaskNothingToSendSafe
<1>11. ASSUME NEW s \in Slot, mqtt_server_timer(s) PROVE SafeStep  BY <1>11, TimerSafe
<1>12. CASE MQTT_local_publish \/ MQTT_local_subscribe \/ MQTT_local_unsubscribe
  BY <1>12, LocalSafe
<1>13. CASE MQTT_server_cleanupClientCons  BY <1>13, CleanupSafe
<1>14. ASSUME NEW s \in Slot, PeerClose(s) PROVE SafeStep  BY <1>14, PeerCloseSafe
<1>15. CASE Reboot  BY <1>15, RebootSafe
<1> QED
  BY <1>1, <1>2, <1>3, <1>4, <1>5, <1>6, <1>7, <1>8, <1>9, <1>10, <1>11, <1>12, <1>13,
     <1>14, <1>15 DEF Next, Loop, ServerTask

LEMMA SafeNext == SafeInv /\ [Next]_vars => SafeInv'
<1> SUFFICES ASSUME SafeInv, [Next]_vars PROVE SafeInv'  OBVIOUS
<1>1. IInv'  BY NextInvariant DEF SafeInv
<1>2. Tidy(srv') /\ PacketListed' /\ TurnHandedOn'
  <2>1. CASE Next  BY <2>1, NextSafe DEF SafeStep
  <2>2. CASE UNCHANGED vars
    BY <2>2 DEF vars, SafeInv, PacketListed, TurnHandedOn
  <2> QED  BY <2>1, <2>2
<1> QED  BY <1>1, <1>2 DEF SafeInv

LEMMA SafeInvariant == Spec => []SafeInv
BY SafeInit, SafeNext, PTL DEF Spec

-----------------------------------------------------------------------------
(* The properties.                                                         *)

(* CONNACK is the first packet a client ever gets, and the last if it is   *)
(* refused: put_mqtt_packet is reached for a client by no path before      *)
(* mqtt_parse_incoming has answered its CONNECT, takeovers, wills and      *)
(* retained messages included.                                             *)
THEOREM ConnackComesFirst == Spec => []ConnackFirst
<1>1. SafeInv => ConnackFirst
  <2> SUFFICES ASSUME SafeInv, NEW s \in Slot
               PROVE  /\ srv.state[s] \in {"NONE", "TCP_DISCONNECT", "TCP_CONNECTED"}
                           => srv.queue[s] = <<>>
                      /\ srv.state[s] = "TCP_DISCONNECTING"
                           => srv.queue[s] \in {<<>>, <<Packet("REFUSED")>>}
                      /\ srv.state[s] = "MQTT_DATA" =>
                           \A i \in DOMAIN srv.queue[s] :
                             /\ srv.queue[s][i].type # "REFUSED"
                             /\ srv.queue[s][i].type = "CONNACK" => i = 1
    BY DEF ConnackFirst
  <2>1. Orderly(srv.state[s], srv.queue[s])  BY DEF SafeInv, Tidy, Ordered
  <2> QED  BY <2>1 DEF Orderly, Ordinary
<1> QED  BY <1>1, SafeInvariant, PTL

(* When no event is pending nobody waits to be served, unless the last     *)
(* handler was one of those that return without activate_next_client:      *)
(* every other path of the receive callback, the task, the timer and the   *)
(* local interface hands the turn on.                                      *)
THEOREM TurnsCovered == Spec => []WakeupCovered
<1>1. SafeInv => WakeupCovered
  <2> SUFFICES ASSUME SafeInv, srv.fault = "none", busy = "no", srv.ev = None, ~srv.quiet
               PROVE  Waiting(srv) = {}
    BY DEF WakeupCovered
  <2>1. srv \in Memory /\ Settled(srv)  BY SafeFacts
  <2>2. \A s \in Slot : InList(srv, s) /\ connected(srv, s) => srv.queue[s] = <<>>
    BY <2>1 DEF Settled
  <2> QED  BY <2>1, <2>2, SettledWaiting
<1> QED  BY <1>1, SafeInvariant, PTL

(* Two clients of one name are never in the list together, if every        *)
(* CONNECT has a NUL behind its client identifier: delete_client_by_id     *)
(* finds the older session whatever the order of takeovers, refusals and   *)
(* timeouts.                                                               *)
THEOREM SessionsSingle ==
  ASSUME NamesTerminated
  PROVE  Spec => []SingleSession
<1> DEFINE I == SafeInv /\ OneEach(srv)
<1>1. Init => I  BY SafeInit
<1>2. I /\ [Next]_vars => I'
  <2> SUFFICES ASSUME SafeInv, OneEach(srv), [Next]_vars PROVE I'  OBVIOUS
  <2>1. SafeInv'  BY SafeNext
  <2>2. CASE Next
    <3>1. OneEach(srv')  BY <2>2, NextSafe DEF SafeStep
    <3> QED  BY <2>1, <3>1
  <2>3. CASE UNCHANGED vars  BY <2>1, <2>3 DEF vars
  <2> QED  BY <2>2, <2>3
<1>3. I => SingleSession  BY DEF OneEach, SingleSession
<1> HIDE DEF I
<1> QED  BY <1>1, <1>2, <1>3, PTL DEF Spec

(* A will reaches every subscriber that stays, on every path by which the  *)
(* broker ends a session: MQTT_server_deleteClientCon publishes it from    *)
(* the tables as they were before the client's own entries go.             *)
THEOREM WillsDelivered == Spec => WillDelivered
<1> DEFINE A == \A s, u \in Slot :
       ( /\ Gone(s) /\ srv.will[s] # None /\ srv'.fault = "none"
         /\ InList(srv', u)
         /\ Hits(srv.subs, u, srv.will[s].topic) # {} )
       => LET q == srv.queue[u]  r == srv'.queue[u]
              w == Publication(srv.will[s].topic, srv.will[s].data)
          IN  Room(r) = 0 \/ \E i \in DOMAIN r : i > Len(q) /\ r[i] = w
<1>1. SafeInv /\ [Next]_vars => [A]_vars
  <2> SUFFICES ASSUME SafeInv, Next PROVE A  OBVIOUS
  <2>1. SafeStep  BY NextSafe
  <2> SUFFICES ASSUME NEW s \in Slot, NEW u \in Slot,
                      Gone(s), srv.will[s] # None, srv'.fault = "none", InList(srv', u),
                      Hits(srv.subs, u, srv.will[s].topic) # {}
               PROVE  Heard(srv.queue[u], srv'.queue[u],
                            Publication(srv.will[s].topic, srv.will[s].data))
    BY DEF Heard
  <2>2. WillHeard(srv, srv', s)  BY <2>1 DEF SafeStep, Gone
  <2> QED  BY <2>2 DEF WillHeard, Gone
<1>2. [][A]_vars => WillDelivered  BY DEF WillDelivered
<1> HIDE DEF A
<1>3. Spec => [][A]_vars  BY <1>1, SafeInvariant, PTL DEF Spec
<1> QED  BY <1>2, <1>3

(* The broker runs into undefined behaviour only by a message with a       *)
(* length or a name it does not check, by a will its own client has        *)
(* subscribed to, at a connection that is polled although its client state *)
(* was refused or deleted, or by an event that outlives its client state;  *)
(* and only the forced cleanup leaves a connection that refers to memory   *)
(* which MQTT_server_deleteClientCon has freed.                            *)
THEOREM FaultsAreExplained == Spec => FaultsExplained
<1> DEFINE A ==
      /\ srv.fault = "none" /\ srv'.fault # "none" =>
           \/ \E s \in Slot : Handles(s, Unchecked) \/ MournsItself(s)
           \/ pos \in Slot /\ Lingers(pos)
           \/ srv.ev = Stale
      /\ \A s \in Slot :
           srv'.slot[s] = "dangling" /\ srv.slot[s] # "dangling" => busy = "cleanup"
<1>1. SafeInv /\ [Next]_vars => [A]_vars
  <2> SUFFICES ASSUME SafeInv, Next PROVE A  OBVIOUS
  <2>1. SafeStep  BY NextSafe
  <2>2. FaultStep /\ \A r \in Slot : srv'.slot[r] = "dangling" =>
                       srv.slot[r] = "dangling" \/ busy = "cleanup"
    BY <2>1 DEF SafeStep
  <2>3. pos \in Slot /\ srv.slot[pos] = "dangling" => Lingers(pos)  BY DEF Lingers
  <2> QED  BY <2>2, <2>3 DEF FaultStep
<1>2. [][A]_vars => FaultsExplained  BY DEF FaultsExplained
<1> HIDE DEF A
<1>3. Spec => [][A]_vars  BY <1>1, SafeInvariant, PTL DEF Spec
<1> QED  BY <1>2, <1>3
=============================================================================
