------------------------------- MODULE Tables -------------------------------
(***************************************************************************)
(* The two fixed-size tables of the broker: subscriptions                  *)
(* (mqtt_topiclist.cpp) and retained messages (mqtt_retainedlist.c).  Both *)
(* are arrays whose free entries are None and whose lowest free entry is   *)
(* used first.  Topic strings are abstract: Match says which filter        *)
(* matches which topic (mqtt_topics.c).                                    *)
(***************************************************************************)
EXTENDS Content, Order, Sequences

CONSTANTS
  MaxSubs,       \* max_entry of the subscription table
  MaxRetained,   \* max_entry of the retained table
  Filter,
  BadFilter,     \* filters that Topics_isValidName rejects
  Match          \* Topics_matches as a relation

ASSUME TablesAssumption ==
  /\ MaxSubs \in Nat \ {0} /\ MaxRetained \in Nat \ {0}
  /\ BadFilter \subseteq Filter
  /\ Match \subseteq Filter \X Topic

Topics_matches(filter, topic) == <<filter, topic>> \in Match

-----------------------------------------------------------------------------
(* The subscription table: entries [owner, filter].                        *)

Subscription(owners) == [owner : owners, filter : Filter]
Subscriptions(owners) == [1..MaxSubs -> Subscription(owners) \cup {None}]

create_topiclist == [i \in 1..MaxSubs |-> None]

(* The place of entry i among the free entries, and of filter k among the  *)
(* acceptable filters of a request.                                        *)
FreeRank(subs, i) == Cardinality({j \in 1..i : subs[j] = None})
FilterRank(filters, k) == Cardinality({j \in 1..k : filters[j] \notin BadFilter})

(* add_topic called for every filter of a request in turn: each acceptable *)
(* filter takes the lowest entry still free, without a look at what the    *)
(* owner has subscribed to before; when no entry is free it is refused.    *)
add_topics(subs, owner, filters) ==
  [i \in 1..MaxSubs |->
     LET fits == {k \in DOMAIN filters :
                    /\ filters[k] \notin BadFilter
                    /\ FilterRank(filters, k) = FreeRank(subs, i)}
     IN  IF subs[i] = None /\ fits # {}
         THEN [owner |-> owner, filter |-> filters[CHOOSE k \in fits : TRUE]]
         ELSE subs[i]]

(* (Mutant: only the first entry that matches goes.)                       *)
DeleteFirst(subs, owner, filters) ==
  LET its == {i \in 1..MaxSubs : /\ subs[i] # None
                                 /\ subs[i].owner = owner
                                 /\ subs[i].filter \in filters}
  IN  [i \in 1..MaxSubs |->
         IF i \in its /\ \A j \in its : i <= j THEN None ELSE subs[i]]

(* delete_topic for one owner: every entry with one of the filters.        *)
delete_topic(subs, owner, filters) ==
  [i \in 1..MaxSubs |->
     IF subs[i] # None /\ subs[i].owner = owner /\ subs[i].filter \in filters
     THEN None ELSE subs[i]]

(* The entries of owner for which find_topic runs its callback.            *)
Hits(subs, owner, topic) ==
  {i \in 1..MaxSubs : /\ subs[i] # None
                      /\ subs[i].owner = owner
                      /\ Topics_matches(subs[i].filter, topic)}

-----------------------------------------------------------------------------
(* The retained table: entries [topic, data].                              *)

RetainedEntry == [topic : Topic, data : Data]
RetainedList == [1..MaxRetained -> RetainedEntry \cup {None}]

create_retainedlist == [i \in 1..MaxRetained |-> None]

Holding(ret, topic) == {i \in 1..MaxRetained : ret[i] # None /\ ret[i].topic = topic}
Vacant(ret) == {i \in 1..MaxRetained : ret[i] = None}

(* (Mutant: empty data is stored like any other.)                          *)
UpdateKeepingEmpty(ret, topic, data) ==
  LET at == IF Holding(ret, topic) # {} THEN Holding(ret, topic) ELSE Vacant(ret)
  IN  IF at = {} THEN ret
      ELSE [ret EXCEPT ![Lowest(at)] = [topic |-> topic, data |-> data]]

(* update_retainedtopic: replace, delete on empty data, or take the lowest *)
(* free entry; a full table drops the message.                             *)
update_retainedtopic(ret, topic, data) ==
  IF Holding(ret, topic) # {}
  THEN [ret EXCEPT ![Lowest(Holding(ret, topic))] =
          IF data = NoPayload THEN None ELSE [topic |-> topic, data |-> data]]
  ELSE IF data # NoPayload /\ Vacant(ret) # {}
       THEN [ret EXCEPT ![Lowest(Vacant(ret))] = [topic |-> topic, data |-> data]]
       ELSE ret

(* The entries find_retainedtopic hands to its callback, in table order.   *)
find_retainedtopic(ret, filter) ==
  LET found == {i \in 1..MaxRetained :
                  ret[i] # None /\ Topics_matches(filter, ret[i].topic)}
  IN  [k \in 1..Cardinality(found) |-> ret[Nth(found, k)]]
=============================================================================
