---------------------------- MODULE TopicLevels -----------------------------
(***************************************************************************)
(* What filters mean, level by level, as a reference for the string        *)
(* functions of TopicMatch, and an enumeration of names to compare the     *)
(* two: a filter and a topic grow character by character.  The meaning is  *)
(* that of MQTT as far as the table in the source goes along with it.      *)
(***************************************************************************)
EXTENDS TopicMatch

CONSTANTS MaxFilter, MaxTopic   \* bounds the lengths of the names

VARIABLES filter, topic

vars == <<filter, topic>>

-----------------------------------------------------------------------------
(* The table of mqtt_topics.c that its unit test goes through, with one    *)
(* letter for each of its words: filter, topic, and whether they match.    *)
Row(f, t, r) == [filter |-> f, topic |-> t, result |-> r]

tests1 ==
  {Row(<<"#">>, <<"a">>, TRUE),
   Row(<<"+", "/", "a">>, <<"b", "/", "a">>, TRUE),
   Row(<<"+", "/", "a">>, <<"b", "/", "c", "/", "a">>, FALSE),
   Row(<<"+", "/", "+", "/", "a">>, <<"b", "/", "c", "/", "a">>, TRUE),
   Row(<<"#", "/", "a">>, <<"b", "/", "c", "/", "a">>, TRUE),
   Row(<<"a", "/", "#">>, <<"a", "/", "b">>, TRUE),
   Row(<<"a", "/", "+">>, <<"a", "/", "b">>, TRUE),
   Row(<<"+">>, <<"a">>, TRUE),
   Row(<<"+">>, <<"a", "/", "b">>, FALSE),
   Row(<<"+">>, <<"/", "a", "/", "b">>, FALSE),
   Row(<<"/", "+">>, <<"a", "/", "b">>, FALSE),
   Row(<<"+">>, <<"/", "a">>, FALSE),
   Row(<<"/", "+">>, <<"/", "a">>, TRUE),
   Row(<<"+", "/", "+">>, <<"/", "a">>, FALSE),
   Row(<<"+", "/", "+">>, <<"a", "/", "b">>, TRUE),
   Row(<<"/", "#">>, <<"/", "a", "/", "b">>, TRUE),
   Row(<<"/", "#">>, <<"a", "/", "b">>, FALSE)}

Init ==
  \/ filter = <<>> /\ topic = <<>>
  \/ \E row \in tests1 : filter = row.filter /\ topic = row.topic

GrowFilter(c) == Len(filter) < MaxFilter /\ filter' = Append(filter, c) /\ UNCHANGED topic
GrowTopic(c) == Len(topic) < MaxTopic /\ topic' = Append(topic, c) /\ UNCHANGED filter

Next == \E c \in Char : GrowFilter(c) \/ GrowTopic(c)

Spec == Init /\ [][Next]_vars

-----------------------------------------------------------------------------
(* The reference.                                                          *)

WILD == {<<"+">>, <<"#">>}

(* A wildcard takes a level of its own; there is at most one hash, in the  *)
(* first level or in the last.                                             *)
WellFormed(name) ==
  LET L == Levels(name)
      hashes == {k \in DOMAIN L : L[k] = <<"#">>}
  IN  /\ \A k \in DOMAIN L : Topics_hasWildcards(L[k]) => L[k] \in WILD
      /\ hashes \subseteq {1, Len(L)} /\ \A j, k \in hashes : j = k

(* A plus stands for one level that is not empty: that it does not stand   *)
(* for an empty one, as it does in MQTT, is what the table asks for.       *)
Meets(W, T) ==
  Len(W) = Len(T) /\ \A k \in DOMAIN W : W[k] = T[k] \/ (W[k] = <<"+">> /\ T[k] # <<>>)

(* A hash stands for any number of levels, none included, and may come     *)
(* first, which MQTT does not have and the table does.                     *)
Covers(W, T) ==
  \/ Meets(W, T)
  \/ W[Len(W)] = <<"#">> /\ \E n \in 0..Len(T) : Meets(Front(W), SubSeq(T, 1, n))
  \/ W[1] = <<"#">> /\ \E n \in 0..Len(T) : Meets(Tail(W), SubSeq(T, Len(T) - n + 1, Len(T)))

Rooted(name) == StartsWith(name, "/")

(* Only the first level, before a leading slash, may be empty.             *)
Clean(name) == name # <<>> /\ \A k \in 2..Len(Levels(name)) : Levels(name)[k] # <<>>

(* What a filter means for a topic: its levels cover those of the topic,   *)
(* and a hash that stands alone keeps away from topics with a dollar.      *)
Means(f, t) == Covers(Levels(f), Levels(t)) /\ (f = <<"#">> => t[1] # "$")

(* The deviation: the code looks at a leading slash of the topic only when *)
(* the filter starts with a slash or a plus, and a hash takes it with the  *)
(* rest.  To all other filters it is an empty level like any other.        *)
SlashOverlooked == Rooted(topic) /\ \A c \in {"/", "+", "#"} : ~StartsWith(filter, c)

-----------------------------------------------------------------------------
(* Properties.                                                             *)

(* Topics_isValidName accepts a name if and only if its levels are well    *)
(* formed, whatever the order of the wildcards and slashes in it.          *)
ValidByLevels == Topics_isValidName(filter) <=> WellFormed(filter)

(* Every row of the table in the source gives the result it states.        *)
TestTable ==
  \A row \in tests1 :
    filter = row.filter /\ topic = row.topic
      => Topics_matches(filter, TRUE, topic) = row.result

(* On names without empty levels inside, Topics_matches says what the      *)
(* levels say, where the leading slash of the topic is not overlooked: a   *)
(* plus stands for one level, a hash at either end for any number, also    *)
(* when the code gets there by reversing both names.                       *)
MatchesLevels ==
  (/\ WellFormed(filter) /\ ~Topics_hasWildcards(topic) /\ Clean(filter) /\ Clean(topic)
   /\ ~SlashOverlooked)
    => (Topics_matches(filter, TRUE, topic) <=> Means(filter, topic))

(* Where it is overlooked the code answers as for the topic without it,    *)
(* against what the levels say and what Topics_matches says of itself      *)
(* ("we have to check whether the first character is / explicitly"): a     *)
(* client that subscribes to a/b is sent what is published to /a/b.        *)
LeadingSlashLost ==
  SlashOverlooked
    => (Topics_matches(filter, TRUE, topic) <=> Topics_matches(filter, TRUE, Tail(topic)))

(* A slash more at the end of a topic, or beside another slash, makes no   *)
(* difference, unless the filter is spelled like one of the two: strtok_r  *)
(* passes over the empty level whatever the filter and the direction.      *)
Lengthened ==
  {Append(topic, "/")} \cup {InsertAt(topic, i, "/") : i \in At(topic, "/")}

EmptyLevelsIgnored ==
  topic # <<>> =>
    \A longer \in Lengthened :
      filter \notin {topic, longer} =>
        (Topics_matches(filter, TRUE, longer) <=> Topics_matches(filter, TRUE, topic))
=============================================================================
