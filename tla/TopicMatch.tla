----------------------------- MODULE TopicMatch -----------------------------
(***************************************************************************)
(* The syntax of topic names and the matching of filters, as mqtt_topics.c *)
(* computes them on strings: Topics_isValidName, Topics_hasWildcards and   *)
(* Topics_matches.  Tables and Broker use the results as BadFilter, Wild   *)
(* and Match.  A name is a sequence of characters; those that the code     *)
(* does not compare with anything are all alike to it.                     *)
(***************************************************************************)
EXTENDS Order, Sequences, SequencesExt

CONSTANT Letter   \* the characters without a meaning

Char == Letter \cup {"/", "+", "#", "$"}

ASSUME LetterAssumption == Letter \cap {"/", "+", "#", "$"} = {}

(* strchr: where a character is.                                           *)
At(name, c) == {i \in DOMAIN name : name[i] = c}

StartsWith(name, c) == name # <<>> /\ name[1] = c

Topics_hasWildcards(name) == At(name, "+") \cup At(name, "#") # {}

(* A wildcard has a slash or an end of the name on either side.            *)
StandsAlone(name, i) ==
  /\ i > 1 => name[i - 1] = "/"
  /\ i < Len(name) => name[i + 1] = "/"

(* (Mutant: any number of hashes.)                                         *)
ValidIfAlone(name) == \A i \in At(name, "+") \cup At(name, "#") : StandsAlone(name, i)

Topics_isValidName(name) ==
  /\ \A i \in At(name, "#") : i \in {1, Len(name)}
  /\ \A i, j \in At(name, "#") : i = j
  /\ \A i \in At(name, "+") \cup At(name, "#") : StandsAlone(name, i)

-----------------------------------------------------------------------------
(* The levels of a name: what lies between slashes, empty ones included.   *)
(* One begins at the start or behind a slash and goes up to the next slash *)
(* or to the end.                                                          *)
Begins(name) == {i \in 1..(Len(name) + 1) : i > 1 => name[i - 1] = "/"}

EndFrom(name, i) == Lowest({j \in i..(Len(name) + 1) : j <= Len(name) => name[j] = "/"})

LevelFrom(name) ==
  [i \in 1..(Len(name) + 1) |-> SubSeq(name, i, EndFrom(name, i) - 1)]

Levels(name) == Selected(LevelFrom(name), Begins(name))

(* (Mutant: a tokenizer that keeps the empty levels, such as strsep.)      *)
strsep(name) == Levels(name)

(* The successive results of strtok_r: empty levels are passed over.       *)
strtok(name) ==
  Selected(LevelFrom(name), {i \in Begins(name) : LevelFrom(name)[i] # <<>>})

_strrev(name) == Reverse(name)

(* Level by level, up to a hash or to the end of both.                     *)
SameLevel(pwild, pmatch) == pwild = <<"+">> \/ pwild = pmatch

StepThrough(wild, topic) ==
  \/ \E h \in DOMAIN wild :
       /\ wild[h] = <<"#">>
       /\ h <= Len(topic) + 1
       /\ \A k \in 1..(h - 1) : SameLevel(wild[k], topic[k])
  \/ Len(wild) = Len(topic) /\ \A k \in DOMAIN wild : SameLevel(wild[k], topic[k])

(* (Mutant: a filter is never read backwards.)                             *)
ForwardMatches(wildTopic, wildcards, topic) ==
  /\ ~Topics_hasWildcards(topic) /\ Topics_isValidName(wildTopic)
  /\ StepThrough(strtok(wildTopic), strtok(topic))

(* Filters that start with a hash are compared from the end.               *)
Steps(wildTopic, topic) ==
  IF StartsWith(wildTopic, "#")
  THEN StepThrough(strtok(_strrev(wildTopic)), strtok(_strrev(topic)))
  ELSE StepThrough(strtok(wildTopic), strtok(topic))

(* (Mutant: the leading slash is left to strtok_r.)                        *)
MatchesUnrooted(wildTopic, wildcards, topic) ==
  /\ ~Topics_hasWildcards(topic) /\ Topics_isValidName(wildTopic)
  /\ IF wildTopic = <<"#">> THEN ~StartsWith(topic, "$") ELSE Steps(wildTopic, topic)

(* (Mutant: the roles of filter and topic in the check of the slash are    *)
(* swapped.)                                                               *)
MatchesSwapped(wildTopic, wildcards, topic) ==
  /\ ~Topics_hasWildcards(topic) /\ Topics_isValidName(wildTopic)
  /\ \/ wildTopic \in {topic, <<"#">>}
     \/ (StartsWith(topic, "/") => StartsWith(wildTopic, "/")) /\ Steps(wildTopic, topic)

Topics_matches(wildTopic, wildcards, topic) ==
  IF ~wildcards THEN wildTopic = topic
  ELSE /\ ~Topics_hasWildcards(topic)
       /\ Topics_isValidName(wildTopic) /\ Topics_isValidName(topic)
       /\ \/ wildTopic = topic
          \/ wildTopic = <<"#">> /\ ~StartsWith(topic, "$")
          \/ wildTopic = <<"/", "#">> /\ StartsWith(topic, "/")
          \/ /\ wildTopic \notin {<<"#">>, <<"/", "#">>}
             /\ StartsWith(wildTopic, "/") => StartsWith(topic, "/")
             /\ StartsWith(wildTopic, "+") => ~StartsWith(topic, "/")
             /\ Steps(wildTopic, topic)
=============================================================================
