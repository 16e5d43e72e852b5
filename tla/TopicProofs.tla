---------------------------- MODULE TopicProofs -----------------------------
(***************************************************************************)
(* The functions of mqtt_topics.c on strings agree with the levels of the  *)
(* names, for names of every length.                                       *)
(***************************************************************************)
EXTENDS TopicLevels, SequenceProofs

-----------------------------------------------------------------------------
(* The place of a level in a name.                                         *)

(* A level goes from i up to before j.                                     *)
IsLevel(name, i, j) ==
  /\ i \in 1..(Len(name) + 1) /\ j \in i..(Len(name) + 1)
  /\ i > 1 => name[i - 1] = "/"
  /\ j <= Len(name) => name[j] = "/"
  /\ \A m \in i..(j - 1) : name[m] # "/"

(* Where the levels that are not empty begin.                              *)
Tokens(name) == {i \in Begins(name) : LevelFrom(name)[i] # <<>>}

LEMMA BeginsTyped ==
  ASSUME NEW S, NEW name \in Seq(S)
  PROVE  /\ Len(name) \in Nat /\ Len(name) + 1 \in Nat
         /\ Begins(name) \subseteq 1..(Len(name) + 1)
         /\ Tokens(name) \subseteq 1..(Len(name) + 1)
         /\ 1 \in Begins(name)
BY LenProperties DEF Begins, Tokens

(* Each level that begins comes to an end.                                 *)
LEMMA LevelEnds ==
  ASSUME NEW S, NEW name \in Seq(S), NEW i \in Begins(name)
  PROVE  IsLevel(name, i, EndFrom(name, i))
<1> DEFINE L == Len(name)
           ends == {j \in i..(L + 1) : j <= L => name[j] = "/"}
           e == EndFrom(name, i)
<1>1. L \in Nat /\ i \in 1..(L + 1) /\ (i > 1 => name[i - 1] = "/")
  BY LenProperties DEF Begins
<1>2. ends \subseteq Nat /\ L + 1 \in ends  BY <1>1
<1>3. e = Lowest(ends)  BY DEF EndFrom
<1>4. e \in ends /\ \A j \in ends : e <= j  BY <1>2, <1>3, LowestProperties
<1> HIDE DEF e
<1>5. e \in i..(L + 1) /\ (e <= L => name[e] = "/")  BY <1>4
<1>6. ASSUME NEW m \in i..(e - 1) PROVE name[m] # "/"
  <2>1. m \in i..(L + 1) /\ ~(e <= m)  BY <1>1, <1>5
  <2> QED  BY <1>4, <2>1
<1> HIDE DEF L
<1> QED  BY <1>1, <1>5, <1>6 DEF IsLevel, L, e

(* Where a level ends is determined by where it begins.                    *)
LEMMA LevelPlace ==
  ASSUME NEW S, NEW name \in Seq(S), NEW i, NEW j, IsLevel(name, i, j)
  PROVE  /\ i \in Begins(name) /\ j = EndFrom(name, i)
         /\ i < j => i \in Tokens(name)
         /\ i \in Tokens(name) => i < j
         /\ LevelFrom(name)[i] = SubSeq(name, i, j - 1)
         /\ LevelFrom(name)[i] \in Seq(S)
         /\ Len(LevelFrom(name)[i]) = j - i
         /\ \A m \in 1..(j - i) : LevelFrom(name)[i][m] = name[i + m - 1]
<1> DEFINE L == Len(name)
           e == EndFrom(name, i)
           l == LevelFrom(name)[i]
<1>1. /\ L \in Nat /\ i \in 1..(L + 1) /\ j \in i..(L + 1)
      /\ i > 1 => name[i - 1] = "/"
      /\ j <= L => name[j] = "/"
      /\ \A m \in i..(j - 1) : name[m] # "/"
  BY LenProperties DEF IsLevel
<1>2. i \in Begins(name)  BY <1>1 DEF Begins
<1>3. IsLevel(name, i, e)  BY <1>2, LevelEnds
<1>4. /\ e \in i..(L + 1) /\ (e <= L => name[e] = "/")
      /\ \A m \in i..(e - 1) : name[m] # "/"
  BY <1>3 DEF IsLevel
<1> HIDE DEF e
<1>5. e = j
  <2>1. ~(e < j)
    <3>1. e < j => e \in i..(j - 1) /\ e <= L  BY <1>1, <1>4
    <3> QED  BY <1>1, <1>4, <3>1
  <2>2. ~(j < e)
    <3>1. j < e => j \in i..(e - 1) /\ j <= L  BY <1>1, <1>4
    <3> QED  BY <1>1, <1>4, <3>1
  <2> QED  BY <1>1, <1>4, <2>1, <2>2
<1>6. l = SubSeq(name, i, j - 1)  BY <1>1, <1>5 DEF LevelFrom, e
<1>7. i \in Nat \ {0} /\ j - 1 \in Nat /\ j - 1 <= Len(name)  BY <1>1
<1>8. /\ l \in Seq(S) /\ Len(l) = IF i <= j - 1 THEN (j - 1) - i + 1 ELSE 0
      /\ \A m \in 1..((j - 1) - i + 1) : l[m] = name[i + m - 1]
  BY <1>6, <1>7, SubSeqTyped
<1> HIDE DEF l
<1>9. Len(l) = j - i /\ (j - 1) - i + 1 = j - i  BY <1>1, <1>8
<1>10. l # <<>> <=> i < j
  <2>1. l = <<>> <=> Len(l) = 0  BY <1>8, EmptySeq
  <2> QED  BY <1>1, <1>9, <2>1
<1>11. i \in Tokens(name) <=> i < j  BY <1>2, <1>10 DEF Tokens, l
<1> QED  BY <1>2, <1>5, <1>6, <1>8, <1>9, <1>11 DEF l, e

(* Levels of the same characters are the same.                             *)
LEMMA LevelSame ==
  ASSUME NEW S, NEW name \in Seq(S), NEW other \in Seq(S), NEW i, NEW j, NEW k, NEW l,
         IsLevel(name, i, j), IsLevel(other, k, l), j - i = l - k,
         \A m \in 1..(j - i) : name[i + m - 1] = other[k + m - 1]
  PROVE  LevelFrom(name)[i] = LevelFrom(other)[k]
<1> DEFINE s == LevelFrom(name)[i]
           t == LevelFrom(other)[k]
<1>1. /\ s \in Seq(S) /\ Len(s) = j - i
      /\ \A m \in 1..(j - i) : s[m] = name[i + m - 1]
  BY LevelPlace
<1>2. /\ t \in Seq(S) /\ Len(t) = l - k
      /\ \A m \in 1..(l - k) : t[m] = other[k + m - 1]
  BY LevelPlace
<1> HIDE DEF s, t
<1>3. Len(s) = Len(t) /\ \A m \in 1..Len(s) : s[m] = t[m]  BY <1>1, <1>2
<1>4. s = t  BY <1>1, <1>2, <1>3, SeqEqual
<1> QED  BY <1>4 DEF s, t

(* Two levels do not overlap.                                              *)
LEMMA LevelsApart ==
  ASSUME NEW S, NEW name \in Seq(S), NEW i, NEW j, NEW k, NEW l,
         IsLevel(name, i, j), IsLevel(name, k, l), i < k
  PROVE  j < k
<1> DEFINE L == Len(name)
<1>1. L \in Nat /\ i \in 1..(L + 1) /\ j \in i..(L + 1) /\ k \in 1..(L + 1)
  BY LenProperties DEF IsLevel
<1>2. k > 1 => name[k - 1] = "/"  BY DEF IsLevel
<1>3. \A m \in i..(j - 1) : name[m] # "/"  BY DEF IsLevel
<1> HIDE DEF L
<1>4. k > 1 /\ (k <= j => k - 1 \in i..(j - 1))  BY <1>1
<1> QED  BY <1>1, <1>2, <1>3, <1>4

(* A character that is no slash belongs to a level.                        *)
LEMMA LevelAround ==
  ASSUME NEW S, NEW name \in Seq(S), NEW q \in 1..Len(name), name[q] # "/"
  PROVE  \E i, j : IsLevel(name, i, j) /\ i <= q /\ q < j
<1> DEFINE L == Len(name)
           since == {i \in 1..q : \A m \in i..q : name[m] # "/"}
           s == Lowest(since)
           e == EndFrom(name, s)
<1>1. L \in Nat /\ q \in 1..L  BY LenProperties
<1>2. since \subseteq Nat /\ q \in since
  <2>1. \A m \in q..q : m = q  BY <1>1
  <2> QED  BY <1>1, <2>1
<1>3. s \in since /\ \A i \in since : s <= i  BY <1>2, LowestProperties
<1> HIDE DEF s
<1>4. s \in 1..q /\ \A m \in s..q : name[m] # "/"  BY <1>3
<1>5. s > 1 => name[s - 1] = "/"
  <2> SUFFICES ASSUME s > 1, name[s - 1] # "/" PROVE FALSE  OBVIOUS
  <2>1. \A m \in (s - 1)..q : m = s - 1 \/ m \in s..q  BY <1>4
  <2>2. s - 1 \in 1..q  BY <1>4
  <2>3. s - 1 \in since  BY <1>4, <2>1, <2>2
  <2>4. ~(s <= s - 1)  BY <1>4
  <2> QED  BY <1>3, <2>3, <2>4
<1>6. s \in Begins(name)  BY <1>1, <1>4, <1>5 DEF Begins
<1>7. IsLevel(name, s, e)  BY <1>6, LevelEnds
<1>8. e \in s..(L + 1) /\ (e <= L => name[e] = "/")  BY <1>7 DEF IsLevel
<1> HIDE DEF e
<1>9. q < e
  <2>1. e <= q => e \in s..q /\ e <= L  BY <1>1, <1>4, <1>8
  <2> QED  BY <1>1, <1>4, <1>8, <2>1
<1> QED  BY <1>4, <1>7, <1>9

(* The levels found are those at the places where they begin.              *)
LEMMA SelectedLevels ==
  ASSUME NEW S, NEW name \in Seq(S), NEW P \in SUBSET Begins(name)
  PROVE  LET L == Selected(LevelFrom(name), P)
         IN  /\ Cardinality(P) \in Nat
             /\ L \in Seq(Seq(S)) /\ Len(L) = Cardinality(P)
             /\ \A k \in 1..Len(L) : Nth(P, k) \in P /\ L[k] = LevelFrom(name)[Nth(P, k)]
             /\ \A i \in P : /\ Rank(P, i) \in 1..Len(L)
                             /\ Nth(P, Rank(P, i)) = i
                             /\ L[Rank(P, i)] = LevelFrom(name)[i]
<1> DEFINE L == Selected(LevelFrom(name), P)
           c == Cardinality(P)
           n == Len(name) + 1
<1>1. n \in Nat /\ P \subseteq 1..n  BY BeginsTyped
<1>2. c \in Nat  BY <1>1, IndexSetFinite
<1>3. \A k \in 1..c : Nth(P, k) \in P  BY <1>1, NthExists
<1>4. \A i \in P : Rank(P, i) \in 1..c /\ Nth(P, Rank(P, i)) = i  BY <1>1, RankTyped, RankNth
<1>5. \A i \in P : LevelFrom(name)[i] \in Seq(S)  BY LevelEnds, LevelPlace
<1>6. L = [k \in 1..c |-> LevelFrom(name)[Nth(P, k)]]  BY DEF Selected
<1> HIDE DEF c, L
<1>7. L \in [1..c -> Seq(S)]  BY <1>3, <1>5, <1>6
<1>8. L \in Seq(Seq(S)) /\ Len(L) = c  BY <1>2, <1>7, SeqDef, LenProperties
<1> QED  BY <1>2, <1>3, <1>4, <1>6, <1>8 DEF c, L

-----------------------------------------------------------------------------
(* A slash beside another, or at either end, is passed over.               *)

LEMMA InsertedAt ==
  ASSUME NEW S, NEW name \in Seq(S), NEW p \in 1..(Len(name) + 1), NEW c \in S
  PROVE  LET longer == InsertAt(name, p, c)
         IN  /\ longer \in Seq(S) /\ Len(longer) = Len(name) + 1
             /\ \A i \in 1..(Len(name) + 1) :
                  longer[i] = IF i < p THEN name[i] ELSE IF i = p THEN c ELSE name[i - 1]
<1> DEFINE L == Len(name)
           left == SubSeq(name, 1, p - 1)
           right == SubSeq(name, p, L)
<1>1. L \in Nat /\ p \in Nat \ {0} /\ p - 1 \in Nat /\ p - 1 <= L  BY LenProperties
<1>2. /\ left \in Seq(S) /\ Len(left) = p - 1
      /\ \A i \in 1..(p - 1) : left[i] = name[i]
  <2>1. /\ left \in Seq(S) /\ Len(left) = IF 1 <= p - 1 THEN (p - 1) - 1 + 1 ELSE 0
        /\ \A i \in 1..((p - 1) - 1 + 1) : left[i] = name[1 + i - 1]
    BY <1>1, SubSeqTyped
  <2> HIDE DEF left, L
  <2> QED  BY <1>1, <2>1
<1>3. /\ right \in Seq(S) /\ Len(right) = L - p + 1
      /\ \A i \in 1..(L - p + 1) : right[i] = name[p + i - 1]
  <2>1. /\ right \in Seq(S) /\ Len(right) = IF p <= L THEN L - p + 1 ELSE 0
        /\ \A i \in 1..(L - p + 1) : right[i] = name[p + i - 1]
    BY <1>1, SubSeqTyped
  <2> HIDE DEF right, L
  <2> QED  BY <1>1, <2>1
<1> HIDE DEF left, right
<1>4. <<c>> \in Seq(S) /\ Len(<<c>>) = 1 /\ <<c>>[1] = c  OBVIOUS
<1>5. /\ left \o <<c>> \in Seq(S) /\ Len(left \o <<c>>) = p
      /\ \A i \in 1..p : (left \o <<c>>)[i] = IF i < p THEN name[i] ELSE c
  <2>1. /\ left \o <<c>> \in Seq(S) /\ Len(left \o <<c>>) = p - 1 + 1
        /\ \A i \in 1..(p - 1 + 1) :
              (left \o <<c>>)[i] = IF i <= p - 1 THEN left[i] ELSE <<c>>[i - (p - 1)]
    BY <1>2, <1>4, ConcatProperties
  <2> QED  BY <1>1, <1>2, <1>4, <2>1
<1>6. /\ InsertAt(name, p, c) \in Seq(S) /\ Len(InsertAt(name, p, c)) = p + (L - p + 1)
      /\ \A i \in 1..(p + (L - p + 1)) :
            InsertAt(name, p, c)[i] = IF i <= p THEN (left \o <<c>>)[i] ELSE right[i - p]
  <2>1. InsertAt(name, p, c) = (left \o <<c>>) \o right  BY DEF InsertAt, left, right
  <2> QED  BY SMTT(30), <1>3, <1>5, <2>1, ConcatProperties
<1>7. p + (L - p + 1) = L + 1  BY <1>1
<1> HIDE DEF L
<1>8. ASSUME NEW i \in 1..(L + 1)
      PROVE  InsertAt(name, p, c)[i] = IF i < p THEN name[i] ELSE IF i = p THEN c ELSE name[i - 1]
  <2>1. CASE i <= p  BY <1>1, <1>5, <1>6, <1>7, <2>1
  <2>2. CASE ~(i <= p)
    <3>1. i - p \in 1..(L - p + 1) /\ p + (i - p) - 1 = i - 1  BY <1>1, <2>2
    <3>2. right[i - p] = name[i - 1]  BY <1>3, <3>1
    <3> QED  BY <1>1, <1>6, <1>7, <2>2, <3>2
  <2> QED  BY <2>1, <2>2
<1> QED  BY <1>6, <1>7, <1>8 DEF L

(* No level lies on both sides of the place.                               *)
Between(name, p) ==
  /\ p \in 1..(Len(name) + 1)
  /\ p \notin {1, Len(name) + 1} => name[p - 1] = "/" \/ name[p] = "/"

Moved(p, i) == IF i < p THEN i ELSE i + 1

LEMMA LevelMoves ==
  ASSUME NEW S, NEW name \in Seq(S), "/" \in S, NEW p, Between(name, p),
         NEW i, NEW j, IsLevel(name, i, j), i < j
  PROVE  LET longer == InsertAt(name, p, "/")
         IN  /\ IsLevel(longer, Moved(p, i), Moved(p, j - 1) + 1)
             /\ LevelFrom(longer)[Moved(p, i)] = LevelFrom(name)[i]
<1> DEFINE L == Len(name)
           longer == InsertAt(name, p, "/")
           k == Moved(p, i)
           l == Moved(p, j - 1) + 1
<1>1. /\ L \in Nat /\ i \in 1..(L + 1) /\ j \in i..(L + 1) /\ i < j
      /\ i > 1 => name[i - 1] = "/"
      /\ j <= L => name[j] = "/"
      /\ \A m \in i..(j - 1) : name[m] # "/"
  BY LenProperties DEF IsLevel
<1>2. p \in 1..(L + 1) /\ (p \notin {1, L + 1} => name[p - 1] = "/" \/ name[p] = "/")
  BY DEF Between
<1>3. /\ longer \in Seq(S) /\ Len(longer) = L + 1
      /\ \A m \in 1..(L + 1) :
           longer[m] = IF m < p THEN name[m] ELSE IF m = p THEN "/" ELSE name[m - 1]
  BY <1>2, InsertedAt
<1> HIDE DEF longer, L
<1>4. p <= i \/ j <= p
  <2> SUFFICES ASSUME i < p, p < j PROVE FALSE  BY <1>1, <1>2
  <2>1. p - 1 \in i..(j - 1) /\ p \in i..(j - 1) /\ p # 1 /\ p # L + 1  BY <1>1, <1>2
  <2> QED  BY <1>1, <1>2, <2>1
<1>5. CASE p <= i
  <2>1. k = i + 1 /\ l = j + 1  BY <1>1, <1>2, <1>5 DEF Moved
  <2>2. k > 1 => longer[k - 1] = "/"
    <3>1. k - 1 = i /\ i \in 1..(L + 1)  BY <1>1, <2>1
    <3>2. CASE i = p  BY <1>3, <3>1, <3>2
    <3>3. CASE i # p
      <4>1. ~(i < p) /\ i > 1  BY <1>1, <1>2, <1>5, <3>3
      <4> QED  BY <1>1, <1>3, <3>1, <3>3, <4>1
    <3> QED  BY <3>2, <3>3
  <2>3. l <= L + 1 => longer[l] = "/"
    <3>1. ~(j + 1 < p) /\ j + 1 # p /\ j + 1 - 1 = j /\ j + 1 >= 1  BY <1>1, <1>2, <1>5
    <3>2. l <= L + 1 => j <= L /\ j + 1 \in 1..(L + 1)  BY <1>1, <2>1
    <3> QED  BY <1>1, <1>3, <2>1, <3>1, <3>2
  <2>4. ASSUME NEW m \in k..(l - 1) PROVE longer[m] # "/" /\ longer[m] = name[m - 1]
    <3>1. /\ m \in 1..(L + 1) /\ ~(m < p) /\ m # p
          /\ m - 1 \in i..(j - 1)
      BY <1>1, <1>2, <1>5, <2>1
    <3> QED  BY <1>1, <1>3, <3>1
  <2>5. k \in 1..(L + 2) /\ l \in k..(L + 2) /\ L + 2 = (L + 1) + 1  BY <1>1, <2>1
  <2>6. IsLevel(longer, k, l)  BY <1>3, <2>2, <2>3, <2>4, <2>5 DEF IsLevel
  <2>7. ASSUME NEW m \in 1..(j - i) PROVE name[i + m - 1] = longer[k + m - 1]
    <3>1. k + m - 1 \in k..(l - 1) /\ k + m - 1 - 1 = i + m - 1  BY <1>1, <2>1
    <3> DEFINE x == k + m - 1
    <3> HIDE DEF k, l, x
    <3>2. longer[x] = name[x - 1]  BY <2>4, <3>1 DEF x
    <3>3. x = k + m - 1 /\ x - 1 = i + m - 1  BY <1>1, <2>1 DEF x
    <3> QED  BY <3>2, <3>3
  <2>8. j - i = l - k  BY <1>1, <2>1
  <2>9. LevelFrom(name)[i] = LevelFrom(longer)[k]
    BY <1>3, <2>6, <2>7, <2>8, LevelSame
  <2> QED  BY <2>6, <2>9 DEF longer
<1>6. CASE j <= p /\ ~(p <= i)
  <2>1. k = i /\ l = j  BY <1>1, <1>2, <1>6 DEF Moved
  <2>2. k > 1 => longer[k - 1] = "/"
    <3>1. i > 1 => i - 1 \in 1..(L + 1) /\ i - 1 < p  BY <1>1, <1>2, <1>6
    <3> QED  BY <1>1, <1>3, <2>1, <3>1
  <2>3. l <= L + 1 => longer[l] = "/"
    <3>1. j \in 1..(L + 1)  BY <1>1
    <3>2. CASE j = p  BY <1>3, <2>1, <3>1, <3>2
    <3>3. CASE j # p
      <4>1. j < p /\ j <= L  BY <1>1, <1>2, <1>6, <3>3
      <4> QED  BY <1>1, <1>3, <2>1, <3>1, <4>1
    <3> QED  BY <3>2, <3>3
  <2>4. ASSUME NEW m \in k..(l - 1) PROVE longer[m] # "/" /\ longer[m] = name[m]
    <3>1. m \in 1..(L + 1) /\ m < p /\ m \in i..(j - 1)  BY <1>1, <1>2, <1>6, <2>1
    <3> QED  BY <1>1, <1>3, <3>1
  <2>5. k \in 1..(L + 1 + 1) /\ l \in k..(L + 1 + 1)  BY <1>1, <2>1
  <2>6. IsLevel(longer, k, l)  BY <1>3, <2>2, <2>3, <2>4, <2>5 DEF IsLevel
  <2>7. ASSUME NEW m \in 1..(j - i) PROVE name[i + m - 1] = longer[k + m - 1]
    <3>1. k + m - 1 \in k..(l - 1) /\ k + m - 1 = i + m - 1  BY <1>1, <2>1
    <3>2. longer[k + m - 1] = name[k + m - 1]  BY <2>4, <3>1
    <3> QED  BY <3>1, <3>2
  <2>8. j - i = l - k  BY <1>1, <2>1
  <2>9. LevelFrom(name)[i] = LevelFrom(longer)[k]
    BY <1>3, <2>6, <2>7, <2>8, LevelSame
  <2> QED  BY <2>6, <2>9 DEF longer
<1> QED  BY <1>4, <1>5, <1>6

(* The tokens are the same, in the same order.                             *)
LEMMA TokensMove ==
  ASSUME NEW S, NEW name \in Seq(S), "/" \in S, NEW p, Between(name, p)
  PROVE  Tokens(InsertAt(name, p, "/")) = {Moved(p, i) : i \in Tokens(name)}
<1> DEFINE L == Len(name)
           longer == InsertAt(name, p, "/")
<1>1. L \in Nat /\ p \in 1..(L + 1) /\ (p \notin {1, L + 1} => name[p - 1] = "/" \/ name[p] = "/")
  BY LenProperties DEF Between
<1>2. /\ longer \in Seq(S) /\ Len(longer) = L + 1
      /\ \A m \in 1..(L + 1) :
           longer[m] = IF m < p THEN name[m] ELSE IF m = p THEN "/" ELSE name[m - 1]
  BY <1>1, InsertedAt
<1> HIDE DEF longer, L
<1>3. ASSUME NEW i \in Tokens(name) PROVE Moved(p, i) \in Tokens(longer)
  <2> DEFINE j == EndFrom(name, i)
             k == Moved(p, i)
             l == Moved(p, j - 1) + 1
  <2>1. i \in Begins(name)  BY DEF Tokens
  <2>2. IsLevel(name, i, j)  BY <2>1, LevelEnds
  <2>3. i < j  BY <2>2, LevelPlace
  <2>4. IsLevel(longer, k, l)  BY <2>2, <2>3, LevelMoves DEF longer
  <2>5. i \in Nat /\ j \in Nat /\ p \in Nat  BY <1>1, <2>2, BeginsTyped DEF IsLevel
  <2>6. k < l  BY <2>3, <2>5 DEF Moved
  <2> QED  BY <1>2, <2>4, <2>6, LevelPlace
<1>4. ASSUME NEW r \in Tokens(longer) PROVE \E i \in Tokens(name) : r = Moved(p, i)
  <2> DEFINE e == EndFrom(longer, r)
             i == IF r < p THEN r ELSE r - 1
  <2>1. IsLevel(longer, r, e) /\ r < e
    <3>1. r \in Begins(longer)  BY DEF Tokens
    <3>2. IsLevel(longer, r, e)  BY <1>2, <3>1, LevelEnds
    <3> QED  BY <1>2, <3>2, LevelPlace
  <2> HIDE DEF e
  <2>2. /\ r \in 1..(L + 2) /\ e \in r..(L + 2)
        /\ r > 1 => longer[r - 1] = "/"
        /\ \A m \in r..(e - 1) : longer[m] # "/"
    <3>1. Len(longer) + 1 = L + 2  BY <1>1, <1>2
    <3> QED  BY <2>1, <3>1 DEF IsLevel
  <2>3. r \in 1..(L + 1) /\ longer[r] # "/"
    <3>1. r \in r..(e - 1)  BY <1>1, <2>1, <2>2
    <3> QED  BY <1>1, <2>1, <2>2, <3>1
  <2>4. r # p  BY <1>2, <2>3
  <2>5. i \in 1..L /\ name[i] # "/" /\ r = Moved(p, i)
    <3>1. CASE r < p
      <4>1. i = r /\ r \in 1..L  BY <1>1, <2>3, <3>1
      <4> QED  BY <1>2, <2>3, <3>1, <4>1 DEF Moved
    <3>2. CASE ~(r < p)
      <4>1. i = r - 1 /\ r - 1 \in 1..L /\ ~(r - 1 < p) /\ r - 1 + 1 = r
        BY <1>1, <2>3, <2>4, <3>2
      <4> QED  BY <1>2, <2>3, <2>4, <3>2, <4>1 DEF Moved
    <3> QED  BY <3>1, <3>2
  <2>6. i > 1 => name[i - 1] = "/"
    <3> SUFFICES ASSUME i > 1 PROVE name[i - 1] = "/"  OBVIOUS
    <3>1. CASE r < p
      <4>1. i = r /\ r - 1 \in 1..(L + 1) /\ r - 1 < p /\ r > 1  BY <1>1, <2>3, <3>1
      <4> QED  BY <1>2, <2>2, <4>1
    <3>2. CASE ~(r < p) /\ r - 1 = p
      <4>1. i = p /\ p # 1 /\ p # L + 1  BY <1>1, <2>3, <3>2
      <4> QED  BY <1>1, <2>5, <4>1
    <3>3. CASE ~(r < p) /\ r - 1 # p
      <4>1. i = r - 1 /\ r - 1 \in 1..(L + 1) /\ ~(r - 1 < p) /\ r > 1 /\ i - 1 = r - 1 - 1
        BY <1>1, <2>3, <2>4, <3>3
      <4> QED  BY <1>2, <2>2, <3>3, <4>1
    <3> QED  BY <3>1, <3>2, <3>3
  <2> HIDE DEF i
  <2>7. i \in Begins(name)  BY <1>1, <2>5, <2>6 DEF Begins, L
  <2> DEFINE f == EndFrom(name, i)
  <2>8. IsLevel(name, i, f)  BY <2>7, LevelEnds
  <2>9. i < f
    <3>1. f \in i..(L + 1) /\ (f <= L => name[f] = "/")  BY <2>8 DEF IsLevel, L
    <3>2. f # i  BY <1>1, <2>5, <3>1
    <3> QED  BY <1>1, <2>5, <3>1, <3>2
  <2>10. i \in Tokens(name)  BY <2>8, <2>9, LevelPlace
  <2> QED  BY <2>5, <2>10
<1> QED  BY <1>3, <1>4 DEF longer

LEMMA SlashPassedOver ==
  ASSUME NEW S, NEW name \in Seq(S), "/" \in S, NEW p, Between(name, p)
  PROVE  strtok(InsertAt(name, p, "/")) = strtok(name)
<1> DEFINE longer == InsertAt(name, p, "/")
           n == Len(name) + 2
           T == Tokens(name)
           c == Cardinality(T)
           f == [k \in 1..c |-> Moved(p, Nth(T, k))]
<1>1. /\ Len(name) \in Nat /\ n \in Nat /\ p \in Nat /\ T \subseteq 1..(Len(name) + 1)
      /\ Len(name) + 1 \in Nat
  BY BeginsTyped DEF Between
<1>2. c \in Nat  BY <1>1, IndexSetFinite
<1>3. \A k \in 1..c : Nth(T, k) \in T /\ Nth(T, k) \in 1..(Len(name) + 1)  BY <1>1, NthExists
<1>4. \A j, k \in 1..c : j < k => Nth(T, j) < Nth(T, k)  BY <1>1, NthIncreases
<1>5. \A i \in T : Rank(T, i) \in 1..c /\ Nth(T, Rank(T, i)) = i  BY <1>1, RankTyped, RankNth
<1>6. Tokens(longer) = {Moved(p, i) : i \in T}  BY TokensMove
<1>7. \A i \in T : LevelFrom(longer)[Moved(p, i)] = LevelFrom(name)[i]
  <2> SUFFICES ASSUME NEW i \in T PROVE LevelFrom(longer)[Moved(p, i)] = LevelFrom(name)[i]
    OBVIOUS
  <2>1. i \in Begins(name)  BY DEF Tokens
  <2>2. IsLevel(name, i, EndFrom(name, i))  BY <2>1, LevelEnds
  <2>3. i < EndFrom(name, i)  BY <2>2, LevelPlace
  <2> QED  BY <2>2, <2>3, LevelMoves
<1>8. strtok(longer) = Selected(LevelFrom(longer), Tokens(longer))  BY DEF strtok, Tokens
<1>9. strtok(name) = Selected(LevelFrom(name), T)  BY DEF strtok, Tokens
<1> HIDE DEF longer, T, c
<1>10. f \in [1..c -> 1..n]
  <2>1. \A i \in 1..(Len(name) + 1) : Moved(p, i) \in 1..n  BY <1>1 DEF Moved
  <2> QED  BY <1>3, <2>1
<1>11. \A j, k \in 1..c : j < k => f[j] < f[k]
  <2>1. \A i, m \in 1..(Len(name) + 1) : i < m => Moved(p, i) < Moved(p, m)  BY <1>1 DEF Moved
  <2> QED  BY <1>3, <1>4, <2>1
<1>12. \A i : i \in Tokens(longer) <=> \E k \in 1..c : i = f[k]
  <2>1. \A i \in T : Moved(p, i) = f[Rank(T, i)]  BY <1>5
  <2>2. \A k \in 1..c : f[k] = Moved(p, Nth(T, k))  OBVIOUS
  <2> QED  BY <1>3, <1>5, <1>6, <2>1, <2>2
<1>13. Cardinality(Tokens(longer)) = c /\ \A k \in 1..c : Nth(Tokens(longer), k) = f[k]
  <2> DEFINE U == Tokens(longer)
  <2>1. \A i : i \in U <=> \E k \in 1..c : i = f[k]  BY <1>12
  <2>2. n \in Nat  BY <1>1
  <2> HIDE DEF f, n, U
  <2>3. U = {f[k] : k \in 1..c}  BY <2>1
  <2>4. LET V == {f[k] : k \in 1..c}
        IN  Cardinality(V) = c /\ \A k \in 1..c : Nth(V, k) = f[k]
    BY <2>2, <1>2, <1>10, <1>11, NthOfFunction
  <2> QED  BY <2>3, <2>4 DEF U
<1>14. \A k \in 1..c : LevelFrom(longer)[f[k]] = LevelFrom(name)[Nth(T, k)]  BY <1>3, <1>7
<1>15. Selected(LevelFrom(name), T) = [k \in 1..c |-> LevelFrom(name)[Nth(T, k)]]
  BY DEF Selected, c
<1> HIDE DEF f
<1>16. Selected(LevelFrom(longer), Tokens(longer)) = [k \in 1..c |-> LevelFrom(longer)[f[k]]]
  BY <1>13 DEF Selected
<1> QED  BY <1>8, <1>9, <1>14, <1>15, <1>16 DEF longer

-----------------------------------------------------------------------------
(* A name read backwards.                                                  *)

LEMMA Reversed ==
  ASSUME NEW S, NEW name \in Seq(S)
  PROVE  /\ Reverse(name) \in Seq(S) /\ Len(Reverse(name)) = Len(name)
         /\ \A m \in 1..Len(name) : Reverse(name)[m] = name[Len(name) + 1 - m]
         /\ Reverse(Reverse(name)) = name
<1> DEFINE L == Len(name)
           R == Reverse(name)
<1>1. L \in Nat /\ \A m \in 1..L : name[m] \in S  BY LenProperties, ElementOfSeq
<1>2. R = [m \in 1..L |-> name[(L - m) + 1]]  BY DEF Reverse
<1>3. \A m \in 1..L : (L - m) + 1 \in 1..L /\ (L - m) + 1 = L + 1 - m  BY <1>1
<1>4. R \in [1..L -> S]  BY <1>1, <1>2, <1>3
<1>5. R \in Seq(S) /\ Len(R) = L  BY <1>1, <1>4, SeqDef, LenProperties
<1>6. \A m \in 1..L : R[m] = name[L + 1 - m]  BY <1>2, <1>3
<1> HIDE DEF L, R
<1>7. Reverse(R) = name
  <2>1. Reverse(R) = [m \in 1..L |-> R[(L - m) + 1]]  BY <1>5 DEF Reverse
  <2>2. ASSUME NEW m \in 1..L PROVE R[(L - m) + 1] = name[m]
    <3>1. (L - m) + 1 \in 1..L /\ L + 1 - ((L - m) + 1) = m  BY <1>1
    <3> QED  BY <1>6, <3>1
  <2>3. name = [m \in 1..L |-> name[m]]  BY DEF L
  <2> QED  BY <2>1, <2>2, <2>3
<1> QED  BY <1>5, <1>6, <1>7 DEF L, R

LEMMA LevelReverses ==
  ASSUME NEW S, NEW name \in Seq(S), NEW i, NEW j, IsLevel(name, i, j)
  PROVE  LET L == Len(name)
         IN  /\ IsLevel(Reverse(name), L + 2 - j, L + 2 - i)
             /\ LevelFrom(Reverse(name))[L + 2 - j] = Reverse(LevelFrom(name)[i])
<1> DEFINE L == Len(name)
           R == Reverse(name)
           k == L + 2 - j
           l == L + 2 - i
           s == LevelFrom(name)[i]
<1>1. /\ L \in Nat /\ i \in 1..(L + 1) /\ j \in i..(L + 1)
      /\ i > 1 => name[i - 1] = "/"
      /\ j <= L => name[j] = "/"
      /\ \A m \in i..(j - 1) : name[m] # "/"
  BY LenProperties DEF IsLevel
<1>2. R \in Seq(S) /\ Len(R) = L /\ \A m \in 1..L : R[m] = name[L + 1 - m]
  BY Reversed
<1> HIDE DEF L, R
<1>3. k \in 1..(L + 1) /\ l \in k..(L + 1) /\ l - k = j - i  BY <1>1
<1>4. k > 1 => R[k - 1] = "/"
  <2>1. k > 1 => k - 1 \in 1..L /\ L + 1 - (k - 1) = j /\ j <= L  BY <1>1
  <2> QED  BY <1>1, <1>2, <2>1
<1>5. l <= L => R[l] = "/"
  <2>1. l <= L => l \in 1..L /\ L + 1 - l = i - 1 /\ i > 1  BY <1>1
  <2> QED  BY <1>1, <1>2, <2>1
<1>6. ASSUME NEW m \in k..(l - 1) PROVE R[m] # "/"
  <2>1. m \in 1..L /\ L + 1 - m \in i..(j - 1)  BY <1>1
  <2> QED  BY <1>1, <1>2, <2>1
<1>7. IsLevel(R, k, l)
  <2> HIDE DEF k, l
  <2> QED  BY <1>2, <1>3, <1>4, <1>5, <1>6 DEF IsLevel
<1>8. /\ s \in Seq(S) /\ Len(s) = j - i
      /\ \A m \in 1..(j - i) : s[m] = name[i + m - 1]
  BY LevelPlace
<1>9. /\ LevelFrom(R)[k] \in Seq(S) /\ Len(LevelFrom(R)[k]) = j - i
      /\ \A m \in 1..(j - i) : LevelFrom(R)[k][m] = R[k + m - 1]
  <2>1. /\ LevelFrom(R)[k] \in Seq(S) /\ Len(LevelFrom(R)[k]) = l - k
        /\ \A m \in 1..(l - k) : LevelFrom(R)[k][m] = R[k + m - 1]
    <3>1. R \in Seq(S)  BY <1>2
    <3> HIDE DEF k, l, s
    <3> QED  BY <3>1, <1>7, LevelPlace
  <2> QED  BY <1>3, <2>1
<1>10. /\ Reverse(s) \in Seq(S) /\ Len(Reverse(s)) = j - i
       /\ \A m \in 1..(j - i) : Reverse(s)[m] = s[j - i + 1 - m]
  <2> HIDE DEF s
  <2> QED  BY <1>8, Reversed
<1>11. ASSUME NEW m \in 1..(j - i) PROVE LevelFrom(R)[k][m] = Reverse(s)[m]
  <2>1. k + m - 1 \in 1..L /\ L + 1 - (k + m - 1) = j - m  BY <1>1
  <2>2. LevelFrom(R)[k][m] = name[j - m]  BY <1>2, <1>9, <2>1
  <2>3. j - i + 1 - m \in 1..(j - i) /\ i + (j - i + 1 - m) - 1 = j - m  BY <1>1
  <2>4. Reverse(s)[m] = name[j - m]  BY <1>8, <1>10, <2>3
  <2> QED  BY <2>2, <2>4
<1>12. LevelFrom(R)[k] = Reverse(s)
  <2> HIDE DEF k, s
  <2> QED  BY <1>9, <1>10, <1>11, SeqEqual
<1> QED  BY <1>7, <1>12 DEF L, R

LEMMA TokensReverse ==
  ASSUME NEW S, NEW name \in Seq(S)
  PROVE  \A r : r \in Tokens(Reverse(name))
                <=> \E i \in Tokens(name) : r = Len(name) + 2 - EndFrom(name, i)
<1> DEFINE L == Len(name)
           R == Reverse(name)
<1>1. L \in Nat  BY LenProperties
<1>2. R \in Seq(S) /\ Len(R) = L /\ Reverse(R) = name  BY Reversed
<1> HIDE DEF L, R
<1>3. ASSUME NEW i \in Tokens(name) PROVE L + 2 - EndFrom(name, i) \in Tokens(R)
  <2> DEFINE j == EndFrom(name, i)
  <2>1. i \in Begins(name)  BY DEF Tokens
  <2>2. IsLevel(name, i, j)  BY <2>1, LevelEnds
  <2>3. i < j  BY <2>2, LevelPlace
  <2>4. i \in Nat /\ j \in Nat
    <3>1. i \in 1..(L + 1) /\ j \in i..(L + 1)  BY <2>2 DEF IsLevel, L
    <3> QED  BY <1>1, <3>1
  <2>5. IsLevel(R, L + 2 - j, L + 2 - i)  BY <2>2, LevelReverses DEF L, R
  <2>6. L + 2 - j < L + 2 - i  BY <1>1, <2>3, <2>4
  <2> HIDE DEF j
  <2>7. L + 2 - j \in Tokens(R)  BY <1>2, <2>5, <2>6, LevelPlace
  <2> QED  BY <2>7 DEF j
<1>4. ASSUME NEW r \in Tokens(R) PROVE \E i \in Tokens(name) : r = L + 2 - EndFrom(name, i)
  <2> DEFINE e == EndFrom(R, r)
             i == L + 2 - e
  <2>1. r \in Begins(R)  BY DEF Tokens
  <2>2. IsLevel(R, r, e)  BY <1>2, <2>1, LevelEnds
  <2>3. r < e  BY <1>2, <2>2, LevelPlace
  <2>4. r \in Nat /\ e \in Nat
    <3>1. r \in 1..(L + 1) /\ e \in r..(L + 1)  BY <1>2, <2>2 DEF IsLevel
    <3> QED  BY <1>1, <3>1
  <2>5. IsLevel(name, i, L + 2 - r)  BY <1>2, <2>2, LevelReverses
  <2>6. i < L + 2 - r /\ L + 2 - (L + 2 - r) = r  BY <1>1, <2>3, <2>4
  <2> HIDE DEF i
  <2>7. i \in Tokens(name) /\ L + 2 - r = EndFrom(name, i)  BY <2>5, <2>6, LevelPlace
  <2> QED  BY <2>6, <2>7
<1> QED  BY <1>3, <1>4 DEF L, R

(* The tokens come backwards, and each is read backwards.                  *)
LEMMA TokensBackwards ==
  ASSUME NEW S, NEW name \in Seq(S)
  PROVE  /\ Len(strtok(_strrev(name))) = Len(strtok(name))
         /\ \A k \in 1..Len(strtok(name)) :
              strtok(_strrev(name))[k] = Reverse(strtok(name)[Len(strtok(name)) + 1 - k])
<1> DEFINE L == Len(name)
           R == Reverse(name)
           T == Tokens(name)
           U == Tokens(R)
           c == Cardinality(T)
           n == L + 1
           f == [k \in 1..c |-> L + 2 - EndFrom(name, Nth(T, c + 1 - k))]
<1>1. L \in Nat /\ n \in Nat /\ T \subseteq 1..n  BY BeginsTyped
<1>2. c \in Nat  BY <1>1, IndexSetFinite
<1>3. \A k \in 1..c : Nth(T, k) \in T  BY <1>1, NthExists
<1>4. \A j, k \in 1..c : j < k => Nth(T, j) < Nth(T, k)  BY <1>1, NthIncreases
<1>5. \A i \in T : Rank(T, i) \in 1..c /\ Nth(T, Rank(T, i)) = i  BY <1>1, RankTyped, RankNth
<1>6. \A r : r \in U <=> \E i \in T : r = L + 2 - EndFrom(name, i)  BY TokensReverse
<1>7. ASSUME NEW i \in T
      PROVE  /\ IsLevel(name, i, EndFrom(name, i))
             /\ i \in 1..n /\ EndFrom(name, i) \in 1..n /\ i < EndFrom(name, i)
             /\ LevelFrom(R)[L + 2 - EndFrom(name, i)] = Reverse(LevelFrom(name)[i])
  <2>1. i \in Begins(name)  BY DEF Tokens
  <2>2. IsLevel(name, i, EndFrom(name, i))  BY <2>1, LevelEnds
  <2>3. i < EndFrom(name, i)  BY <2>2, LevelPlace
  <2>4. i \in 1..n /\ EndFrom(name, i) \in i..n  BY <2>2 DEF IsLevel
  <2>5. EndFrom(name, i) \in 1..n  BY <1>1, <2>4
  <2> QED  BY <2>2, <2>3, <2>4, <2>5, LevelReverses
<1>8. strtok(_strrev(name)) = Selected(LevelFrom(R), U)  BY DEF strtok, Tokens, _strrev
<1>9. strtok(name) = Selected(LevelFrom(name), T)  BY DEF strtok, Tokens
<1>10. \A i, j \in T : i < j => EndFrom(name, i) < EndFrom(name, j)
  <2> SUFFICES ASSUME NEW i \in T, NEW j \in T, i < j
               PROVE  EndFrom(name, i) < EndFrom(name, j)
    OBVIOUS
  <2>1. EndFrom(name, i) < j  BY <1>7, LevelsApart
  <2>2. j \in Nat /\ EndFrom(name, i) \in Nat /\ EndFrom(name, j) \in Nat /\ j < EndFrom(name, j)
    <3> HIDE DEF n, T
    <3>1. j \in 1..n /\ EndFrom(name, i) \in 1..n /\ EndFrom(name, j) \in 1..n  BY <1>7
    <3> QED  BY <1>1, <1>7, <3>1
  <2> QED  BY <2>1, <2>2
<1> HIDE DEF R, T, U, c
<1>11. \A k \in 1..c : c + 1 - k \in 1..c /\ Nth(T, c + 1 - k) \in T  BY <1>2, <1>3
<1>12. f \in [1..c -> 1..n]
  <2> SUFFICES ASSUME NEW k \in 1..c PROVE L + 2 - EndFrom(name, Nth(T, c + 1 - k)) \in 1..n
    OBVIOUS
  <2>1. EndFrom(name, Nth(T, c + 1 - k)) \in 1..n  BY <1>7, <1>11
  <2> QED  BY <1>1, <2>1
<1>13. ASSUME NEW j \in 1..c, NEW k \in 1..c, j < k PROVE f[j] < f[k]
  <2> DEFINE a == Nth(T, c + 1 - k)
             b == Nth(T, c + 1 - j)
  <2>1. c + 1 - k < c + 1 - j  BY <1>2, <1>13
  <2>2. a \in T /\ b \in T /\ a < b  BY <1>4, <1>11, <2>1
  <2>3. f[j] = L + 2 - EndFrom(name, b) /\ f[k] = L + 2 - EndFrom(name, a)  OBVIOUS
  <2> HIDE DEF a, b, f
  <2>4. EndFrom(name, a) < EndFrom(name, b)  BY <1>10, <2>2
  <2>5. EndFrom(name, a) \in 1..n /\ EndFrom(name, b) \in 1..n  BY <1>7, <2>2
  <2> QED  BY <1>1, <2>3, <2>4, <2>5
<1>14. U = {f[k] : k \in 1..c}
  <2>1. ASSUME NEW i \in T PROVE \E k \in 1..c : f[k] = L + 2 - EndFrom(name, i)
    <3> DEFINE k == c + 1 - Rank(T, i)
    <3>1. Rank(T, i) \in 1..c /\ Nth(T, Rank(T, i)) = i  BY <1>5
    <3>2. k \in 1..c /\ c + 1 - k = Rank(T, i)  BY <1>2, <3>1
    <3> HIDE DEF k
    <3>3. f[k] = L + 2 - EndFrom(name, Nth(T, c + 1 - k))  BY <3>2
    <3> HIDE DEF f
    <3> QED  BY <3>1, <3>2, <3>3
  <2>2. ASSUME NEW k \in 1..c PROVE \E i \in T : f[k] = L + 2 - EndFrom(name, i)
    BY <1>11
  <2> HIDE DEF f
  <2> QED  BY <1>6, <2>1, <2>2
<1>15. Cardinality(U) = c /\ \A k \in 1..c : Nth(U, k) = f[k]
  <2> HIDE DEF f, n
  <2>1. LET V == {f[k] : k \in 1..c}
        IN  Cardinality(V) = c /\ \A k \in 1..c : Nth(V, k) = f[k]
    BY <1>1, <1>2, <1>12, <1>13, NthOfFunction
  <2> QED  BY <1>14, <2>1
<1>16. strtok(name) = [k \in 1..c |-> LevelFrom(name)[Nth(T, k)]]  BY <1>9 DEF Selected, c
<1>17. strtok(_strrev(name)) = [k \in 1..c |-> LevelFrom(R)[f[k]]]
  <2> HIDE DEF f
  <2> QED  BY <1>8, <1>15 DEF Selected
<1>18. Len(strtok(name)) = c /\ Len(strtok(_strrev(name))) = c
  <2> HIDE DEF f
  <2> QED  BY <1>2, <1>16, <1>17
<1>19. ASSUME NEW k \in 1..c
       PROVE  strtok(_strrev(name))[k] = Reverse(strtok(name)[c + 1 - k])
  <2> DEFINE i == Nth(T, c + 1 - k)
  <2>1. i \in T /\ f[k] = L + 2 - EndFrom(name, i)  BY <1>11
  <2>2. strtok(name)[c + 1 - k] = LevelFrom(name)[i]  BY <1>11, <1>16
  <2> HIDE DEF f, i
  <2>3. strtok(_strrev(name))[k] = LevelFrom(R)[f[k]]  BY <1>17
  <2> QED  BY <1>7, <2>1, <2>2, <2>3
<1> QED  BY <1>18, <1>19

-----------------------------------------------------------------------------
(* The levels of a name, from the first to the last.                       *)

(* Level k of the name begins here.                                        *)
Place(name, k) == Nth(Begins(name), k)

LEMMA LevelsPlaced ==
  ASSUME NEW S, NEW name \in Seq(S)
  PROVE  /\ Levels(name) \in Seq(Seq(S)) /\ Len(Levels(name)) \in Nat \ {0}
         /\ \A k \in 1..Len(Levels(name)) :
              /\ Place(name, k) \in Begins(name)
              /\ Levels(name)[k] = LevelFrom(name)[Place(name, k)]
         /\ \A i \in Begins(name) :
              \E k \in 1..Len(Levels(name)) : i = Place(name, k)
         /\ \A j, k \in 1..Len(Levels(name)) : j < k => Place(name, j) < Place(name, k)
         /\ Place(name, 1) = 1
<1> DEFINE B == Begins(name)
           L == Levels(name)
<1>1. /\ Len(name) + 1 \in Nat /\ B \subseteq 1..(Len(name) + 1) /\ 1 \in B
  BY BeginsTyped
<1>2. /\ L \in Seq(Seq(S)) /\ Len(L) = Cardinality(B) /\ Len(L) \in Nat
      /\ \A k \in 1..Len(L) : Nth(B, k) \in B /\ L[k] = LevelFrom(name)[Nth(B, k)]
      /\ \A i \in B : Rank(B, i) \in 1..Len(L) /\ Nth(B, Rank(B, i)) = i
  BY SelectedLevels DEF Levels
<1>3. \A j, k \in 1..Len(L) : j < k => Nth(B, j) < Nth(B, k)
  BY <1>1, <1>2, NthIncreases
<1> HIDE DEF B, L
<1>4. Nth(B, 1) = 1
  <2> DEFINE r == Rank(B, 1)
  <2>1. r \in 1..Len(L) /\ Nth(B, r) = 1  BY <1>1, <1>2
  <2> HIDE DEF r
  <2>2. 1 \in 1..Len(L)  BY <1>2, <2>1
  <2>3. Nth(B, 1) \in 1..(Len(name) + 1)  BY <1>1, <1>2, <2>2
  <2>4. ~(1 < r)
    <3>1. 1 < r => Nth(B, 1) < 1  BY <1>3, <2>1, <2>2
    <3> QED  BY <2>3, <3>1
  <2>5. r = 1  BY <2>1, <2>4
  <2> QED  BY <2>1, <2>5
<1>5. Len(L) # 0  BY <1>1, <1>2
<1>6. \A i \in B : \E k \in 1..Len(L) : i = Nth(B, k)  BY <1>2
<1> QED  BY <1>2, <1>3, <1>4, <1>5, <1>6 DEF B, L, Place

LEMMA LevelPlaced ==
  ASSUME NEW S, NEW name \in Seq(S), NEW k \in 1..Len(Levels(name))
  PROVE  LET i == Place(name, k)
             j == EndFrom(name, i)
         IN  /\ IsLevel(name, i, j)
             /\ Levels(name)[k] \in Seq(S) /\ Len(Levels(name)[k]) = j - i
             /\ \A m \in 1..(j - i) : Levels(name)[k][m] = name[i + m - 1]
             /\ k = 1 <=> i = 1
             /\ k = Len(Levels(name)) <=> j = Len(name) + 1
<1> DEFINE L == Levels(name)
           i == Place(name, k)
           j == EndFrom(name, i)
<1>1. i \in Begins(name) /\ L[k] = LevelFrom(name)[i] /\ Len(L) \in Nat
  BY LevelsPlaced
<1>2. IsLevel(name, i, j)  BY <1>1, LevelEnds
<1>3. /\ LevelFrom(name)[i] \in Seq(S) /\ Len(LevelFrom(name)[i]) = j - i
      /\ \A m \in 1..(j - i) : LevelFrom(name)[i][m] = name[i + m - 1]
  <2> HIDE DEF i, j
  <2> QED  BY <1>2, LevelPlace
<1>4. \A m, n \in 1..Len(L) : m < n => Place(name, m) < Place(name, n)  BY LevelsPlaced
<1>5. Place(name, 1) = 1 /\ Len(name) \in Nat  BY LevelsPlaced, BeginsTyped
<1>6. /\ i \in 1..(Len(name) + 1) /\ j \in i..(Len(name) + 1)
      /\ j <= Len(name) => name[j] = "/"
      /\ \A m \in i..(j - 1) : name[m] # "/"
  BY <1>2 DEF IsLevel
<1> HIDE DEF L, i, j
<1>7. k = 1 <=> i = 1
  <2>1. 1 < k => Place(name, 1) < i  BY <1>1, <1>4 DEF i, L
  <2>2. k = 1 => i = 1  BY <1>5 DEF i
  <2> QED  BY <1>1, <1>5, <2>1, <2>2 DEF L
<1>8. ASSUME k = Len(L) PROVE j = Len(name) + 1
  <2> SUFFICES ASSUME j <= Len(name) PROVE FALSE  BY <1>5, <1>6
  <2>1. j + 1 \in Begins(name)
    <3>1. j + 1 \in 1..(Len(name) + 1) /\ j + 1 - 1 = j  BY <1>5, <1>6
    <3> QED  BY <1>6, <3>1 DEF Begins
  <2>2. PICK m \in 1..Len(L) : j + 1 = Place(name, m)  BY <2>1, LevelsPlaced DEF L
  <2>3. m < k \/ m = k  BY <1>1, <1>8, <2>2
  <2>4. k \in 1..Len(L)  BY DEF L
  <2>5. m < k => j + 1 < i  BY <1>4, <2>2, <2>4 DEF i
  <2>6. m = k => j + 1 = i  BY <2>2 DEF i
  <2> QED  BY <1>5, <1>6, <2>3, <2>5, <2>6
<1>9. ASSUME j = Len(name) + 1 PROVE k = Len(L)
  <2> DEFINE m == Len(L)
             a == Place(name, m)
  <2> SUFFICES ASSUME k # m PROVE FALSE  OBVIOUS
  <2>1. m \in 1..Len(L) /\ k \in 1..Len(L) /\ k < m  BY <1>1 DEF L
  <2>2. i < a  BY <1>4, <2>1 DEF i
  <2>3. a \in Begins(name)  BY <2>1, LevelsPlaced DEF L
  <2> HIDE DEF a
  <2>4. a \in 1..(Len(name) + 1) /\ (a > 1 => name[a - 1] = "/")  BY <2>3 DEF Begins
  <2>5. a - 1 \in i..(j - 1) /\ a > 1  BY <1>5, <1>6, <1>9, <2>2, <2>4
  <2> QED  BY <1>6, <2>4, <2>5
<1> QED  BY <1>1, <1>2, <1>3, <1>7, <1>8, <1>9 DEF L, i, j

-----------------------------------------------------------------------------
(* The syntax of a name.                                                   *)

Wildcard == {"+", "#"}

LEMMA WildcardsIn ==
  ASSUME NEW S, NEW name \in Seq(S)
  PROVE  /\ DOMAIN name = 1..Len(name)
         /\ At(name, "+") \cup At(name, "#") = {q \in 1..Len(name) : name[q] \in Wildcard}
         /\ Topics_hasWildcards(name) <=> \E q \in 1..Len(name) : name[q] \in Wildcard
         /\ At(name, "#") = {q \in 1..Len(name) : name[q] = "#"}
<1>1. DOMAIN name = 1..Len(name)  BY LenProperties
<1> QED  BY <1>1 DEF At, Topics_hasWildcards, Wildcard

LEMMA SingleLevel ==
  ASSUME NEW S, NEW l \in Seq(S), NEW c
  PROVE  l = <<c>> <=> Len(l) = 1 /\ l[1] = c
<1>1. ASSUME Len(l) = 1, l[1] = c PROVE l = <<c>>
  <2>1. l = [i \in 1..1 |-> l[i]]  BY <1>1, LenProperties
  <2>2. \A i \in 1..1 : l[i] = c  BY <1>1
  <2> QED  BY <2>1, <2>2
<1> QED  BY <1>1

(* A wildcard that stands alone is a level.                                *)
LEMMA AloneIsLevel ==
  ASSUME NEW S, NEW name \in Seq(S), NEW i, NEW j, IsLevel(name, i, j),
         NEW q \in i..(j - 1)
  PROVE  StandsAlone(name, q) <=> i = q /\ j = q + 1
<1> DEFINE L == Len(name)
<1>1. /\ L \in Nat /\ i \in 1..(L + 1) /\ j \in i..(L + 1)
      /\ i > 1 => name[i - 1] = "/"
      /\ j <= L => name[j] = "/"
      /\ \A m \in i..(j - 1) : name[m] # "/"
  BY LenProperties DEF IsLevel
<1>2. StandsAlone(name, q) <=> /\ q > 1 => name[q - 1] = "/"
                               /\ q < L => name[q + 1] = "/"
  BY DEF StandsAlone
<1> HIDE DEF L
<1>3. ASSUME StandsAlone(name, q) PROVE i = q /\ j = q + 1
  <2>1. i < q => q - 1 \in i..(j - 1) /\ q > 1  BY <1>1
  <2>2. q + 1 < j => q + 1 \in i..(j - 1) /\ q < L  BY <1>1
  <2> QED  BY <1>1, <1>2, <1>3, <2>1, <2>2
<1>4. ASSUME i = q, j = q + 1 PROVE StandsAlone(name, q)
  <2>1. q < L => j <= L  BY <1>1, <1>4
  <2> QED  BY <1>1, <1>2, <1>4, <2>1
<1> QED  BY <1>3, <1>4

(* A character that is a wildcard lies in a level that has one.            *)
LEMMA WildcardsLevel ==
  ASSUME NEW S, NEW name \in Seq(S), NEW q \in 1..Len(name), name[q] \in Wildcard
  PROVE  \E k \in 1..Len(Levels(name)) :
           LET i == Place(name, k)
               j == EndFrom(name, i)
           IN  /\ q \in i..(j - 1)
               /\ Topics_hasWildcards(Levels(name)[k])
               /\ Levels(name)[k][q - i + 1] = name[q]
<1>1. name[q] # "/"  BY DEF Wildcard
<1>2. PICK i, j : IsLevel(name, i, j) /\ i <= q /\ q < j  BY <1>1, LevelAround
<1>3. i \in Begins(name) /\ j = EndFrom(name, i)  BY <1>2, LevelPlace
<1>4. PICK k \in 1..Len(Levels(name)) : i = Place(name, k)  BY <1>3, LevelsPlaced
<1> DEFINE l == Levels(name)[k]
<1>5. /\ l \in Seq(S) /\ Len(l) = j - i
      /\ \A m \in 1..(j - i) : l[m] = name[i + m - 1]
  BY <1>3, <1>4, LevelPlaced
<1>6. i \in Nat /\ j \in Nat /\ q \in Nat
  <2>1. i \in 1..(Len(name) + 1) /\ j \in i..(Len(name) + 1)  BY <1>2 DEF IsLevel
  <2> QED  BY <2>1, BeginsTyped
<1> HIDE DEF l
<1>7. q - i + 1 \in 1..(j - i) /\ i + (q - i + 1) - 1 = q  BY <1>2, <1>6
<1>8. l[q - i + 1] = name[q]  BY <1>5, <1>7
<1>9. q - i + 1 \in 1..Len(l) /\ l[q - i + 1] \in Wildcard  BY <1>5, <1>7, <1>8
<1>10. Topics_hasWildcards(l)  BY <1>5, <1>9, WildcardsIn
<1>11. q \in i..(j - 1)  BY <1>2, <1>6
<1> QED  BY <1>3, <1>4, <1>8, <1>10, <1>11 DEF l

LEMMA ValidIsWellFormed ==
  ASSUME NEW S, NEW name \in Seq(S), Topics_isValidName(name)
  PROVE  WellFormed(name)
<1> DEFINE L == Levels(name)
           hashes == {k \in DOMAIN L : L[k] = <<"#">>}
           end(k) == EndFrom(name, Place(name, k))
<1>1. L \in Seq(Seq(S)) /\ Len(L) \in Nat \ {0} /\ DOMAIN L = 1..Len(L)
  BY LevelsPlaced, LenProperties
<1>2. /\ \A q \in 1..Len(name) : name[q] = "#" => q \in {1, Len(name)}
      /\ \A p, q \in 1..Len(name) : name[p] = "#" /\ name[q] = "#" => p = q
      /\ \A q \in 1..Len(name) : name[q] \in Wildcard => StandsAlone(name, q)
  BY WildcardsIn DEF Topics_isValidName
<1>3. ASSUME NEW k \in 1..Len(L)
      PROVE  /\ IsLevel(name, Place(name, k), end(k))
             /\ L[k] \in Seq(S) /\ Len(L[k]) = end(k) - Place(name, k)
             /\ \A m \in 1..(end(k) - Place(name, k)) : L[k][m] = name[Place(name, k) + m - 1]
             /\ k = 1 <=> Place(name, k) = 1
             /\ k = Len(L) <=> end(k) = Len(name) + 1
             /\ Place(name, k) \in 1..(Len(name) + 1) /\ end(k) \in Place(name, k)..(Len(name) + 1)
             /\ Len(name) \in Nat
  BY LevelPlaced, BeginsTyped DEF IsLevel
<1> HIDE DEF L, end
<1>4. ASSUME NEW k \in 1..Len(L), Topics_hasWildcards(L[k])
      PROVE  /\ Place(name, k) \in 1..Len(name) /\ end(k) = Place(name, k) + 1
             /\ L[k] = <<name[Place(name, k)]>> /\ L[k] \in WILD
  <2> DEFINE i == Place(name, k)
             l == L[k]
             j == end(k)
  <2>1. /\ IsLevel(name, i, j) /\ l \in Seq(S) /\ Len(l) = j - i
        /\ \A m \in 1..(j - i) : l[m] = name[i + m - 1]
        /\ i \in 1..(Len(name) + 1) /\ j \in i..(Len(name) + 1) /\ Len(name) \in Nat
    BY <1>3
  <2>2. Topics_hasWildcards(l)  BY <1>4
  <2> HIDE DEF i, j, l
  <2>3. PICK m \in 1..Len(l) : l[m] \in Wildcard  BY <2>1, <2>2, WildcardsIn
  <2> DEFINE q == i + m - 1
  <2>4. q \in i..(j - 1) /\ q \in 1..Len(name) /\ m \in 1..(j - i)  BY <2>1, <2>3
  <2>5. name[q] \in Wildcard  BY <2>1, <2>3, <2>4
  <2> HIDE DEF q
  <2>6. StandsAlone(name, q)  BY <1>2, <2>4, <2>5
  <2>7. i = q /\ j = q + 1  BY SMTT(30), <2>1, <2>4, <2>6, AloneIsLevel
  <2>8. Len(l) = 1 /\ l[1] = name[i]
    <3>1. j - i = 1 /\ i + 1 - 1 = i  BY <2>1, <2>7
    <3> QED  BY <2>1, <3>1
  <2>9. l = <<name[i]>>  BY <2>1, <2>8, SingleLevel
  <2>10. l \in WILD  BY <2>5, <2>7, <2>9 DEF WILD, Wildcard
  <2> QED  BY <2>4, <2>7, <2>9, <2>10 DEF i, j, l
<1>5. ASSUME NEW k \in hashes
      PROVE  /\ k \in 1..Len(L) /\ Place(name, k) \in 1..Len(name)
             /\ name[Place(name, k)] = "#" /\ end(k) = Place(name, k) + 1
  <2>1. k \in 1..Len(L) /\ L[k] = <<"#">>  BY <1>1
  <2>2. Topics_hasWildcards(L[k])
    <3>1. 1 \in At(<<"#">>, "#")  BY DEF At
    <3>2. Topics_hasWildcards(<<"#">>)  BY <3>1 DEF Topics_hasWildcards
    <3> QED  BY <2>1, <3>2
  <2>3. L[k] = <<name[Place(name, k)]>>  BY <1>4, <2>1, <2>2
  <2>4. name[Place(name, k)] = "#"  BY <2>1, <2>3
  <2> QED  BY <1>4, <2>1, <2>2, <2>4
<1>6. ASSUME NEW k \in hashes PROVE k \in {1, Len(L)}
  <2>1. Place(name, k) \in {1, Len(name)}  BY <1>2, <1>5
  <2>2. Place(name, k) = 1 => k = 1  BY <1>3, <1>5
  <2>3. Place(name, k) = Len(name) => k = Len(L)  BY <1>3, <1>5
  <2> QED  BY <2>1, <2>2, <2>3
<1>7. ASSUME NEW j \in hashes, NEW k \in hashes PROVE j = k
  <2>1. Place(name, j) = Place(name, k)  BY <1>2, <1>5
  <2>2. \A m, n \in 1..Len(L) : m < n => Place(name, m) < Place(name, n)
    BY LevelsPlaced DEF L
  <2>3. j \in 1..Len(L) /\ k \in 1..Len(L)  BY <1>5
  <2>4. Place(name, j) \in 1..Len(name)  BY <1>5
  <2>5. ~(j < k) /\ ~(k < j)  BY <2>1, <2>2, <2>3, <2>4
  <2> QED  BY <2>3, <2>5
<1> QED  BY <1>1, <1>4, <1>6, <1>7 DEF WellFormed, L

LEMMA WellFormedIsValid ==
  ASSUME NEW S, NEW name \in Seq(S), WellFormed(name)
  PROVE  Topics_isValidName(name)
<1> DEFINE L == Levels(name)
           end(k) == EndFrom(name, Place(name, k))
<1>1. L \in Seq(Seq(S)) /\ Len(L) \in Nat \ {0} /\ DOMAIN L = 1..Len(L)
  BY LevelsPlaced, LenProperties
<1>2. /\ \A k \in 1..Len(L) : Topics_hasWildcards(L[k]) => L[k] \in WILD
      /\ \A k \in 1..Len(L) : L[k] = <<"#">> => k \in {1, Len(L)}
      /\ \A j, k \in 1..Len(L) : L[j] = <<"#">> /\ L[k] = <<"#">> => j = k
  BY <1>1 DEF WellFormed
<1>3. ASSUME NEW k \in 1..Len(L)
      PROVE  /\ IsLevel(name, Place(name, k), end(k))
             /\ Len(L[k]) = end(k) - Place(name, k)
             /\ k = 1 <=> Place(name, k) = 1
             /\ k = Len(L) <=> end(k) = Len(name) + 1
             /\ Place(name, k) \in 1..(Len(name) + 1) /\ end(k) \in Place(name, k)..(Len(name) + 1)
             /\ Len(name) \in Nat
  BY LevelPlaced, BeginsTyped DEF IsLevel
<1>4. ASSUME NEW q \in 1..Len(name), name[q] \in Wildcard
      PROVE  \E k \in 1..Len(L) : /\ q = Place(name, k) /\ end(k) = q + 1
                                  /\ IsLevel(name, q, q + 1)
                                  /\ L[k] = <<name[q]>>
  <2>1. PICK k \in 1..Len(L) : /\ q \in Place(name, k)..(end(k) - 1)
                               /\ Topics_hasWildcards(L[k])
                               /\ L[k][q - Place(name, k) + 1] = name[q]
    BY <1>4, WildcardsLevel
  <2> DEFINE i == Place(name, k)
             j == end(k)
             l == L[k]
  <2>2. l \in WILD  BY <1>2, <2>1
  <2>3. /\ IsLevel(name, i, j) /\ Len(l) = j - i
        /\ i \in 1..(Len(name) + 1) /\ j \in i..(Len(name) + 1) /\ Len(name) \in Nat
    BY <1>3
  <2>4. q \in i..(j - 1) /\ l[q - i + 1] = name[q]  BY <2>1
  <2> HIDE DEF i, j, l
  <2>5. Len(l) = 1 /\ l = <<l[1]>>  BY <2>2 DEF WILD
  <2>6. j = i + 1 /\ q = i /\ q - i + 1 = 1
    <3>1. i \in Nat /\ j \in Nat /\ q \in i..(j - 1)  BY <2>3, <2>4
    <3>2. j - i = 1  BY <2>3, <2>5
    <3> QED  BY <3>1, <3>2
  <2>7. l = <<name[q]>>  BY <2>4, <2>5, <2>6
  <2> QED  BY <2>3, <2>6, <2>7 DEF i, j, l
<1> HIDE DEF L, end
<1>5. ASSUME NEW q \in 1..Len(name), name[q] \in Wildcard PROVE StandsAlone(name, q)
  <2>1. IsLevel(name, q, q + 1)  BY <1>4, <1>5
  <2>2. q \in q..(q + 1 - 1)  OBVIOUS
  <2> QED  BY <2>1, <2>2, AloneIsLevel
<1>6. ASSUME NEW q \in 1..Len(name), name[q] = "#" PROVE q \in {1, Len(name)}
  <2>1. name[q] \in Wildcard  BY <1>6 DEF Wildcard
  <2>2. PICK k \in 1..Len(L) : q = Place(name, k) /\ end(k) = q + 1 /\ L[k] = <<name[q]>>
    BY <1>4, <2>1
  <2>3. k \in {1, Len(L)}  BY <1>2, <1>6, <2>2
  <2> QED  BY <1>3, <2>2, <2>3
<1>7. ASSUME NEW p \in 1..Len(name), NEW q \in 1..Len(name), name[p] = "#", name[q] = "#"
      PROVE  p = q
  <2>1. name[p] \in Wildcard /\ name[q] \in Wildcard  BY <1>7 DEF Wildcard
  <2>2. PICK j \in 1..Len(L) : p = Place(name, j) /\ L[j] = <<"#">>  BY <1>4, <1>7, <2>1
  <2>3. PICK k \in 1..Len(L) : q = Place(name, k) /\ L[k] = <<"#">>  BY <1>4, <1>7, <2>1
  <2> QED  BY <1>2, <2>2, <2>3
<1> QED  BY <1>5, <1>6, <1>7, WildcardsIn DEF Topics_isValidName

-----------------------------------------------------------------------------
(* Empty levels.                                                           *)

LEMMA StrtokTyped ==
  ASSUME NEW S, NEW name \in Seq(S)
  PROVE  strtok(name) \in Seq(Seq(S))
<1>1. Tokens(name) \in SUBSET Begins(name)  BY DEF Tokens
<1>2. Selected(LevelFrom(name), Tokens(name)) \in Seq(Seq(S))  BY <1>1, SelectedLevels
<1> QED  BY <1>2 DEF strtok, Tokens

(* All that Topics_matches asks about a topic is the same with a slash     *)
(* more beside another.                                                    *)
LEMMA SlashUnseen ==
  ASSUME NEW S, NEW name \in Seq(S), "/" \in S, NEW p, Between(name, p), name # <<>>,
         p = 1 => name[1] = "/"
  PROVE  LET longer == InsertAt(name, p, "/")
         IN  /\ longer \in Seq(S)
             /\ Topics_hasWildcards(longer) <=> Topics_hasWildcards(name)
             /\ ~Topics_hasWildcards(name)
                  => Topics_isValidName(longer) /\ Topics_isValidName(name)
             /\ \A c : StartsWith(longer, c) <=> StartsWith(name, c)
             /\ strtok(longer) = strtok(name)
             /\ strtok(_strrev(longer)) = strtok(_strrev(name))
<1> DEFINE L == Len(name)
           longer == InsertAt(name, p, "/")
<1>1. L \in Nat /\ L # 0 /\ p \in 1..(L + 1)  BY LenProperties, EmptySeq DEF Between
<1>2. /\ longer \in Seq(S) /\ Len(longer) = L + 1
      /\ \A m \in 1..(L + 1) :
           longer[m] = IF m < p THEN name[m] ELSE IF m = p THEN "/" ELSE name[m - 1]
  BY <1>1, InsertedAt
<1>3. strtok(longer) = strtok(name)  BY SlashPassedOver
<1> HIDE DEF L, longer
<1>4. \A m \in 1..L : Moved(p, m) \in 1..(L + 1) /\ longer[Moved(p, m)] = name[m]
  <2> SUFFICES ASSUME NEW m \in 1..L
               PROVE  Moved(p, m) \in 1..(L + 1) /\ longer[Moved(p, m)] = name[m]
    OBVIOUS
  <2>1. CASE m < p
    <3>1. Moved(p, m) = m /\ m \in 1..(L + 1)  BY <1>1, <2>1 DEF Moved
    <3> QED  BY <1>2, <2>1, <3>1
  <2>2. CASE ~(m < p)
    <3>1. /\ Moved(p, m) = m + 1 /\ m + 1 \in 1..(L + 1) /\ ~(m + 1 < p) /\ m + 1 # p
          /\ m + 1 - 1 = m
      BY <1>1, <2>2 DEF Moved
    <3>2. longer[m + 1] = name[m + 1 - 1]  BY <1>2, <3>1
    <3> QED  BY <3>1, <3>2
  <2> QED  BY <2>1, <2>2
<1>5. \A m \in 1..(L + 1) : longer[m] = "/" \/ \E n \in 1..L : longer[m] = name[n]
  <2> SUFFICES ASSUME NEW m \in 1..(L + 1), m # p PROVE \E n \in 1..L : longer[m] = name[n]
    BY <1>2
  <2>1. CASE m < p
    <3>1. m \in 1..L  BY <1>1, <2>1
    <3> QED  BY <1>2, <2>1, <3>1
  <2>2. CASE ~(m < p)
    <3>1. m - 1 \in 1..L  BY <1>1, <2>2
    <3> QED  BY <1>2, <2>2, <3>1
  <2> QED  BY <2>1, <2>2
<1>6. Topics_hasWildcards(longer) <=> Topics_hasWildcards(name)
  <2>1. Topics_hasWildcards(name) <=> \E q \in 1..L : name[q] \in Wildcard
    BY WildcardsIn DEF L
  <2>2. Topics_hasWildcards(longer) <=> \E q \in 1..(L + 1) : longer[q] \in Wildcard
    BY <1>2, WildcardsIn
  <2>3. "/" \notin Wildcard  BY DEF Wildcard
  <2> QED  BY <1>4, <1>5, <2>1, <2>2, <2>3
<1>7. \A n : ~Topics_hasWildcards(n) => Topics_isValidName(n)
  BY DEF Topics_hasWildcards, Topics_isValidName
<1>8. longer[1] = name[1] /\ longer # <<>>
  <2>1. 1 \in 1..(L + 1) /\ (p # 1 => 1 < p)  BY <1>1
  <2>2. longer[1] = name[1]  BY <1>2, <2>1
  <2>3. Len(longer) # 0  BY <1>1, <1>2
  <2> QED  BY <1>2, <2>2, <2>3, EmptySeq
<1>9. \A c : StartsWith(longer, c) <=> StartsWith(name, c)  BY <1>8 DEF StartsWith
<1>10. strtok(_strrev(longer)) = strtok(_strrev(name))
  <2> DEFINE s == strtok(_strrev(longer))
             t == strtok(_strrev(name))
             u == strtok(name)
  <2>1. /\ Len(s) = Len(u)
        /\ \A k \in 1..Len(u) : s[k] = Reverse(u[Len(u) + 1 - k])
    <3>1. /\ Len(s) = Len(strtok(longer))
          /\ \A k \in 1..Len(strtok(longer)) :
                s[k] = Reverse(strtok(longer)[Len(strtok(longer)) + 1 - k])
      BY <1>2, TokensBackwards
    <3> QED  BY <1>3, <3>1
  <2>2. /\ Len(t) = Len(u)
        /\ \A k \in 1..Len(u) : t[k] = Reverse(u[Len(u) + 1 - k])
    BY TokensBackwards
  <2>3. s \in Seq(Seq(S)) /\ t \in Seq(Seq(S))
    BY <1>2, StrtokTyped, Reversed DEF _strrev
  <2> HIDE DEF s, t, u
  <2>4. s = t  BY <2>1, <2>2, <2>3, SeqEqual
  <2> QED  BY <2>4 DEF s, t
<1> QED  BY <1>2, <1>3, <1>6, <1>7, <1>9, <1>10 DEF longer

LEMMA SlashIgnored ==
  ASSUME NEW S, NEW name \in Seq(S), "/" \in S, NEW p, Between(name, p), name # <<>>,
         p = 1 => name[1] = "/",
         NEW f, f \notin {name, InsertAt(name, p, "/")}
  PROVE  Topics_matches(f, TRUE, InsertAt(name, p, "/")) <=> Topics_matches(f, TRUE, name)
<1> DEFINE longer == InsertAt(name, p, "/")
<1>1. /\ Topics_hasWildcards(longer) <=> Topics_hasWildcards(name)
      /\ ~Topics_hasWildcards(name) => Topics_isValidName(longer) /\ Topics_isValidName(name)
      /\ \A c : StartsWith(longer, c) <=> StartsWith(name, c)
      /\ strtok(longer) = strtok(name)
      /\ strtok(_strrev(longer)) = strtok(_strrev(name))
  BY SlashUnseen
<1> HIDE DEF longer
<1>2. f # name /\ f # longer  BY DEF longer
<1>3. Topics_matches(f, TRUE, longer) <=> Topics_matches(f, TRUE, name)
  BY <1>1, <1>2 DEF Topics_matches, Steps
<1> QED  BY <1>3 DEF longer

LEMMA LengthenedInserts ==
  ASSUME NEW S, NEW name \in Seq(S), "/" \in S, name # <<>>
  PROVE  /\ Append(name, "/") = InsertAt(name, Len(name) + 1, "/")
         /\ Between(name, Len(name) + 1) /\ Len(name) + 1 # 1
         /\ \A i \in At(name, "/") : Between(name, i) /\ name[i] = "/"
<1> DEFINE L == Len(name)
           longer == InsertAt(name, L + 1, "/")
<1>1. L \in Nat /\ L # 0 /\ L + 1 \in 1..(L + 1) /\ DOMAIN name = 1..L
  BY LenProperties, EmptySeq
<1>2. /\ longer \in Seq(S) /\ Len(longer) = L + 1
      /\ \A m \in 1..(L + 1) :
           longer[m] = IF m < L + 1 THEN name[m] ELSE IF m = L + 1 THEN "/" ELSE name[m - 1]
  <2> DEFINE p == L + 1
  <2>1. p \in 1..(Len(name) + 1)  BY <1>1
  <2> HIDE DEF p
  <2>2. /\ InsertAt(name, p, "/") \in Seq(S) /\ Len(InsertAt(name, p, "/")) = L + 1
        /\ \A m \in 1..(L + 1) :
             InsertAt(name, p, "/")[m]
               = IF m < p THEN name[m] ELSE IF m = p THEN "/" ELSE name[m - 1]
    BY <2>1, InsertedAt
  <2> QED  BY <2>2 DEF p
<1>3. /\ Append(name, "/") \in Seq(S) /\ Len(Append(name, "/")) = L + 1
      /\ \A m \in 1..L : Append(name, "/")[m] = name[m]
      /\ Append(name, "/")[L + 1] = "/"
  BY AppendProperties
<1> HIDE DEF L, longer
<1>4. \A m \in 1..(L + 1) : (m \in 1..L /\ m < L + 1) \/ (m = L + 1 /\ ~(m < L + 1))
  BY <1>1
<1>5. \A m \in 1..(L + 1) : longer[m] = Append(name, "/")[m]  BY <1>2, <1>3, <1>4
<1>6. longer = Append(name, "/")  BY <1>2, <1>3, <1>5, SeqEqual
<1>7. Between(name, L + 1) /\ L + 1 # 1  BY <1>1 DEF Between, L
<1>8. \A i \in At(name, "/") : Between(name, i) /\ name[i] = "/"
  BY <1>1 DEF At, Between, L
<1> QED  BY <1>6, <1>7, <1>8 DEF L, longer

-----------------------------------------------------------------------------
(* What a filter covers, level by level.                                   *)

MeetsLevel(a, b) == a = b \/ (a = <<"+">> /\ b # <<>>)

LEMMA MeetsUnfolds ==
  ASSUME NEW S, NEW W \in Seq(S), NEW T
  PROVE  Meets(W, T) <=> Len(W) = Len(T) /\ \A k \in 1..Len(W) : MeetsLevel(W[k], T[k])
<1>1. DOMAIN W = 1..Len(W)  BY LenProperties
<1> QED  BY <1>1 DEF Meets, MeetsLevel

(* All but the last level, against the first levels of a topic.            *)
LEMMA MeetsFirst ==
  ASSUME NEW S, NEW W \in Seq(S), W # <<>>, NEW T \in Seq(S)
  PROVE  (\E n \in 0..Len(T) : Meets(Front(W), SubSeq(T, 1, n)))
           <=> /\ Len(W) - 1 <= Len(T)
               /\ \A k \in 1..(Len(W) - 1) : MeetsLevel(W[k], T[k])
<1> DEFINE m == Len(W) - 1
           F == Front(W)
           P(n) == SubSeq(T, 1, n)
<1>1. m \in Nat /\ m <= Len(W) /\ Len(T) \in Nat  BY LenProperties, EmptySeq
<1>2. F \in Seq(S) /\ Len(F) = m /\ \A k \in 1..m : F[k] = W[k]
  <2>1. F = SubSeq(W, 1, m)  BY DEF Front
  <2> HIDE DEF F, m
  <2>2. /\ SubSeq(W, 1, m) \in Seq(S) /\ Len(SubSeq(W, 1, m)) = IF 1 <= m THEN m - 1 + 1 ELSE 0
        /\ \A k \in 1..(m - 1 + 1) : SubSeq(W, 1, m)[k] = W[1 + k - 1]
    BY <1>1, SubSeqTyped
  <2> QED  BY <1>1, <2>1, <2>2
<1>3. ASSUME NEW n \in 0..Len(T) PROVE Len(P(n)) = n /\ \A k \in 1..n : P(n)[k] = T[k]
  <2>1. n \in Nat /\ n <= Len(T)  BY <1>1
  <2>2. /\ Len(P(n)) = IF 1 <= n THEN n - 1 + 1 ELSE 0
        /\ \A k \in 1..(n - 1 + 1) : P(n)[k] = T[1 + k - 1]
    BY <2>1, SubSeqTyped
  <2> HIDE DEF P
  <2> QED  BY <2>1, <2>2
<1> HIDE DEF m, F, P
<1>4. ASSUME NEW n \in 0..Len(T)
      PROVE  Meets(F, P(n)) <=> n = m /\ \A k \in 1..m : MeetsLevel(W[k], T[k])
  <2>1. Meets(F, P(n)) <=> Len(F) = Len(P(n)) /\ \A k \in 1..Len(F) : MeetsLevel(F[k], P(n)[k])
    BY <1>2, MeetsUnfolds
  <2>2. m = n => \A k \in 1..m : F[k] = W[k] /\ P(n)[k] = T[k]  BY <1>2, <1>3
  <2>3. Len(F) = m /\ Len(P(n)) = n  BY <1>2, <1>3
  <2> QED  BY <2>1, <2>2, <2>3
<1>5. (\E n \in 0..Len(T) : Meets(F, P(n)))
        <=> m \in 0..Len(T) /\ \A k \in 1..m : MeetsLevel(W[k], T[k])
  BY <1>4
<1>6. m \in 0..Len(T) <=> m <= Len(T)  BY <1>1
<1> QED  BY <1>5, <1>6 DEF m, F, P

(* All but the first level, against the last levels of a topic.            *)
LEMMA MeetsLast ==
  ASSUME NEW S, NEW W \in Seq(S), W # <<>>, NEW T \in Seq(S)
  PROVE  (\E n \in 0..Len(T) : Meets(Tail(W), SubSeq(T, Len(T) - n + 1, Len(T))))
           <=> /\ Len(W) - 1 <= Len(T)
               /\ \A k \in 1..(Len(W) - 1) :
                    MeetsLevel(W[k + 1], T[Len(T) - (Len(W) - 1) + k])
<1> DEFINE l == Len(T)
           m == Len(W) - 1
           F == Tail(W)
           P(n) == SubSeq(T, l - n + 1, l)
<1>1. m \in Nat /\ l \in Nat  BY LenProperties, EmptySeq
<1>2. F \in Seq(S) /\ Len(F) = m /\ \A k \in 1..m : F[k] = W[k + 1]
  BY HeadTailProperties, LenProperties, EmptySeq
<1>3. ASSUME NEW n \in 0..l PROVE Len(P(n)) = n /\ \A k \in 1..n : P(n)[k] = T[l - n + k]
  <2>1. l - n + 1 \in Nat \ {0} /\ l <= Len(T)  BY <1>1
  <2> DEFINE b == l - n + 1
  <2>2. l - b + 1 = n /\ (b <= l <=> n # 0)  BY <1>1
  <2> HIDE DEF b
  <2>3. /\ Len(SubSeq(T, b, l)) = IF b <= l THEN l - b + 1 ELSE 0
        /\ \A k \in 1..(l - b + 1) : SubSeq(T, b, l)[k] = T[b + k - 1]
    BY <1>1, <2>1, SubSeqTyped DEF b
  <2>4. Len(SubSeq(T, b, l)) = n /\ \A k \in 1..n : SubSeq(T, b, l)[k] = T[b + k - 1]
    BY <2>2, <2>3
  <2>5. \A k \in 1..n : b + k - 1 = l - n + k  BY <1>1 DEF b
  <2>6. P(n) = SubSeq(T, b, l)  BY DEF b
  <2> HIDE DEF P, l
  <2> QED  BY <2>4, <2>5, <2>6
<1> HIDE DEF m, F, P, l
<1>4. ASSUME NEW n \in 0..l
      PROVE  Meets(F, P(n)) <=> n = m /\ \A k \in 1..m : MeetsLevel(W[k + 1], T[l - m + k])
  <2>1. Meets(F, P(n)) <=> Len(F) = Len(P(n)) /\ \A k \in 1..Len(F) : MeetsLevel(F[k], P(n)[k])
    BY <1>2, MeetsUnfolds
  <2>2. m = n => \A k \in 1..m : F[k] = W[k + 1] /\ P(n)[k] = T[l - m + k]  BY <1>2, <1>3
  <2>3. Len(F) = m /\ Len(P(n)) = n  BY <1>2, <1>3
  <2> QED  BY <2>1, <2>2, <2>3
<1>5. (\E n \in 0..l : Meets(F, P(n)))
        <=> m \in 0..l /\ \A k \in 1..m : MeetsLevel(W[k + 1], T[l - m + k])
  BY <1>4
<1>6. m \in 0..l <=> m <= l  BY <1>1
<1> QED  BY <1>5, <1>6 DEF m, F, P, l

(* The levels of a filter are met from the first on, up to a hash.         *)
Ahead(W, T) ==
  \/ Len(W) = Len(T) /\ \A k \in 1..Len(W) : MeetsLevel(W[k], T[k])
  \/ /\ W[Len(W)] = <<"#">> /\ Len(W) - 1 <= Len(T)
     /\ \A k \in 1..(Len(W) - 1) : MeetsLevel(W[k], T[k])

(* They are met from the last back to a hash in the first.                 *)
Behind(W, T) ==
  /\ W[1] = <<"#">> /\ Len(W) - 1 <= Len(T)
  /\ \A k \in 1..(Len(W) - 1) : MeetsLevel(W[k + 1], T[Len(T) - (Len(W) - 1) + k])

LEMMA CoversUnfolds ==
  ASSUME NEW S, NEW W \in Seq(S), W # <<>>, NEW T \in Seq(S)
  PROVE  Covers(W, T) <=> Ahead(W, T) \/ Behind(W, T)
BY SMTT(30), MeetsUnfolds, MeetsFirst, MeetsLast DEF Covers, Ahead, Behind

-----------------------------------------------------------------------------
(* The levels of clean names.                                              *)

(* A topic has no level that is a wildcard.                                *)
LEMMA TopicLevelsPlain ==
  ASSUME NEW S, NEW name \in Seq(S), ~Topics_hasWildcards(name),
         NEW k \in 1..Len(Levels(name))
  PROVE  Levels(name)[k] \notin WILD
<1> DEFINE i == Place(name, k)
           j == EndFrom(name, i)
           l == Levels(name)[k]
<1> SUFFICES ASSUME l \in WILD PROVE FALSE  OBVIOUS
<1>1. Len(l) = 1 /\ l[1] \in Wildcard  BY DEF WILD, Wildcard
<1>2. /\ IsLevel(name, i, j) /\ Len(l) = j - i
      /\ \A m \in 1..(j - i) : l[m] = name[i + m - 1]
  BY LevelPlaced
<1>3. i \in 1..(Len(name) + 1) /\ j \in i..(Len(name) + 1) /\ Len(name) \in Nat
  BY <1>2, BeginsTyped DEF IsLevel
<1> HIDE DEF i, j, l
<1>4. i \in 1..Len(name) /\ 1 \in 1..(j - i) /\ i + 1 - 1 = i
  <2>1. j - i = 1  BY <1>1, <1>2
  <2> QED  BY <1>3, <2>1
<1>5. name[i] \in Wildcard  BY <1>1, <1>2, <1>4
<1> QED  BY <1>4, <1>5, WildcardsIn

(* The first level is what lies before the first slash.                    *)
LEMMA FirstLevel ==
  ASSUME NEW S, NEW name \in Seq(S), name # <<>>
  PROVE  /\ Levels(name)[1] = <<>> <=> Rooted(name)
         /\ Levels(name)[1] # <<>> => Levels(name)[1][1] = name[1]
         /\ Rooted(name) => Len(Levels(name)) >= 2
<1> DEFINE L == Len(name)
           e == EndFrom(name, 1)
           l == Levels(name)[1]
<1>1. L \in Nat /\ L # 0 /\ 1 \in 1..L  BY LenProperties, EmptySeq
<1>2. Len(Levels(name)) \in Nat \ {0} /\ Place(name, 1) = 1  BY LevelsPlaced
<1>3. 1 \in 1..Len(Levels(name))  BY <1>2
<1>4. /\ IsLevel(name, 1, e) /\ l \in Seq(S) /\ Len(l) = e - 1
      /\ \A m \in 1..(e - 1) : l[m] = name[1 + m - 1]
      /\ 1 = Len(Levels(name)) <=> e = L + 1
  <2> DEFINE k == 1
             i == Place(name, k)
             j == EndFrom(name, i)
  <2>1. k \in 1..Len(Levels(name))  BY <1>3
  <2> HIDE DEF k
  <2>2. /\ IsLevel(name, i, j) /\ Levels(name)[k] \in Seq(S) /\ Len(Levels(name)[k]) = j - i
        /\ \A m \in 1..(j - i) : Levels(name)[k][m] = name[i + m - 1]
        /\ k = Len(Levels(name)) <=> j = Len(name) + 1
    BY <2>1, LevelPlaced
  <2> USE DEF k
  <2>3. i = 1 /\ j = e  BY <1>2
  <2> HIDE DEF i, j
  <2> QED  BY <2>2, <2>3
<1>5. /\ e \in 1..(L + 1) /\ (e <= L => name[e] = "/")
      /\ \A m \in 1..(e - 1) : name[m] # "/"
  BY <1>4 DEF IsLevel
<1> HIDE DEF L, e, l
<1>6. l = <<>> <=> e = 1
  <2>1. l = <<>> <=> Len(l) = 0  BY <1>4, EmptySeq
  <2> QED  BY <1>1, <1>4, <1>5, <2>1
<1>7. e = 1 <=> name[1] = "/"
  <2>1. e # 1 => 1 \in 1..(e - 1)  BY <1>1, <1>5
  <2> QED  BY <1>1, <1>5, <2>1
<1>8. e # 1 => l[1] = name[1]
  <2>1. e # 1 => 1 \in 1..(e - 1) /\ 1 + 1 - 1 = 1  BY <1>1, <1>5
  <2> QED  BY <1>4, <2>1
<1>9. e = 1 => Len(Levels(name)) >= 2
  <2>1. e = 1 => Len(Levels(name)) # 1  BY <1>1, <1>4
  <2>2. \A x \in Nat \ {0} : x = 1 \/ x >= 2  OBVIOUS
  <2> QED  BY <1>2, <2>1, <2>2
<1> QED  BY <1>6, <1>7, <1>8, <1>9 DEF l, Rooted, StartsWith

(* The tokens of a clean name are its levels, without the empty one before *)
(* a leading slash.                                                        *)
LEMMA CleanTokens ==
  ASSUME NEW S, NEW name \in Seq(S), Clean(name)
  PROVE  LET d == IF Rooted(name) THEN 1 ELSE 0
         IN  /\ Len(Levels(name)) \in Nat /\ Len(strtok(name)) \in Nat \ {0}
             /\ Len(Levels(name)) = Len(strtok(name)) + d
             /\ \A k \in 1..Len(strtok(name)) :
                  strtok(name)[k] = Levels(name)[k + d] /\ strtok(name)[k] # <<>>
             /\ strtok(name) = IF Rooted(name) THEN Tail(Levels(name)) ELSE Levels(name)
<1> DEFINE L == Levels(name)
           B == Begins(name)
           T == Tokens(name)
           n == Len(name) + 1
<1>1. /\ L \in Seq(Seq(S)) /\ Len(L) \in Nat \ {0}
      /\ \A k \in 1..Len(L) : Place(name, k) \in B /\ L[k] = LevelFrom(name)[Place(name, k)]
      /\ \A i \in B : \E k \in 1..Len(L) : i = Place(name, k)
      /\ \A j, k \in 1..Len(L) : j < k => Place(name, j) < Place(name, k)
      /\ Place(name, 1) = 1
  BY LevelsPlaced
<1>2. name # <<>> /\ \A k \in 2..Len(L) : L[k] # <<>>  BY DEF Clean
<1>3. (L[1] = <<>> <=> Rooted(name)) /\ (Rooted(name) => Len(L) >= 2)
  BY <1>2, FirstLevel
<1>4. n \in Nat /\ B \subseteq 1..n /\ T \subseteq 1..n  BY BeginsTyped
<1>5. T = {i \in B : LevelFrom(name)[i] # <<>>}  BY DEF Tokens
<1>6. L = Selected(LevelFrom(name), B) /\ strtok(name) = Selected(LevelFrom(name), T)
  BY DEF Levels, strtok, Tokens
<1> HIDE DEF L, B, T, n
<1>7. CASE ~Rooted(name)
  <2>1. \A k \in 1..Len(L) : L[k] # <<>>
    <3>1. \A k \in 1..Len(L) : k = 1 \/ k \in 2..Len(L)  BY <1>1
    <3> QED  BY <1>2, <1>3, <1>7, <3>1
  <2>2. T = B  BY <1>1, <1>5, <2>1
  <2>3. strtok(name) = L  BY <1>6, <2>2
  <2>4. \A k \in 1..Len(L) : k + 0 = k  OBVIOUS
  <2> QED  BY <1>1, <1>7, <2>1, <2>3, <2>4 DEF L
<1>8. CASE Rooted(name)
  <2> DEFINE c == Len(L) - 1
             f == [k \in 1..c |-> Place(name, k + 1)]
  <2>1. c \in Nat \ {0} /\ \A k \in 1..c : k + 1 \in 2..Len(L) /\ k + 1 \in 1..Len(L)
    <3>1. Len(L) \in Nat /\ Len(L) >= 2  BY <1>1, <1>3, <1>8
    <3>2. \A x \in Nat : x >= 2 =>
            /\ x - 1 \in Nat \ {0}
            /\ \A k \in 1..(x - 1) : k + 1 \in 2..x /\ k + 1 \in 1..x
      OBVIOUS
    <3> QED  BY <3>1, <3>2
  <2>2. f \in [1..c -> 1..n]  BY <1>1, <1>4, <2>1
  <2>3. \A j, k \in 1..c : j < k => f[j] < f[k]
    <3> SUFFICES ASSUME NEW j \in 1..c, NEW k \in 1..c, j < k PROVE f[j] < f[k]  OBVIOUS
    <3>1. j + 1 < k + 1  OBVIOUS
    <3> QED  BY <1>1, <2>1, <3>1
  <2>4. T = {f[k] : k \in 1..c}
    <3>1. ASSUME NEW i \in T PROVE \E k \in 1..c : i = f[k]
      <4>1. i \in B /\ LevelFrom(name)[i] # <<>>  BY <1>5
      <4>2. PICK k \in 1..Len(L) : i = Place(name, k)  BY <1>1, <4>1
      <4>3. k # 1  BY <1>1, <1>3, <1>8, <4>1, <4>2
      <4>4. k - 1 \in 1..c /\ (k - 1) + 1 = k  BY <1>1, <4>3
      <4> QED  BY <4>2, <4>4
    <3>2. ASSUME NEW k \in 1..c PROVE f[k] \in T  BY <1>1, <1>2, <1>5, <2>1
    <3> HIDE DEF f
    <3> QED  BY <3>1, <3>2
  <2>5. Cardinality(T) = c /\ \A k \in 1..c : Nth(T, k) = f[k]
    <3>1. c \in Nat  BY <2>1
    <3> HIDE DEF f, c
    <3>2. LET V == {f[k] : k \in 1..c}
          IN  Cardinality(V) = c /\ \A k \in 1..c : Nth(V, k) = f[k]
      BY <1>4, <2>2, <2>3, <3>1, NthOfFunction
    <3> QED  BY <2>4, <3>2
  <2>6. strtok(name) = [k \in 1..c |-> LevelFrom(name)[f[k]]]
    <3> HIDE DEF f, c
    <3> QED  BY <1>6, <2>5 DEF Selected
  <2>7. \A k \in 1..c : LevelFrom(name)[f[k]] = L[k + 1] /\ L[k + 1] # <<>>
    BY <1>1, <1>2, <2>1
  <2> HIDE DEF f
  <2>8. Len(strtok(name)) = c /\ \A k \in 1..c : strtok(name)[k] = L[k + 1]
    BY <2>1, <2>6, <2>7
  <2>9. strtok(name) = Tail(L)
    <3>1. L # <<>>  BY <1>1, EmptySeq
    <3>2. Tail(L) \in Seq(Seq(S)) /\ Len(Tail(L)) = c /\ \A k \in 1..c : Tail(L)[k] = L[k + 1]
      BY <1>1, <3>1, HeadTailProperties
    <3>3. strtok(name) \in Seq(Seq(S))  BY StrtokTyped
    <3> HIDE DEF c
    <3> QED  BY <2>8, <3>2, <3>3, SeqEqual
  <2>10. Len(L) = c + 1  BY <1>1
  <2> HIDE DEF c
  <2> QED  BY <1>1, <1>8, <2>1, <2>7, <2>8, <2>9, <2>10 DEF L
<1> QED  BY <1>7, <1>8

-----------------------------------------------------------------------------
(* Comparing token by token.                                               *)

LEMMA StepsAhead ==
  ASSUME NEW S, NEW w \in Seq(S), w # <<>>, NEW t \in Seq(S),
         \A k \in 1..Len(t) : t[k] # <<>> /\ t[k] \notin WILD,
         \A k \in 1..Len(w) : w[k] = <<"#">> => k = Len(w)
  PROVE  StepThrough(w, t) <=> Ahead(w, t)
<1>1. /\ DOMAIN w = 1..Len(w) /\ Len(w) \in Nat \ {0} /\ Len(t) \in Nat
      /\ Len(w) \in 1..Len(w)
  BY LenProperties, EmptySeq
<1>2. \A k \in 1..Len(t) : SameLevel(w[k], t[k]) <=> MeetsLevel(w[k], t[k])
  BY DEF SameLevel, MeetsLevel
<1>3. StepThrough(w, t)
        <=> \/ \E h \in 1..Len(w) : /\ w[h] = <<"#">> /\ h <= Len(t) + 1
                                    /\ \A k \in 1..(h - 1) : SameLevel(w[k], t[k])
            \/ Len(w) = Len(t) /\ \A k \in 1..Len(w) : SameLevel(w[k], t[k])
  BY <1>1 DEF StepThrough
<1>4. ASSUME NEW h \in 1..Len(w), h <= Len(t) + 1
      PROVE  \A k \in 1..(h - 1) : k \in 1..Len(t)
  <2>1. \A x, l \in Nat : x <= l + 1 => \A k \in 1..(x - 1) : k \in 1..l  OBVIOUS
  <2>2. h \in Nat  OBVIOUS
  <2>3. Len(t) \in Nat  BY <1>1
  <2> QED  BY <1>4, <2>1, <2>2, <2>3
<1>5. (\E h \in 1..Len(w) : /\ w[h] = <<"#">> /\ h <= Len(t) + 1
                            /\ \A k \in 1..(h - 1) : SameLevel(w[k], t[k]))
        <=> /\ w[Len(w)] = <<"#">> /\ Len(w) <= Len(t) + 1
            /\ \A k \in 1..(Len(w) - 1) : SameLevel(w[k], t[k])
  <2>1. \A h \in 1..Len(w) : w[h] = <<"#">> => h = Len(w)  OBVIOUS
  <2> QED  BY <1>1, <2>1
<1>6. Len(w) <= Len(t) + 1 <=> Len(w) - 1 <= Len(t)
  <2>1. \A m, n \in Nat : m <= n + 1 <=> m - 1 <= n  OBVIOUS
  <2>2. Len(w) \in Nat /\ Len(t) \in Nat  BY <1>1
  <2> QED  BY <2>1, <2>2
<1>7. Len(w) <= Len(t) + 1 =>
        \A k \in 1..(Len(w) - 1) : SameLevel(w[k], t[k]) <=> MeetsLevel(w[k], t[k])
  BY <1>1, <1>2, <1>4
<1>8. Len(w) = Len(t) =>
        \A k \in 1..Len(w) : SameLevel(w[k], t[k]) <=> MeetsLevel(w[k], t[k])
  BY <1>2
<1> QED  BY <1>3, <1>5, <1>6, <1>7, <1>8 DEF Ahead

(* With one level more before both.                                        *)
LEMMA AheadBehindRoot ==
  ASSUME NEW S, NEW w \in Seq(S), w # <<>>, NEW t \in Seq(S), NEW W \in Seq(S), NEW T \in Seq(S),
         Len(W) = Len(w) + 1, \A k \in 1..Len(w) : w[k] = W[k + 1],
         Len(T) = Len(t) + 1, \A k \in 1..Len(t) : t[k] = T[k + 1]
  PROVE  Ahead(W, T) <=> MeetsLevel(W[1], T[1]) /\ Ahead(w, t)
<1> DEFINE m == Len(w)
           n == Len(t)
<1>1. m \in Nat \ {0} /\ n \in Nat /\ Len(W) = m + 1 /\ Len(T) = n + 1
  BY LenProperties, EmptySeq
<1>2. W[Len(W)] = w[m]
  <2>1. m \in 1..m  BY <1>1
  <2> QED  BY <1>1, <2>1
<1>3. \A k \in 1..m : w[k] = W[k + 1]  OBVIOUS
<1>4. \A k \in 1..n : t[k] = T[k + 1]  OBVIOUS
<1>5. Ahead(w, t) <=> \/ m = n /\ \A k \in 1..m : MeetsLevel(w[k], t[k])
                      \/ /\ w[m] = <<"#">> /\ m - 1 <= n
                         /\ \A k \in 1..(m - 1) : MeetsLevel(w[k], t[k])
  BY DEF Ahead
<1>6. Ahead(W, T) <=> \/ m + 1 = n + 1 /\ \A k \in 1..(m + 1) : MeetsLevel(W[k], T[k])
                      \/ /\ w[m] = <<"#">> /\ m + 1 - 1 <= n + 1
                         /\ \A k \in 1..(m + 1 - 1) : MeetsLevel(W[k], T[k])
  BY <1>1, <1>2 DEF Ahead
<1> HIDE DEF m, n
<1>7. ASSUME NEW l \in 0..m, l <= n
      PROVE  (\A k \in 1..(l + 1) : MeetsLevel(W[k], T[k]))
               <=> MeetsLevel(W[1], T[1]) /\ \A k \in 1..l : MeetsLevel(w[k], t[k])
  <2>1. \A k \in 1..l : k \in 1..m /\ k \in 1..n /\ k + 1 \in 1..(l + 1)  BY <1>1, <1>7
  <2>2. \A k \in 1..(l + 1) : k = 1 \/ (k - 1 \in 1..l /\ (k - 1) + 1 = k)  BY <1>1
  <2>3. 1 \in 1..(l + 1)  BY <1>1
  <2>4. \A k \in 1..l : w[k] = W[k + 1] /\ t[k] = T[k + 1]  BY <1>3, <1>4, <2>1
  <2>5. ASSUME \A k \in 1..(l + 1) : MeetsLevel(W[k], T[k]), NEW k \in 1..l
        PROVE  MeetsLevel(w[k], t[k])
    BY <2>1, <2>4, <2>5
  <2>6. ASSUME MeetsLevel(W[1], T[1]), \A k \in 1..l : MeetsLevel(w[k], t[k]),
               NEW k \in 1..(l + 1)
        PROVE  MeetsLevel(W[k], T[k])
    <3>1. CASE k = 1  BY <2>6, <3>1
    <3>2. CASE k # 1
      <4> DEFINE j == k - 1
      <4>1. j \in 1..l /\ j + 1 = k  BY <2>2, <3>2
      <4> HIDE DEF j
      <4>2. w[j] = W[k] /\ t[j] = T[k]  BY <2>4, <4>1
      <4> QED  BY <2>6, <4>1, <4>2
    <3> QED  BY <3>1, <3>2
  <2> QED  BY <2>3, <2>5, <2>6
<1>8. m = n => ((\A k \in 1..(m + 1) : MeetsLevel(W[k], T[k]))
                 <=> MeetsLevel(W[1], T[1]) /\ \A k \in 1..m : MeetsLevel(w[k], t[k]))
  <2>1. m \in 0..m /\ (m = n => m <= n)  BY <1>1
  <2> QED  BY <1>7, <2>1
<1>9. m - 1 <= n => ((\A k \in 1..(m + 1 - 1) : MeetsLevel(W[k], T[k]))
                      <=> MeetsLevel(W[1], T[1]) /\ \A k \in 1..(m - 1) : MeetsLevel(w[k], t[k]))
  <2>1. m - 1 \in 0..m /\ m - 1 + 1 = m + 1 - 1  BY <1>1
  <2> QED  BY <1>7, <2>1
<1>10. (m + 1 = n + 1 <=> m = n) /\ (m + 1 - 1 <= n + 1 <=> m - 1 <= n)  BY <1>1
<1> QED  BY <1>5, <1>6, <1>8, <1>9, <1>10

(* A level and its mirror image compare alike.                             *)
LEMMA ReversedLevel ==
  ASSUME NEW S, NEW a \in Seq(S), NEW c
  PROVE  Reverse(a) = <<c>> <=> a = <<c>>
<1>1. /\ Reverse(a) \in Seq(S) /\ Len(Reverse(a)) = Len(a)
      /\ \A i \in 1..Len(a) : Reverse(a)[i] = a[Len(a) + 1 - i]
  BY Reversed
<1>2. Reverse(a) = <<c>> <=> Len(Reverse(a)) = 1 /\ Reverse(a)[1] = c
  <2> DEFINE r == Reverse(a)
  <2>1. r \in Seq(S)  BY <1>1
  <2> HIDE DEF r
  <2>2. r = <<c>> <=> Len(r) = 1 /\ r[1] = c  BY <2>1, SingleLevel
  <2> QED  BY <2>2 DEF r
<1>3. a = <<c>> <=> Len(a) = 1 /\ a[1] = c  BY SingleLevel
<1>4. Len(a) = 1 => Reverse(a)[1] = a[1]
  <2>1. Len(a) = 1 => 1 \in 1..Len(a) /\ Len(a) + 1 - 1 = 1  OBVIOUS
  <2> QED  BY <1>1, <2>1
<1> QED  BY <1>1, <1>2, <1>3, <1>4

LEMMA ReversedSame ==
  ASSUME NEW S, NEW a \in Seq(S), NEW b \in Seq(S), b # <<>>
  PROVE  SameLevel(Reverse(a), Reverse(b)) <=> MeetsLevel(a, b)
<1>1. Reverse(a) = <<"+">> <=> a = <<"+">>  BY ReversedLevel
<1>2. Reverse(Reverse(a)) = a /\ Reverse(Reverse(b)) = b  BY Reversed
<1>3. Reverse(a) = Reverse(b) <=> a = b  BY <1>2
<1> QED  BY <1>1, <1>3 DEF SameLevel, MeetsLevel

(* Backwards, against a topic whose first level may be empty.              *)
Mirrors(r, w) == Len(r) = Len(w) /\ \A k \in 1..Len(w) : r[k] = Reverse(w[Len(w) + 1 - k])

Follows(t, T, d) == Len(T) = Len(t) + d /\ \A k \in 1..Len(t) : t[k] = T[k + d]

Plain(t) == \A k \in 1..Len(t) : t[k] # <<>> /\ t[k] \notin WILD

HashFirst(W) ==
  Len(W) >= 2 /\ W[1] = <<"#">> /\ \A k \in 2..Len(W) : W[k] # <<"#">> /\ W[k] # <<>>

LEMMA StepsBehind ==
  ASSUME NEW S, NEW W \in Seq(Seq(S)), NEW t \in Seq(Seq(S)), NEW T \in Seq(Seq(S)),
         NEW rw \in Seq(Seq(S)), NEW rt \in Seq(Seq(S)),
         NEW d \in {0, 1}, Follows(t, T, d), d = 1 => T[1] = <<>>,
         Plain(t), HashFirst(W), Mirrors(rw, W), Mirrors(rt, t)
  PROVE  StepThrough(rw, rt) <=> Behind(W, T)
<1> DEFINE m == Len(W)
           n == Len(t)
           l == Len(T)
<1>1. /\ m \in Nat /\ m >= 2 /\ n \in Nat /\ DOMAIN rw = 1..m
      /\ W[1] = <<"#">> /\ (d = 1 => T[1] = <<>>)
      /\ Len(rw) = m /\ Len(rt) = n /\ l = n + d /\ l \in Nat /\ d \in Nat
  BY LenProperties DEF HashFirst, Follows, Mirrors
<1>4. \A k \in 1..m : /\ m + 1 - k \in 1..m /\ W[k] \in Seq(S)
                      /\ rw[k] = Reverse(W[m + 1 - k])
  <2>1. \A k \in 1..m : m + 1 - k \in 1..m  BY <1>1
  <2>2. \A k \in 1..m : W[k] \in Seq(S)  BY ElementOfSeq
  <2> QED  BY <2>1, <2>2 DEF Mirrors
<1>5. \A k \in 1..n : /\ n + 1 - k \in 1..n /\ t[k] \in Seq(S)
                      /\ rt[k] = Reverse(t[n + 1 - k])
  <2>1. \A k \in 1..n : n + 1 - k \in 1..n  BY <1>1
  <2>2. \A k \in 1..n : t[k] \in Seq(S)  BY ElementOfSeq
  <2> QED  BY <2>1, <2>2 DEF Mirrors
<1>6. /\ \A k \in 1..n : t[k] = T[k + d] /\ t[k] # <<>> /\ t[k] \notin WILD
      /\ \A k \in 2..m : W[k] # <<"#">> /\ W[k] # <<>>
  BY DEF Follows, Plain, HashFirst
<1> HIDE DEF m, n, l
<1>7. \A h \in 1..m : rw[h] = <<"#">> <=> h = m
  <2> SUFFICES ASSUME NEW h \in 1..m PROVE rw[h] = <<"#">> <=> h = m  OBVIOUS
  <2> DEFINE a == W[m + 1 - h]
  <2>0. a \in Seq(S) /\ rw[h] = Reverse(a)  BY <1>4
  <2> HIDE DEF a
  <2>1. rw[h] = <<"#">> <=> a = <<"#">>
    <3>1. Reverse(a) = <<"#">> <=> a = <<"#">>  BY <2>0, ReversedLevel
    <3> QED  BY <2>0, <3>1
  <2> USE DEF a
  <2>2. h # m => m + 1 - h \in 2..m  BY <1>1
  <2>3. h = m => m + 1 - h = 1  BY <1>1
  <2> QED  BY <1>1, <1>6, <2>1, <2>2, <2>3
<1>8. ASSUME m - 1 <= n, NEW k \in 1..(m - 1)
      PROVE  SameLevel(rw[k], rt[k]) <=> MeetsLevel(W[m + 1 - k], T[l + 1 - k])
  <2>1. k \in 1..m /\ k \in 1..n /\ n + 1 - k + d = l + 1 - k  BY <1>1, <1>8
  <2> DEFINE a == W[m + 1 - k]
             b == t[n + 1 - k]
  <2>2. a \in Seq(S) /\ rw[k] = Reverse(a)  BY <1>4, <2>1
  <2>3. b \in Seq(S) /\ rt[k] = Reverse(b) /\ b = T[l + 1 - k] /\ b # <<>>
    <3>1. n + 1 - k \in 1..n  BY <1>5, <2>1
    <3> QED  BY <1>5, <1>6, <2>1, <3>1
  <2> HIDE DEF a, b
  <2>4. SameLevel(Reverse(a), Reverse(b)) <=> MeetsLevel(a, b)  BY <2>2, <2>3, ReversedSame
  <2>5. SameLevel(rw[k], rt[k]) <=> MeetsLevel(a, b)  BY <2>2, <2>3, <2>4
  <2> QED  BY <2>3, <2>5 DEF a
<1>9. ~(m = n /\ \A k \in 1..m : SameLevel(rw[k], rt[k]))
  <2> SUFFICES ASSUME m = n, SameLevel(rw[m], rt[m]) PROVE FALSE
    <3>1. m \in 1..m  BY <1>1
    <3> QED  BY <3>1
  <2>1. m \in 1..m /\ m \in 1..n /\ n + 1 - m \in 1..n  BY <1>1
  <2>2. rw[m] = <<"#">>  BY <1>7, <2>1
  <2>3. rt[m] = <<"#">>  BY <2>2 DEF SameLevel
  <2>4. t[n + 1 - m] = <<"#">>
    <3> DEFINE b == t[n + 1 - m]
    <3>1. b \in Seq(S) /\ rt[m] = Reverse(b)  BY <1>5, <2>1
    <3> HIDE DEF b
    <3>2. Reverse(b) = <<"#">> <=> b = <<"#">>  BY <3>1, ReversedLevel
    <3> QED  BY <2>3, <3>1, <3>2 DEF b
  <2> QED  BY <1>6, <2>1, <2>4 DEF WILD
<1>10. StepThrough(rw, rt)
         <=> /\ m - 1 <= n
             /\ \A k \in 1..(m - 1) : MeetsLevel(W[m + 1 - k], T[l + 1 - k])
  <2>1. StepThrough(rw, rt)
          <=> \E h \in 1..m : /\ rw[h] = <<"#">> /\ h <= n + 1
                              /\ \A k \in 1..(h - 1) : SameLevel(rw[k], rt[k])
    BY <1>1, <1>9 DEF StepThrough
  <2>2. m \in 1..m /\ (m <= n + 1 <=> m - 1 <= n)  BY <1>1
  <2>3. StepThrough(rw, rt)
          <=> m - 1 <= n /\ \A k \in 1..(m - 1) : SameLevel(rw[k], rt[k])
    BY <1>7, <2>1, <2>2
  <2> QED  BY <1>8, <2>3
<1>11. Behind(W, T)
         <=> /\ m - 1 <= l
             /\ \A k \in 1..(m - 1) : MeetsLevel(W[k + 1], T[l - (m - 1) + k])
  BY <1>1 DEF Behind, m, l
<1>12. (\A k \in 1..(m - 1) : MeetsLevel(W[k + 1], T[l - (m - 1) + k]))
         <=> \A k \in 1..(m - 1) : MeetsLevel(W[m + 1 - k], T[l + 1 - k])
  <2>1. \A k \in 1..(m - 1) : /\ m - k \in 1..(m - 1)
                              /\ (m - k) + 1 = m + 1 - k
                              /\ l - (m - 1) + (m - k) = l + 1 - k
                              /\ m + 1 - (m - k) = k + 1
                              /\ l + 1 - (m - k) = l - (m - 1) + k
    <3>1. \A x, y \in Nat : \A k \in 1..(x - 1) :
            /\ x - k \in 1..(x - 1)
            /\ (x - k) + 1 = x + 1 - k
            /\ y - (x - 1) + (x - k) = y + 1 - k
            /\ x + 1 - (x - k) = k + 1
            /\ y + 1 - (x - k) = y - (x - 1) + k
      OBVIOUS
    <3>2. m \in Nat /\ l \in Nat  BY <1>1
    <3> QED  BY <3>1, <3>2
  <2>2. ASSUME \A k \in 1..(m - 1) : MeetsLevel(W[k + 1], T[l - (m - 1) + k]),
               NEW k \in 1..(m - 1)
        PROVE  MeetsLevel(W[m + 1 - k], T[l + 1 - k])
    <3>1. MeetsLevel(W[(m - k) + 1], T[l - (m - 1) + (m - k)])  BY <2>1, <2>2
    <3> QED  BY <2>1, <3>1
  <2>3. ASSUME \A k \in 1..(m - 1) : MeetsLevel(W[m + 1 - k], T[l + 1 - k]),
               NEW k \in 1..(m - 1)
        PROVE  MeetsLevel(W[k + 1], T[l - (m - 1) + k])
    <3>1. MeetsLevel(W[m + 1 - (m - k)], T[l + 1 - (m - k)])  BY <2>1, <2>3
    <3> QED  BY <2>1, <3>1
  <2> QED  BY <2>2, <2>3
<1>13. (m - 1 <= l /\ \A k \in 1..(m - 1) : MeetsLevel(W[m + 1 - k], T[l + 1 - k]))
         => m - 1 <= n
  <2> SUFFICES ASSUME m - 1 <= l, ~(m - 1 <= n),
                      \A k \in 1..(m - 1) : MeetsLevel(W[m + 1 - k], T[l + 1 - k])
               PROVE  FALSE
    OBVIOUS
  <2>1. /\ d = 1 /\ m - 1 \in 1..(m - 1) /\ m + 1 - (m - 1) = 2 /\ 2 \in 2..m
        /\ l + 1 - (m - 1) = 1
    BY <1>1
  <2>2. MeetsLevel(W[2], T[1])  BY <2>1
  <2>3. T[1] = <<>>  BY <1>1, <2>1
  <2> QED  BY <1>6, <2>1, <2>2, <2>3 DEF MeetsLevel
<1>14. m - 1 <= n => m - 1 <= l  BY <1>1
<1> QED  BY <1>10, <1>11, <1>12, <1>13, <1>14
-----------------------------------------------------------------------------
(* Filters and topics whose levels are well formed and clean.              *)

(* Where the wildcards of a filter are, by its first character.            *)
LEMMA FilterLevels ==
  ASSUME NEW S, NEW f \in Seq(S), WellFormed(f), Clean(f)
  PROVE  LET W == Levels(f)
         IN  /\ f # <<>>
             /\ \A c \in Wildcard : StartsWith(f, c) <=> W[1] = <<c>>
             /\ Rooted(f) <=> W[1] = <<>>
             /\ f = <<"#">> <=> W[1] = <<"#">> /\ Len(W) = 1
             /\ \A k \in 1..Len(W) : W[k] = <<"#">> => k = 1 \/ k = Len(W)
             /\ \A j, k \in 1..Len(W) : W[j] = <<"#">> /\ W[k] = <<"#">> => j = k
             /\ Len(W) \in Nat \ {0}
<1> DEFINE W == Levels(f)
           l == W[1]
           e == EndFrom(f, 1)
<1>1. f # <<>> /\ (l = <<>> <=> Rooted(f)) /\ (l # <<>> => l[1] = f[1])
  BY FirstLevel DEF Clean
<1>2. W \in Seq(Seq(S)) /\ Len(W) \in Nat \ {0} /\ Place(f, 1) = 1 /\ DOMAIN W = 1..Len(W)
  BY LevelsPlaced, LenProperties
<1>3. 1 \in 1..Len(W)  BY <1>2
<1>4. /\ l \in Seq(S) /\ Len(l) = e - 1 /\ e \in 1..(Len(f) + 1)
      /\ 1 = Len(W) <=> e = Len(f) + 1
  <2> DEFINE k == 1
             i == Place(f, k)
             j == EndFrom(f, i)
  <2>1. k \in 1..Len(Levels(f))  BY <1>3
  <2> HIDE DEF k
  <2>2. /\ IsLevel(f, i, j) /\ Levels(f)[k] \in Seq(S) /\ Len(Levels(f)[k]) = j - i
        /\ k = Len(Levels(f)) <=> j = Len(f) + 1
    BY <2>1, LevelPlaced
  <2> USE DEF k
  <2>3. i = 1 /\ j = e  BY <1>2
  <2> HIDE DEF i, j
  <2> QED  BY <2>2, <2>3 DEF IsLevel
<1>5. /\ \A k \in 1..Len(W) : Topics_hasWildcards(W[k]) => W[k] \in WILD
      /\ \A k \in 1..Len(W) : W[k] = <<"#">> => k = 1 \/ k = Len(W)
      /\ \A j, k \in 1..Len(W) : W[j] = <<"#">> /\ W[k] = <<"#">> => j = k
  BY <1>2 DEF WellFormed
<1> HIDE DEF W, l, e
<1>6. ASSUME NEW c \in Wildcard PROVE StartsWith(f, c) <=> l = <<c>>
  <2>1. ASSUME StartsWith(f, c) PROVE l = <<c>>
    <3>1. f[1] = c /\ c # "/"  BY <2>1 DEF StartsWith, Wildcard
    <3>2. l # <<>> /\ l[1] = c  BY <1>1, <3>1 DEF Rooted, StartsWith
    <3>3. 1 \in 1..Len(l)  BY <1>4, <3>2, LenProperties, EmptySeq
    <3>4. Topics_hasWildcards(l)  BY <1>4, <3>2, <3>3, WildcardsIn
    <3>5. l \in WILD  BY <1>3, <1>5, <3>4 DEF l
    <3> QED  BY <3>2, <3>5 DEF WILD
  <2>2. ASSUME l = <<c>> PROVE StartsWith(f, c)
    <3>1. l # <<>> /\ l[1] = c  BY <2>2
    <3> QED  BY <1>1, <3>1 DEF StartsWith
  <2> QED  BY <2>1, <2>2
<1>7. f = <<"#">> <=> l = <<"#">> /\ Len(W) = 1
  <2>1. f = <<"#">> <=> Len(f) = 1 /\ f[1] = "#"  BY SingleLevel
  <2>2. l = <<"#">> <=> Len(l) = 1 /\ l[1] = "#"  BY <1>4, SingleLevel
  <2>3. l = <<"#">> <=> f[1] = "#"  BY <1>1, <1>6 DEF StartsWith, Wildcard
  <2>4. l = <<"#">> => e = 2
    <3>1. e \in Nat  BY <1>4
    <3> QED  BY <1>4, <2>2, <3>1
  <2>5. \A x \in Nat : 2 = x + 1 <=> x = 1  OBVIOUS
  <2>6. Len(f) \in Nat  BY LenProperties
  <2> QED  BY <1>4, <2>1, <2>3, <2>4, <2>5, <2>6
<1> QED  BY <1>1, <1>2, <1>5, <1>6, <1>7 DEF W, l

(* The first level decides when it is no hash.                             *)
LEMMA FirstDecides ==
  ASSUME NEW S, NEW W \in Seq(S), W # <<>>, NEW T, W[1] # <<"#">>, ~MeetsLevel(W[1], T[1])
  PROVE  ~Ahead(W, T)
<1>1. Len(W) \in Nat \ {0}  BY LenProperties, EmptySeq
<1>2. 1 \in 1..Len(W)  BY <1>1
<1>3. W[Len(W)] = <<"#">> => 1 \in 1..(Len(W) - 1)
  <2>1. \A x \in Nat \ {0} : x # 1 => 1 \in 1..(x - 1)  OBVIOUS
  <2>2. W[Len(W)] = <<"#">> => Len(W) # 1  OBVIOUS
  <2> QED  BY <1>1, <2>1, <2>2
<1> QED  BY <1>2, <1>3 DEF Ahead

(* The levels and the tokens of a topic.                                   *)
LEMMA PlainTopic ==
  ASSUME NEW S, NEW t \in Seq(S), Clean(t), ~Topics_hasWildcards(t)
  PROVE  LET d == IF Rooted(t) THEN 1 ELSE 0
         IN  /\ Topics_isValidName(t) /\ t # <<>>
             /\ Levels(t) \in Seq(Seq(S)) /\ strtok(t) \in Seq(Seq(S))
             /\ Len(Levels(t)) = Len(strtok(t)) + d /\ Len(Levels(t)) \in Nat \ {0}
             /\ \A k \in 1..Len(strtok(t)) :
                  /\ strtok(t)[k] = Levels(t)[k + d]
                  /\ strtok(t)[k] # <<>> /\ strtok(t)[k] \notin WILD
             /\ \A k \in 1..Len(Levels(t)) : Levels(t)[k] \notin WILD
             /\ Levels(t)[1] = <<>> <=> Rooted(t)
             /\ strtok(t) = IF Rooted(t) THEN Tail(Levels(t)) ELSE Levels(t)
<1> DEFINE d == IF Rooted(t) THEN 1 ELSE 0
           L == Levels(t)
           s == strtok(t)
<1>1. Topics_isValidName(t)  BY DEF Topics_hasWildcards, Topics_isValidName
<1>2. /\ Len(L) \in Nat /\ Len(s) \in Nat \ {0} /\ Len(L) = Len(s) + d
      /\ \A k \in 1..Len(s) : s[k] = L[k + d] /\ s[k] # <<>>
      /\ s = IF Rooted(t) THEN Tail(L) ELSE L
  BY CleanTokens
<1>3. \A k \in 1..Len(L) : L[k] \notin WILD  BY TopicLevelsPlain
<1>4. L \in Seq(Seq(S)) /\ s \in Seq(Seq(S)) /\ Len(L) \in Nat \ {0}
  BY LevelsPlaced, StrtokTyped
<1>5. t # <<>> /\ (L[1] = <<>> <=> Rooted(t))  BY FirstLevel DEF Clean
<1>6. d \in {0, 1}  OBVIOUS
<1> HIDE DEF d, L, s
<1>7. \A k \in 1..Len(s) : k + d \in 1..Len(L)  BY <1>2, <1>6
<1>8. \A k \in 1..Len(s) : s[k] \notin WILD  BY <1>2, <1>3, <1>7
<1> QED  BY <1>1, <1>2, <1>3, <1>4, <1>5, <1>8 DEF d, L, s

(* A filter that does not start with a hash is compared forwards.          *)
LEMMA ForwardSteps ==
  ASSUME NEW S, NEW f \in Seq(S), WellFormed(f), Clean(f), ~StartsWith(f, "#"),
         NEW t \in Seq(S), Clean(t), ~Topics_hasWildcards(t)
  PROVE  /\ Steps(f, t) <=> Ahead(strtok(f), strtok(t))
         /\ \A T : ~Behind(Levels(f), T)
         /\ strtok(f) \in Seq(Seq(S)) /\ strtok(f) # <<>>
<1> DEFINE W == Levels(f)
           w == strtok(f)
           s == strtok(t)
           d == IF Rooted(f) THEN 1 ELSE 0
<1>1. /\ W[1] # <<"#">> /\ Len(W) \in Nat \ {0}
      /\ \A k \in 1..Len(W) : W[k] = <<"#">> => k = 1 \/ k = Len(W)
  BY FilterLevels DEF Wildcard
<1>2. /\ Len(w) \in Nat \ {0} /\ Len(W) = Len(w) + d
      /\ \A k \in 1..Len(w) : w[k] = W[k + d]
  BY CleanTokens
<1>3. w \in Seq(Seq(S)) /\ s \in Seq(Seq(S))  BY StrtokTyped
<1>4. \A k \in 1..Len(s) : s[k] # <<>> /\ s[k] \notin WILD  BY PlainTopic
<1>5. d \in {0, 1}  OBVIOUS
<1>6. Steps(f, t) <=> StepThrough(w, s)  BY DEF Steps
<1>7. \A T : ~Behind(W, T)  BY <1>1 DEF Behind
<1> HIDE DEF W, w, s, d
<1>8. \A k \in 1..Len(w) : w[k] = <<"#">> => k = Len(w)
  <2> SUFFICES ASSUME NEW k \in 1..Len(w), w[k] = <<"#">> PROVE k = Len(w)  OBVIOUS
  <2>1. k + d \in 1..Len(W)  BY <1>2, <1>5
  <2>2. k + d = 1 \/ k + d = Len(W)  BY <1>1, <1>2, <2>1
  <2>3. k + d # 1  BY <1>1, <1>2
  <2> QED  BY <1>2, <1>5, <2>2, <2>3
<1>9. w # <<>>  BY <1>2
<1>10. StepThrough(w, s) <=> Ahead(w, s)  BY <1>3, <1>4, <1>8, <1>9, StepsAhead
<1> QED  BY <1>3, <1>6, <1>7, <1>9, <1>10 DEF W, w, s

(* One that does, and is longer, is compared backwards.                    *)
LEMMA BackwardSteps ==
  ASSUME NEW S, NEW f \in Seq(S), WellFormed(f), Clean(f), StartsWith(f, "#"), f # <<"#">>,
         NEW t \in Seq(S), Clean(t), ~Topics_hasWildcards(t)
  PROVE  /\ Steps(f, t) <=> Behind(Levels(f), Levels(t))
         /\ ~Ahead(Levels(f), Levels(t))
<1> DEFINE W == Levels(f)
           T == Levels(t)
           s == strtok(t)
           rw == strtok(_strrev(f))
           rt == strtok(_strrev(t))
           d == IF Rooted(t) THEN 1 ELSE 0
<1>1. /\ W[1] = <<"#">> /\ Len(W) # 1 /\ Len(W) \in Nat \ {0}
      /\ \A j, k \in 1..Len(W) : W[j] = <<"#">> /\ W[k] = <<"#">> => j = k
  BY FilterLevels DEF Wildcard
<1>2. W \in Seq(Seq(S))  BY LevelsPlaced
<1>3. \A k \in 2..Len(W) : W[k] # <<>>  BY DEF Clean
<1>4. ~Rooted(f)  BY DEF Rooted, StartsWith
<1>5. strtok(f) = W  BY <1>4, CleanTokens
<1>6. /\ T \in Seq(Seq(S)) /\ s \in Seq(Seq(S)) /\ Len(T) = Len(s) + d /\ Len(T) \in Nat \ {0}
      /\ \A k \in 1..Len(s) : s[k] = T[k + d] /\ s[k] # <<>> /\ s[k] \notin WILD
      /\ \A k \in 1..Len(T) : T[k] \notin WILD
      /\ d = 1 => T[1] = <<>>
  BY PlainTopic
<1>7. /\ rw \in Seq(Seq(S)) /\ Len(rw) = Len(strtok(f))
      /\ \A k \in 1..Len(strtok(f)) : rw[k] = Reverse(strtok(f)[Len(strtok(f)) + 1 - k])
  <2>1. _strrev(f) \in Seq(S)  BY Reversed DEF _strrev
  <2> QED  BY <2>1, StrtokTyped, TokensBackwards
<1>8. /\ rt \in Seq(Seq(S)) /\ Len(rt) = Len(s)
      /\ \A k \in 1..Len(s) : rt[k] = Reverse(s[Len(s) + 1 - k])
  <2>1. _strrev(t) \in Seq(S)  BY Reversed DEF _strrev
  <2> QED  BY <2>1, StrtokTyped, TokensBackwards
<1>9. Steps(f, t) <=> StepThrough(rw, rt)  BY DEF Steps
<1>10. d \in {0, 1}  OBVIOUS
<1> HIDE DEF W, T, s, rw, rt, d
<1>11. Len(W) >= 2 /\ 1 \in 1..Len(W) /\ Len(W) \in 1..Len(W)
  <2>1. \A x \in Nat \ {0} : x # 1 => x >= 2 /\ 1 \in 1..x /\ x \in 1..x  OBVIOUS
  <2> QED  BY <1>1, <2>1
<1>12. \A k \in 2..Len(W) : W[k] # <<"#">> /\ W[k] # <<>>
  <2>1. \A k \in 2..Len(W) : k \in 1..Len(W) /\ k # 1  OBVIOUS
  <2> QED  BY <1>1, <1>3, <1>11, <2>1
<1>13. Len(rw) = Len(W) /\ \A k \in 1..Len(W) : rw[k] = Reverse(W[Len(W) + 1 - k])
  BY <1>5, <1>7
<1>14. StepThrough(rw, rt) <=> Behind(W, T)
  <2>1. Follows(s, T, d) /\ Plain(s)  BY <1>6 DEF Follows, Plain
  <2>2. HashFirst(W)  BY <1>1, <1>11, <1>12 DEF HashFirst
  <2>3. Mirrors(rw, W) /\ Mirrors(rt, s)  BY <1>8, <1>13 DEF Mirrors
  <2>4. T \in Seq(Seq(S)) /\ s \in Seq(Seq(S)) /\ (d = 1 => T[1] = <<>>)  BY <1>6
  <2>5. rw \in Seq(Seq(S)) /\ rt \in Seq(Seq(S))  BY <1>7, <1>8
  <2> QED  BY <1>2, <1>10, <2>1, <2>2, <2>3, <2>4, <2>5, StepsBehind
<1>15. ~Ahead(W, T)
  <2>1. W[Len(W)] # <<"#">>  BY <1>1, <1>11
  <2>2. 1 \in 1..Len(T)  BY <1>6
  <2>3. ~MeetsLevel(W[1], T[1])
    <3>1. <<"#">> # <<"+">>  BY <<"#">>[1] # <<"+">>[1]
    <3>2. T[1] # <<"#">>  BY <1>6, <2>2 DEF WILD
    <3> QED  BY <1>1, <3>1, <3>2 DEF MeetsLevel
  <2> QED  BY <1>11, <2>1, <2>3 DEF Ahead
<1> QED  BY <1>9, <1>14, <1>15 DEF W, T

(* A filter equal to the topic, or of a lone hash, is met.                 *)
LEMMA AheadSame ==
  ASSUME NEW W
  PROVE  Ahead(W, W)
BY DEF Ahead, MeetsLevel

LEMMA AheadHash ==
  ASSUME NEW S, NEW W \in Seq(S), Len(W) = 1, W[1] = <<"#">>, NEW T, Len(T) \in Nat
  PROVE  Ahead(W, T)
<1>1. Len(W) - 1 <= Len(T) /\ 1..(Len(W) - 1) = {}  OBVIOUS
<1> QED  BY <1>1 DEF Ahead

(* The slash before the hash is all that "/#" asks for.                    *)
LEMMA RootedHash ==
  ASSUME NEW S, NEW f \in Seq(S), Clean(f)
  PROVE  f = <<"/", "#">> => Len(strtok(f)) = 1 /\ strtok(f)[1] = <<"#">>
<1> DEFINE W == Levels(f)
           w == strtok(f)
           l == W[2]
           i == Place(f, 2)
           j == EndFrom(f, i)
<1>1. ASSUME NEW k \in 1..Len(W), k = 2
      PROVE  /\ IsLevel(f, i, j) /\ l \in Seq(S) /\ Len(l) = j - i
             /\ \A m \in 1..(j - i) : l[m] = f[i + m - 1]
             /\ i # 1
             /\ 2 = Len(W) <=> j = Len(f) + 1
  <2> DEFINE b == Place(f, k)
             e == EndFrom(f, b)
  <2>1. IsLevel(f, b, e) /\ W[k] \in Seq(S) /\ Len(W[k]) = e - b  BY LevelPlaced
  <2>2. \A m \in 1..(e - b) : W[k][m] = f[b + m - 1]  BY LevelPlaced
  <2>3. (k = 1 <=> b = 1) /\ (k = Len(W) <=> e = Len(f) + 1)  BY LevelPlaced
  <2>4. W[k] = l /\ b = i /\ e = j  BY <1>1
  <2> HIDE DEF b, e, i, j, l, W
  <2> QED  BY <1>1, <2>1, <2>2, <2>3, <2>4
<1> SUFFICES ASSUME f = <<"/", "#">> PROVE Len(w) = 1 /\ w[1] = <<"#">>  OBVIOUS
<1>2. Rooted(f) /\ Len(f) = 2 /\ f[2] = "#"  BY DEF Rooted, StartsWith
<1>3. /\ Len(w) \in Nat \ {0} /\ Len(W) = Len(w) + 1 /\ Len(W) \in Nat
      /\ \A q \in 1..Len(w) : w[q] = W[q + 1] /\ w[q] # <<>>
  BY <1>2, CleanTokens
<1> HIDE DEF w, W, i, j
<1>4. 1 \in 1..Len(w) /\ 2 \in 1..Len(W)  BY <1>3
<1>5. w[1] = l /\ l # <<>>  BY <1>3, <1>4
<1>6. /\ IsLevel(f, i, j) /\ l \in Seq(S) /\ Len(l) = j - i
      /\ \A m \in 1..(j - i) : l[m] = f[i + m - 1]
      /\ i # 1
      /\ 2 = Len(W) <=> j = Len(f) + 1
  BY <1>1, <1>4
<1>7. i \in 1..3 /\ j \in i..3  BY <1>2, <1>6 DEF IsLevel
<1> HIDE DEF l
<1>8. Len(l) # 0  BY <1>5, <1>6, EmptySeq
<1>9. i = 2 /\ j = 3  BY <1>6, <1>7, <1>8
<1>10. 1 \in 1..(j - i) /\ i + 1 - 1 = 2 /\ j - i = 1  BY <1>9
<1>11. Len(l) = 1 /\ l[1] = "#"  BY <1>2, <1>6, <1>10
<1>12. l = <<"#">>  BY <1>6, <1>11, SingleLevel
<1>13. Len(W) = 2  BY <1>2, <1>6, <1>9
<1>14. Len(w) = 1
  <2>1. \A x \in Nat : 2 = x + 1 => x = 1  OBVIOUS
  <2> QED  BY <1>3, <1>13, <2>1
<1> QED  BY <1>5, <1>12, <1>14
(* How a filter and a topic can start.                                     *)
LEMMA Starts ==
  ASSUME NEW S, NEW f \in Seq(S)
  PROVE  /\ StartsWith(f, "#") => ~Rooted(f) /\ ~StartsWith(f, "+") /\ Topics_hasWildcards(f)
         /\ StartsWith(f, "+") => ~Rooted(f) /\ Topics_hasWildcards(f)
         /\ f = <<"#">> => StartsWith(f, "#")
         /\ f = <<"/", "#">> => Rooted(f)
         /\ f # <<>> => (StartsWith(f, "$") <=> f[1] = "$")
<1>1. ASSUME NEW c \in Wildcard, StartsWith(f, c) PROVE Topics_hasWildcards(f)
  <2>1. 1 \in 1..Len(f)  BY <1>1, LenProperties, EmptySeq DEF StartsWith
  <2>2. f[1] \in Wildcard  BY <1>1 DEF StartsWith
  <2> QED  BY <2>1, <2>2, WildcardsIn
<1>2. "#" \in Wildcard /\ "+" \in Wildcard  BY DEF Wildcard
<1>3. (StartsWith(f, "#") \/ StartsWith(f, "+")) => Topics_hasWildcards(f)  BY <1>1, <1>2
<1>4. /\ StartsWith(f, "#") => ~Rooted(f) /\ ~StartsWith(f, "+")
      /\ StartsWith(f, "+") => ~Rooted(f)
  BY DEF StartsWith, Rooted
<1>5. f = <<"#">> => StartsWith(f, "#")  BY DEF StartsWith
<1>6. f = <<"/", "#">> => Rooted(f)  BY DEF StartsWith, Rooted
<1>7. f # <<>> => (StartsWith(f, "$") <=> f[1] = "$")  BY DEF StartsWith
<1> QED  BY <1>3, <1>4, <1>5, <1>6, <1>7

(* A leading slash of the topic that the code does not look at.            *)
Overlooked(f, t) == Rooted(t) /\ \A c \in {"/", "+", "#"} : ~StartsWith(f, c)

(* The levels of the topic that the filter is compared with.               *)
Seen(f, t) == IF Overlooked(f, t) THEN Tail(Levels(t)) ELSE Levels(t)

LEMMA MatchesAgree ==
  ASSUME NEW S, NEW f \in Seq(S), WellFormed(f), Clean(f),
         NEW t \in Seq(S), Clean(t), ~Topics_hasWildcards(t)
  PROVE  Topics_matches(f, TRUE, t)
           <=> Covers(Levels(f), Seen(f, t)) /\ (f = <<"#">> => t[1] # "$")
<1> DEFINE W == Levels(f)
           T == Levels(t)
           w == strtok(f)
           s == strtok(t)
           V == Seen(f, t)
           hash == StartsWith(f, "#")
           plus == StartsWith(f, "+")
           lone == f = <<"#">>
           rootHash == f = <<"/", "#">>
           same == f = t
           dollar == t[1] = "$"
           steps == Steps(f, t)
           matches == Topics_matches(f, TRUE, t)
<1>1. /\ hash => ~Rooted(f) /\ ~plus /\ ~same
      /\ plus => ~Rooted(f) /\ ~same
      /\ lone => hash
      /\ rootHash => Rooted(f)
  BY Starts
<1>2. matches <=> \/ same
                  \/ lone /\ ~dollar
                  \/ rootHash /\ Rooted(t)
                  \/ /\ ~lone /\ ~rootHash
                     /\ Rooted(f) => Rooted(t)
                     /\ plus => ~Rooted(t)
                     /\ steps
  <2>1. Topics_isValidName(f) /\ Topics_isValidName(t) /\ t # <<>>
    BY WellFormedIsValid, PlainTopic
  <2>2. StartsWith(t, "$") <=> dollar  BY <2>1, Starts
  <2> HIDE DEF dollar
  <2> QED  BY <2>1, <2>2 DEF Topics_matches, Rooted
<1>3. /\ W \in Seq(Seq(S)) /\ W # <<>> /\ Len(W) \in Nat \ {0}
      /\ hash <=> W[1] = <<"#">>
      /\ plus <=> W[1] = <<"+">>
      /\ Rooted(f) <=> W[1] = <<>>
      /\ lone <=> W[1] = <<"#">> /\ Len(W) = 1
  <2>1. "#" \in Wildcard /\ "+" \in Wildcard  BY DEF Wildcard
  <2>2. W \in Seq(Seq(S)) /\ Len(W) \in Nat \ {0}  BY LevelsPlaced
  <2>3. W # <<>>  BY <2>2
  <2> QED  BY <2>1, <2>2, <2>3, FilterLevels
<1>4. /\ T \in Seq(Seq(S)) /\ s \in Seq(Seq(S)) /\ Len(T) \in Nat /\ Len(s) \in Nat
      /\ T[1] = <<>> <=> Rooted(t)
      /\ s = IF Rooted(t) THEN Tail(T) ELSE T
  BY PlainTopic, LenProperties
<1>5. V = IF Rooted(t) /\ ~Rooted(f) /\ ~plus /\ ~hash THEN s ELSE T
  BY <1>4 DEF Seen, Overlooked, Rooted
<1>6. Covers(W, V) <=> Ahead(W, V) \/ Behind(W, V)  BY <1>3, <1>4, <1>5, CoversUnfolds
<1>7. ~hash => (steps <=> Ahead(w, s)) /\ ~Behind(W, V) /\ w \in Seq(Seq(S)) /\ w # <<>>
  BY ForwardSteps
<1>8. hash /\ ~lone => (steps <=> Behind(W, T)) /\ ~Ahead(W, T)  BY BackwardSteps
<1>9. w = IF Rooted(f) THEN Tail(W) ELSE W  BY CleanTokens
<1>10. same => W = T /\ w = s /\ (Rooted(f) <=> Rooted(t))  OBVIOUS
<1>11. rootHash => Len(w) = 1 /\ w[1] = <<"#">>  BY RootedHash
<1>12. Rooted(f) /\ Rooted(t) => (Ahead(W, T) <=> Ahead(w, s))
  <2> SUFFICES ASSUME Rooted(f), Rooted(t) PROVE Ahead(W, T) <=> Ahead(w, s)  OBVIOUS
  <2>1. Len(W) = Len(w) + 1 /\ \A k \in 1..Len(w) : w[k] = W[k + 1]  BY CleanTokens
  <2>2. Len(T) = Len(s) + 1 /\ \A k \in 1..Len(s) : s[k] = T[k + 1]  BY CleanTokens
  <2>3. w \in Seq(Seq(S)) /\ w # <<>>  BY <1>1, <1>7
  <2>4. MeetsLevel(W[1], T[1])  BY <1>3, <1>4 DEF MeetsLevel
  <2> HIDE DEF W, T, w, s
  <2> QED  BY ZenonT(30), <1>3, <1>4, <2>1, <2>2, <2>3, <2>4, AheadBehindRoot
<1> HIDE DEF W, T, w, s, V, hash, plus, lone, rootHash, same, dollar, steps, matches
<1>13. CASE lone
  <2>1. hash /\ W[1] = <<"#">> /\ Len(W) = 1 /\ V = T  BY <1>1, <1>3, <1>5, <1>13
  <2>2. Ahead(W, V)  BY <1>3, <1>4, <2>1, AheadHash
  <2>3. matches <=> ~dollar  BY <1>1, <1>2, <1>13, <2>1
  <2> QED  BY <1>6, <1>13, <2>2, <2>3 DEF W, V, lone, dollar, matches
<1>14. CASE hash /\ ~lone
  <2>1. V = T /\ ~Rooted(f) /\ ~plus /\ ~same /\ ~rootHash  BY <1>1, <1>5, <1>14
  <2>2. matches <=> steps  BY <1>2, <1>14, <2>1
  <2> QED  BY <1>6, <1>8, <1>14, <2>1, <2>2 DEF W, V, lone, dollar, matches
<1>15. CASE Rooted(f)
  <2>1. ~hash /\ ~plus /\ ~lone /\ V = T /\ ~Behind(W, V)  BY <1>1, <1>5, <1>7, <1>15
  <2>2. matches <=> Ahead(W, T)
    <3>1. CASE Rooted(t)
      <4>1. same => Ahead(w, s)  BY <1>10, AheadSame
      <4>2. rootHash => Ahead(w, s)  BY <1>4, <1>7, <1>11, <2>1, AheadHash
      <4> QED  BY <1>2, <1>7, <1>12, <1>15, <2>1, <3>1, <4>1, <4>2
    <3>2. CASE ~Rooted(t)
      <4>1. ~matches  BY <1>2, <1>10, <1>15, <2>1, <3>2
      <4>2. W[1] = <<>> /\ T[1] # <<>>  BY <1>3, <1>4, <1>15, <3>2
      <4>3. W[1] # <<"#">> /\ W[1] # <<"+">>  BY <1>3, <2>1
      <4>4. ~MeetsLevel(W[1], T[1])  BY <4>2, <4>3 DEF MeetsLevel
      <4> QED  BY <1>3, <4>1, <4>3, <4>4, FirstDecides
    <3> QED  BY <3>1, <3>2
  <2> QED  BY <1>6, <2>1, <2>2 DEF W, V, lone, dollar, matches
<1>16. CASE plus
  <2>1. /\ ~hash /\ ~lone /\ ~Rooted(f) /\ ~rootHash /\ ~same /\ V = T /\ w = W
        /\ ~Behind(W, V)
    BY <1>1, <1>5, <1>7, <1>9, <1>16
  <2>2. matches <=> Ahead(W, T)
    <3>1. CASE Rooted(t)
      <4>1. ~matches  BY <1>2, <1>16, <2>1, <3>1
      <4>2. W[1] = <<"+">> /\ T[1] = <<>> /\ W[1] # <<>> /\ W[1] # <<"#">>
        BY <1>3, <1>4, <1>16, <2>1, <3>1
      <4>3. ~MeetsLevel(W[1], T[1])  BY <4>2 DEF MeetsLevel
      <4> QED  BY <1>3, <4>1, <4>2, <4>3, FirstDecides
    <3>2. CASE ~Rooted(t)
      <4>1. s = T  BY <1>4, <3>2
      <4> QED  BY <1>2, <1>7, <1>16, <2>1, <3>2, <4>1
    <3> QED  BY <3>1, <3>2
  <2> QED  BY <1>6, <2>1, <2>2 DEF W, V, lone, dollar, matches
<1>17. CASE ~hash /\ ~Rooted(f) /\ ~plus
  <2>1. ~lone /\ ~rootHash /\ V = s /\ w = W /\ ~Behind(W, V)
    BY <1>1, <1>4, <1>5, <1>7, <1>9, <1>17
  <2>2. same => Ahead(w, s)  BY <1>10, AheadSame
  <2>3. matches <=> Ahead(W, s)  BY <1>2, <1>7, <1>17, <2>1, <2>2
  <2> QED  BY <1>6, <2>1, <2>3 DEF W, V, lone, dollar, matches
<1> QED  BY <1>13, <1>14, <1>15, <1>16, <1>17

(* Without a look at its leading slash a topic has the levels it has       *)
(* without the slash.                                                      *)
LEMMA OverlookedSlash ==
  ASSUME NEW S, "/" \in S, NEW f \in Seq(S), NEW t \in Seq(S), Overlooked(f, t)
  PROVE  Topics_matches(f, TRUE, t) <=> Topics_matches(f, TRUE, Tail(t))
<1> DEFINE n == Tail(t)
           L == Len(t)
<1>1. t # <<>> /\ t[1] = "/" /\ \A c \in {"/", "+", "#"} : ~StartsWith(f, c)
  BY DEF Overlooked, Rooted, StartsWith
<1>2. /\ L \in Nat \ {0} /\ n \in Seq(S) /\ Len(n) = L - 1
      /\ \A m \in 1..(L - 1) : n[m] = t[m + 1]
  BY <1>1, LenProperties, EmptySeq, HeadTailProperties
<1>3. t = InsertAt(n, 1, "/")
  <2> HIDE DEF n, L
  <2> DEFINE u == InsertAt(n, 1, "/")
  <2>1. 1 \in 1..(Len(n) + 1)  BY <1>2
  <2>2. /\ u \in Seq(S) /\ Len(u) = Len(n) + 1
        /\ \A m \in 1..(Len(n) + 1) :
             u[m] = IF m < 1 THEN n[m] ELSE IF m = 1 THEN "/" ELSE n[m - 1]
    BY <1>2, <2>1, InsertedAt
  <2> HIDE DEF u
  <2>3. Len(u) = L  BY <1>2, <2>2
  <2>4. ASSUME NEW m \in 1..L PROVE u[m] = t[m]
    <3>1. ~(m < 1) /\ m \in 1..(Len(n) + 1)  BY <1>2, <2>2
    <3>2. CASE m = 1  BY <1>1, <2>2, <3>1, <3>2
    <3>3. CASE m # 1
      <4>1. m - 1 \in 1..(L - 1) /\ m - 1 + 1 = m  BY <1>2, <3>3
      <4> QED  BY <1>2, <2>2, <3>1, <3>3, <4>1
    <3> QED  BY <3>2, <3>3
  <2> QED  BY <2>2, <2>3, <2>4, SeqEqual DEF u, L
<1>4. strtok(t) = strtok(n)
  <2>1. Between(n, 1)  BY <1>2 DEF Between
  <2> QED  BY <1>2, <1>3, <2>1, SlashPassedOver
<1>5. Topics_hasWildcards(t) <=> Topics_hasWildcards(n)
  <2> HIDE DEF n, L
  <2>1. Topics_hasWildcards(t) <=> \E q \in 1..L : t[q] \in Wildcard  BY WildcardsIn DEF L
  <2>2. Topics_hasWildcards(n) <=> \E q \in 1..(L - 1) : n[q] \in Wildcard
    BY <1>2, WildcardsIn
  <2>3. t[1] \notin Wildcard  BY <1>1 DEF Wildcard
  <2>4. ASSUME NEW q \in 1..L, t[q] \in Wildcard PROVE \E r \in 1..(L - 1) : n[r] \in Wildcard
    <3>1. q # 1  BY <2>3, <2>4
    <3>2. q - 1 \in 1..(L - 1) /\ q - 1 + 1 = q  BY <1>2, <3>1
    <3> QED  BY <1>2, <2>4, <3>2
  <2>5. ASSUME NEW r \in 1..(L - 1), n[r] \in Wildcard PROVE \E q \in 1..L : t[q] \in Wildcard
    <3>1. r + 1 \in 1..L  BY <1>2
    <3> QED  BY <1>2, <2>5, <3>1
  <2> QED  BY <2>1, <2>2, <2>4, <2>5
<1>6. \A x : ~Topics_hasWildcards(x) => Topics_isValidName(x)
  BY DEF Topics_hasWildcards, Topics_isValidName
<1>7. f # t /\ f # <<"#">> /\ f # <<"/", "#">>
  BY <1>1 DEF StartsWith
<1>8. \A x : Steps(f, x) <=> StepThrough(strtok(f), strtok(x))  BY <1>1 DEF Steps
<1>9. f = n => StepThrough(strtok(f), strtok(n))
  <2> HIDE DEF n
  <2>1. \A w : StepThrough(w, w)  BY DEF StepThrough, SameLevel
  <2> QED  BY <2>1
<1> HIDE DEF n, L
<1>10. ASSUME NEW x
       PROVE  Topics_matches(f, TRUE, x)
                <=> /\ ~Topics_hasWildcards(x) /\ Topics_isValidName(f)
                    /\ f = x \/ StepThrough(strtok(f), strtok(x))
  BY <1>1, <1>6, <1>7, <1>8 DEF Topics_matches
<1>11. Topics_matches(f, TRUE, t) <=> Topics_matches(f, TRUE, n)
  BY <1>4, <1>5, <1>7, <1>9, <1>10
<1> QED  BY <1>11 DEF n

-----------------------------------------------------------------------------
(* The names that the specification goes through.                          *)

Symbol == Char \cup {"a", "b", "c"}

NamesTyped == filter \in Seq(Symbol) /\ topic \in Seq(Symbol)

LEMMA RowsTyped == \A row \in tests1 : row.filter \in Seq(Symbol) /\ row.topic \in Seq(Symbol)
<1>1. {"a", "b", "c", "/", "+", "#"} \subseteq Symbol  BY DEF Symbol, Char
<1> HIDE DEF Symbol
<1>2. ASSUME NEW p \in Symbol, NEW q \in Symbol, NEW r \in Symbol,
             NEW u \in Symbol, NEW v \in Symbol
      PROVE  /\ <<p>> \in Seq(Symbol) /\ <<p, q>> \in Seq(Symbol) /\ <<p, q, r>> \in Seq(Symbol)
             /\ <<p, q, r, u>> \in Seq(Symbol) /\ <<p, q, r, u, v>> \in Seq(Symbol)
  OBVIOUS
<1> DEFINE Good(row) == row.filter \in Seq(Symbol) /\ row.topic \in Seq(Symbol)
           names ==
            {<<"#">>, <<"a">>, <<"+", "/", "a">>, <<"b", "/", "a">>,
             <<"b", "/", "c", "/", "a">>, <<"+", "/", "+", "/", "a">>, <<"#", "/", "a">>,
             <<"a", "/", "#">>, <<"a", "/", "b">>, <<"a", "/", "+">>, <<"+">>,
             <<"/", "a", "/", "b">>, <<"/", "+">>, <<"/", "a">>, <<"+", "/", "+">>,
             <<"/", "#">>}
<1>3. names \subseteq Seq(Symbol)  BY <1>1, <1>2
<1>4. \A f, t \in names : \A r : Good(Row(f, t, r))  BY <1>3 DEF Row
<1> HIDE DEF Good
<1>5. \A row \in tests1 : Good(row)  BY ZenonT(30), <1>4 DEF tests1
<1> QED  BY <1>5 DEF Good

LEMMA NamesAreTyped == Spec => []NamesTyped
<1>1. Init => NamesTyped
  <2>1. <<>> \in Seq(Symbol)  OBVIOUS
  <2> QED  BY <2>1, RowsTyped DEF Init, NamesTyped
<1>2. NamesTyped /\ [Next]_vars => NamesTyped'
  <2> SUFFICES ASSUME NamesTyped, [Next]_vars PROVE NamesTyped'  OBVIOUS
  <2>1. ASSUME NEW c \in Char, NEW s \in Seq(Symbol) PROVE Append(s, c) \in Seq(Symbol)
    BY AppendProperties DEF Symbol
  <2>2. ASSUME NEW c \in Char, GrowFilter(c) \/ GrowTopic(c) PROVE NamesTyped'
    BY <2>1, <2>2 DEF GrowFilter, GrowTopic, NamesTyped
  <2>3. CASE UNCHANGED vars  BY <2>3 DEF vars, NamesTyped
  <2> QED  BY <2>2, <2>3 DEF Next
<1> QED  BY <1>1, <1>2, PTL DEF Spec

(* Topics_isValidName accepts the names whose levels are well formed, of   *)
(* every length: the loop over the characters finds what there is to find. *)
THEOREM ValidNames == Spec => []ValidByLevels
<1>1. NamesTyped => ValidByLevels
  BY ValidIsWellFormed, WellFormedIsValid DEF NamesTyped, ValidByLevels
<1> QED  BY <1>1, NamesAreTyped, PTL

(* Topics_matches sees no difference between a topic and one with an empty *)
(* level more, inside or at the end, whatever the direction of the scan.   *)
THEOREM EmptyLevels == Spec => []EmptyLevelsIgnored
<1>1. NamesTyped => EmptyLevelsIgnored
  <2> SUFFICES ASSUME NamesTyped, topic # <<>>, NEW longer \in Lengthened,
                      filter \notin {topic, longer}
               PROVE  Topics_matches(filter, TRUE, longer) <=> Topics_matches(filter, TRUE, topic)
    BY DEF EmptyLevelsIgnored
  <2>1. topic \in Seq(Symbol) /\ "/" \in Symbol  BY DEF NamesTyped, Symbol, Char
  <2>2. PICK p : /\ longer = InsertAt(topic, p, "/") /\ Between(topic, p)
                 /\ p = 1 => topic[1] = "/"
    BY <2>1, LengthenedInserts DEF Lengthened
  <2> HIDE DEF Symbol
  <2> QED  BY <2>1, <2>2, SlashIgnored
<1> QED  BY <1>1, NamesAreTyped, PTL

(* On clean names of every length Topics_matches is the relation Means     *)
(* between levels, for filters scanned in either direction, except where   *)
(* the leading slash of the topic is overlooked.                           *)
THEOREM MatchesByLevels == Spec => []MatchesLevels
<1>1. NamesTyped => MatchesLevels
  <2> SUFFICES ASSUME NamesTyped, WellFormed(filter), ~Topics_hasWildcards(topic),
                      Clean(filter), Clean(topic), ~SlashOverlooked
               PROVE  Topics_matches(filter, TRUE, topic) <=> Means(filter, topic)
    BY DEF MatchesLevels
  <2>1. filter \in Seq(Symbol) /\ topic \in Seq(Symbol)  BY DEF NamesTyped
  <2>2. Seen(filter, topic) = Levels(topic)  BY DEF SlashOverlooked, Seen, Overlooked
  <2> QED  BY <2>1, <2>2, MatchesAgree DEF Means
<1> QED  BY <1>1, NamesAreTyped, PTL

(* Where it is overlooked the answer is that for the topic without it,     *)
(* whatever the two names are.                                             *)
THEOREM SlashesLost == Spec => []LeadingSlashLost
<1>1. NamesTyped => LeadingSlashLost
  <2> SUFFICES ASSUME NamesTyped, SlashOverlooked
               PROVE  Topics_matches(filter, TRUE, topic)
                        <=> Topics_matches(filter, TRUE, Tail(topic))
    BY DEF LeadingSlashLost
  <2>1. filter \in Seq(Symbol) /\ topic \in Seq(Symbol) /\ "/" \in Symbol
    BY DEF NamesTyped, Symbol, Char
  <2>2. Overlooked(filter, topic)  BY DEF SlashOverlooked, Overlooked
  <2> HIDE DEF Symbol
  <2> QED  BY <2>1, <2>2, OverlookedSlash
<1> QED  BY <1>1, NamesAreTyped, PTL
=============================================================================
