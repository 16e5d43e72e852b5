-------------------------- MODULE SequenceProofs ---------------------------
(***************************************************************************)
(* That what Lowest and Nth choose exists, and how Nth counts off a set    *)
(* that is given by an increasing function or as two sets in a row; and    *)
(* the parts of a sequence, and the sequence that FlattenSeq makes of      *)
(* several.                                                                *)
(***************************************************************************)
EXTENDS Order, SequencesExt, FiniteSetTheorems, SequenceTheorems, WellFoundedInduction,
        TLAPS

(* A non-empty set of naturals has a least element, and Lowest is it.      *)
LEMMA LowestProperties ==
  ASSUME NEW S, S \subseteq Nat, S # {}
  PROVE  Lowest(S) \in S /\ \A j \in S : Lowest(S) <= j
<1> DEFINE R == OpToRel(<, Nat)
<1>1. \E x \in S : \A y \in S : <<y, x>> \notin R
  BY NatLessThanWellFounded, WFMin
<1>2. \A x, y \in Nat : y < x => <<y, x>> \in R
  <2>1. ASSUME NEW x \in Nat, NEW y \in Nat, y < x
        PROVE  <<y, x>> \in {ss \in Nat \X Nat : ss[1] < ss[2]}
    BY <2>1
  <2> QED  BY <2>1, Zenon DEF OpToRel
<1> HIDE DEF R
<1>3. PICK x \in S : \A y \in S : <<y, x>> \notin R  BY <1>1
<1>4. ASSUME NEW y \in S PROVE x <= y
  <2>1. x \in Nat /\ y \in Nat  OBVIOUS
  <2>2. ~(y < x)  BY <1>2, <1>3, <2>1
  <2> QED  BY <2>1, <2>2
<1> QED  BY <1>4 DEF Lowest

(* What holds of 0, and with n of n + 1, holds of every natural number: a  *)
(* set stands for the predicate.                                           *)
LEMMA Induction ==
  ASSUME NEW S, 0 \in S, \A n \in Nat : n \in S => n + 1 \in S
  PROVE  Nat \subseteq S
<1> DEFINE Missing == Nat \ S
           m == Lowest(Missing)
<1> SUFFICES ASSUME Missing # {} PROVE FALSE  OBVIOUS
<1>1. Missing \subseteq Nat  OBVIOUS
<1> HIDE DEF Missing
<1>2. m \in Missing /\ \A j \in Missing : m <= j  BY <1>1, LowestProperties
<1> HIDE DEF m
<1>3. m \in Nat /\ m \notin S  BY <1>2 DEF Missing
<1>4. m - 1 \in Nat /\ (m - 1) + 1 = m  BY <1>3
<1>5. m - 1 \notin S  BY <1>3, <1>4
<1>6. m <= m - 1  BY <1>2, <1>4, <1>5 DEF Missing
<1> QED  BY <1>3, <1>6

(* A part of the indices of a table is a finite set.                       *)
LEMMA IndexSetFinite ==
  ASSUME NEW n \in Nat, NEW S, S \subseteq 1..n
  PROVE  IsFiniteSet(S) /\ Cardinality(S) \in Nat
<1>1. IsFiniteSet(1..n)  BY FS_Interval
<1> QED  BY <1>1, FS_Subset, FS_CardinalityType

(* How many elements of S there are up to i.                               *)
Rank(S, i) == Cardinality({j \in S : j <= i})

(* The elements of a finite set of naturals are counted off without a gap. *)
LEMMA NthCounts ==
  ASSUME NEW n \in Nat, NEW S, S \subseteq 1..n, NEW k \in 1..Cardinality(S)
  PROVE  \E i \in S : Rank(S, i) = k
<1> DEFINE upto(i) == {j \in S : j <= i}
           Counted(m) == \E i \in S : Cardinality(upto(i)) = m
           Missing == {m \in 1..Cardinality(S) : ~Counted(m)}
<1>1. /\ Cardinality(S) \in Nat /\ IsFiniteSet(S)
      /\ \A i : IsFiniteSet(upto(i)) /\ Cardinality(upto(i)) \in Nat
  <2>1. \A i : upto(i) \subseteq 1..n  OBVIOUS
  <2> QED  BY <2>1, IndexSetFinite
<1>2. \A j \in S : j \in Nat /\ 1 <= j  OBVIOUS
<1>3. upto(0) = {}
  <2>1. \A j \in S : ~(j <= 0)  BY <1>2
  <2> QED  BY <2>1
\* the step from m - 1 to m: the least element not counted so far is the next
<1>4. ASSUME NEW m \in 1..Cardinality(S), NEW i \in S \cup {0},
             Cardinality(upto(i)) = m - 1
      PROVE  Counted(m)
  <2> DEFINE rest == {j \in S : i < j}
             next == Lowest(rest)
  <2>1. i \in Nat  BY <1>2
  <2>2. rest # {}
    <3>1. SUFFICES ASSUME rest = {} PROVE FALSE  OBVIOUS
    <3>2. \A j \in S : j <= i
      <4>1. \A j \in S : ~(i < j)  BY <3>1
      <4> QED  BY <4>1, <1>2, <2>1
    <3>3. upto(i) = S  BY <3>2
    <3>4. Cardinality(S) = m - 1  BY <3>3, <1>4
    <3> QED  BY <3>4, <1>1
  <2>3. next \in rest /\ \A j \in rest : next <= j
    <3>1. rest \subseteq Nat  BY <1>2
    <3> QED  BY <3>1, <2>2, LowestProperties
  <2>4. next \in S /\ i < next /\ \A j \in S : i < j => next <= j
    BY <2>3
  <2> HIDE DEF next, rest
  <2>5. \A j \in S : j <= next <=> (j <= i \/ j = next)
    BY <2>4, <2>1, <1>2
  <2>6. upto(next) = upto(i) \cup {next} /\ next \notin upto(i)
    <3>1. ~(next <= i)  BY <2>4, <2>1, <1>2
    <3> QED  BY <2>4, <2>5, <3>1
  <2>7. Cardinality(upto(next)) = Cardinality(upto(i)) + 1
    <3> HIDE DEF upto
    <3> QED  BY <2>6, <1>1, FS_AddElement
  <2>8. Cardinality(upto(next)) = m
    <3> HIDE DEF upto
    <3> QED  BY <2>7, <1>4, <1>1
  <2> QED  BY <2>8, <2>4
<1>5. Missing = {}
  <2> SUFFICES ASSUME Missing # {} PROVE FALSE  OBVIOUS
  <2> DEFINE m == Lowest(Missing)
  <2>1. m \in Missing /\ \A j \in Missing : m <= j
    <3>1. Missing \subseteq Nat  BY <1>1
    <3> HIDE DEF Missing
    <3> QED  BY <3>1, LowestProperties
  <2>2. m \in 1..Cardinality(S) /\ ~Counted(m)  BY <2>1
  <2>3. \A j \in 1..Cardinality(S) : j < m => Counted(j)
    <3>1. \A j \in 1..Cardinality(S) : ~Counted(j) => m <= j  BY <2>1
    <3> HIDE DEF Counted, m, Missing
    <3> QED  BY <3>1, <2>2, <1>1
  <2> HIDE DEF m, Missing
  <2>4. CASE m = 1
    <3>1. Cardinality(upto(0)) = m - 1
      BY <2>4, <1>3, FS_EmptySet
    <3> QED  BY <3>1, <2>2, <1>4
  <2>5. CASE m # 1
    <3>1. Counted(m - 1)
      <4>1. m - 1 \in 1..Cardinality(S) /\ m - 1 < m  BY <2>2, <2>5, <1>1
      <4> QED  BY <4>1, <2>3
    <3>2. PICK i \in S : Cardinality(upto(i)) = m - 1  BY <3>1
    <3> QED  BY <3>2, <2>2, <1>4
  <2> QED  BY <2>4, <2>5
<1>6. Counted(k)  BY <1>5
<1> QED  BY <1>6 DEF Rank

LEMMA NthExists ==
  ASSUME NEW n \in Nat, NEW S, S \subseteq 1..n, NEW k \in 1..Cardinality(S)
  PROVE  Nth(S, k) \in S
<1>1. \E i \in S : Rank(S, i) = k  BY NthCounts
<1> QED  BY <1>1 DEF Nth, Rank


LEMMA RankTyped ==
  ASSUME NEW n \in Nat, NEW S, S \subseteq 1..n, NEW i \in S
  PROVE  Rank(S, i) \in 1..Cardinality(S)
<1> DEFINE upto == {j \in S : j <= i}
<1>1. IsFiniteSet(S) /\ Cardinality(S) \in Nat  BY IndexSetFinite
<1>2. upto \in SUBSET S /\ i \in upto  OBVIOUS
<1>3. Rank(S, i) = Cardinality(upto)  BY DEF Rank
<1> HIDE DEF upto
<1>4. IsFiniteSet(upto) /\ Cardinality(upto) <= Cardinality(S)  BY <1>1, <1>2, FS_Subset
<1>5. Cardinality(upto) \in Nat /\ Cardinality(upto) # 0
  BY <1>2, <1>4, FS_CardinalityType, FS_EmptySet
<1> QED  BY <1>1, <1>3, <1>4, <1>5

LEMMA RankIncreases ==
  ASSUME NEW n \in Nat, NEW S, S \subseteq 1..n, NEW i \in S, NEW k \in S, i < k
  PROVE  Rank(S, i) < Rank(S, k)
<1> DEFINE lower == {j \in S : j <= i}
           upper == {j \in S : j <= k}
<1>1. i \in Nat /\ k \in Nat /\ \A j \in S : j \in Nat  OBVIOUS
<1>2. lower \in SUBSET upper /\ k \in upper /\ k \notin lower
  <2>1. \A j \in S : j <= i => j <= k  BY <1>1
  <2>2. k <= k /\ ~(k <= i)  BY <1>1
  <2> QED  BY <2>1, <2>2
<1>3. upper \subseteq 1..n /\ Rank(S, i) = Cardinality(lower) /\ Rank(S, k) = Cardinality(upper)
  BY DEF Rank
<1> HIDE DEF lower, upper
<1>4. IsFiniteSet(upper) /\ Cardinality(upper) \in Nat  BY <1>3, IndexSetFinite
<1>5. /\ Cardinality(lower) <= Cardinality(upper) /\ IsFiniteSet(lower)
      /\ Cardinality(upper) = Cardinality(lower) => upper = lower
  BY <1>2, <1>4, FS_Subset
<1>6. Cardinality(lower) \in Nat  BY <1>5, FS_CardinalityType
<1> QED  BY <1>2, <1>3, <1>4, <1>5, <1>6

LEMMA NthRank ==
  ASSUME NEW n \in Nat, NEW S, S \subseteq 1..n, NEW k \in 1..Cardinality(S)
  PROVE  Nth(S, k) \in S /\ Rank(S, Nth(S, k)) = k
<1>1. \E i \in S : Rank(S, i) = k  BY NthCounts
<1>2. Nth(S, k) = CHOOSE i \in S : Rank(S, i) = k  BY DEF Nth, Rank
<1> QED  BY <1>1, <1>2

LEMMA RankNth ==
  ASSUME NEW n \in Nat, NEW S, S \subseteq 1..n, NEW i \in S
  PROVE  Nth(S, Rank(S, i)) = i
<1>1. Rank(S, i) \in 1..Cardinality(S)  BY RankTyped
<1> DEFINE k == Nth(S, Rank(S, i))
<1>2. k \in S /\ Rank(S, k) = Rank(S, i)  BY <1>1, NthRank
<1> HIDE DEF k
<1>3. i \in Nat /\ k \in Nat  BY <1>2
<1>4. Rank(S, i) \in Nat  BY <1>1, IndexSetFinite
<1>5. ~(i < k)
  <2>1. i < k => Rank(S, i) < Rank(S, k)  BY <1>2, RankIncreases
  <2> QED  BY <1>2, <1>4, <2>1
<1>6. ~(k < i)
  <2>1. k < i => Rank(S, k) < Rank(S, i)  BY <1>2, RankIncreases
  <2> QED  BY <1>2, <1>4, <2>1
<1> QED  BY <1>3, <1>5, <1>6 DEF k

LEMMA NthIncreases ==
  ASSUME NEW n \in Nat, NEW S, S \subseteq 1..n,
         NEW j \in 1..Cardinality(S), NEW k \in 1..Cardinality(S), j < k
  PROVE  Nth(S, j) < Nth(S, k)
<1> DEFINE a == Nth(S, j)
           b == Nth(S, k)
<1>1. a \in S /\ b \in S /\ Rank(S, a) = j /\ Rank(S, b) = k  BY NthRank
<1>2. Cardinality(S) \in Nat  BY IndexSetFinite
<1> HIDE DEF a, b
<1>3. a \in Nat /\ b \in Nat  BY <1>1
<1>4. a # b /\ ~(b < a)
  <2>1. b < a => Rank(S, b) < Rank(S, a)  BY <1>1, RankIncreases
  <2> QED  BY <1>1, <1>2, <2>1
<1> QED  BY <1>3, <1>4 DEF a, b

(* An increasing function counts off its range.                            *)
LEMMA NthOfFunction ==
  ASSUME NEW n \in Nat, NEW c \in Nat, NEW f \in [1..c -> 1..n],
         \A j, k \in 1..c : j < k => f[j] < f[k]
  PROVE  LET S == {f[k] : k \in 1..c}
         IN  Cardinality(S) = c /\ \A k \in 1..c : Nth(S, k) = f[k]
<1> DEFINE S == {f[k] : k \in 1..c}
<1>1. \A j, k \in 1..c : f[j] = f[k] => j = k
  <2> SUFFICES ASSUME NEW j \in 1..c, NEW k \in 1..c, f[j] = f[k] PROVE j = k  OBVIOUS
  <2>1. f[j] \in Nat /\ f[k] \in Nat  OBVIOUS
  <2>2. ~(f[j] < f[k]) /\ ~(f[k] < f[j])  BY <2>1
  <2>3. ~(j < k) /\ ~(k < j)  BY <2>2
  <2> QED  BY <2>3
<1>2. ASSUME NEW k \in 0..c
      PROVE  Cardinality({f[j] : j \in 1..k}) = k
  <2> DEFINE T == {f[j] : j \in 1..k}
             g == [j \in 1..k |-> f[j]]
  <2>1. \A j \in 1..k : j \in 1..c  OBVIOUS
  <2>2. g \in Bijection(1..k, T)
    BY <2>1, <1>1 DEF Bijection, Injection, Surjection, IsInjective
  <2>3. IsFiniteSet(1..k) /\ Cardinality(1..k) = k  BY FS_Interval
  <2> HIDE DEF g, T
  <2>4. ExistsBijection(1..k, T)  BY <2>2 DEF ExistsBijection
  <2> QED  BY <2>3, <2>4, FS_Bijection DEF T
<1>3. Cardinality(S) = c  BY <1>2
<1>4. S \subseteq 1..n  OBVIOUS
<1>5. ASSUME NEW k \in 1..c PROVE Nth(S, k) = f[k]
  <2>1. {j \in S : j <= f[k]} = {f[j] : j \in 1..k}
    <3>1. \A j \in 1..c : f[j] <= f[k] <=> j <= k
      <4> SUFFICES ASSUME NEW j \in 1..c PROVE f[j] <= f[k] <=> j <= k  OBVIOUS
      <4>1. f[j] \in Nat /\ f[k] \in Nat  OBVIOUS
      <4>2. j < k => f[j] < f[k]  OBVIOUS
      <4>3. k < j => f[k] < f[j]  OBVIOUS
      <4> QED  BY <4>1, <4>2, <4>3
    <3>2. \A j : j \in 1..k <=> j \in 1..c /\ j <= k  OBVIOUS
    <3> QED  BY <3>1, <3>2
  <2>2. f[k] \in S /\ k \in 0..c  OBVIOUS
  <2>3. Cardinality({j \in S : j <= f[k]}) = k
    <3>1. Cardinality({f[j] : j \in 1..k}) = k  BY <1>2, <2>2
    <3> HIDE DEF S
    <3> QED  BY <2>1, <3>1, Zenon
  <2> HIDE DEF S
  <2>4. Rank(S, f[k]) = k  BY <2>3, Zenon DEF Rank
  <2> QED  BY <2>2, <2>4, <1>4, RankNth
<1> QED  BY <1>3, <1>5

(* U is S, within 1..m, and T, within 1..n, moved behind it.               *)
Joins(U, m, S, n, T) ==
  /\ m \in Nat /\ S \subseteq 1..m /\ n \in Nat /\ T \subseteq 1..n
  /\ U \subseteq 1..(m + n)
  /\ \A i \in 1..m : i \in U <=> i \in S
  /\ \A i \in 1..n : m + i \in U <=> i \in T

(* Two sets one behind the other are counted off one after the other.      *)
LEMMA NthJoined ==
  ASSUME NEW U, NEW m, NEW S, NEW n, NEW T, Joins(U, m, S, n, T)
  PROVE  /\ Cardinality(U) = Cardinality(S) + Cardinality(T)
         /\ \A k \in 1..Cardinality(S) : Nth(U, k) = Nth(S, k)
         /\ \A k \in 1..Cardinality(T) : Nth(U, Cardinality(S) + k) = m + Nth(T, k)
<1> DEFINE c == Cardinality(S)
           d == Cardinality(T)
           f == [k \in 1..(c + d) |-> IF k <= c THEN Nth(S, k) ELSE m + Nth(T, k - c)]
<1>0. /\ m \in Nat /\ S \subseteq 1..m /\ n \in Nat /\ T \subseteq 1..n
      /\ U \subseteq 1..(m + n)
      /\ \A i \in 1..m : i \in U <=> i \in S
      /\ \A i \in 1..n : m + i \in U <=> i \in T
  BY DEF Joins
<1>1. c \in Nat /\ d \in Nat  BY <1>0, IndexSetFinite
<1>2. \A k \in 1..c : Nth(S, k) \in S /\ Nth(S, k) \in 1..m  BY <1>0, NthRank
<1>3. \A k \in 1..d : Nth(T, k) \in T /\ Nth(T, k) \in 1..n  BY <1>0, NthRank
<1>4. \A j, k \in 1..c : j < k => Nth(S, j) < Nth(S, k)  BY <1>0, NthIncreases
<1>5. \A j, k \in 1..d : j < k => Nth(T, j) < Nth(T, k)  BY <1>0, NthIncreases
<1>6. \A i \in S : i = Nth(S, Rank(S, i)) /\ Rank(S, i) \in 1..c  BY <1>0, RankNth, RankTyped
<1>7. \A i \in T : i = Nth(T, Rank(T, i)) /\ Rank(T, i) \in 1..d  BY <1>0, RankNth, RankTyped
<1> HIDE DEF c, d
<1>8. \A k \in 1..(c + d) : (k <= c /\ k \in 1..c) \/ (~(k <= c) /\ k - c \in 1..d)
  BY <1>1
<1>9. f \in [1..(c + d) -> 1..(m + n)]
  <2> SUFFICES ASSUME NEW k \in 1..(c + d) PROVE f[k] \in 1..(m + n)  OBVIOUS
  <2>1. CASE k <= c /\ k \in 1..c  BY <1>0, <1>2, <2>1
  <2>2. CASE ~(k <= c) /\ k - c \in 1..d
    <3>1. f[k] = m + Nth(T, k - c)  BY <2>2
    <3>2. Nth(T, k - c) \in 1..n  BY <1>3, <2>2
    <3> HIDE DEF f
    <3> QED  BY <1>0, <3>1, <3>2
  <2> QED  BY <1>0, <1>8, <2>1, <2>2
<1>10. ASSUME NEW j \in 1..(c + d), NEW k \in 1..(c + d), j < k
       PROVE  f[j] < f[k]
  <2>1. CASE k <= c /\ k \in 1..c
    <3>1. j <= c /\ j \in 1..c  BY <1>1, <1>10, <2>1
    <3> QED  BY <1>4, <1>10, <2>1, <3>1
  <2>2. CASE ~(k <= c) /\ k - c \in 1..d /\ j <= c /\ j \in 1..c
    <3>1. f[j] = Nth(S, j) /\ f[k] = m + Nth(T, k - c)  BY <2>2
    <3>2. Nth(S, j) \in 1..m /\ Nth(T, k - c) \in 1..n  BY <1>2, <1>3, <2>2
    <3> HIDE DEF f
    <3> QED  BY <1>0, <3>1, <3>2
  <2>3. CASE ~(k <= c) /\ k - c \in 1..d /\ ~(j <= c) /\ j - c \in 1..d
    <3>1. f[j] = m + Nth(T, j - c) /\ f[k] = m + Nth(T, k - c)  BY <2>3
    <3>2. Nth(T, j - c) \in 1..n /\ Nth(T, k - c) \in 1..n  BY <1>3, <2>3
    <3>3. j - c < k - c  BY <1>1, <1>10
    <3>4. Nth(T, j - c) < Nth(T, k - c)  BY <1>5, <2>3, <3>3
    <3> HIDE DEF f
    <3> QED  BY <1>0, <3>1, <3>2, <3>4
  <2> QED  BY <1>8, <2>1, <2>2, <2>3
<1>11. U = {f[k] : k \in 1..(c + d)}
  <2>1. ASSUME NEW i \in U PROVE \E k \in 1..(c + d) : f[k] = i
    <3>1. CASE i \in 1..m
      <4> DEFINE k == Rank(S, i)
      <4>1. i = Nth(S, k) /\ k \in 1..c  BY <1>0, <1>6, <3>1
      <4> HIDE DEF k
      <4>2. k \in 1..(c + d) /\ k <= c  BY <1>1, <4>1
      <4> QED  BY <4>1, <4>2
    <3>2. CASE i \notin 1..m
      <4>1. i - m \in 1..n /\ m + (i - m) = i  BY <1>0, <3>2
      <4> DEFINE k == Rank(T, i - m)
      <4>2. i - m = Nth(T, k) /\ k \in 1..d  BY <1>0, <1>7, <4>1
      <4> HIDE DEF k
      <4>3. c + k \in 1..(c + d) /\ ~(c + k <= c) /\ (c + k) - c = k  BY <1>1, <4>2
      <4>4. f[c + k] = m + Nth(T, k)  BY <4>3
      <4> HIDE DEF f
      <4> QED  BY <4>1, <4>2, <4>3, <4>4
    <3> QED  BY <3>1, <3>2
  <2>2. ASSUME NEW k \in 1..(c + d) PROVE f[k] \in U
    <3>1. CASE k <= c /\ k \in 1..c  BY <1>0, <1>2, <3>1
    <3>2. CASE ~(k <= c) /\ k - c \in 1..d
      <4>1. f[k] = m + Nth(T, k - c)  BY <3>2
      <4> HIDE DEF f
      <4> QED  BY <1>0, <1>3, <3>2, <4>1
    <3> QED  BY <1>8, <3>1, <3>2
  <2> HIDE DEF f
  <2> QED  BY <2>1, <2>2
<1>12. c + d \in Nat /\ m + n \in Nat  BY <1>0, <1>1
<1>13. Cardinality(U) = c + d /\ \A k \in 1..(c + d) : Nth(U, k) = f[k]
  <2> DEFINE V == {f[k] : k \in 1..(c + d)}
  <2>1. Cardinality(V) = c + d /\ \A k \in 1..(c + d) : Nth(V, k) = f[k]
    <3> HIDE DEF f
    <3> QED  BY <1>9, <1>10, <1>12, NthOfFunction
  <2>2. U = V  BY <1>11
  <2> HIDE DEF V, f
  <2> QED  BY <2>1, <2>2
<1>14. \A k \in 1..c : Nth(U, k) = Nth(S, k)
  <2>1. \A k \in 1..c : k \in 1..(c + d) /\ k <= c  BY <1>1
  <2> QED  BY <1>13, <2>1
<1>15. \A k \in 1..d : Nth(U, c + k) = m + Nth(T, k)
  <2>1. \A k \in 1..d : c + k \in 1..(c + d) /\ ~(c + k <= c) /\ (c + k) - c = k  BY <1>1
  <2> QED  BY <1>13, <2>1
<1> QED  BY <1>13, <1>14, <1>15 DEF c, d
-----------------------------------------------------------------------------
(* Parts of a sequence.                                                    *)

LEMMA SubSeqTyped ==
  ASSUME NEW S, NEW s \in Seq(S), NEW m \in Nat \ {0}, NEW n \in Nat, n <= Len(s)
  PROVE  /\ SubSeq(s, m, n) \in Seq(S)
         /\ Len(SubSeq(s, m, n)) = IF m <= n THEN n - m + 1 ELSE 0
         /\ \A i \in 1..(n - m + 1) : SubSeq(s, m, n)[i] = s[m + i - 1]
<1>1. \A i \in m..n : s[i] \in S  BY LenProperties, ElementOfSeq
<1> QED  BY <1>1, SubSeqProperties

(* A sequence is its two parts.                                            *)
LEMMA Cut ==
  ASSUME NEW S, NEW s \in Seq(S), NEW n \in 0..Len(s)
  PROVE  s = SubSeq(s, 1, n) \o SubSeq(s, n + 1, Len(s))
<1>1. Len(s) \in Nat  BY LenProperties
<1>2. 1 \in 1..(Len(s) + 1) /\ n \in (1 - 1)..Len(s) /\ Len(s) \in n..Len(s)  BY <1>1
<1>3. SubSeq(s, 1, n) \o SubSeq(s, n + 1, Len(s)) = SubSeq(s, 1, Len(s))
  BY <1>2, ConcatAdjacentSubSeq
<1> QED  BY <1>3, SubSeqFull

(* One more of a sequence is one appended.                                 *)
LEMMA OneMore ==
  ASSUME NEW S, NEW s \in Seq(S), NEW k \in Nat, k < Len(s)
  PROVE  SubSeq(s, 1, k + 1) = Append(SubSeq(s, 1, k), s[k + 1])
<1>1. Len(s) \in Nat /\ s[k + 1] \in S  BY LenProperties, ElementOfSeq
<1>2. /\ SubSeq(s, 1, k) \in Seq(S) /\ Len(SubSeq(s, 1, k)) = k
      /\ \A i \in 1..k : SubSeq(s, 1, k)[i] = s[i]
  <2>1. 1 \in Nat \ {0} /\ k <= Len(s)  BY <1>1
  <2>2. /\ SubSeq(s, 1, k) \in Seq(S)
        /\ Len(SubSeq(s, 1, k)) = IF 1 <= k THEN k - 1 + 1 ELSE 0
        /\ \A i \in 1..(k - 1 + 1) : SubSeq(s, 1, k)[i] = s[1 + i - 1]
    BY <2>1, SubSeqTyped
  <2> QED  BY <2>2
<1>3. /\ SubSeq(s, 1, k + 1) \in Seq(S) /\ Len(SubSeq(s, 1, k + 1)) = k + 1
      /\ \A i \in 1..(k + 1) : SubSeq(s, 1, k + 1)[i] = s[i]
  <2>1. 1 \in Nat \ {0} /\ k + 1 \in Nat /\ k + 1 <= Len(s)  BY <1>1
  <2>2. /\ SubSeq(s, 1, k + 1) \in Seq(S)
        /\ Len(SubSeq(s, 1, k + 1)) = IF 1 <= k + 1 THEN (k + 1) - 1 + 1 ELSE 0
        /\ \A i \in 1..((k + 1) - 1 + 1) : SubSeq(s, 1, k + 1)[i] = s[1 + i - 1]
    BY <2>1, SubSeqTyped
  <2> QED  BY <2>2
<1> DEFINE t == SubSeq(s, 1, k)
           u == SubSeq(s, 1, k + 1)
<1>4. t \in Seq(S) /\ Len(t) = k /\ \A i \in 1..k : t[i] = s[i]  BY <1>2
<1>5. u \in Seq(S) /\ Len(u) = k + 1 /\ \A i \in 1..(k + 1) : u[i] = s[i]  BY <1>3
<1> HIDE DEF t, u
<1> DEFINE v == Append(t, s[k + 1])
<1>6. v \in Seq(S) /\ Len(v) = k + 1 /\ \A i \in 1..(k + 1) : v[i] = s[i]
  BY <1>1, <1>4
<1> HIDE DEF v
<1>7. u = v  BY <1>5, <1>6, SeqEqual
<1> QED  BY <1>7 DEF t, u, v

-----------------------------------------------------------------------------
(* Sequences of sequences.                                                 *)

(* f is what the recursion of FlattenSeq defines for the first n of s.     *)
Flattens(f, s, n) == f = [i \in 1..n |-> IF i = 1 THEN s[i] ELSE f[i - 1] \o s[i]]

(* The recursion of FlattenSeq has a solution for the first n of them.     *)
LEMMA FlattenFunction ==
  ASSUME NEW S, NEW s \in Seq(Seq(S)), NEW n \in 0..Len(s)
  PROVE  \E f : f = [i \in 1..n |-> IF i = 1 THEN s[i] ELSE f[i - 1] \o s[i]]
<1> DEFINE Solves(f, m) == f = [i \in 1..m |-> IF i = 1 THEN s[i] ELSE f[i - 1] \o s[i]]
           Soluble(m) == m <= Len(s) => \E f : Solves(f, m)
           Solved == {m \in Nat : Soluble(m)}
<1>1. Len(s) \in Nat  BY LenProperties
<1>2. Soluble(0)
  <2> DEFINE f == [i \in 1..0 |-> s[i]]
  <2>1. f = [i \in 1..0 |-> IF i = 1 THEN s[i] ELSE f[i - 1] \o s[i]]  OBVIOUS
  <2> HIDE DEF f
  <2> QED  BY <2>1
<1>3. ASSUME NEW m \in Nat, Soluble(m) PROVE Soluble(m + 1)
  <2> SUFFICES ASSUME m + 1 <= Len(s) PROVE \E g : Solves(g, m + 1)  OBVIOUS
  <2>1. PICK f : Solves(f, m)
    <3>1. m <= Len(s)  BY <1>1
    <3> HIDE DEF Solves
    <3> QED  BY <1>3, <3>1
  <2> DEFINE g == [i \in 1..(m + 1) |->
                     IF i <= m THEN f[i] ELSE IF i = 1 THEN s[i] ELSE f[i - 1] \o s[i]]
  <2>2. \A i \in 1..(m + 1) : i - 1 \in 1..m \/ i = 1  OBVIOUS
  <2>3. \A i \in 1..m : g[i] = f[i]  OBVIOUS
  <2>4. \A i \in 1..(m + 1) : g[i] = IF i = 1 THEN s[i] ELSE f[i - 1] \o s[i]
    <3> SUFFICES ASSUME NEW i \in 1..(m + 1)
                 PROVE  g[i] = IF i = 1 THEN s[i] ELSE f[i - 1] \o s[i]
      OBVIOUS
    <3>1. CASE i <= m
      <4>1. i \in 1..m  BY <3>1
      <4>2. f[i] = IF i = 1 THEN s[i] ELSE f[i - 1] \o s[i]  BY <2>1, <4>1
      <4> QED  BY <2>3, <4>1, <4>2
    <3>2. CASE ~(i <= m)  BY <3>2
    <3> QED  BY <3>1, <3>2
  <2>5. \A i \in 1..(m + 1) : g[i] = IF i = 1 THEN s[i] ELSE g[i - 1] \o s[i]
    BY <2>2, <2>3, <2>4
  <2>6. g = [i \in 1..(m + 1) |-> g[i]]  OBVIOUS
  <2> HIDE DEF g
  <2>7. g = [i \in 1..(m + 1) |-> IF i = 1 THEN s[i] ELSE g[i - 1] \o s[i]]
    BY <2>5, <2>6
  <2> QED  BY <2>7
<1> HIDE DEF Soluble
<1>4. Nat \subseteq Solved
  <2>1. 0 \in Solved /\ \A m \in Nat : m \in Solved => m + 1 \in Solved  BY <1>2, <1>3
  <2> HIDE DEF Solved
  <2> QED  BY <2>1, Induction
<1>5. n \in Nat /\ n <= Len(s)  BY <1>1
<1>6. Soluble(n)  BY <1>4, <1>5
<1> QED  BY <1>5, <1>6 DEF Soluble

LEMMA FlattenUnfolds ==
  ASSUME NEW S, NEW s \in Seq(Seq(S)), s # <<>>
  PROVE  \E f : /\ f = [i \in 1..Len(s) |-> IF i = 1 THEN s[i] ELSE f[i - 1] \o s[i]]
                /\ FlattenSeq(s) = f[Len(s)]
<1> DEFINE Solves(f) == f = [i \in 1..Len(s) |-> IF i = 1 THEN s[i] ELSE f[i - 1] \o s[i]]
<1>1. Len(s) \in Nat /\ Len(s) # 0 /\ Len(s) \in 0..Len(s)
  BY EmptySeq
<1>2. \E f : Solves(f)  BY <1>1, FlattenFunction
<1>3. FlattenSeq(s) = (CHOOSE f : Solves(f))[Len(s)]  BY <1>1 DEF FlattenSeq
<1> HIDE DEF Solves
<1>4. Solves(CHOOSE f : Solves(f))  BY <1>2
<1>5. \E f : Solves(f) /\ FlattenSeq(s) = f[Len(s)]  BY <1>3, <1>4
<1> QED  BY <1>5 DEF Solves

(* Two solutions agree as far as the sequences do.                         *)
LEMMA FlattenUnique ==
  ASSUME NEW s, NEW t, NEW n \in Nat, NEW m \in Nat, n <= m,
         \A i \in 1..n : s[i] = t[i],
         NEW f, Flattens(f, s, n), NEW g, Flattens(g, t, m)
  PROVE  \A i \in 1..n : f[i] = g[i]
<1> DEFINE Agree(i) == i \in 1..n => f[i] = g[i]
           Agreed == {i \in Nat : Agree(i)}
<1> HIDE DEF Agree, Agreed
<1>0. \A i \in 1..n : i \in 1..m  OBVIOUS
<1>1. \A i \in 1..n : f[i] = IF i = 1 THEN s[i] ELSE f[i - 1] \o s[i]
  BY DEF Flattens
<1>2. \A i \in 1..n : g[i] = IF i = 1 THEN t[i] ELSE g[i - 1] \o t[i]
  <2>1. \A i \in 1..m : g[i] = IF i = 1 THEN t[i] ELSE g[i - 1] \o t[i]
    BY DEF Flattens
  <2> QED  BY <2>1, <1>0
<1> USE DEF Agree, Agreed
<1>3. Agree(0)  OBVIOUS
<1>4. ASSUME NEW i \in Nat, Agree(i) PROVE Agree(i + 1)
  <2> SUFFICES ASSUME i + 1 \in 1..n PROVE f[i + 1] = g[i + 1]  OBVIOUS
  <2>1. CASE i = 0
    <3>1. 1 \in 1..n  BY <2>1
    <3>2. f[1] = s[1] /\ g[1] = t[1] /\ s[1] = t[1]  BY <1>1, <1>2, <3>1
    <3> QED  BY <2>1, <3>2
  <2>2. CASE i # 0
    <3>1. i \in 1..n /\ i + 1 # 1 /\ (i + 1) - 1 = i  BY <2>2
    <3>2. f[i + 1] = f[i] \o s[i + 1]  BY <1>1, <3>1
    <3>3. g[i + 1] = g[i] \o t[i + 1]  BY <1>2, <3>1
    <3>4. f[i] = g[i] /\ s[i + 1] = t[i + 1]  BY <1>4, <3>1
    <3> QED  BY <3>2, <3>3, <3>4
  <2> QED  BY <2>1, <2>2
<1> HIDE DEF Agree
<1>5. Nat \subseteq Agreed
  <2>1. 0 \in Agreed /\ \A i \in Nat : i \in Agreed => i + 1 \in Agreed  BY <1>3, <1>4
  <2> HIDE DEF Agreed
  <2> QED  BY <2>1, Induction
<1>6. \A i \in 1..n : Agree(i)  BY <1>5
<1> QED  BY <1>6 DEF Agree

LEMMA FlattenEmpty == FlattenSeq(<<>>) = <<>>
BY DEF FlattenSeq

LEMMA FlattenAppend ==
  ASSUME NEW S, NEW s \in Seq(Seq(S)), NEW e \in Seq(S)
  PROVE  FlattenSeq(Append(s, e)) = FlattenSeq(s) \o e
<1> DEFINE t == Append(s, e)
           n == Len(s)
<1>1. /\ t \in Seq(Seq(S)) /\ t # <<>> /\ Len(t) = n + 1 /\ n \in Nat
      /\ \A i \in 1..n : t[i] = s[i]
      /\ t[n + 1] = e
  BY AppendProperties, LenProperties
<1> HIDE DEF t
<1>2. PICK g : /\ g = [i \in 1..Len(t) |-> IF i = 1 THEN t[i] ELSE g[i - 1] \o t[i]]
               /\ FlattenSeq(t) = g[Len(t)]
  BY <1>1, FlattenUnfolds
<1>3. CASE s = <<>>
  <2>1. n = 0  BY <1>3
  <2>2. FlattenSeq(t) = e  BY <1>1, <1>2, <2>1
  <2>3. <<>> \o e = e  BY ConcatEmptySeq
  <2> QED  BY <1>3, <2>2, <2>3, FlattenEmpty DEF t
<1>4. CASE s # <<>>
  <2>1. PICK f : /\ f = [i \in 1..n |-> IF i = 1 THEN s[i] ELSE f[i - 1] \o s[i]]
                 /\ FlattenSeq(s) = f[n]
    BY <1>4, FlattenUnfolds
  <2>2. n # 0  BY <1>4, EmptySeq
  <2>3. \A i \in 1..n : f[i] = g[i]
    <3> DEFINE m == Len(t)
    <3>1. m \in Nat /\ n <= m /\ n <= n /\ \A i \in 1..n : s[i] = t[i]  BY <1>1
    <3>2. Flattens(g, t, m)  BY <1>2 DEF Flattens
    <3>3. Flattens(f, s, n)  BY <2>1 DEF Flattens
    <3>4. n \in Nat  BY <1>1
    <3>5. n <= m  BY <3>1
    <3>6. \A i \in 1..n : s[i] = t[i]  BY <3>1
    <3>7. m \in Nat  BY <3>1
    <3> HIDE DEF m, n
    <3> QED  BY ONLY <3>2, <3>3, <3>4, <3>5, <3>6, <3>7, FlattenUnique, SMTT(30)
  <2>4. g[n + 1] = g[n] \o e
    <3>1. n + 1 \in 1..Len(t) /\ n + 1 # 1 /\ (n + 1) - 1 = n  BY <1>1, <2>2
    <3> HIDE DEF n
    <3> QED  BY <1>1, <1>2, <3>1
  <2>5. f[n] = g[n]  BY <1>1, <2>2, <2>3
  <2> HIDE DEF n
  <2>6. FlattenSeq(t) = FlattenSeq(s) \o e  BY <1>1, <1>2, <2>1, <2>4, <2>5
  <2> QED  BY <2>6 DEF t
<1> QED  BY <1>3, <1>4

LEMMA FlattenTyped ==
  ASSUME NEW S, NEW s \in Seq(Seq(S))
  PROVE  FlattenSeq(s) \in Seq(S)
<1>1. CASE s = <<>>  BY <1>1, FlattenEmpty, EmptySeq
<1>2. CASE s # <<>>
  <2> DEFINE n == Len(s)
  <2>1. n \in Nat /\ n # 0 /\ \A i \in 1..n : s[i] \in Seq(S)
    BY <1>2, EmptySeq, ElementOfSeq
  <2>2. PICK f : /\ f = [i \in 1..n |-> IF i = 1 THEN s[i] ELSE f[i - 1] \o s[i]]
                 /\ FlattenSeq(s) = f[n]
    BY <1>2, FlattenUnfolds
  <2> HIDE DEF n
  <2> DEFINE Typed(i) == i \in 1..n => f[i] \in Seq(S)
             AllTyped == {i \in Nat : Typed(i)}
  <2>3. \A i \in 1..n : f[i] = IF i = 1 THEN s[i] ELSE f[i - 1] \o s[i]  BY <2>2
  <2>4. Typed(0)  OBVIOUS
  <2>5. ASSUME NEW i \in Nat, Typed(i) PROVE Typed(i + 1)
    <3> SUFFICES ASSUME i + 1 \in 1..n PROVE f[i + 1] \in Seq(S)  OBVIOUS
    <3>1. CASE i = 0
      <4>1. 1 \in 1..n  BY <3>1
      <4>2. f[1] = s[1]  BY <2>3, <4>1
      <4> QED  BY <2>1, <3>1, <4>1, <4>2
    <3>2. CASE i # 0
      <4>1. i \in 1..n /\ i + 1 # 1 /\ (i + 1) - 1 = i  BY <2>1, <2>5, <3>2
      <4>2. f[i + 1] = f[i] \o s[i + 1]  BY <2>3, <4>1
      <4>3. f[i] \in Seq(S) /\ s[i + 1] \in Seq(S)  BY <2>1, <2>5, <4>1
      <4> QED  BY <4>2, <4>3, ConcatProperties
    <3> QED  BY <3>1, <3>2
  <2> HIDE DEF Typed
  <2>6. Nat \subseteq AllTyped
    <3>1. 0 \in AllTyped /\ \A i \in Nat : i \in AllTyped => i + 1 \in AllTyped
      BY <2>4, <2>5
    <3> HIDE DEF AllTyped
    <3> QED  BY <3>1, Induction
  <2>7. Typed(n)  BY <2>1, <2>6
  <2> QED  BY <2>1, <2>2, <2>7 DEF Typed
<1> QED  BY <1>1, <1>2

(* Where in the whole the parts are: part k after the first off[k - 1].    *)
LEMMA FlattenLayout ==
  ASSUME NEW S, NEW s \in Seq(Seq(S))
  PROVE  \E off \in [0..Len(s) -> Nat] :
           /\ off[0] = 0 /\ off[Len(s)] = Len(FlattenSeq(s))
           /\ \A k \in 1..Len(s) :
                /\ off[k] = off[k - 1] + Len(s[k])
                /\ off[k] <= off[Len(s)]
                /\ \A j \in 1..Len(s[k]) : FlattenSeq(s)[off[k - 1] + j] = s[k][j]
<1> DEFINE F(m) == FlattenSeq(SubSeq(s, 1, m))
           off == [m \in 0..Len(s) |-> Len(F(m))]
           c == Len(s)
<1>1. c \in Nat /\ \A k \in 1..c : s[k] \in Seq(S) /\ Len(s[k]) \in Nat
  BY LenProperties, ElementOfSeq
<1>2. \A m \in 0..c : SubSeq(s, 1, m) \in Seq(Seq(S)) /\ F(m) \in Seq(S) /\ Len(F(m)) \in Nat
  <2> SUFFICES ASSUME NEW m \in 0..c
               PROVE  SubSeq(s, 1, m) \in Seq(Seq(S)) /\ F(m) \in Seq(S) /\ Len(F(m)) \in Nat
    OBVIOUS
  <2>1. m \in Nat /\ m <= Len(s) /\ 1 \in Nat \ {0}  BY <1>1
  <2>2. SubSeq(s, 1, m) \in Seq(Seq(S))  BY <2>1, SubSeqTyped
  <2>3. F(m) \in Seq(S)  BY <2>2, FlattenTyped
  <2> QED  BY <2>2, <2>3, LenProperties
<1>3. ASSUME NEW m \in Nat, m < c PROVE F(m + 1) = F(m) \o s[m + 1]
  <2>1. SubSeq(s, 1, m + 1) = Append(SubSeq(s, 1, m), s[m + 1])  BY <1>3, OneMore
  <2>2. SubSeq(s, 1, m) \in Seq(Seq(S)) /\ s[m + 1] \in Seq(S)
    <3>1. m \in 0..c /\ m + 1 \in 1..c  BY <1>1, <1>3
    <3> QED  BY <1>1, <1>2, <3>1
  <2>3. FlattenSeq(Append(SubSeq(s, 1, m), s[m + 1])) = FlattenSeq(SubSeq(s, 1, m)) \o s[m + 1]
    BY <2>2, FlattenAppend
  <2> QED  BY <2>1, <2>3
<1>4. off \in [0..c -> Nat] /\ \A m \in 0..c : off[m] = Len(F(m))  BY <1>2
<1>5. off[0] = 0
  <2>1. SubSeq(s, 1, 0) = <<>>  BY SubSeqEmpty
  <2>2. 0 \in 0..c  BY <1>1
  <2> QED  BY <1>4, <2>1, <2>2, FlattenEmpty, EmptySeq
<1>6. F(c) = FlattenSeq(s)  BY SubSeqFull
<1> HIDE DEF F, off, c
<1>7. \A k \in 1..c : off[k] = off[k - 1] + Len(s[k])
  <2> SUFFICES ASSUME NEW k \in 1..c PROVE off[k] = off[k - 1] + Len(s[k])  OBVIOUS
  <2>1. k - 1 \in Nat /\ k - 1 < c /\ (k - 1) + 1 = k /\ k - 1 \in 0..c /\ k \in 0..c  BY <1>1
  <2>2. F(k) = F(k - 1) \o s[k]  BY <1>3, <2>1
  <2>3. Len(F(k - 1) \o s[k]) = Len(F(k - 1)) + Len(s[k])
    BY <1>1, <1>2, <2>1, ConcatProperties
  <2> QED  BY <1>4, <2>1, <2>2, <2>3
<1> DEFINE Laid(m) == m <= c => \A k \in 1..m :
                        /\ off[k] <= off[m]
                        /\ \A j \in 1..Len(s[k]) : F(m)[off[k - 1] + j] = s[k][j]
           AllLaid == {m \in Nat : Laid(m)}
<1>8. Laid(0)  OBVIOUS
<1>9. ASSUME NEW m \in Nat, Laid(m) PROVE Laid(m + 1)
  <2> SUFFICES ASSUME m + 1 <= c, NEW k \in 1..(m + 1)
               PROVE  /\ off[k] <= off[m + 1]
                      /\ \A j \in 1..Len(s[k]) : F(m + 1)[off[k - 1] + j] = s[k][j]
    OBVIOUS
  <2>1. /\ m <= c /\ m < c /\ m \in 0..c /\ m + 1 \in 1..c /\ (m + 1) - 1 = m
        /\ k \in 1..c /\ k \in 0..c /\ k - 1 \in 0..c
    BY <1>1
  <2>2. F(m + 1) = F(m) \o s[m + 1]  BY <1>3, <2>1
  <2>3. /\ off[m] \in Nat /\ off[k] \in Nat /\ off[k - 1] \in Nat
        /\ off[m] = Len(F(m)) /\ off[m + 1] = off[m] + Len(s[m + 1])
        /\ off[k] = off[k - 1] + Len(s[k])
        /\ Len(s[k]) \in Nat /\ Len(s[m + 1]) \in Nat
    BY <1>1, <1>4, <1>7, <2>1
  <2>4. \A i \in 1..(Len(F(m)) + Len(s[m + 1])) :
          (F(m) \o s[m + 1])[i] = IF i <= Len(F(m)) THEN F(m)[i] ELSE s[m + 1][i - Len(F(m))]
    BY <1>1, <1>2, <2>1, ConcatProperties
  <2>5. CASE k = m + 1
    <3>1. \A j \in 1..Len(s[k]) : /\ off[m] + j \in 1..(Len(F(m)) + Len(s[m + 1]))
                                  /\ ~(off[m] + j <= Len(F(m)))
                                  /\ (off[m] + j) - Len(F(m)) = j
      BY <2>3, <2>5
    <3>2. \A j \in 1..Len(s[k]) : (F(m) \o s[m + 1])[off[m] + j] = s[m + 1][j]
      BY <2>4, <3>1
    <3>3. off[k] <= off[m + 1]  BY <2>3, <2>5
    <3> QED  BY <2>1, <2>2, <2>5, <3>2, <3>3
  <2>6. CASE k # m + 1
    <3>1. k \in 1..m  BY <2>6
    <3>2. /\ off[k] <= off[m]
          /\ \A j \in 1..Len(s[k]) : F(m)[off[k - 1] + j] = s[k][j]
      BY <1>9, <2>1, <3>1
    <3>3. \A j \in 1..Len(s[k]) : /\ off[k - 1] + j \in 1..(Len(F(m)) + Len(s[m + 1]))
                                  /\ off[k - 1] + j <= Len(F(m))
      <4>1. \A a, b, t, u \in Nat : a + b <= t =>
              \A j \in 1..b : a + j \in 1..(t + u) /\ a + j <= t
        OBVIOUS
      <4>2. off[k - 1] + Len(s[k]) <= Len(F(m))  BY <2>3, <3>2
      <4> QED  BY <2>3, <4>1, <4>2
    <3>4. \A j \in 1..Len(s[k]) : (F(m) \o s[m + 1])[off[k - 1] + j] = F(m)[off[k - 1] + j]
      BY <2>4, <3>3
    <3>5. off[k] <= off[m + 1]  BY <2>3, <3>2
    <3> QED  BY <2>2, <3>2, <3>4, <3>5
  <2> QED  BY <2>5, <2>6
<1> HIDE DEF Laid
<1>10. Nat \subseteq AllLaid
  <2>1. 0 \in AllLaid /\ \A m \in Nat : m \in AllLaid => m + 1 \in AllLaid  BY <1>8, <1>9
  <2> HIDE DEF AllLaid
  <2> QED  BY <2>1, Induction
<1>11. \A k \in 1..c : /\ off[k] <= off[c]
                       /\ \A j \in 1..Len(s[k]) : F(c)[off[k - 1] + j] = s[k][j]
  <2>1. Laid(c)  BY <1>1, <1>10
  <2>2. c <= c  BY <1>1
  <2> QED  BY <2>1, <2>2 DEF Laid
<1>12. off[c] = Len(F(c))  BY <1>1, <1>4
<1>13. /\ off \in [0..c -> Nat] /\ off[0] = 0 /\ off[c] = Len(FlattenSeq(s))
       /\ \A k \in 1..c :
            /\ off[k] = off[k - 1] + Len(s[k])
            /\ off[k] <= off[c]
            /\ \A j \in 1..Len(s[k]) : FlattenSeq(s)[off[k - 1] + j] = s[k][j]
  BY <1>4, <1>5, <1>6, <1>7, <1>11, <1>12
<1> QED  BY <1>13 DEF c
=============================================================================
