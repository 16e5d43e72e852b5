-------------------------- MODULE RecvBufferProofs --------------------------
(***************************************************************************)
(* However the network cuts the stream of a connection, the broker takes   *)
(* from it the messages that were sent, until it slips: for every size of  *)
(* the buffer, every base of the length digits, every width of the types   *)
(* and all lengths a peer may send, in any number of digits.               *)
(*                                                                         *)
(* Induction over data is by sets: what holds of 0, and with n of n + 1,   *)
(* holds of all naturals (Induction of SequenceProofs).  So the functions  *)
(* that mqtt_get_total_length and Weight define recursively exist.         *)
(***************************************************************************)
EXTENDS RecvBuffer, SequenceProofs

-----------------------------------------------------------------------------
(* The weight of a digit.                                                  *)

(* w is what the recursion of Weight defines up to n.                      *)
Weighs(w, n) == w = [k \in 0..n |-> IF k = 0 THEN 1 ELSE Base * w[k - 1]]

LEMMA WeightFunction ==
  ASSUME NEW n \in Nat
  PROVE  \E w : Weighs(w, n)
<1> DEFINE Soluble(m) == \E w : Weighs(w, m)
           Solved == {m \in Nat : Soluble(m)}
<1>1. Soluble(0)
  <2> DEFINE w == [k \in 0..0 |-> 1]
  <2>1. w = [k \in 0..0 |-> IF k = 0 THEN 1 ELSE Base * w[k - 1]]  OBVIOUS
  <2> HIDE DEF w
  <2> QED  BY <2>1 DEF Weighs
<1>2. ASSUME NEW m \in Nat, Soluble(m) PROVE Soluble(m + 1)
  <2>1. PICK w : Weighs(w, m)  BY <1>2
  <2> DEFINE v == [k \in 0..(m + 1) |-> IF k <= m THEN w[k] ELSE Base * w[k - 1]]
  <2>2. \A k \in 0..(m + 1) : k = 0 \/ k - 1 \in 0..m  OBVIOUS
  <2>3. \A k \in 0..m : v[k] = w[k]  OBVIOUS
  <2>4. \A k \in 0..(m + 1) : v[k] = IF k = 0 THEN 1 ELSE Base * w[k - 1]
    <3> SUFFICES ASSUME NEW k \in 0..(m + 1)
                 PROVE  v[k] = IF k = 0 THEN 1 ELSE Base * w[k - 1]
      OBVIOUS
    <3>1. CASE k <= m
      <4>1. k \in 0..m  BY <3>1
      <4>2. w[k] = IF k = 0 THEN 1 ELSE Base * w[k - 1]  BY <2>1, <4>1 DEF Weighs
      <4> QED  BY <2>3, <4>1, <4>2
    <3>2. CASE ~(k <= m)  BY <3>2
    <3> QED  BY <3>1, <3>2
  <2>5. \A k \in 0..(m + 1) : v[k] = IF k = 0 THEN 1 ELSE Base * v[k - 1]
    BY <2>2, <2>3, <2>4
  <2>6. v = [k \in 0..(m + 1) |-> v[k]]  OBVIOUS
  <2> HIDE DEF v
  <2>7. v = [k \in 0..(m + 1) |-> IF k = 0 THEN 1 ELSE Base * v[k - 1]]
    BY <2>5, <2>6
  <2> QED  BY <2>7 DEF Weighs
<1> HIDE DEF Soluble
<1>3. 0 \in Solved /\ \A m \in Nat : m \in Solved => m + 1 \in Solved  BY <1>1, <1>2
<1> HIDE DEF Solved
<1>4. n \in Solved  BY <1>3, Induction
<1> QED  BY <1>4 DEF Solved, Soluble

LEMMA WeightDefined ==
  Weight = [k \in Nat |-> IF k = 0 THEN 1 ELSE Base * Weight[k - 1]]
<1> DEFINE w(n) == CHOOSE v : Weighs(v, n)
           Agree(k) == \A m, n \in Nat : k <= m /\ k <= n => w(m)[k] = w(n)[k]
           Agreed == {k \in Nat : Agree(k)}
<1>1. \A n \in Nat : Weighs(w(n), n)
  <2> SUFFICES ASSUME NEW n \in Nat PROVE Weighs(w(n), n)  OBVIOUS
  <2>1. \E v : Weighs(v, n)  BY WeightFunction
  <2> QED  BY <2>1
<1> HIDE DEF w
<1>2. \A n \in Nat : \A k \in 0..n : w(n)[k] = IF k = 0 THEN 1 ELSE Base * w(n)[k - 1]
  <2> SUFFICES ASSUME NEW n \in Nat, NEW k \in 0..n
               PROVE  w(n)[k] = IF k = 0 THEN 1 ELSE Base * w(n)[k - 1]
    OBVIOUS
  <2> DEFINE v == w(n)
  <2>1. v = [j \in 0..n |-> IF j = 0 THEN 1 ELSE Base * v[j - 1]]  BY <1>1 DEF Weighs
  <2> HIDE DEF v
  <2>2. v[k] = IF k = 0 THEN 1 ELSE Base * v[k - 1]  BY <2>1
  <2> QED  BY <2>2 DEF v
<1>3. Agree(0)
  <2> SUFFICES ASSUME NEW m \in Nat, NEW n \in Nat PROVE w(m)[0] = w(n)[0]  OBVIOUS
  <2>1. 0 \in 0..m /\ 0 \in 0..n  OBVIOUS
  <2> QED  BY <1>2, <2>1
<1>4. ASSUME NEW k \in Nat, Agree(k) PROVE Agree(k + 1)
  <2> SUFFICES ASSUME NEW m \in Nat, NEW n \in Nat, k + 1 <= m, k + 1 <= n
               PROVE  w(m)[k + 1] = w(n)[k + 1]
    OBVIOUS
  <2>1. /\ k + 1 \in 0..m /\ k + 1 \in 0..n /\ k + 1 # 0 /\ (k + 1) - 1 = k
        /\ k <= m /\ k <= n
    OBVIOUS
  <2>2. w(m)[k + 1] = Base * w(m)[k]  BY <1>2, <2>1
  <2>3. w(n)[k + 1] = Base * w(n)[k]  BY <1>2, <2>1
  <2>4. w(m)[k] = w(n)[k]  BY <1>4, <2>1
  <2> QED  BY <2>2, <2>3, <2>4
<1> HIDE DEF Agree
<1>5. 0 \in Agreed /\ \A k \in Nat : k \in Agreed => k + 1 \in Agreed  BY <1>3, <1>4
<1>6. Nat \subseteq Agreed
  <2> HIDE DEF Agreed
  <2> QED  BY <1>5, Induction
<1> DEFINE F == [k \in Nat |-> w(k)[k]]
<1>7. \A k \in Nat : F[k] = IF k = 0 THEN 1 ELSE Base * F[k - 1]
  <2> SUFFICES ASSUME NEW k \in Nat
               PROVE  w(k)[k] = IF k = 0 THEN 1 ELSE Base * F[k - 1]
    OBVIOUS
  <2>1. k \in 0..k  OBVIOUS
  <2>2. w(k)[k] = IF k = 0 THEN 1 ELSE Base * w(k)[k - 1]  BY <1>2, <2>1
  <2>3. ASSUME k # 0 PROVE F[k - 1] = w(k)[k - 1]
    <3>1. k - 1 \in Nat /\ k - 1 <= k /\ k - 1 <= k - 1  BY <2>3
    <3>2. Agree(k - 1)  BY <1>6, <3>1
    <3> QED  BY <3>1, <3>2 DEF Agree
  <2> QED  BY <2>2, <2>3
<1>8. F = [k \in Nat |-> F[k]]  OBVIOUS
<1> HIDE DEF F
<1>9. F = [k \in Nat |-> IF k = 0 THEN 1 ELSE Base * F[k - 1]]  BY <1>7, <1>8
<1>10. Weight = CHOOSE v : v = [k \in Nat |-> IF k = 0 THEN 1 ELSE Base * v[k - 1]]
  BY DEF Weight
<1> QED  BY <1>9, <1>10

LEMMA WeightPositive == \A k \in Nat : Weight[k] \in Nat \ {0}
<1> DEFINE Typed(k) == Weight[k] \in Nat \ {0}
           AllTyped == {k \in Nat : Typed(k)}
<1>1. Base \in Nat \ {0}  BY RecvAssumption
<1>2. \A k \in Nat : Weight[k] = IF k = 0 THEN 1 ELSE Base * Weight[k - 1]
  BY WeightDefined
<1>3. Typed(0)  BY <1>2
<1>4. ASSUME NEW k \in Nat, Typed(k) PROVE Typed(k + 1)
  <2>1. k + 1 \in Nat /\ k + 1 # 0 /\ (k + 1) - 1 = k  OBVIOUS
  <2>2. Weight[k + 1] = Base * Weight[k]  BY <1>2, <2>1
  <2>3. \A x, y \in Nat \ {0} : x * y \in Nat \ {0}  OBVIOUS
  <2> QED  BY <1>1, <1>4, <2>2, <2>3
<1> HIDE DEF Typed
<1>5. 0 \in AllTyped /\ \A k \in Nat : k \in AllTyped => k + 1 \in AllTyped
  BY <1>3, <1>4
<1>6. Nat \subseteq AllTyped
  <2> HIDE DEF AllTyped
  <2> QED  BY <1>5, Induction
<1> QED  BY <1>6 DEF Typed

(* A digit counts nothing only if it is a zero.                            *)
LEMMA DigitCounts ==
  ASSUME NEW b \in Seq(Byte), NEW i \in 2..Len(b)
  PROVE  /\ Digit(b, i) \in Nat
         /\ Flagged(b[i]) /\ b[i] # Base => Digit(b, i) # 0
<1>1. Base \in Nat \ {0, 1}  BY RecvAssumption
<1>2. b[i] \in 0..(2 * Base - 1)
  <2>1. i \in 1..Len(b)  BY LenProperties
  <2> QED  BY <2>1, ElementOfSeq DEF Byte
<1> DEFINE d == b[i] % Base
           w == Weight[i - 2]
<1>3. d \in Nat  BY <1>1, <1>2
<1>4. w \in Nat \ {0}
  <2>1. i - 2 \in Nat  BY LenProperties
  <2> QED  BY <2>1, WeightPositive
<1>5. Flagged(b[i]) /\ b[i] # Base => d # 0
  <2>1. \A x, y \in Nat : y > 1 /\ x >= y /\ x < 2 * y => x % y = x - y  BY SMTT(30)
  <2> DEFINE x == b[i]
  <2>2. x \in Nat /\ x < 2 * Base /\ Base \in Nat /\ Base > 1  BY <1>1, <1>2
  <2> HIDE DEF x
  <2>3. x >= Base /\ x # Base => x % Base # 0  BY <2>1, <2>2
  <2> QED  BY <2>3 DEF x, Flagged
<1>6. Digit(b, i) = d * w  BY DEF Digit
<1> HIDE DEF d, w
<1>7. \A x, y \in Nat : x * y \in Nat /\ (x # 0 /\ y # 0 => x * y # 0)  OBVIOUS
<1> QED  BY <1>3, <1>4, <1>5, <1>6, <1>7

-----------------------------------------------------------------------------
(* The length of a message.                                                *)

(* f adds up c, from a on.                                                 *)
Sums(f, a, c, n) == f = [i \in 1..n |-> IF i = 1 THEN a ELSE f[i - 1] + c[i]]

LEMMA SumExists ==
  ASSUME NEW a, NEW c, NEW n \in Nat
  PROVE  \E f : Sums(f, a, c, n)
<1> DEFINE Soluble(m) == \E f : Sums(f, a, c, m)
           Solved == {m \in Nat : Soluble(m)}
<1>1. Soluble(0)
  <2> DEFINE f == [i \in 1..0 |-> a]
  <2>1. f = [i \in 1..0 |-> IF i = 1 THEN a ELSE f[i - 1] + c[i]]  OBVIOUS
  <2> HIDE DEF f
  <2> QED  BY <2>1 DEF Sums
<1>2. ASSUME NEW m \in Nat, Soluble(m) PROVE Soluble(m + 1)
  <2>1. PICK f : Sums(f, a, c, m)  BY <1>2
  <2> DEFINE g == [i \in 1..(m + 1) |->
                     IF i <= m THEN f[i] ELSE IF i = 1 THEN a ELSE f[i - 1] + c[i]]
  <2>2. \A i \in 1..(m + 1) : i = 1 \/ i - 1 \in 1..m  OBVIOUS
  <2>3. \A i \in 1..m : g[i] = f[i]  OBVIOUS
  <2>4. \A i \in 1..(m + 1) : g[i] = IF i = 1 THEN a ELSE f[i - 1] + c[i]
    <3> SUFFICES ASSUME NEW i \in 1..(m + 1)
                 PROVE  g[i] = IF i = 1 THEN a ELSE f[i - 1] + c[i]
      OBVIOUS
    <3>1. CASE i <= m
      <4>1. i \in 1..m  BY <3>1
      <4>2. f[i] = IF i = 1 THEN a ELSE f[i - 1] + c[i]
        BY <2>1, <4>1 DEF Sums
      <4> QED  BY <2>3, <4>1, <4>2
    <3>2. CASE ~(i <= m)  BY <3>2
    <3> QED  BY <3>1, <3>2
  <2>5. \A i \in 1..(m + 1) : g[i] = IF i = 1 THEN a ELSE g[i - 1] + c[i]
    BY <2>2, <2>3, <2>4
  <2>6. g = [i \in 1..(m + 1) |-> g[i]]  OBVIOUS
  <2> HIDE DEF g
  <2>7. g = [i \in 1..(m + 1) |-> IF i = 1 THEN a ELSE g[i - 1] + c[i]]
    BY <2>5, <2>6
  <2> QED  BY <2>7 DEF Sums
<1> HIDE DEF Soluble
<1>3. 0 \in Solved /\ \A m \in Nat : m \in Solved => m + 1 \in Solved  BY <1>1, <1>2
<1> HIDE DEF Solved
<1>4. n \in Solved  BY <1>3, Induction
<1> QED  BY <1>4 DEF Solved, Soluble

(* What the byte i adds to the length, and to the count that               *)
(* mqtt_get_total_length makes of header and length.                       *)
Valued(b, i) == IF i \in Digits(b) THEN Digit(b, i) ELSE 0

Counted(b, i) == IF i \in Digits(b) THEN Digit(b, i) + 1 ELSE 0

(* f is what the recursions of Remaining and mqtt_get_total_length define. *)
Adds(f, b, n) == f = [i \in 1..n |-> IF i = 1 THEN 0 ELSE f[i - 1] + Valued(b, i)]

Counts(f, b, n) == f = [i \in 1..n |-> IF i = 1 THEN 1 ELSE f[i - 1] + Counted(b, i)]

LEMMA RemainingUnfolds ==
  ASSUME NEW b \in Seq(Byte)
  PROVE  \E f : Adds(f, b, Len(b)) /\ Remaining(b) = f[Len(b)]
<1> DEFINE n == Len(b)
           c == [i \in 1..n |-> Valued(b, i)]
<1>1. n \in Nat  BY LenProperties
<1>2. Remaining(b) =
        (CHOOSE f : f = [i \in 1..n |-> IF i = 1 THEN 0 ELSE f[i - 1] + Valued(b, i)])[n]
  BY DEF Remaining, Valued
<1>3. Remaining(b) = (CHOOSE f : Adds(f, b, n))[n]  BY <1>2 DEF Adds
<1>4. \A i \in 1..n : c[i] = Valued(b, i)  OBVIOUS
<1> HIDE DEF n, c
<1>5. PICK f : Sums(f, 0, c, n)  BY <1>1, SumExists
<1>6. Adds(f, b, n)  BY <1>4, <1>5 DEF Sums, Adds
<1>7. Adds(CHOOSE g : Adds(g, b, n), b, n)  BY <1>6
<1>8. \E g : Adds(g, b, n) /\ Remaining(b) = g[n]  BY <1>3, <1>7
<1> QED  BY <1>8 DEF n

LEMMA TotalUnfolds ==
  ASSUME NEW b \in Seq(Byte)
  PROVE  \E f : Counts(f, b, Len(b)) /\ mqtt_get_total_length(b) = f[Len(b)]
<1> DEFINE n == Len(b)
           c == [i \in 1..n |-> Counted(b, i)]
<1>1. n \in Nat  BY LenProperties
<1>2. mqtt_get_total_length(b) =
        (CHOOSE f : f = [i \in 1..n |-> IF i = 1 THEN 1 ELSE f[i - 1] + Counted(b, i)])[n]
  BY DEF mqtt_get_total_length, Counted
<1>3. mqtt_get_total_length(b) = (CHOOSE f : Counts(f, b, n))[n]  BY <1>2 DEF Counts
<1>4. \A i \in 1..n : c[i] = Counted(b, i)  OBVIOUS
<1> HIDE DEF n, c
<1>5. PICK f : Sums(f, 1, c, n)  BY <1>1, SumExists
<1>6. Counts(f, b, n)  BY <1>4, <1>5 DEF Sums, Counts
<1>7. Counts(CHOOSE g : Counts(g, b, n), b, n)  BY <1>6
<1>8. \E g : Counts(g, b, n) /\ mqtt_get_total_length(b) = g[n]  BY <1>3, <1>7
<1> QED  BY <1>8 DEF n

(* Whatever the buffer holds, the length found in it is a positive number. *)
LEMMA TotalTyped ==
  ASSUME NEW b \in Seq(Byte), b # <<>>
  PROVE  mqtt_get_total_length(b) \in Nat \ {0}
<1> DEFINE n == Len(b)
<1>1. n \in Nat /\ n # 0  BY EmptySeq, LenProperties
<1>2. \A i \in 1..n : Counted(b, i) \in Nat
  <2> SUFFICES ASSUME NEW i \in 1..n, i \in Digits(b) PROVE Digit(b, i) + 1 \in Nat
    BY DEF Counted
  <2>1. i \in 2..n  BY DEF Digits
  <2>2. Digit(b, i) \in Nat  BY <2>1, DigitCounts
  <2> QED  BY <2>2
<1>3. PICK f : Counts(f, b, n) /\ mqtt_get_total_length(b) = f[n]  BY TotalUnfolds
<1>4. \A i \in 1..n : f[i] = IF i = 1 THEN 1 ELSE f[i - 1] + Counted(b, i)
  BY <1>3 DEF Counts
<1> HIDE DEF n
<1> DEFINE Typed(i) == i \in 1..n => f[i] \in Nat \ {0}
           AllTyped == {i \in Nat : Typed(i)}
<1>5. ASSUME NEW i \in Nat, Typed(i) PROVE Typed(i + 1)
  <2> SUFFICES ASSUME i + 1 \in 1..n PROVE f[i + 1] \in Nat \ {0}  OBVIOUS
  <2>1. CASE i = 0
    <3>1. 1 \in 1..n  BY <2>1
    <3>2. f[1] = 1  BY <1>4, <3>1
    <3> QED  BY <2>1, <3>2
  <2>2. CASE i # 0
    <3>1. i \in 1..n /\ i + 1 # 1 /\ (i + 1) - 1 = i  BY <1>1, <1>5, <2>2
    <3>2. f[i + 1] = f[i] + Counted(b, i + 1)  BY <1>4, <3>1
    <3>3. f[i] \in Nat \ {0} /\ Counted(b, i + 1) \in Nat  BY <1>2, <1>5, <3>1
    <3> QED  BY <3>2, <3>3
  <2> QED  BY <2>1, <2>2
<1>6. Typed(0)  OBVIOUS
<1> HIDE DEF Typed
<1>7. 0 \in AllTyped /\ \A i \in Nat : i \in AllTyped => i + 1 \in AllTyped
  BY <1>5, <1>6
<1>8. Nat \subseteq AllTyped
  <2> HIDE DEF AllTyped
  <2> QED  BY <1>7, Induction
<1>9. Typed(n)  BY <1>1, <1>8
<1> QED  BY <1>1, <1>3, <1>9 DEF Typed

(* Behind its last digit nothing counts.                                   *)
LEMMA TotalSettles ==
  ASSUME NEW b, NEW n \in Nat, NEW k \in 1..n, Digits(b) \subseteq 1..k,
         NEW f, Counts(f, b, n), f[k] \in Nat
  PROVE  f[n] = f[k]
<1> DEFINE Same(i) == i \in k..n => f[i] = f[k]
           AllSame == {i \in Nat : Same(i)}
<1> HIDE DEF Same, AllSame
<1>1. k \in Nat /\ 1 <= k /\ k <= n  OBVIOUS
<1>2. \A i \in 1..n : f[i] = IF i = 1 THEN 1 ELSE f[i - 1] + Counted(b, i)
  BY DEF Counts
<1>3. ASSUME NEW i \in Nat, Same(i) PROVE Same(i + 1)
  <2> SUFFICES ASSUME i + 1 \in k..n PROVE f[i + 1] = f[k]  BY DEF Same
  <2>1. CASE i + 1 = k  BY <2>1
  <2>2. CASE i + 1 # k
    <3>1. i \in k..n /\ i + 1 \in 1..n /\ i + 1 # 1 /\ (i + 1) - 1 = i  BY <1>1, <2>2
    <3>2. i + 1 \notin Digits(b)  BY <1>1, <3>1
    <3>3. f[i + 1] = f[i] + 0  BY <1>2, <3>1, <3>2 DEF Counted
    <3>4. f[i] = f[k]  BY <1>3, <3>1 DEF Same
    <3> QED  BY <3>3, <3>4
  <2> QED  BY <2>1, <2>2
<1>4. Same(0)  BY <1>1 DEF Same
<1>5. 0 \in AllSame /\ \A i \in Nat : i \in AllSame => i + 1 \in AllSame
  BY <1>3, <1>4 DEF AllSame
<1>6. Nat \subseteq AllSame  BY <1>5, Induction
<1>7. Same(n)  BY <1>6 DEF AllSame
<1> QED  BY <1>1, <1>7 DEF Same

(* What is not yet a header consists of digits that announce another one.  *)
LEMMA OpenHeader ==
  ASSUME NEW b \in Seq(Byte), ~HeaderWhole(b)
  PROVE  \A i \in 2..Len(b) : i \in Digits(b) /\ Flagged(b[i])
<1> DEFINE n == Len(b)
           Open(i) == \A j \in 2..n : j <= i => j \in Digits(b) /\ Flagged(b[j])
           AllOpen == {i \in Nat : Open(i)}
<1>1. n \in Nat  BY LenProperties
<1>2. Open(0)  OBVIOUS
<1>3. ASSUME NEW i \in Nat, Open(i) PROVE Open(i + 1)
  <2> SUFFICES ASSUME NEW j \in 2..n, j = i + 1 PROVE j \in Digits(b) /\ Flagged(b[j])
    BY <1>1, <1>3
  <2>1. \A k \in 2..(j - 1) : k \in 2..n /\ k <= i  BY <1>1
  <2>2. j \in Digits(b)  BY <1>3, <2>1 DEF Digits
  <2> QED  BY <2>2 DEF HeaderWhole
<1> HIDE DEF Open
<1>4. 0 \in AllOpen /\ \A i \in Nat : i \in AllOpen => i + 1 \in AllOpen  BY <1>2, <1>3
<1>5. Nat \subseteq AllOpen
  <2> HIDE DEF AllOpen
  <2> QED  BY <1>4, Induction
<1>6. Open(n)  BY <1>1, <1>5
<1> QED  BY <1>1, <1>6 DEF Open

(* Such bytes pass for a message only if all the digits are zeros.         *)
LEMMA ZeroDigits ==
  ASSUME NEW b \in Seq(Byte), b # <<>>, ~HeaderWhole(b),
         mqtt_get_total_length(b) <= Len(b)
  PROVE  \A i \in 2..Len(b) : b[i] = Base
<1> DEFINE n == Len(b)
<1>1. n \in Nat /\ n # 0  BY EmptySeq, LenProperties
<1>2. PICK f : Counts(f, b, n) /\ mqtt_get_total_length(b) = f[n]  BY TotalUnfolds
<1>3. \A i \in 1..n : f[i] = IF i = 1 THEN 1 ELSE f[i - 1] + Counted(b, i)
  BY <1>2 DEF Counts
<1>4. \A i \in 2..n : Counted(b, i) \in Nat \ {0} /\ (b[i] # Base => Counted(b, i) > 1)
  <2> SUFFICES ASSUME NEW i \in 2..n
               PROVE  Counted(b, i) \in Nat \ {0} /\ (b[i] # Base => Counted(b, i) > 1)
    OBVIOUS
  <2>1. i \in Digits(b) /\ Flagged(b[i])  BY OpenHeader
  <2>2. Digit(b, i) \in Nat /\ (b[i] # Base => Digit(b, i) # 0)  BY <2>1, DigitCounts
  <2>3. Counted(b, i) = Digit(b, i) + 1  BY <2>1 DEF Counted
  <2> QED  BY <2>2, <2>3
<1>5. f[n] <= n  BY <1>2
<1> HIDE DEF n
<1> DEFINE Odd(i) == \E j \in 2..n : j <= i /\ b[j] # Base
           Counting(i) == i \in 1..n => f[i] \in Nat /\ f[i] >= i /\ (Odd(i) => f[i] > i)
           AllCounting == {i \in Nat : Counting(i)}
<1>6. Counting(0)  OBVIOUS
<1>7. ASSUME NEW i \in Nat, Counting(i) PROVE Counting(i + 1)
  <2> SUFFICES ASSUME i + 1 \in 1..n
               PROVE  f[i + 1] \in Nat /\ f[i + 1] >= i + 1 /\ (Odd(i + 1) => f[i + 1] > i + 1)
    OBVIOUS
  <2>1. CASE i = 0
    <3>1. f[1] = 1  BY <1>3, <2>1
    <3>2. ~Odd(1)  BY <1>1
    <3> QED  BY <2>1, <3>1, <3>2
  <2>2. CASE i # 0
    <3>1. i \in 1..n /\ i + 1 \in 2..n /\ i + 1 # 1 /\ (i + 1) - 1 = i  BY <1>1, <2>2
    <3>2. f[i + 1] = f[i] + Counted(b, i + 1)  BY <1>3, <3>1
    <3>3. f[i] \in Nat /\ f[i] >= i /\ (Odd(i) => f[i] > i)  BY <1>7, <3>1
    <3>4. Odd(i + 1) => Odd(i) \/ b[i + 1] # Base  BY <1>1
    <3> HIDE DEF Odd
    <3>5. /\ Counted(b, i + 1) \in Nat \ {0}
          /\ b[i + 1] # Base => Counted(b, i + 1) > 1
      BY <1>4, <3>1
    <3> QED  BY <3>2, <3>3, <3>4, <3>5
  <2> QED  BY <2>1, <2>2
<1> HIDE DEF Counting
<1>8. 0 \in AllCounting /\ \A i \in Nat : i \in AllCounting => i + 1 \in AllCounting
  BY <1>6, <1>7
<1>9. Nat \subseteq AllCounting
  <2> HIDE DEF AllCounting
  <2> QED  BY <1>8, Induction
<1>10. Counting(n)  BY <1>1, <1>9
<1>11. ~Odd(n)
  <2>1. f[n] \in Nat /\ (Odd(n) => f[n] > n)  BY <1>1, <1>10 DEF Counting
  <2> HIDE DEF Odd
  <2> QED  BY <1>1, <1>5, <2>1
<1>12. \A i \in 2..n : i <= n  BY <1>1
<1> QED  BY <1>11, <1>12 DEF n

(* The header of a message, and the message.                               *)
Header(h) == <<1>> \o h

LEMMA HeaderBytes ==
  ASSUME NEW h \in Headers
  PROVE  /\ Len(h) \in Nat \ {0} /\ Header(h) \in Seq(Byte) /\ Len(Header(h)) = Len(h) + 1
         /\ \A i \in 2..(Len(h) + 1) : Flagged(Header(h)[i]) <=> i < Len(h) + 1
<1> DEFINE one == <<1>>
<1>1. h \in Seq(Byte) /\ h # <<>> /\ \A i \in 1..Len(h) : Flagged(h[i]) <=> i < Len(h)
  BY RecvAssumption
<1>2. Len(h) \in Nat \ {0}  BY <1>1, EmptySeq, LenProperties
<1>3. one \in Seq(Byte) /\ Len(one) = 1
  <2>1. 1 \in Byte  BY RecvAssumption DEF Byte
  <2> QED  BY <2>1
<1> HIDE DEF one
<1>4. /\ one \o h \in Seq(Byte) /\ Len(one \o h) = Len(one) + Len(h)
      /\ \A i \in 1..(Len(one) + Len(h)) :
           (one \o h)[i] = IF i <= Len(one) THEN one[i] ELSE h[i - Len(one)]
  BY <1>1, <1>3, ConcatProperties
<1>5. Header(h) = one \o h  BY DEF Header, one
<1>6. ASSUME NEW i \in 2..(Len(h) + 1)
      PROVE  Flagged(Header(h)[i]) <=> i < Len(h) + 1
  <2>1. i \in 1..(Len(one) + Len(h)) /\ ~(i <= Len(one)) /\ i - Len(one) = i - 1
    BY <1>2, <1>3
  <2>2. Header(h)[i] = h[i - 1]  BY <1>4, <1>5, <2>1
  <2>3. i - 1 \in 1..Len(h) /\ (i - 1 < Len(h) <=> i < Len(h) + 1)  BY <1>2
  <2> QED  BY <1>1, <2>2, <2>3
<1>7. Len(Header(h)) = Len(h) + 1  BY <1>2, <1>3, <1>4, <1>5
<1> QED  BY <1>2, <1>4, <1>5, <1>6, <1>7

(* In bytes that start with a header its digits are the digits.            *)
LEMMA HeaderDigits ==
  ASSUME NEW h \in Headers, NEW b \in Seq(Byte), Len(b) >= Len(h) + 1,
         \A i \in 1..(Len(h) + 1) : b[i] = Header(h)[i]
  PROVE  Digits(b) = 2..(Len(h) + 1) /\ HeaderWhole(b)
<1> DEFINE k == Len(h) + 1
<1>1. k \in Nat /\ k >= 2 /\ Len(b) \in Nat /\ k <= Len(b)  BY HeaderBytes, LenProperties
<1>2. \A i \in 2..k : Flagged(b[i]) <=> i < k
  <2>1. \A i \in 2..k : i \in 1..k  BY <1>1
  <2> QED  BY <2>1, HeaderBytes
<1> HIDE DEF k
<1>3. ASSUME NEW i \in 2..Len(b)
      PROVE  i \in Digits(b) <=> i <= k
  <2>1. ASSUME i <= k PROVE i \in Digits(b)
    <3>1. \A j \in 2..(i - 1) : j \in 2..k /\ j < k  BY <1>1, <2>1
    <3> QED  BY <1>2, <3>1 DEF Digits
  <2>2. ASSUME ~(i <= k) PROVE i \notin Digits(b)
    <3>1. k \in 2..(i - 1) /\ k \in 2..k /\ ~(k < k)  BY <1>1, <2>2
    <3>2. ~Flagged(b[k])  BY <1>2, <3>1
    <3> QED  BY <3>1, <3>2 DEF Digits
  <2> QED  BY <2>1, <2>2
<1>4. Digits(b) = 2..k
  <2>1. Digits(b) \subseteq 2..Len(b)  BY DEF Digits
  <2>2. 2..k \subseteq 2..Len(b)  BY <1>1
  <2>3. \A i \in 2..Len(b) : i \in 2..k <=> i <= k  BY <1>1
  <2> QED  BY <1>3, <2>1, <2>2, <2>3
<1>5. HeaderWhole(b)
  <2>1. k \in 2..k /\ ~(k < k)  BY <1>1
  <2>2. ~Flagged(b[k])  BY <1>2, <2>1
  <2> QED  BY <1>4, <2>1, <2>2 DEF HeaderWhole
<1> QED  BY <1>4, <1>5 DEF k

(* The count of mqtt_get_total_length is header and length of the message. *)
LEMMA HeaderCounted ==
  ASSUME NEW h \in Headers, NEW b \in Seq(Byte), Len(b) >= Len(h) + 1,
         \A i \in 1..(Len(h) + 1) : b[i] = Header(h)[i]
  PROVE  /\ Remaining(Header(h)) \in Nat
         /\ mqtt_get_total_length(b) = Len(h) + 1 + Remaining(Header(h))
<1> DEFINE k == Len(h) + 1
           n == Len(b)
           e == Header(h)
<1>1. k \in Nat /\ k >= 2 /\ n \in Nat /\ k <= n /\ e \in Seq(Byte) /\ Len(e) = k
  BY HeaderBytes, LenProperties
<1>2. Digits(b) = 2..k  BY HeaderDigits
<1>3. Digits(e) = 2..k
  <2>1. Len(e) >= Len(h) + 1 /\ \A i \in 1..(Len(h) + 1) : e[i] = Header(h)[i]  BY <1>1
  <2> QED  BY <1>1, <2>1, HeaderDigits
<1>4. \A i \in 1..k : b[i] = e[i]  OBVIOUS
<1>5. \A i \in 2..k : Digit(e, i) \in Nat /\ Digit(b, i) = Digit(e, i)
  <2> SUFFICES ASSUME NEW i \in 2..k
               PROVE  Digit(e, i) \in Nat /\ Digit(b, i) = Digit(e, i)
    OBVIOUS
  <2>1. i \in 2..Len(e)  BY <1>1
  <2>2. Digit(e, i) \in Nat
    <3> HIDE DEF e
    <3> QED  BY <1>1, <2>1, DigitCounts
  <2>3. i \in 1..k  BY <1>1
  <2> QED  BY <1>4, <2>2, <2>3 DEF Digit
<1>6. PICK f : Counts(f, b, n) /\ mqtt_get_total_length(b) = f[n]  BY TotalUnfolds
<1>7. PICK g : Adds(g, e, k) /\ Remaining(e) = g[k]
  <2>1. \E g : Adds(g, e, Len(e)) /\ Remaining(e) = g[Len(e)]
    <3> HIDE DEF e
    <3> QED  BY <1>1, RemainingUnfolds
  <2> QED  BY <1>1, <2>1
<1>8. \A i \in 1..n : f[i] = IF i = 1 THEN 1 ELSE f[i - 1] + Counted(b, i)
  BY <1>6 DEF Counts
<1>9. \A i \in 1..k : g[i] = IF i = 1 THEN 0 ELSE g[i - 1] + Valued(e, i)
  BY <1>7 DEF Adds
<1> HIDE DEF k, n, e
<1>10. \A i \in 2..k : Counted(b, i) = Valued(e, i) + 1 /\ Valued(e, i) \in Nat
  BY <1>2, <1>3, <1>5 DEF Counted, Valued
<1> DEFINE Together(i) == i \in 1..k => g[i] \in Nat /\ f[i] = i + g[i]
           AllTogether == {i \in Nat : Together(i)}
<1>11. Together(0)  OBVIOUS
<1>12. ASSUME NEW i \in Nat, Together(i) PROVE Together(i + 1)
  <2> SUFFICES ASSUME i + 1 \in 1..k PROVE g[i + 1] \in Nat /\ f[i + 1] = (i + 1) + g[i + 1]
    OBVIOUS
  <2>1. CASE i = 0
    <3>1. 1 \in 1..k /\ 1 \in 1..n  BY <1>1
    <3>2. f[1] = 1 /\ g[1] = 0  BY <1>8, <1>9, <3>1
    <3> QED  BY <2>1, <3>2
  <2>2. CASE i # 0
    <3>1. i \in 1..k /\ i + 1 \in 2..k /\ i + 1 \in 1..n /\ i + 1 # 1 /\ (i + 1) - 1 = i
      BY <1>1, <2>2
    <3>2. f[i + 1] = f[i] + Counted(b, i + 1)  BY <1>8, <3>1
    <3>3. g[i + 1] = g[i] + Valued(e, i + 1)  BY <1>9, <3>1
    <3>4. g[i] \in Nat /\ f[i] = i + g[i]  BY <1>12, <3>1
    <3>5. Counted(b, i + 1) = Valued(e, i + 1) + 1 /\ Valued(e, i + 1) \in Nat
      BY <1>10, <3>1
    <3> DEFINE u == g[i]
               v == Valued(e, i + 1)
    <3>6. f[i + 1] = (i + u) + (v + 1) /\ g[i + 1] = u + v /\ u \in Nat /\ v \in Nat
      BY <3>2, <3>3, <3>4, <3>5
    <3> HIDE DEF u, v
    <3>7. g[i + 1] \in Nat /\ f[i + 1] = (i + 1) + (u + v)  BY ONLY i \in Nat, <3>6
    <3> QED  BY <3>6, <3>7
  <2> QED  BY <2>1, <2>2
<1> HIDE DEF Together
<1>13. 0 \in AllTogether /\ \A i \in Nat : i \in AllTogether => i + 1 \in AllTogether
  BY <1>11, <1>12
<1>14. Nat \subseteq AllTogether
  <2> HIDE DEF AllTogether
  <2> QED  BY <1>13, Induction
<1>15. Together(k)  BY <1>1, <1>14
<1>16. g[k] \in Nat /\ f[k] = k + g[k]  BY <1>1, <1>15 DEF Together
<1>17. f[n] = f[k]
  <2>1. k \in 1..n /\ Digits(b) \subseteq 1..k /\ f[k] \in Nat /\ Counts(f, b, n)
    BY <1>1, <1>2, <1>6, <1>16
  <2> QED  BY ONLY <1>1, <2>1, TotalSettles
<1> QED  BY <1>6, <1>7, <1>16, <1>17 DEF k, e

(* A message as the bytes it consists of.                                  *)
LEMMA MessageBytes ==
  ASSUME NEW h \in Headers
  PROVE  /\ Message(h) \in Seq(Byte)
         /\ Len(Message(h)) = Len(h) + 1 + Remaining(Header(h))
         /\ Len(Message(h)) \in Nat /\ Len(Message(h)) >= Len(h) + 1
         /\ \A i \in 1..(Len(h) + 1) : Message(h)[i] = Header(h)[i]
<1> DEFINE e == Header(h)
           r == Remaining(e)
           body == [i \in 1..r |-> Base]
<1>1. e \in Seq(Byte) /\ Len(e) = Len(h) + 1 /\ Len(h) \in Nat  BY HeaderBytes
<1>2. r \in Nat
  <2>1. Len(e) >= Len(h) + 1 /\ \A i \in 1..(Len(h) + 1) : e[i] = Header(h)[i]  BY <1>1
  <2> QED  BY <1>1, <2>1, HeaderCounted
<1>3. Message(h) = e \o body  BY DEF Message, Header
<1> HIDE DEF e, r
<1>4. body \in Seq(Byte) /\ Len(body) = r
  <2>1. Base \in Byte  BY RecvAssumption DEF Byte
  <2> QED  BY <1>2, <2>1
<1> HIDE DEF body
<1>5. /\ e \o body \in Seq(Byte) /\ Len(e \o body) = Len(e) + Len(body)
      /\ \A i \in 1..(Len(e) + Len(body)) :
           (e \o body)[i] = IF i <= Len(e) THEN e[i] ELSE body[i - Len(e)]
  BY <1>1, <1>4, ConcatProperties
<1>6. ASSUME NEW i \in 1..(Len(h) + 1) PROVE Message(h)[i] = e[i]
  <2>1. i \in 1..(Len(e) + Len(body)) /\ i <= Len(e)  BY <1>1, <1>2, <1>4
  <2> QED  BY <1>3, <1>5, <2>1
<1>7. Len(Message(h)) = Len(h) + 1 + r  BY <1>1, <1>3, <1>4, <1>5
<1>8. Len(Message(h)) \in Nat /\ Len(Message(h)) >= Len(h) + 1  BY <1>1, <1>2, <1>7
<1> QED  BY <1>3, <1>5, <1>6, <1>7, <1>8 DEF e, r

(* If the buffer starts with the bytes of a message, the count is the      *)
(* message's as soon as the header is whole; until then the buffer is but  *)
(* a part of the header.                                                   *)
LEMMA HeaderFound ==
  ASSUME NEW h \in Headers, NEW b \in Seq(Byte),
         \A i \in 1..Len(b) : i <= Len(Message(h)) => b[i] = Message(h)[i]
  PROVE  /\ HeaderWhole(b) => mqtt_get_total_length(b) = Len(Message(h))
         /\ ~HeaderWhole(b) => Len(b) <= Len(h)
<1> DEFINE k == Len(h) + 1
<1>1. /\ k \in Nat /\ k >= 2 /\ Len(b) \in Nat /\ Len(h) \in Nat
      /\ Len(Message(h)) \in Nat /\ Len(Message(h)) >= k
      /\ \A i \in 1..k : Message(h)[i] = Header(h)[i]
  BY HeaderBytes, MessageBytes, LenProperties
<1>2. \A i \in 1..Len(b) : i <= k => b[i] = Header(h)[i]
  <2> SUFFICES ASSUME NEW i \in 1..Len(b), i <= k PROVE b[i] = Header(h)[i]  OBVIOUS
  <2>1. i \in 1..k /\ i <= Len(Message(h))  BY <1>1
  <2> QED  BY <1>1, <2>1
<1>3. CASE Len(b) >= k
  <2>1. Len(b) >= Len(h) + 1 /\ \A i \in 1..(Len(h) + 1) : b[i] = Header(h)[i]
    <3>1. \A i \in 1..k : i \in 1..Len(b) /\ i <= k  BY <1>1, <1>3
    <3> QED  BY <1>2, <1>3, <3>1
  <2>2. HeaderWhole(b)  BY <2>1, HeaderDigits
  <2>3. mqtt_get_total_length(b) = Len(h) + 1 + Remaining(Header(h))
    BY <2>1, HeaderCounted
  <2> QED  BY <2>2, <2>3, MessageBytes
<1>4. CASE ~(Len(b) >= k)
  <2>1. ASSUME NEW i \in Digits(b) PROVE Flagged(b[i])
    <3>1. i \in 2..Len(b)  BY DEF Digits
    <3>2. i \in 2..(Len(h) + 1) /\ i < Len(h) + 1 /\ i \in 1..Len(b) /\ i <= k
      BY <1>1, <1>4, <3>1
    <3>3. Flagged(Header(h)[i])  BY <3>2, HeaderBytes
    <3> QED  BY <1>2, <3>2, <3>3
  <2>2. ~HeaderWhole(b)  BY <2>1 DEF HeaderWhole
  <2>3. Len(b) <= Len(h)  BY <1>1, <1>4
  <2> QED  BY <2>2, <2>3
<1> QED  BY <1>3, <1>4

-----------------------------------------------------------------------------
(* The inductive invariant.                                                *)

(* The bytes of the first k messages are the first bytes of all.           *)
Starts(k) ==
  \E rest \in Seq(Byte) : FlattenSeq(sent) = FlattenSeq(SubSeq(sent, 1, k)) \o rest

(* What was sent is messages.                                              *)
SentOK ==
  /\ sent \in Seq(Seq(Byte))
  /\ \A i \in 1..Len(sent) : \E h \in Headers : sent[i] = Message(h)
  /\ \A k \in 0..Len(sent) : Starts(k)

(* What was taken, what the buffer holds and what is not yet read are the  *)
(* stream.                                                                 *)
Aligned ==
  ~slip => /\ Len(out) <= Len(sent) /\ out = SubSeq(sent, 1, Len(out))
           /\ con = "up" => FlattenSeq(out) \o buf \o pipe = FlattenSeq(sent)

RecvInv ==
  /\ TypeOK /\ out \in Seq(Seq(Byte)) /\ (busy => con = "up")
  /\ SentOK /\ Aligned

LEMMA BytesAssociate ==
  \A s, t, u \in Seq(Byte) : (s \o t) \o u = s \o (t \o u)
<1> SUFFICES ASSUME NEW S, NEW s \in Seq(S), NEW t \in Seq(S), NEW u \in Seq(S)
             PROVE  (s \o t) \o u = s \o (t \o u)
  OBVIOUS
<1> QED  BY ConcatAssociative

LEMMA BytesCancel ==
  /\ \A s, t \in Seq(Byte) : s \o t = s => t = <<>>
  /\ \A s, t \in Seq(Byte) : s \o t = <<>> => s = <<>>
  /\ \A s, t, u \in Seq(Byte) : s \o t = s \o u => t = u
BY ConcatSimplifications, Zenon

(* While anything is in the buffer and no header was mistaken, the stream  *)
(* goes on with the next message that was sent.                            *)
LEMMA NextMessage ==
  ASSUME RecvInv, ~slip, con = "up", buf # <<>>
  PROVE  /\ Len(out) \in Nat /\ Len(out) < Len(sent)
         /\ \E h \in Headers : \E rest \in Seq(Byte) :
              /\ sent[Len(out) + 1] = Message(h)
              /\ buf \o pipe = Message(h) \o rest
<1> DEFINE k == Len(out)
           F == FlattenSeq(out)
           G == FlattenSeq(sent)
           stream == buf \o pipe
<1>1. /\ buf \in Seq(Byte) /\ pipe \in Seq(Byte) /\ out \in Seq(Seq(Byte))
      /\ sent \in Seq(Seq(Byte))
      /\ \A i \in 1..Len(sent) : \E h \in Headers : sent[i] = Message(h)
      /\ \A i \in 0..Len(sent) : Starts(i)
      /\ k <= Len(sent) /\ out = SubSeq(sent, 1, k)
      /\ F \o buf \o pipe = G
  BY DEF RecvInv, TypeOK, SentOK, Aligned
<1>2. F \in Seq(Byte) /\ G \in Seq(Byte) /\ stream \in Seq(Byte)
  BY <1>1, FlattenTyped, ConcatProperties
<1>3. k \in Nat /\ Len(sent) \in Nat  BY <1>1, LenProperties
<1>4. F \o stream = G
  <2>1. (F \o buf) \o pipe = F \o (buf \o pipe)  BY <1>1, <1>2, BytesAssociate, ZenonT(40)
  <2> QED  BY <1>1, <2>1
<1>5. stream # <<>>
  <2>1. stream = <<>> => buf = <<>>  BY <1>1, BytesCancel
  <2> QED  BY <2>1
<1> HIDE DEF stream
<1>6. k < Len(sent)
  <2> SUFFICES ASSUME ~(k < Len(sent)) PROVE FALSE  OBVIOUS
  <2>1. k = Len(sent)  BY <1>1, <1>3
  <2>2. SubSeq(sent, 1, Len(sent)) = sent  BY <1>1, SubSeqFull
  <2>3. out = sent  BY <1>1, <2>1, <2>2
  <2>4. F \o stream = F  BY <1>4, <2>3
  <2>5. stream = <<>>  BY <1>2, <2>4, BytesCancel
  <2> QED  BY <1>5, <2>5
<1>7. PICK h \in Headers : sent[k + 1] = Message(h)
  <2>1. k + 1 \in 1..Len(sent)  BY <1>3, <1>6
  <2> QED  BY <1>1, <2>1
<1> DEFINE M == Message(h)
<1>8. M \in Seq(Byte)  BY MessageBytes
<1>9. PICK rest \in Seq(Byte) : G = FlattenSeq(SubSeq(sent, 1, k + 1)) \o rest
  <2>1. k + 1 \in 0..Len(sent)  BY <1>3, <1>6
  <2>2. Starts(k + 1)  BY <1>1, <2>1
  <2> QED  BY <2>2 DEF Starts
<1>10. FlattenSeq(SubSeq(sent, 1, k + 1)) = F \o M
  <2>1. SubSeq(sent, 1, k + 1) = Append(SubSeq(sent, 1, k), sent[k + 1])
    <3> HIDE DEF k
    <3> QED  BY <1>1, <1>3, <1>6, OneMore
  <2>2. SubSeq(sent, 1, k + 1) = Append(out, M)  BY <1>1, <1>7, <2>1
  <2>3. FlattenSeq(Append(out, M)) = FlattenSeq(out) \o M
    <3> HIDE DEF M
    <3> QED  BY <1>1, <1>8, FlattenAppend
  <2> QED  BY <2>2, <2>3
<1> HIDE DEF F, G, M
<1>11. stream = M \o rest
  <2>1. (F \o M) \o rest = F \o (M \o rest)  BY <1>2, <1>8, BytesAssociate, SMTT(30)
  <2>2. F \o stream = F \o (M \o rest)  BY <1>4, <1>9, <1>10, <2>1
  <2>3. M \o rest \in Seq(Byte)  BY <1>8, ConcatProperties
  <2> QED  BY <1>2, <2>2, <2>3, BytesCancel
<1> QED  BY <1>3, <1>6, <1>7, <1>11 DEF M, stream

(* Two sequences with a common continuation agree as far as both go.       *)
LEMMA CommonPrefix ==
  ASSUME NEW S, NEW s \in Seq(S), NEW t \in Seq(S), NEW u \in Seq(S), NEW v \in Seq(S),
         s \o t = u \o v
  PROVE  \A i \in 1..Len(s) : i <= Len(u) => s[i] = u[i]
<1>1. Len(s) \in Nat /\ Len(t) \in Nat /\ Len(u) \in Nat /\ Len(v) \in Nat
  BY LenProperties
<1>2. \A i \in 1..(Len(s) + Len(t)) :
        (s \o t)[i] = IF i <= Len(s) THEN s[i] ELSE t[i - Len(s)]
  BY ConcatProperties
<1>3. \A i \in 1..(Len(u) + Len(v)) :
        (u \o v)[i] = IF i <= Len(u) THEN u[i] ELSE v[i - Len(u)]
  BY ConcatProperties
<1> SUFFICES ASSUME NEW i \in 1..Len(s), i <= Len(u) PROVE s[i] = u[i]  OBVIOUS
<1>4. i \in 1..(Len(s) + Len(t)) /\ i \in 1..(Len(u) + Len(v)) /\ i <= Len(s)
  BY <1>1
<1>5. (s \o t)[i] = s[i]  BY <1>2, <1>4
<1>6. (u \o v)[i] = u[i]  BY <1>3, <1>4
<1> QED  BY <1>5, <1>6

(* Once its header is whole, what READPACKET finds is the next message; a  *)
(* part of a header is the start of it.                                    *)
LEMMA TakesNext ==
  ASSUME RecvInv, ~slip, con = "up", buf # <<>>
  PROVE  /\ HeaderWhole(buf) /\ mqtt_get_total_length(buf) <= Len(buf) =>
              /\ Len(out) < Len(sent)
              /\ SubSeq(buf, 1, mqtt_get_total_length(buf)) = sent[Len(out) + 1]
         /\ ~HeaderWhole(buf) => IsPrefix(buf, sent[Len(out) + 1])
<1>1. /\ Len(out) < Len(sent)
      /\ \E h \in Headers : \E rest \in Seq(Byte) :
           /\ sent[Len(out) + 1] = Message(h)
           /\ buf \o pipe = Message(h) \o rest
  BY NextMessage
<1>2. PICK h \in Headers : \E rest \in Seq(Byte) :
        /\ sent[Len(out) + 1] = Message(h)
        /\ buf \o pipe = Message(h) \o rest
  BY <1>1
<1>3. PICK rest \in Seq(Byte) : buf \o pipe = Message(h) \o rest  BY <1>2
<1> DEFINE M == Message(h)
<1>4. M \in Seq(Byte) /\ Len(M) \in Nat /\ Len(h) \in Nat /\ Len(M) >= Len(h) + 1
  BY MessageBytes, HeaderBytes
<1>5. buf \in Seq(Byte) /\ pipe \in Seq(Byte) /\ Len(buf) \in Nat
  BY LenProperties DEF RecvInv, TypeOK
<1>6. \A i \in 1..Len(buf) : i <= Len(M) => buf[i] = M[i]
  <2>1. buf \o pipe = M \o rest  BY <1>3
  <2> HIDE DEF M
  <2> QED  BY <1>4, <1>5, <2>1, CommonPrefix
<1>7. /\ HeaderWhole(buf) => mqtt_get_total_length(buf) = Len(M)
      /\ ~HeaderWhole(buf) => Len(buf) <= Len(h)
  BY <1>5, <1>6, HeaderFound
<1>8. M = sent[Len(out) + 1]  BY <1>2
<1> HIDE DEF M
\* two sequences, cut to the length of the shorter
<1>9. ASSUME NEW s \in Seq(Byte), NEW t \in Seq(Byte), Len(t) \in Nat, Len(s) \in Nat,
             Len(t) <= Len(s), \A i \in 1..Len(t) : t[i] = s[i]
      PROVE  SubSeq(s, 1, Len(t)) = t
  <2> DEFINE u == SubSeq(s, 1, Len(t))
  <2>1. /\ u \in Seq(Byte)
        /\ Len(u) = IF 1 <= Len(t) THEN Len(t) - 1 + 1 ELSE 0
        /\ \A i \in 1..(Len(t) - 1 + 1) : u[i] = s[1 + i - 1]
    <3>1. 1 \in Nat \ {0}  OBVIOUS
    <3> QED  BY ONLY <1>9, <3>1, SubSeqTyped
  <2> HIDE DEF u
  <2>2. Len(u) = Len(t)  BY <1>9, <2>1
  <2>3. \A i \in 1..Len(u) : u[i] = t[i]
    <3> SUFFICES ASSUME NEW i \in 1..Len(t) PROVE u[i] = t[i]  BY <2>2
    <3>1. i \in 1..(Len(t) - 1 + 1) /\ 1 + i - 1 = i  BY <1>9
    <3> QED  BY <1>9, <2>1, <3>1
  <2>4. u = t  BY <1>9, <2>1, <2>2, <2>3, SeqEqual
  <2> QED  BY <2>4 DEF u
<1>10. ASSUME HeaderWhole(buf), mqtt_get_total_length(buf) <= Len(buf)
       PROVE  SubSeq(buf, 1, mqtt_get_total_length(buf)) = M
  <2>1. mqtt_get_total_length(buf) = Len(M) /\ Len(M) <= Len(buf)  BY <1>7, <1>10
  <2>2. \A i \in 1..Len(M) : M[i] = buf[i]
    <3>1. \A i \in 1..Len(M) : i \in 1..Len(buf) /\ i <= Len(M)  BY <1>4, <1>5, <2>1
    <3> QED  BY <1>6, <3>1
  <2>3. SubSeq(buf, 1, Len(M)) = M  BY <1>4, <1>5, <1>9, <2>1, <2>2
  <2> QED  BY <2>1, <2>3
<1>11. ASSUME ~HeaderWhole(buf) PROVE IsPrefix(buf, M)
  <2>1. Len(buf) <= Len(M)  BY <1>4, <1>5, <1>7, <1>11
  <2>2. \A i \in 1..Len(buf) : buf[i] = M[i]  BY <1>4, <1>5, <1>6, <2>1
  <2>3. SubSeq(M, 1, Len(buf)) = buf  BY <1>4, <1>5, <1>9, <2>1, <2>2
  <2>4. SubSeq(buf, 1, Len(buf)) = buf  BY <1>5, SubSeqFull
  <2> QED  BY <2>1, <2>3, <2>4 DEF IsPrefix
<1> QED  BY <1>1, <1>8, <1>10, <1>11

LEMMA RecvInit == Init => RecvInv
<1> SUFFICES ASSUME Init PROVE RecvInv  OBVIOUS
<1>1. /\ pipe = <<>> /\ buf = <<>> /\ busy = FALSE /\ con = "up"
      /\ sent = <<>> /\ out = <<>> /\ slip = FALSE
  BY DEF Init
<1>2. <<>> \in Seq(Byte) /\ <<>> \in Seq(Seq(Byte)) /\ Len(<<>>) = 0  BY EmptySeq
<1>3. MQTT_BUF_SIZE \in Nat  BY RecvAssumption
<1>4. TypeOK
  <2>1. pipe \in Seq(Byte) /\ buf \in Seq(Byte)  BY <1>1, <1>2
  <2>2. Len(buf) <= MQTT_BUF_SIZE
    <3>1. Len(buf) = 0  BY <1>1, <1>2
    <3> QED  BY <1>3, <3>1
  <2>3. busy \in BOOLEAN /\ con \in {"up", "ended", "overrun", "stuck"} /\ slip \in BOOLEAN
    BY <1>1
  <2>4. ~busy  BY <1>1
  <2> QED  BY <2>1, <2>2, <2>3, <2>4 DEF TypeOK
<1>5. SubSeq(<<>>, 1, 0) = <<>>  BY SubSeqEmpty
<1>6. <<>> \o <<>> = <<>>  BY <1>2, ConcatEmptySeq
<1>7. SentOK
  <2>1. Starts(0)
    <3>1. FlattenSeq(sent) = FlattenSeq(SubSeq(sent, 1, 0)) \o <<>>
      BY <1>1, <1>5, <1>6, FlattenEmpty
    <3> QED  BY <1>2, <3>1 DEF Starts
  <2>2. \A k \in 0..Len(sent) : k = 0  BY <1>1, <1>2
  <2>3. \A i \in 1..Len(sent) : FALSE  BY <1>1, <1>2
  <2>4. \A k \in 0..Len(sent) : Starts(k)  BY <2>1, <2>2
  <2> QED  BY <1>1, <1>2, <2>3, <2>4 DEF SentOK
<1>8. Aligned
  <2>1. FlattenSeq(out) \o buf \o pipe = FlattenSeq(sent)  BY <1>1, <1>6, FlattenEmpty
  <2> QED  BY <1>1, <1>2, <1>5, <2>1 DEF Aligned
<1> QED  BY <1>1, <1>2, <1>4, <1>7, <1>8 DEF RecvInv

LEMMA PeerSendsInv == RecvInv /\ PeerSends => RecvInv'
<1> SUFFICES ASSUME RecvInv, PeerSends PROVE RecvInv'  OBVIOUS
<1>1. PICK h \in Headers : pipe' = pipe \o Message(h) /\ sent' = Append(sent, Message(h))
  BY DEF PeerSends
<1>2. UNCHANGED <<buf, busy, con, out, slip>> /\ ~busy  BY DEF PeerSends
<1> DEFINE M == Message(h)
           l == Len(sent)
<1>3. /\ buf \in Seq(Byte) /\ pipe \in Seq(Byte) /\ out \in Seq(Seq(Byte))
      /\ sent \in Seq(Seq(Byte)) /\ l \in Nat /\ Len(out) \in Nat
  BY LenProperties DEF RecvInv, TypeOK, SentOK
<1>4. M \in Seq(Byte)  BY MessageBytes
<1>5. pipe' = pipe \o M /\ sent' = Append(sent, M)  BY <1>1
<1> HIDE DEF M
<1>7. /\ sent' \in Seq(Seq(Byte)) /\ Len(sent') = l + 1
      /\ \A i \in 1..l : sent'[i] = sent[i]
      /\ sent'[l + 1] = M
  BY <1>3, <1>4, <1>5, AppendProperties
<1>8. FlattenSeq(sent') = FlattenSeq(sent) \o M  BY <1>3, <1>4, <1>5, FlattenAppend
<1>9. FlattenSeq(sent) \in Seq(Byte) /\ FlattenSeq(out) \in Seq(Byte)  BY <1>3, FlattenTyped
\* the messages sent before are still where they were
<1>10. ASSUME NEW k \in 0..l PROVE SubSeq(sent', 1, k) = SubSeq(sent, 1, k)
  <2> HIDE DEF l
  <2> DEFINE t == SubSeq(sent, 1, k)
             u == SubSeq(sent', 1, k)
  <2>1. k \in Nat /\ 1 \in Nat \ {0} /\ k <= l /\ k <= l + 1  BY <1>3
  <2>2. /\ t \in Seq(Seq(Byte)) /\ Len(t) = IF 1 <= k THEN k - 1 + 1 ELSE 0
        /\ \A i \in 1..(k - 1 + 1) : t[i] = sent[1 + i - 1]
    <3>1. k <= Len(sent)  BY <2>1 DEF l
    <3> QED  BY <1>3, <2>1, <3>1, SubSeqTyped
  <2>3. /\ u \in Seq(Seq(Byte)) /\ Len(u) = IF 1 <= k THEN k - 1 + 1 ELSE 0
        /\ \A i \in 1..(k - 1 + 1) : u[i] = sent'[1 + i - 1]
    <3>1. k <= Len(sent')  BY <1>7, <2>1
    <3> QED  BY <1>7, <2>1, <3>1, SubSeqTyped
  <2> HIDE DEF t, u
  <2>4. Len(u) = k /\ Len(t) = k  BY <2>1, <2>2, <2>3
  <2>5. \A i \in 1..Len(u) : u[i] = t[i]
    <3> SUFFICES ASSUME NEW i \in 1..k PROVE u[i] = t[i]  BY <2>4
    <3>1. i \in 1..(k - 1 + 1) /\ 1 + i - 1 = i /\ i \in 1..l  BY <1>3, <2>1
    <3> QED  BY <1>7, <2>2, <2>3, <3>1
  <2>6. u = t  BY <2>2, <2>3, <2>4, <2>5, SeqEqual
  <2> QED  BY <2>6 DEF t, u
<1>11. SentOK'
  <2>1. \A i \in 1..Len(sent') : \E m \in Headers : sent'[i] = Message(m)
    <3> SUFFICES ASSUME NEW i \in 1..(l + 1)
                 PROVE  \E m \in Headers : sent'[i] = Message(m)
      BY <1>7
    <3>1. CASE i \in 1..l  BY <1>7, <3>1 DEF RecvInv, SentOK
    <3>2. CASE i = l + 1  BY <1>7, <3>2 DEF M
    <3> QED  BY <1>3, <3>1, <3>2
  <2>2. \A k \in 0..Len(sent') : Starts(k)'
    <3> SUFFICES ASSUME NEW k \in 0..(l + 1) PROVE Starts(k)'  BY <1>7
    <3>1. CASE k \in 0..l
      <4>1. PICK rest \in Seq(Byte) :
              FlattenSeq(sent) = FlattenSeq(SubSeq(sent, 1, k)) \o rest
        BY <3>1 DEF RecvInv, SentOK, Starts
      <4>2. SubSeq(sent, 1, k) \in Seq(Seq(Byte))
        <5>1. k \in Nat /\ k <= Len(sent) /\ 1 \in Nat \ {0}  BY <1>3, <3>1
        <5> QED  BY <1>3, <5>1, SubSeqTyped
      <4> DEFINE P == FlattenSeq(SubSeq(sent, 1, k))
      <4>3. P \in Seq(Byte)  BY <4>2, FlattenTyped
      <4>4. rest \o M \in Seq(Byte)  BY <1>4, ConcatProperties
      <4>5. FlattenSeq(sent) = P \o rest  BY <4>1
      <4>6. P = FlattenSeq(SubSeq(sent', 1, k))  BY <1>10, <3>1
      <4> HIDE DEF P
      <4>7. FlattenSeq(sent') = P \o (rest \o M)
        BY <1>4, <1>8, <4>3, <4>5, BytesAssociate, SMTT(30)
      <4> QED  BY <4>4, <4>6, <4>7 DEF Starts
    <3>2. CASE k = l + 1
      <4>1. SubSeq(sent', 1, k) = sent'  BY <1>7, <3>2, SubSeqFull
      <4>2. FlattenSeq(sent') \in Seq(Byte)  BY <1>7, FlattenTyped
      <4>3. FlattenSeq(sent') = FlattenSeq(SubSeq(sent', 1, k)) \o <<>>
        BY <4>1, <4>2, ConcatEmptySeq
      <4>4. <<>> \in Seq(Byte)  BY EmptySeq
      <4> QED  BY <4>3, <4>4 DEF Starts
    <3> QED  BY <1>3, <3>1, <3>2
  <2> QED  BY <1>7, <2>1, <2>2 DEF SentOK
<1>12. Aligned'
  <2> SUFFICES ASSUME ~slip
               PROVE  /\ Len(out) <= Len(sent') /\ out = SubSeq(sent', 1, Len(out))
                      /\ con = "up" => FlattenSeq(out) \o buf \o pipe' = FlattenSeq(sent')
    BY <1>2 DEF Aligned
  <2>1. /\ Len(out) <= Len(sent) /\ out = SubSeq(sent, 1, Len(out))
        /\ con = "up" => FlattenSeq(out) \o buf \o pipe = FlattenSeq(sent)
    BY DEF RecvInv, Aligned
  <2>2. Len(out) <= Len(sent')  BY <1>3, <1>7, <2>1
  <2>3. Len(out) \in 0..l  BY <1>3, <2>1
  <2>4. out = SubSeq(sent', 1, Len(out))  BY <1>10, <2>1, <2>3
  <2>5. ASSUME con = "up" PROVE FlattenSeq(out) \o buf \o pipe' = FlattenSeq(sent')
    <3>1. FlattenSeq(out) \o buf \in Seq(Byte)  BY <1>3, <1>9, ConcatProperties
    <3>2. ((FlattenSeq(out) \o buf) \o pipe) \o M = (FlattenSeq(out) \o buf) \o (pipe \o M)
      BY <1>3, <1>4, <3>1, BytesAssociate
    <3>3. (FlattenSeq(out) \o buf) \o pipe = FlattenSeq(sent)  BY <2>1, <2>5
    <3> QED  BY <1>5, <1>8, <3>2, <3>3
  <2> QED  BY <2>2, <2>4, <2>5
<1>13. TypeOK' /\ out' \in Seq(Seq(Byte)) /\ (busy' => con' = "up")
  <2>1. pipe' \in Seq(Byte)  BY <1>3, <1>4, <1>5, ConcatProperties
  <2> QED  BY <1>2, <1>3, <2>1 DEF RecvInv, TypeOK
<1> QED  BY <1>11, <1>12, <1>13 DEF RecvInv

LEMMA LoopReadsInv == RecvInv /\ Network_clients_loop => RecvInv'
<1> SUFFICES ASSUME RecvInv, Network_clients_loop PROVE RecvInv'  OBVIOUS
<1>1. PICK len \in 2..Len(pipe) :
        /\ pipe' = SubSeq(pipe, len + 1, Len(pipe))
        /\ CASE len > MQTT_BUF_SIZE -> con' = "overrun" /\ UNCHANGED <<buf, busy>>
             [] len <= MQTT_BUF_SIZE /\ TooLong(len) -> con' = "ended" /\ UNCHANGED <<buf, busy>>
             [] OTHER -> /\ buf' = buf \o SubSeq(pipe, 1, len)
                         /\ busy' = TRUE
                         /\ UNCHANGED con
  BY DEF Network_clients_loop
<1>2. con = "up" /\ ~busy /\ UNCHANGED <<sent, out, slip>>  BY DEF Network_clients_loop
<1>3. /\ buf \in Seq(Byte) /\ pipe \in Seq(Byte) /\ out \in Seq(Seq(Byte))
      /\ Len(buf) \in Nat /\ Len(buf) <= MQTT_BUF_SIZE /\ Len(pipe) \in Nat
      /\ busy \in BOOLEAN /\ slip \in BOOLEAN /\ TypeOK
  BY LenProperties DEF RecvInv, TypeOK
<1>4. MQTT_BUF_SIZE \in Nat /\ len \in Nat /\ len >= 2 /\ len <= Len(pipe)
  BY <1>3, RecvAssumption
<1> DEFINE read == SubSeq(pipe, 1, len)
           left == SubSeq(pipe, len + 1, Len(pipe))
<1>5. read \in Seq(Byte) /\ Len(read) = len
  <2>1. 1 \in Nat \ {0}  OBVIOUS
  <2>2. read \in Seq(Byte) /\ Len(read) = IF 1 <= len THEN len - 1 + 1 ELSE 0
    BY ONLY <1>3, <1>4, <2>1, SubSeqTyped
  <2> HIDE DEF read
  <2> QED  BY <1>4, <2>2
<1>6. left \in Seq(Byte)
  <2>1. len + 1 \in Nat \ {0} /\ Len(pipe) <= Len(pipe)  BY <1>3, <1>4
  <2> QED  BY ONLY <1>3, <2>1, SubSeqTyped
<1>7. pipe = read \o left
  <2>1. len \in 0..Len(pipe)  BY <1>3, <1>4
  <2> QED  BY <1>3, <2>1, Cut
<1>8. pipe' = left  BY <1>1
<1>9. SentOK'  BY <1>2 DEF RecvInv, SentOK, Starts
<1> HIDE DEF read, left
<1>10. CASE con' # "up" /\ UNCHANGED <<buf, busy>> /\ con' \in {"ended", "overrun"}
  <2>1. Aligned'  BY <1>2, <1>10 DEF RecvInv, Aligned
  <2>2. TypeOK'  BY <1>2, <1>3, <1>6, <1>8, <1>10 DEF TypeOK
  <2>3. ~busy'  BY <1>2, <1>10
  <2> QED  BY <1>2, <1>3, <1>9, <2>1, <2>2, <2>3 DEF RecvInv
<1>11. CASE buf' = buf \o read /\ busy' = TRUE /\ UNCHANGED con /\ ~TooLong(len)
  <2>1. buf \o read \in Seq(Byte) /\ Len(buf \o read) = Len(buf) + len
    BY <1>3, <1>5, ConcatProperties
  <2>2. Len(buf') <= MQTT_BUF_SIZE  BY <1>3, <1>4, <1>11, <2>1 DEF TooLong
  <2>3. buf' # <<>>
    <3>1. Len(buf') # 0  BY <1>3, <1>4, <1>11, <2>1
    <3> QED  BY <3>1, EmptySeq
  <2>4. busy' \in BOOLEAN /\ con' \in {"up", "ended", "overrun", "stuck"} /\ slip' \in BOOLEAN
    BY <1>2, <1>3, <1>11
  <2>5. TypeOK'
    <3>1. buf' \in Seq(Byte) /\ pipe' \in Seq(Byte)  BY <1>6, <1>8, <1>11, <2>1
    <3> QED  BY <2>2, <2>3, <2>4, <3>1 DEF TypeOK
  <2>6. Aligned'
    <3> SUFFICES ASSUME ~slip
                 PROVE  /\ Len(out) <= Len(sent) /\ out = SubSeq(sent, 1, Len(out))
                        /\ FlattenSeq(out) \o buf' \o pipe' = FlattenSeq(sent)
      BY <1>2 DEF Aligned
    <3>1. /\ Len(out) <= Len(sent) /\ out = SubSeq(sent, 1, Len(out))
          /\ FlattenSeq(out) \o buf \o pipe = FlattenSeq(sent)
      BY <1>2 DEF RecvInv, Aligned
    <3> DEFINE F == FlattenSeq(out)
    <3>2. F \in Seq(Byte)  BY <1>3, FlattenTyped
    <3> HIDE DEF F
    <3>3. F \o buf \in Seq(Byte)  BY <1>3, <3>2, ConcatProperties
    <3>4. (F \o buf) \o (read \o left) = ((F \o buf) \o read) \o left
      BY <1>5, <1>6, <3>3, BytesAssociate
    <3>5. (F \o buf) \o read = F \o (buf \o read)  BY <1>3, <1>5, <3>2, BytesAssociate
    <3>6. F \o buf' \o pipe' = F \o buf \o pipe  BY <1>7, <1>8, <1>11, <3>4, <3>5
    <3> QED  BY <3>1, <3>6 DEF F
  <2> QED  BY <1>2, <1>3, <1>9, <1>11, <2>5, <2>6 DEF RecvInv
<1>12. CASE len > MQTT_BUF_SIZE  BY <1>1, <1>10, <1>12
<1>13. CASE len <= MQTT_BUF_SIZE /\ TooLong(len)
  <2>1. ~(len > MQTT_BUF_SIZE)  BY <1>4, <1>13
  <2>2. con' = "ended" /\ UNCHANGED <<buf, busy>>  BY <1>1, <1>13, <2>1
  <2> QED  BY <1>10, <2>2
<1>14. CASE len <= MQTT_BUF_SIZE /\ ~TooLong(len)
  <2>1. ~(len > MQTT_BUF_SIZE)  BY <1>4, <1>14
  <2>2. buf' = buf \o read /\ busy' = TRUE /\ UNCHANGED con  BY <1>1, <1>14, <2>1 DEF read
  <2> QED  BY <1>11, <1>14, <2>2
<1> QED  BY <1>4, <1>12, <1>13, <1>14

LEMMA TakeInv == RecvInv /\ Take => RecvInv'
<1> SUFFICES ASSUME RecvInv, Take PROVE RecvInv'  OBVIOUS
<1>1. PICK n \in MessageLengths(buf) : Taken(n) /\ busy' = (n < Len(buf))
  BY DEF Take
<1> DEFINE taken == SubSeq(buf, 1, n)
           left == SubSeq(buf, n + 1, Len(buf))
<1>2. /\ busy /\ n \in 1..Len(buf) /\ buf' = left
      /\ pipe' = pipe /\ con' = con /\ sent' = sent
  BY <1>1, Zenon DEF Take, Taken
<1>3. slip' <=> (slip \/ Slips(n))
  BY <1>1, Zenon DEF Taken
<1>4. out' = IF slip' THEN out ELSE Append(out, taken)
  BY <1>1, Zenon DEF Taken
<1>5. /\ buf \in Seq(Byte) /\ pipe \in Seq(Byte) /\ out \in Seq(Seq(Byte))
      /\ Len(buf) \in Nat /\ Len(buf) <= MQTT_BUF_SIZE /\ buf # <<>>
      /\ Len(out) \in Nat /\ con = "up" /\ slip \in BOOLEAN
      /\ sent \in Seq(Seq(Byte)) /\ Len(sent) \in Nat
  BY <1>2, LenProperties DEF RecvInv, TypeOK, SentOK
<1>6. n \in Nat \ {0} /\ n <= Len(buf)  BY <1>2, <1>5
<1>7. taken \in Seq(Byte)
  <2>1. 1 \in Nat \ {0} /\ n \in Nat  BY <1>6
  <2> QED  BY ONLY <1>5, <1>6, <2>1, SubSeqTyped
<1>8. left \in Seq(Byte) /\ Len(left) = Len(buf) - n
  <2>1. n + 1 \in Nat \ {0} /\ Len(buf) <= Len(buf)  BY <1>5, <1>6
  <2>2. left \in Seq(Byte) /\ Len(left) = IF n + 1 <= Len(buf) THEN Len(buf) - (n + 1) + 1 ELSE 0
    BY ONLY <1>5, <2>1, SubSeqTyped
  <2> HIDE DEF left
  <2> QED  BY <1>5, <1>6, <2>2
<1>9. buf = taken \o left
  <2>1. n \in 0..Len(buf)  BY <1>5, <1>6
  <2> QED  BY <1>5, <2>1, Cut
<1> HIDE DEF left
<1>10. /\ Append(out, taken) \in Seq(Seq(Byte)) /\ Len(Append(out, taken)) = Len(out) + 1
      /\ out' \in Seq(Seq(Byte))
  <2> HIDE DEF taken
  <2>1. Append(out, taken) \in Seq(Seq(Byte)) /\ Len(Append(out, taken)) = Len(out) + 1
    BY <1>5, <1>7, AppendProperties
  <2> QED  BY <1>5, <1>4, <2>1
<1>11. TypeOK'
  <2>1. Len(buf') <= MQTT_BUF_SIZE
    <3>1. MQTT_BUF_SIZE \in Nat  BY RecvAssumption
    <3> QED  BY <1>2, <1>5, <1>6, <1>8, <3>1
  <2>2. busy' => buf' # <<>>
    <3>1. n < Len(buf) => Len(left) # 0  BY <1>5, <1>6, <1>8
    <3> QED  BY <1>2, <1>1, <3>1, EmptySeq
  <2>3. busy' \in BOOLEAN  BY <1>1
  <2>4. slip' \in BOOLEAN  BY <1>5, <1>3
  <2>5. con' \in {"up", "ended", "overrun", "stuck"}  BY <1>2, <1>5
  <2>6. buf' \in Seq(Byte) /\ pipe' \in Seq(Byte)  BY <1>2, <1>5, <1>8
  <2> QED  BY <2>1, <2>2, <2>3, <2>4, <2>5, <2>6 DEF TypeOK
<1>12. SentOK'  BY <1>2 DEF RecvInv, SentOK, Starts
<1>13. Aligned'
  <2> SUFFICES ASSUME ~slip'
               PROVE  /\ Len(out') <= Len(sent) /\ out' = SubSeq(sent, 1, Len(out'))
                      /\ FlattenSeq(out') \o left \o pipe = FlattenSeq(sent)
    BY <1>2 DEF Aligned
  <2>1. ~slip /\ HeaderWhole(buf) /\ n = mqtt_get_total_length(buf)
    BY <1>3, Zenon DEF Slips
  <2>2. out' = Append(out, taken) /\ Len(out') = Len(out) + 1  BY <1>10, <1>4
  <2>3. Len(out) < Len(sent) /\ taken = sent[Len(out) + 1]
    BY <1>5, <1>6, <2>1, TakesNext
  <2>4. /\ out = SubSeq(sent, 1, Len(out))
        /\ FlattenSeq(out) \o buf \o pipe = FlattenSeq(sent)
    BY <1>5, <2>1 DEF RecvInv, Aligned
  <2> HIDE DEF taken
  <2>5. SubSeq(sent, 1, Len(out) + 1) = Append(SubSeq(sent, 1, Len(out)), sent[Len(out) + 1])
    BY <1>5, <2>3, OneMore
  <2>6. out' = SubSeq(sent, 1, Len(out'))  BY <2>2, <2>3, <2>4, <2>5
  <2>7. Len(out') <= Len(sent)  BY <1>5, <2>2, <2>3
  <2>8. FlattenSeq(out') = FlattenSeq(out) \o taken  BY <1>5, <1>7, <2>2, FlattenAppend
  <2> DEFINE F == FlattenSeq(out)
  <2>9. F \in Seq(Byte)  BY <1>5, FlattenTyped
  <2>10. F \o buf \o pipe = FlattenSeq(sent) /\ FlattenSeq(out') = F \o taken  BY <2>4, <2>8
  <2> HIDE DEF F
  <2>11. (F \o taken) \o left = F \o (taken \o left)  BY <1>7, <1>8, <2>9, BytesAssociate
  <2>12. FlattenSeq(out') \o left \o pipe = FlattenSeq(sent)  BY <1>9, <2>10, <2>11
  <2> QED  BY <2>6, <2>7, <2>12
<1>14. busy' => con' = "up"  BY <1>2, <1>5
<1> QED  BY <1>10, <1>11, <1>12, <1>13, <1>14 DEF RecvInv

LEMMA SpinInv == RecvInv /\ Spin => RecvInv'
<1> SUFFICES ASSUME RecvInv, Spin PROVE RecvInv'  OBVIOUS
<1>1. /\ con' = "stuck" /\ busy' = FALSE /\ slip' = TRUE
      /\ UNCHANGED <<pipe, buf, sent, out>>
  BY DEF Spin
<1>2. TypeOK'  BY <1>1 DEF RecvInv, TypeOK
<1>3. SentOK'  BY <1>1 DEF RecvInv, SentOK, Starts
<1>4. Aligned'  BY <1>1 DEF Aligned
<1>5. out' \in Seq(Seq(Byte)) /\ (busy' => con' = "up")  BY <1>1 DEF RecvInv
<1> QED  BY <1>2, <1>3, <1>4, <1>5 DEF RecvInv

LEMMA RecvNext == RecvInv /\ [Next]_vars => RecvInv'
\* between two rounds the callback may end, or nothing happens at all
<1>1. ASSUME RecvInv, UNCHANGED <<pipe, buf, con, sent, out, slip>>,
             busy' = FALSE \/ busy' = busy
      PROVE  RecvInv'
  <2>1. TypeOK'
    <3>1. /\ pipe' \in Seq(Byte) /\ buf' \in Seq(Byte) /\ Len(buf') <= MQTT_BUF_SIZE
          /\ con' \in {"up", "ended", "overrun", "stuck"} /\ slip' \in BOOLEAN
      BY <1>1 DEF RecvInv, TypeOK
    <3>2. busy' \in BOOLEAN  BY <1>1, Zenon DEF RecvInv, TypeOK
    <3>3. busy' => buf' # <<>>  BY <1>1 DEF RecvInv, TypeOK
    <3> QED  BY <3>1, <3>2, <3>3 DEF TypeOK
  <2>2. SentOK'  BY <1>1 DEF RecvInv, SentOK, Starts
  <2>3. Aligned'  BY <1>1 DEF RecvInv, Aligned
  <2>4. out' \in Seq(Seq(Byte)) /\ (busy' => con' = "up")  BY <1>1 DEF RecvInv
  <2> QED  BY <2>1, <2>2, <2>3, <2>4 DEF RecvInv
<1>2. RecvInv /\ (Wait \/ UNCHANGED vars) => RecvInv'  BY <1>1 DEF Wait, vars
<1> QED  BY <1>2, PeerSendsInv, LoopReadsInv, TakeInv, SpinInv DEF Next, Loop

LEMMA RecvInvariant == Spec => []RecvInv
BY RecvInit, RecvNext, PTL DEF Spec

-----------------------------------------------------------------------------
(* The properties.                                                         *)

(* in_buffer is never written beyond its end: MQTT_ClientCon_recv_cb       *)
(* refuses what does not fit, and what READPACKET leaves behind fits.      *)
THEOREM RecvTypeOK == Spec => []TypeOK
BY RecvInvariant, PTL DEF RecvInv

(* However the stream is cut and whatever lengths the peer announces, the   *)
(* messages READPACKET takes are the messages that were sent, in order and *)
(* unaltered, and the bytes not yet taken are those of the rest, until one *)
(* is taken for longer or shorter than it is.                              *)
THEOREM StreamFaithful == Spec => []Faithful
<1>1. RecvInv => Faithful
  <2> SUFFICES ASSUME RecvInv, ~slip
               PROVE  /\ IsPrefix(out, sent)
                      /\ con = "up" => FlattenSeq(out) \o buf \o pipe = FlattenSeq(sent)
    BY DEF Faithful
  <2>1. /\ out \in Seq(Seq(Byte)) /\ Len(out) <= Len(sent)
        /\ out = SubSeq(sent, 1, Len(out))
        /\ con = "up" => FlattenSeq(out) \o buf \o pipe = FlattenSeq(sent)
    BY DEF RecvInv, Aligned
  <2>2. SubSeq(out, 1, Len(out)) = out  BY <2>1, SubSeqFull
  <2> QED  BY <2>1, <2>2 DEF IsPrefix
<1> QED  BY <1>1, RecvInvariant, PTL

(* READPACKET takes a message for longer or shorter than it is only if the *)
(* count does not fit message_length or an int, or at a cut inside the     *)
(* length of the message, behind its type or behind zero digits only.      *)
THEOREM SlipsAreKnown == Spec => SlipsKnown
<1> DEFINE Beyond == mqtt_get_total_length(buf) >= Modulus \/ Overflows(buf)
           Within == /\ IsPrefix(buf, sent[Len(out) + 1])
                     /\ \A i \in 2..Len(buf) : buf[i] = Base
           A == slip' /\ ~slip => Beyond \/ Within
<1>1. RecvInv /\ [Next]_vars => [A]_vars
  <2> SUFFICES ASSUME RecvInv, Next, slip', ~slip, ~Beyond PROVE Within
    OBVIOUS
  <2>1. Take \/ Spin
    BY DEF Next, Loop, PeerSends, Network_clients_loop, Wait
  <2>2. busy /\ con = "up" /\ buf # <<>> /\ buf \in Seq(Byte)
    BY <2>1 DEF Take, Spin, RecvInv, TypeOK
  <2> DEFINE total == mqtt_get_total_length(buf)
  <2>3. total \in Nat \ {0}  BY <2>2, TotalTyped
  <2>4. Len(buf) \in Nat  BY <2>2, LenProperties
  <2>5. PICK n \in MessageLengths(buf) : n <= Len(buf) /\ Slips(n)
    <3>1. CASE Take
      <4>1. PICK n \in MessageLengths(buf) : Taken(n)  BY <3>1 DEF Take
      <4>2. n \in 1..Len(buf) /\ slip' = (slip \/ Slips(n))  BY <4>1 DEF Taken
      <4>3. n <= Len(buf)  BY <2>4, <4>2
      <4> QED  BY <4>2, <4>3
    <3>2. CASE Spin
      <4>1. 0 \in MessageLengths(buf)  BY <3>2 DEF Spin
      <4>2. 0 # total  BY <2>3
      <4> QED  BY <2>4, <4>1, <4>2 DEF Slips
    <3> QED  BY <2>1, <3>1, <3>2
  <2>6. ~Overflows(buf) /\ ~(total >= Modulus)  OBVIOUS
  <2> HIDE DEF total
  <2>7. n = total % Modulus
    BY <2>5, <2>6 DEF MessageLengths, total
  <2>8. n = total
    <3>1. Modulus \in Nat /\ MQTT_BUF_SIZE \in Nat /\ MQTT_BUF_SIZE < Modulus
      BY RecvAssumption
    <3>2. \A x, y \in Nat : x < y => x % y = x  OBVIOUS
    <3>3. total < Modulus  BY <2>3, <2>6, <3>1
    <3> QED  BY <2>3, <2>7, <3>1, <3>2, <3>3
  <2>9. ~HeaderWhole(buf) /\ mqtt_get_total_length(buf) <= Len(buf)
    BY <2>5, <2>8 DEF Slips, total
  <2>10. \A i \in 2..Len(buf) : buf[i] = Base  BY <2>2, <2>9, ZeroDigits
  <2>11. IsPrefix(buf, sent[Len(out) + 1])  BY <2>2, <2>9, TakesNext
  <2> QED  BY <2>10, <2>11
<1>2. [][A]_vars => SlipsKnown
  <2>1. [A]_vars => [slip' /\ ~slip =>
          \/ mqtt_get_total_length(buf) >= Modulus \/ Overflows(buf)
          \/ /\ IsPrefix(buf, sent[Len(out) + 1])
             /\ \A i \in 2..Len(buf) : buf[i] = Base]_vars
    OBVIOUS
  <2> HIDE DEF A
  <2> QED  BY <2>1, PTL DEF SlipsKnown
<1> HIDE DEF A
<1>3. Spec => [][A]_vars  BY <1>1, RecvInvariant, PTL DEF Spec
<1> QED  BY <1>2, <1>3

=============================================================================
