-------------------------- MODULE RingQueueProofs --------------------------
(***************************************************************************)
(* That the ring's pointers and its count agree, that what it holds starts *)
(* with a frame, that the queue delivers what was stored, for rings and    *)
(* packets of every size, and that with frames of one size it is Outbox.   *)
(***************************************************************************)
EXTENDS RingQueue, SequenceProofs

(* A frame starts the ring, and every end of a frame is followed by the    *)
(* start of the next.                                                      *)
Marked(bytes) ==
  /\ \A i \in DOMAIN bytes : i = 1 => bytes[i] = BEG
  /\ \A i, j \in DOMAIN bytes : (j = i + 1 /\ bytes[i] = END) => bytes[j] = BEG

PointersAgree(r) == r \in RINGBUF /\ r.p_w = Advance(r.p_r, r.fill_cnt)

LEMMA FlipTyped ==
  Flip(ESC) = 93 /\ Flip(BEG) = 94 /\ Flip(END) = 95
BY DEF Flip, ESC, BEG, END

(* The byte after an escape, or the byte itself; what lies at place k.     *)
Special == {ESC, BEG, END}
Coded(packet, i) == IF packet[i] \in Special THEN Flip(packet[i]) ELSE packet[i]
Here(packet, k) == {i \in DOMAIN packet : Goes(packet, i) = k}
FrameLen(packet) == Goes(packet, Len(packet)) + 1

LEMMA EscapedTyped ==
  ASSUME NEW packet, NEW i \in Nat
  PROVE  IsFiniteSet(Escaped(packet, i)) /\ Cardinality(Escaped(packet, i)) \in Nat
<1>1. Escaped(packet, i) \subseteq 1..i  BY DEF Escaped
<1> QED  BY <1>1, IndexSetFinite

(* Byte i goes one or two places behind byte i - 1.                        *)
LEMMA GoesProperties ==
  ASSUME NEW packet
  PROVE  /\ Goes(packet, 0) = 1
         /\ \A i \in Nat : Goes(packet, i) \in Nat /\ Goes(packet, i) > i
         /\ \A i \in Nat \ {0} :
              Goes(packet, i) = Goes(packet, i - 1) + (IF packet[i] \in Special THEN 2 ELSE 1)
         /\ \A i, j \in Nat : i < j => Goes(packet, i) < Goes(packet, j)
<1>1. Goes(packet, 0) = 1
  <2>1. Escaped(packet, 0) = {}  BY DEF Escaped
  <2> QED  BY <2>1, FS_EmptySet DEF Goes
<1>2. \A i \in Nat : Goes(packet, i) \in Nat /\ Goes(packet, i) > i
  BY EscapedTyped DEF Goes
<1>3. ASSUME NEW i \in Nat \ {0}
      PROVE  Goes(packet, i) = Goes(packet, i - 1) + (IF packet[i] \in Special THEN 2 ELSE 1)
  <2> DEFINE E == Escaped(packet, i - 1)
             F == Escaped(packet, i)
  <2>1. i - 1 \in Nat /\ \A j : j \in 1..i <=> (j \in 1..(i - 1) \/ j = i)
    OBVIOUS
  <2>2. IsFiniteSet(E) /\ Cardinality(E) \in Nat  BY <2>1, EscapedTyped
  <2>3. i \notin E  BY DEF Escaped
  <2>4. F = IF packet[i] \in Special THEN E \cup {i} ELSE E
    BY <2>1 DEF Escaped, Special
  <2>5. Goes(packet, i) = 1 + i + Cardinality(F)
        /\ Goes(packet, i - 1) = 1 + (i - 1) + Cardinality(E)
    BY DEF Goes
  <2> HIDE DEF E, F
  <2>6. Cardinality(E \cup {i}) = Cardinality(E) + 1  BY <2>2, <2>3, FS_AddElement
  <2> QED  BY <2>2, <2>4, <2>5, <2>6
<1>4. ASSUME NEW i \in Nat, NEW j \in Nat, i < j
      PROVE  Goes(packet, i) < Goes(packet, j)
  <2> DEFINE E == Escaped(packet, i)
             F == Escaped(packet, j)
  <2>1. E \in SUBSET F  BY <1>4 DEF Escaped
  <2>2. IsFiniteSet(F) /\ Cardinality(F) \in Nat /\ Cardinality(E) \in Nat  BY EscapedTyped
  <2>3. Goes(packet, i) = 1 + i + Cardinality(E) /\ Goes(packet, j) = 1 + j + Cardinality(F)
    BY DEF Goes
  <2> HIDE DEF E, F
  <2>4. Cardinality(E) <= Cardinality(F)  BY <2>1, <2>2, FS_Subset
  <2> QED  BY <1>4, <2>2, <2>3, <2>4
<1> QED  BY <1>1, <1>2, <1>3, <1>4

LEMMA EncodedForm ==
  ASSUME NEW packet \in Seq(Byte)
  PROVE  /\ FrameLen(packet) \in Nat /\ FrameLen(packet) >= 2
         /\ PROTO_AddRb(packet) =
              [k \in 1..FrameLen(packet) |->
                 IF k = 1 THEN BEG ELSE IF k = FrameLen(packet) THEN END
                 ELSE IF Here(packet, k) # {}
                      THEN Coded(packet, CHOOSE i \in Here(packet, k) : TRUE) ELSE ESC]
<1> DEFINE len == Goes(packet, Len(packet)) + 1
           here(k) == {i \in DOMAIN packet : Goes(packet, i) = k}
           coded(i) == IF i \in Escaped(packet, i) THEN Flip(packet[i]) ELSE packet[i]
<1>1. len \in Nat /\ len >= 2
  <2>1. Len(packet) \in Nat  BY LenProperties
  <2>2. Goes(packet, Len(packet)) \in Nat /\ Goes(packet, Len(packet)) > Len(packet)
    BY <2>1, GoesProperties
  <2> HIDE DEF here, coded
  <2> QED  BY <2>1, <2>2
<1>2. len = FrameLen(packet) /\ \A k : here(k) = Here(packet, k)  BY DEF FrameLen, Here
<1>3. ASSUME NEW i \in DOMAIN packet PROVE coded(i) = Coded(packet, i)
  <2>1. i \in 1..i  BY LenProperties
  <2>2. i \in Escaped(packet, i) <=> packet[i] \in Special  BY <2>1 DEF Escaped, Special
  <2> QED  BY <2>2 DEF Coded
<1>4. PROTO_AddRb(packet) =
        [k \in 1..len |->
           CASE k = 1   -> BEG
             [] k = len -> END
             [] k \in 2..(len - 1) /\ here(k) # {} -> coded(CHOOSE i \in here(k) : TRUE)
             [] OTHER   -> ESC]
  BY DEF PROTO_AddRb
<1>5. ASSUME NEW k PROVE here(k) # {} => (CHOOSE i \in here(k) : TRUE) \in DOMAIN packet
  OBVIOUS
<1> HIDE DEF len, here, coded
<1>6. ASSUME NEW k \in 1..len
      PROVE  (CASE k = 1   -> BEG
                [] k = len -> END
                [] k \in 2..(len - 1) /\ here(k) # {} -> coded(CHOOSE i \in here(k) : TRUE)
                [] OTHER   -> ESC)
             = IF k = 1 THEN BEG ELSE IF k = len THEN END
               ELSE IF here(k) # {} THEN Coded(packet, CHOOSE i \in here(k) : TRUE) ELSE ESC
  <2>1. CASE k = 1  BY <2>1, <1>1
  <2>2. CASE k = len /\ k # 1  BY <2>2, <1>1
  <2>3. CASE k # 1 /\ k # len
    <3>1. k \in 2..(len - 1)  BY <2>3, <1>1
    <3>2. here(k) # {} => coded(CHOOSE i \in here(k) : TRUE)
                          = Coded(packet, CHOOSE i \in here(k) : TRUE)
      BY <1>3, <1>5
    <3> QED  BY <2>3, <3>1, <3>2
  <2> QED  BY <2>1, <2>2, <2>3
<1> QED  BY <1>1, <1>2, <1>4, <1>6

LEMMA CodedTyped ==
  ASSUME NEW packet \in Seq(Byte), NEW i \in DOMAIN packet
  PROVE  /\ Coded(packet, i) \in Byte /\ Coded(packet, i) \notin Special
         /\ packet[i] \in Special => Flip(Coded(packet, i)) = packet[i]
<1>1. packet[i] \in Byte  BY LenProperties
<1>2. Flip(93) = ESC /\ Flip(94) = BEG /\ Flip(95) = END  BY DEF Flip, ESC, BEG, END
<1>3. {93, 94, 95} \subseteq Byte /\ \A b \in {93, 94, 95} : b \notin Special
  BY DEF Byte, Special, ESC, BEG, END
<1>4. CASE packet[i] \in Special
  <2>1. \/ packet[i] = ESC /\ Coded(packet, i) = 93
        \/ packet[i] = BEG /\ Coded(packet, i) = 94
        \/ packet[i] = END /\ Coded(packet, i) = 95
    BY <1>4, FlipTyped DEF Coded, Special
  <2> QED  BY <1>2, <1>3, <2>1
<1>5. CASE packet[i] \notin Special  BY <1>1, <1>5 DEF Coded
<1> QED  BY <1>4, <1>5

(* What PROTO_AddRb puts: 0x7E only at its start, 0x7F only at its end, a  *)
(* byte of the packet that needs none of this at its place, and 0x7D       *)
(* before exactly those that are escaped.                                  *)
LEMMA FramedProperties ==
  ASSUME NEW packet \in Seq(Byte)
  PROVE  LET bytes == PROTO_AddRb(packet)
         IN  /\ bytes \in Seq(Byte) /\ Len(bytes) = FrameLen(packet) /\ Len(bytes) >= 2
             /\ \A k \in 1..Len(bytes) : bytes[k] = BEG <=> k = 1
             /\ \A k \in 1..Len(bytes) : bytes[k] = END <=> k = Len(bytes)
             /\ \A k \in 1..Len(bytes) : bytes[k] \notin Special <=> Here(packet, k) # {}
             /\ \A i \in DOMAIN packet :
                  /\ Goes(packet, i) \in 2..(Len(bytes) - 1)
                  /\ bytes[Goes(packet, i)] = Coded(packet, i)
                  /\ bytes[Goes(packet, i) - 1] = ESC <=> packet[i] \in Special
<1> DEFINE len == FrameLen(packet)
           body(k) == IF Here(packet, k) # {}
                      THEN Coded(packet, CHOOSE i \in Here(packet, k) : TRUE) ELSE ESC
           bytes == PROTO_AddRb(packet)
           n == Len(packet)
<1>1. len \in Nat /\ len >= 2
      /\ bytes = [k \in 1..len |-> IF k = 1 THEN BEG ELSE IF k = len THEN END ELSE body(k)]
  BY EncodedForm
<1>2. /\ ESC \in Special /\ BEG \in Special /\ END \in Special
      /\ ESC # BEG /\ ESC # END /\ BEG # END
      /\ ESC \in Byte /\ BEG \in Byte /\ END \in Byte
      /\ \A b \in Special : b = ESC \/ b = BEG \/ b = END
  BY DEF Special, ESC, BEG, END, Byte
<1>3. n \in Nat /\ DOMAIN packet = 1..n  BY LenProperties
<1>4. /\ Goes(packet, 0) = 1 /\ len = Goes(packet, n) + 1
      /\ \A i \in Nat : Goes(packet, i) \in Nat /\ Goes(packet, i) > i
  BY GoesProperties DEF FrameLen
<1>5. ASSUME NEW i \in Nat, NEW j \in Nat, i < j
       PROVE  Goes(packet, i) < Goes(packet, j)
  BY <1>5, GoesProperties
<1> HIDE DEF n, len, bytes
<1>6. ASSUME NEW k
      PROVE  body(k) \in Byte /\ (IF Here(packet, k) = {} THEN body(k) = ESC
                                   ELSE body(k) \notin Special)
  <2>1. CASE Here(packet, k) = {}  BY <1>2, <2>1
  <2>2. CASE Here(packet, k) # {}
    <3>1. (CHOOSE i \in Here(packet, k) : TRUE) \in DOMAIN packet  BY <2>2 DEF Here
    <3> QED  BY <2>2, <3>1, CodedTyped
  <2> QED  BY <2>1, <2>2
<1>7. ASSUME NEW i \in 1..n
      PROVE  /\ Goes(packet, i) \in 2..(len - 1) /\ i \in Here(packet, Goes(packet, i))
             /\ Here(packet, Goes(packet, i)) = {i}
             /\ body(Goes(packet, i)) = Coded(packet, i)
  <2>1. i \in Nat /\ i > 0 /\ i <= n  OBVIOUS
  <2>2. Goes(packet, i) > 1 /\ Goes(packet, i) <= Goes(packet, n)
    <3>1. i < n => Goes(packet, i) < Goes(packet, n)  BY <1>3, <1>5, <2>1
    <3>2. Goes(packet, i) > i /\ Goes(packet, i) \in Nat /\ Goes(packet, n) \in Nat
      BY <1>3, <1>4, <2>1
    <3>3. i = n \/ i < n  BY <1>3, <2>1
    <3> QED  BY <2>1, <3>1, <3>2, <3>3
  <2>3. Here(packet, Goes(packet, i)) = {i}
    <3>1. ASSUME NEW j \in 1..n, Goes(packet, j) = Goes(packet, i) PROVE j = i
      <4>1. j \in Nat /\ Goes(packet, j) \in Nat /\ Goes(packet, i) \in Nat  BY <1>4, <2>1
      <4>2. ~(j < i)
        <5>1. j < i => Goes(packet, j) < Goes(packet, i)  BY <1>5, <2>1, <4>1
        <5> QED  BY <3>1, <4>1, <5>1
      <4>3. ~(i < j)
        <5>1. i < j => Goes(packet, i) < Goes(packet, j)  BY <1>5, <2>1, <4>1
        <5> QED  BY <3>1, <4>1, <5>1
      <4> QED  BY <2>1, <4>1, <4>2, <4>3
    <3> QED  BY <1>3, <3>1 DEF Here
  <2>4. Goes(packet, i) \in Nat /\ Goes(packet, n) \in Nat  BY <1>3, <1>4, <2>1
  <2>5. Goes(packet, i) \in 2..(len - 1)
    <3>1. len - 1 = Goes(packet, n)  BY <1>4, <2>4
    <3> QED  BY <2>2, <2>4, <3>1
  <2>6. (CHOOSE j \in {i} : TRUE) = i  OBVIOUS
  <2> QED  BY <2>3, <2>5, <2>6
<1>8. \A k \in 1..len : bytes[k] = IF k = 1 THEN BEG ELSE IF k = len THEN END ELSE body(k)
  BY <1>1
<1>9. bytes \in [1..len -> Byte]
  <2> HIDE DEF body, len, bytes
  <2> QED  BY <1>1, <1>2, <1>6
<1> HIDE DEF body
<1>10. bytes \in Seq(Byte) /\ Len(bytes) = len
  BY <1>1, <1>9, SeqDef, LenProperties
<1>11. \A k \in 1..len : Here(packet, k) # {} => k # 1 /\ k # len
  <2>1. ASSUME NEW k \in 1..len, Here(packet, k) # {} PROVE k # 1 /\ k # len
    <3>1. PICK i \in 1..n : Goes(packet, i) = k  BY <1>3, <2>1 DEF Here
    <3> QED  BY <1>1, <1>7, <3>1
  <2> QED  BY <2>1
<1>12. ASSUME NEW k \in 1..len
       PROVE  /\ bytes[k] = BEG <=> k = 1
              /\ bytes[k] = END <=> k = len
              /\ bytes[k] \notin Special <=> Here(packet, k) # {}
  <2>1. CASE k = 1 \/ k = len
    BY <1>1, <1>2, <1>8, <1>11, <2>1
  <2>2. CASE k # 1 /\ k # len
    <3>1. bytes[k] = body(k)  BY <1>8, <2>2
    <3> QED  BY <1>2, <1>6, <2>2, <3>1
  <2> QED  BY <2>1, <2>2
<1>13. ASSUME NEW i \in 1..n
       PROVE  /\ bytes[Goes(packet, i)] = Coded(packet, i)
              /\ bytes[Goes(packet, i) - 1] = ESC <=> packet[i] \in Special
  <2> DEFINE g == Goes(packet, i)
             h == Goes(packet, i - 1)
  <2>1. g \in 1..len /\ g - 1 \in 1..len /\ g # 1 /\ g # len /\ g - 1 # len /\ g \in Nat
    BY <1>1, <1>7
  <2>2. bytes[g] = Coded(packet, i)  BY <1>7, <1>8, <2>1
  <2>3. i - 1 \in Nat /\ i \in Nat \ {0} /\ h \in Nat
        /\ g = h + (IF packet[i] \in Special THEN 2 ELSE 1)
    <3>1. i - 1 \in Nat /\ i \in Nat \ {0}  BY <1>3
    <3> QED  BY <1>4, <3>1, GoesProperties
  <2>4. CASE packet[i] \notin Special
    <3>1. g - 1 = h  BY <2>3, <2>4
    <3>2. CASE i = 1
      <4>1. g - 1 = 1  BY <1>4, <3>1, <3>2
      <4> QED  BY <1>2, <1>12, <2>1, <2>2, <2>4, <4>1
    <3>3. CASE i # 1
      <4>1. i - 1 \in 1..n  BY <1>3, <3>3
      <4>2. Here(packet, g - 1) # {}  BY <1>7, <3>1, <4>1
      <4>3. bytes[g - 1] \notin Special  BY <1>12, <2>1, <4>2
      <4> QED  BY <1>2, <2>2, <2>4, <4>3
    <3> QED  BY <3>2, <3>3
  <2>5. CASE packet[i] \in Special
    <3>1. g - 1 = h + 1 /\ g - 1 # 1
      <4>1. h > 0  BY <1>4, <2>3
      <4> QED  BY <2>3, <2>5, <4>1
    <3>2. Here(packet, g - 1) = {}
      <4> SUFFICES ASSUME NEW j \in 1..n, Goes(packet, j) = g - 1 PROVE FALSE
        BY <1>3 DEF Here
      <4>1. j \in Nat /\ i \in Nat  OBVIOUS
      <4>2. ~(i < j)
        <5>1. i < j => g < Goes(packet, j)  BY <1>5, <4>1
        <5> QED  BY <2>1, <5>1
      <4>3. i # j /\ ~(i - 1 < j)  BY <2>1, <4>1, <4>2
      <4>4. j < i - 1 => Goes(packet, j) < h  BY <1>5, <2>3, <4>1
      <4>5. j = i - 1 \/ j < i - 1  BY <4>1, <4>3
      <4> QED  BY <2>3, <3>1, <4>4, <4>5
    <3>3. bytes[g - 1] = body(g - 1)  BY <1>8, <2>1, <3>1
    <3>4. bytes[g - 1] = ESC  BY <1>6, <3>2, <3>3
    <3> QED  BY <2>2, <2>5, <3>4
  <2> QED  BY <2>2, <2>4, <2>5
<1> QED  BY <1>1, <1>3, <1>7, <1>10, <1>12, <1>13 DEF bytes, len

-----------------------------------------------------------------------------
(* Pointer arithmetic.                                                     *)

LEMMA AdvanceTyped ==
  ASSUME NEW p \in Offset, NEW n \in 0..Size
  PROVE  Advance(p, n) \in Offset
BY RingAssumption DEF Offset, Advance

LEMMA DistanceTyped ==
  ASSUME NEW p \in Offset, NEW i \in Offset
  PROVE  Distance(p, i) \in Offset
BY RingAssumption DEF Offset, Distance

LEMMA AdvanceTwice ==
  ASSUME NEW p \in Offset, NEW m \in 0..Size, NEW n \in 0..(Size - m)
  PROVE  Advance(Advance(p, m), n) = Advance(p, m + n)
BY RingAssumption DEF Offset, Advance

(* The byte at place k of the ring, seen from the write pointer.           *)
LEMMA FromWritePointer ==
  ASSUME NEW p \in Offset, NEW f \in 0..Size, NEW k \in 0..(Size - 1)
  PROVE  Distance(Advance(p, f), Advance(p, k)) = IF k < f THEN Size - f + k ELSE k - f
BY RingAssumption DEF Offset, Advance, Distance

LEMMA HeldProperties ==
  ASSUME NEW r \in RINGBUF
  PROVE  /\ r.fill_cnt \in 0..Size /\ r.fill_cnt \in Nat
         /\ DOMAIN Held(r) = 1..r.fill_cnt
         /\ \A i \in 1..r.fill_cnt : Held(r)[i] = r.buf[Advance(r.p_r, i - 1)]
BY RingAssumption DEF RINGBUF, Held

(* Putting n bytes where there is room adds them at the end.               *)
LEMMA PutProperties ==
  ASSUME NEW r, PointersAgree(r), NEW bytes \in Seq(Byte),
         NEW n \in Nat, n <= Len(bytes), n <= Size - r.fill_cnt
  PROVE  LET k == RINGBUF_Put(r, bytes, n)
         IN  /\ PointersAgree(k)
             /\ DOMAIN Held(k) = 1..(r.fill_cnt + n)
             /\ \A i \in 1..r.fill_cnt : Held(k)[i] = Held(r)[i]
             /\ \A i \in 1..n : Held(k)[r.fill_cnt + i] = bytes[i]
<1> DEFINE k == RINGBUF_Put(r, bytes, n)
           f == r.fill_cnt
           newbuf == [i \in Offset |-> IF Distance(r.p_w, i) < n
                                       THEN bytes[Distance(r.p_w, i) + 1] ELSE r.buf[i]]
<1>1. /\ r \in RINGBUF /\ r.p_w = Advance(r.p_r, f) /\ r.p_r \in Offset
      /\ r.p_w \in Offset /\ f \in 0..Size /\ r.buf \in [Offset -> Byte]
  BY DEF PointersAgree, RINGBUF
<1>2. Size \in Nat /\ Size >= 2 /\ n \in 0..Size /\ f + n \in 0..Size
  BY <1>1, RingAssumption
<1>3. newbuf \in [Offset -> Byte]
  <2> SUFFICES ASSUME NEW i \in Offset, Distance(r.p_w, i) < n
               PROVE  bytes[Distance(r.p_w, i) + 1] \in Byte
    BY <1>1
  <2>1. Distance(r.p_w, i) \in 0..(Size - 1)  BY <1>1, DistanceTyped DEF Offset
  <2>2. Distance(r.p_w, i) + 1 \in 1..Len(bytes)  BY <2>1, <1>2, LenProperties
  <2> QED  BY <2>2, LenProperties
<1>4. /\ k.buf = newbuf /\ k.p_r = r.p_r
      /\ k.p_w = Advance(r.p_w, n) /\ k.fill_cnt = f + n
      /\ k = [buf |-> newbuf, p_r |-> r.p_r, p_w |-> Advance(r.p_w, n), fill_cnt |-> f + n]
  <2>1. k = [r EXCEPT !.buf = newbuf, !.p_w = Advance(r.p_w, n), !.fill_cnt = f + n]
    BY DEF RINGBUF_Put
  <2> HIDE DEF k, newbuf
  <2> QED  BY <1>1, <2>1 DEF RINGBUF
<1>5. Advance(r.p_w, n) \in Offset /\ Advance(r.p_w, n) = Advance(r.p_r, f + n)
  <2>1. n \in 0..(Size - f)  BY <1>1, <1>2
  <2> QED  BY <1>1, <1>2, <2>1, AdvanceTyped, AdvanceTwice
<1> HIDE DEF newbuf, k
<1>6. k \in RINGBUF /\ PointersAgree(k)
  BY <1>1, <1>2, <1>3, <1>4, <1>5 DEF RINGBUF, PointersAgree
<1>7. DOMAIN Held(k) = 1..(f + n)  BY <1>4, <1>6, HeldProperties
<1>8. ASSUME NEW i \in 1..(f + n)
      PROVE  Held(k)[i] = IF i <= f THEN Held(r)[i] ELSE bytes[i - f]
  <2> DEFINE o == Advance(r.p_r, i - 1)
  <2>1. i - 1 \in 0..(Size - 1) /\ i - 1 \in 0..Size  BY <1>1, <1>2
  <2>2. o \in Offset  BY <1>1, <2>1, AdvanceTyped
  <2>3. Held(k)[i] = newbuf[o]  BY <1>4, <1>6, HeldProperties
  <2>4. Distance(r.p_w, o) = IF i - 1 < f THEN Size - f + (i - 1) ELSE (i - 1) - f
    BY <1>1, <2>1, FromWritePointer
  <2>5. newbuf[o] = IF Distance(r.p_w, o) < n
                    THEN bytes[Distance(r.p_w, o) + 1] ELSE r.buf[o]
    BY <2>2 DEF newbuf
  <2> HIDE DEF o
  <2>6. CASE i <= f
    <3>1. ~(Distance(r.p_w, o) < n)  BY <2>4, <2>6, <1>1, <1>2
    <3>2. Held(r)[i] = r.buf[o]  BY <2>6, <1>1, HeldProperties DEF o
    <3> QED  BY <2>3, <2>5, <2>6, <3>1, <3>2
  <2>7. CASE ~(i <= f)
    <3>1. Distance(r.p_w, o) < n /\ Distance(r.p_w, o) + 1 = i - f
      BY <2>4, <2>7, <1>1, <1>2
    <3> QED  BY <2>3, <2>5, <2>7, <3>1
  <2> QED  BY <2>6, <2>7
<1>9. \A i \in 1..f : Held(k)[i] = Held(r)[i]
  <2>1. \A i \in 1..f : i \in 1..(f + n) /\ i <= f  BY <1>1
  <2> QED  BY <1>8, <2>1
<1>10. \A i \in 1..n : Held(k)[f + i] = bytes[i]
  <2>1. \A i \in 1..n : f + i \in 1..(f + n) /\ ~(f + i <= f) /\ (f + i) - f = i
    BY <1>1
  <2> QED  BY <1>8, <2>1
<1> QED  BY <1>6, <1>7, <1>9, <1>10 DEF k

(* Getting n bytes takes them from the front.                              *)
LEMMA GetProperties ==
  ASSUME NEW r, PointersAgree(r), NEW n \in 0..r.fill_cnt
  PROVE  LET k == RINGBUF_Get(r, n)
         IN  /\ PointersAgree(k)
             /\ DOMAIN Held(k) = 1..(r.fill_cnt - n)
             /\ \A i \in 1..(r.fill_cnt - n) : Held(k)[i] = Held(r)[n + i]
<1> DEFINE k == RINGBUF_Get(r, n)
           f == r.fill_cnt
<1>1. /\ r \in RINGBUF /\ r.p_w = Advance(r.p_r, f) /\ r.p_r \in Offset
      /\ r.p_w \in Offset /\ f \in 0..Size /\ r.buf \in [Offset -> Byte]
  BY DEF PointersAgree, RINGBUF
<1>2. Size \in Nat /\ Size >= 2 /\ n \in 0..Size /\ f - n \in 0..Size
      /\ f - n \in 0..(Size - n) /\ n + (f - n) = f
  BY <1>1, RingAssumption
<1>3. /\ k.buf = r.buf /\ k.p_r = Advance(r.p_r, n)
      /\ k.p_w = r.p_w /\ k.fill_cnt = f - n
      /\ k = [buf |-> r.buf, p_r |-> Advance(r.p_r, n), p_w |-> r.p_w, fill_cnt |-> f - n]
  <2>1. k = [r EXCEPT !.p_r = Advance(r.p_r, n), !.fill_cnt = f - n]
    BY DEF RINGBUF_Get
  <2> HIDE DEF k
  <2> QED  BY <1>1, <2>1 DEF RINGBUF
<1>4. Advance(r.p_r, n) \in Offset  BY <1>1, <1>2, AdvanceTyped
<1>5. r.p_w = Advance(Advance(r.p_r, n), f - n)
  BY <1>1, <1>2, AdvanceTwice
<1> HIDE DEF k
<1>6. k \in RINGBUF /\ PointersAgree(k)
  BY <1>1, <1>2, <1>3, <1>4, <1>5 DEF RINGBUF, PointersAgree
<1>7. DOMAIN Held(k) = 1..(f - n)  BY <1>3, <1>6, HeldProperties
<1>8. ASSUME NEW i \in 1..(f - n)
      PROVE  Held(k)[i] = Held(r)[n + i]
  <2>1. i - 1 \in 0..(Size - n) /\ n + i \in 1..f /\ (n + i) - 1 = n + (i - 1)
    BY <1>1, <1>2
  <2>2. Held(k)[i] = r.buf[Advance(Advance(r.p_r, n), i - 1)]
    BY <1>3, <1>6, HeldProperties
  <2>3. Advance(Advance(r.p_r, n), i - 1) = Advance(r.p_r, n + (i - 1))
    BY <1>1, <1>2, <2>1, AdvanceTwice
  <2>4. Held(r)[n + i] = r.buf[Advance(r.p_r, (n + i) - 1)]
    BY <1>1, <2>1, HeldProperties
  <2> QED  BY <2>1, <2>2, <2>3, <2>4
<1> QED  BY <1>6, <1>7, <1>8 DEF k

-----------------------------------------------------------------------------
(* The inductive invariant and what it takes to keep it.                   *)

RInv == PointersAgree(rb) /\ ret \in {"stored", "full"} /\ Marked(Held(rb))

LEMMA InitKeeps == Init => RInv
<1> SUFFICES ASSUME Init PROVE RInv
  OBVIOUS
<1>1. rb \in RINGBUF /\ rb.fill_cnt = 0
  BY RingAssumption DEF Init, RINGBUF_Init, RINGBUF, Offset, Byte
<1>2. rb.p_w = Advance(rb.p_r, rb.fill_cnt)
  BY RingAssumption DEF Init, RINGBUF_Init, Advance
<1>3. DOMAIN Held(rb) = {}  BY <1>1, HeldProperties
<1>4. Marked(Held(rb))  BY <1>3 DEF Marked
<1> QED  BY <1>1, <1>2, <1>4 DEF Init, RInv, PointersAgree

(* A frame put after whole or cut frames, and cut anywhere itself, leaves  *)
(* the bytes marked: it starts with 0x7E, whatever precedes it.            *)
LEMMA PutsKeeps ==
  ASSUME RInv, NEW packet \in Payload, QUEUE_Puts(packet)
  PROVE  RInv'
<1> DEFINE bytes == PROTO_AddRb(packet)
           free == Size - rb.fill_cnt
           n == IF Len(bytes) <= free THEN Len(bytes) ELSE free
           k == RINGBUF_Put(rb, bytes, n)
           f == rb.fill_cnt
<1>1. packet \in Seq(Byte)  BY RingAssumption
<1>2. /\ bytes \in Seq(Byte)
      /\ \A i \in DOMAIN bytes : i = 1 => bytes[i] = BEG
      /\ \A i \in DOMAIN bytes : i # Len(bytes) => bytes[i] # END
  BY <1>1, FramedProperties
<1>3. f \in 0..Size /\ Size \in Nat /\ PointersAgree(rb)
  BY RingAssumption DEF RInv, PointersAgree, RINGBUF
<1>4. rb' = k /\ ret' \in {"stored", "full"}
  BY DEF QUEUE_Puts, Now
<1> HIDE DEF bytes
<1>5. Len(bytes) \in Nat /\ DOMAIN bytes = 1..Len(bytes)  BY <1>2, LenProperties
<1>6. n \in Nat /\ n <= Len(bytes) /\ n <= Size - f
  BY <1>3, <1>5
<1>7. /\ PointersAgree(k)
      /\ DOMAIN Held(k) = 1..(f + n)
      /\ \A i \in 1..f : Held(k)[i] = Held(rb)[i]
      /\ \A i \in 1..n : Held(k)[f + i] = bytes[i]
  BY <1>2, <1>3, <1>6, PutProperties
<1>8. DOMAIN Held(rb) = 1..f  BY <1>3, HeldProperties DEF PointersAgree
<1>9. \A i \in 1..n : (i = 1 => bytes[i] = BEG) /\ (i # Len(bytes) => bytes[i] # END)
  <2> HIDE DEF n
  <2>1. \A i \in 1..n : i \in DOMAIN bytes  BY <1>5, <1>6
  <2> QED  BY <1>2, <2>1
<1>10. \A i \in 1..f : i = 1 => Held(rb)[i] = BEG
  BY <1>8 DEF RInv, Marked
<1>11. \A i, j \in 1..f : (j = i + 1 /\ Held(rb)[i] = END) => Held(rb)[j] = BEG
  BY <1>8 DEF RInv, Marked
<1> HIDE DEF k, n, f
<1>12. \A i \in 1..(f + n) : i > f => i - f \in 1..n /\ Held(k)[i] = bytes[i - f]
  <2>1. \A i \in 1..(f + n) : i > f => i - f \in 1..n /\ f + (i - f) = i
    BY <1>3, <1>6
  <2> QED  BY <1>7, <2>1
<1>13. ASSUME NEW i \in 1..(f + n), i = 1
       PROVE  Held(k)[i] = BEG
  <2>1. CASE i \in 1..f  BY <1>7, <1>10, <1>13, <2>1
  <2>2. CASE i \notin 1..f
    <3>1. i > f /\ i - f = 1  BY <1>3, <1>6, <1>13, <2>2
    <3> QED  BY <1>9, <1>12, <3>1
  <2> QED  BY <2>1, <2>2
<1>14. ASSUME NEW i \in 1..(f + n), NEW j \in 1..(f + n), j = i + 1, Held(k)[i] = END
       PROVE  Held(k)[j] = BEG
  <2>1. CASE i \in 1..f /\ j \in 1..f  BY <1>7, <1>11, <1>14, <2>1
  <2>2. CASE i \in 1..f /\ j \notin 1..f
    <3>1. j > f /\ j - f = 1  BY <1>3, <1>6, <1>14, <2>2
    <3> QED  BY <1>9, <1>12, <3>1
  <2>3. CASE i \notin 1..f
    <3>1. i > f /\ i - f # Len(bytes)  BY <1>3, <1>5, <1>6, <1>14, <2>3
    <3>2. Held(k)[i] # END  BY <1>9, <1>12, <3>1
    <3> QED  BY <1>14, <3>2
  <2> QED  BY <2>1, <2>2, <2>3
<1>15. Marked(Held(k))  BY <1>7, <1>13, <1>14 DEF Marked
<1> QED  BY <1>4, <1>7, <1>15 DEF RInv

(* Reading up to the first end of a frame leaves what follows it, which is *)
(* the start of a frame.                                                   *)
LEMMA GetsKeeps ==
  ASSUME RInv, QUEUE_Gets
  PROVE  RInv'
<1>1. /\ PointersAgree(rb) /\ rb.fill_cnt \in Nat
      /\ DOMAIN Held(rb) = 1..rb.fill_cnt /\ Marked(Held(rb))
  BY HeldProperties DEF RInv, PointersAgree
<1>2. ASSUME NEW n \in 0..rb.fill_cnt, rb' = RINGBUF_Get(rb, n),
             n = rb.fill_cnt \/ (n \in 1..rb.fill_cnt /\ Held(rb)[n] = END)
      PROVE  PointersAgree(rb') /\ Marked(Held(rb'))
  <2>1. /\ PointersAgree(rb')
        /\ DOMAIN Held(rb') = 1..(rb.fill_cnt - n)
        /\ \A i \in 1..(rb.fill_cnt - n) : Held(rb')[i] = Held(rb)[n + i]
    BY <1>1, <1>2, GetProperties
  <2>2. \A i \in 1..(rb.fill_cnt - n) : n + i \in 1..rb.fill_cnt
    BY <1>1
  <2>3. ASSUME NEW i \in 1..(rb.fill_cnt - n), i = 1
        PROVE  Held(rb')[i] = BEG
    <3>1. n \in 1..rb.fill_cnt /\ Held(rb)[n] = END  BY <1>1, <1>2, <2>3
    <3>2. n + i = n + 1 /\ n + i \in 1..rb.fill_cnt  BY <2>2, <2>3
    <3> QED  BY <1>1, <2>1, <3>1, <3>2 DEF Marked
  <2>4. ASSUME NEW i \in 1..(rb.fill_cnt - n), NEW j \in 1..(rb.fill_cnt - n),
               j = i + 1, Held(rb')[i] = END
        PROVE  Held(rb')[j] = BEG
    <3>1. n + j = (n + i) + 1  BY <1>1, <2>4
    <3> QED  BY <1>1, <2>1, <2>2, <2>4, <3>1, ZenonT(40) DEF Marked
  <2> QED  BY <2>1, <2>3, <2>4 DEF Marked
<1>3. \E n \in 0..rb.fill_cnt :
        /\ rb' = RINGBUF_Get(rb, n)
        /\ n = rb.fill_cnt \/ (n \in 1..rb.fill_cnt /\ Held(rb)[n] = END)
  <2>1. CASE \E n \in Ends(Held(rb)) : rb' = RINGBUF_Get(rb, n)
    <3>1. PICK n \in Ends(Held(rb)) : rb' = RINGBUF_Get(rb, n)  BY <2>1
    <3>2. n \in 1..rb.fill_cnt /\ Held(rb)[n] = END  BY <1>1 DEF Ends
    <3>3. n \in 0..rb.fill_cnt  BY <1>1, <3>2
    <3> QED  BY <3>1, <3>2, <3>3
  <2>2. CASE rb' = RINGBUF_Get(rb, rb.fill_cnt)
    BY <1>1, <2>2
  <2> QED  BY <2>1, <2>2 DEF QUEUE_Gets, Now
<1>4. PointersAgree(rb') /\ Marked(Held(rb'))  BY <1>2, <1>3
<1> QED  BY <1>4 DEF RInv, QUEUE_Gets

LEMMA RingInvariant == Spec => []RInv
<1>1. RInv /\ [Next]_vars => RInv'
  <2> SUFFICES ASSUME RInv, [Next]_vars PROVE RInv'
    OBVIOUS
  <2>1. ASSUME NEW packet \in Payload, QUEUE_Puts(packet) PROVE RInv'
    BY <2>1, PutsKeeps
  <2>2. CASE QUEUE_Gets  BY <2>2, GetsKeeps
  <2>3. CASE UNCHANGED vars
    BY <2>3 DEF vars, RInv, PointersAgree, Held, Marked
  <2> QED  BY <2>1, <2>2, <2>3 DEF Next
<1> QED  BY <1>1, InitKeeps, PTL DEF Spec

-----------------------------------------------------------------------------
(* The theorems.                                                           *)

(* For a ring and packets of any size, RINGBUF_Put and RINGBUF_Get keep    *)
(* their pointers in the buffer and fill_cnt the distance between them.    *)
THEOREM RingTyped == Spec => []TypeOK
<1>1. RInv => TypeOK  BY DEF RInv, PointersAgree, TypeOK
<1> QED  BY <1>1, RingInvariant, PTL

(* For a ring and packets of any size, also when packets have been cut     *)
(* off by a full ring, PROTO_ParseRb always begins with the start of a     *)
(* frame, so the isBegin it leaves uninitialised is set before it is read. *)
THEOREM RingStarts == Spec => []StartsWithFrame
<1>1. RInv => StartsWithFrame
  <2> SUFFICES ASSUME RInv, rb.fill_cnt > 0 PROVE rb.buf[rb.p_r] = BEG
    BY DEF StartsWithFrame
  <2>1. rb \in RINGBUF /\ rb.p_r \in Offset /\ rb.fill_cnt \in Nat
    BY RingAssumption DEF RInv, PointersAgree, RINGBUF
  <2>2. 1 \in 1..rb.fill_cnt  BY <2>1
  <2>3. Held(rb)[1] = rb.buf[Advance(rb.p_r, 1 - 1)]  BY <2>1, <2>2, HeldProperties
  <2>4. Advance(rb.p_r, 1 - 1) = rb.p_r
    BY <2>1, RingAssumption DEF Advance, Offset
  <2>5. Held(rb)[1] = BEG
    BY <2>1, <2>2, HeldProperties DEF RInv, Marked
  <2> QED  BY <2>3, <2>4, <2>5
<1> QED  BY <1>1, RingInvariant, PTL

-----------------------------------------------------------------------------
(* The frames in a sequence of bytes.                                      *)

LEMMA OrderedProperties ==
  ASSUME NEW n \in Nat, NEW S, S \subseteq 1..n
  PROVE  /\ Ordered(S) \in Seq(S) /\ Len(Ordered(S)) = Cardinality(S)
         /\ DOMAIN Ordered(S) = 1..Cardinality(S)
         /\ \A k \in 1..Cardinality(S) : Ordered(S)[k] = Nth(S, k) /\ Nth(S, k) \in S
<1>1. Cardinality(S) \in Nat  BY IndexSetFinite
<1>2. \A k \in 1..Cardinality(S) : Nth(S, k) \in S  BY NthExists
<1>3. Ordered(S) = [k \in 1..Cardinality(S) |-> Nth(S, k)]  BY DEF Ordered
<1> QED  BY <1>1, <1>2, <1>3

(* The place where frame k ends, and its bytes.                            *)
LastOf(bytes, k) ==
  IF k < Cardinality(Starts(bytes)) THEN Nth(Starts(bytes), k + 1) - 1 ELSE Len(bytes)

Piece(bytes, k) == SubSeq(bytes, Nth(Starts(bytes), k), LastOf(bytes, k))

LEMMA StartsTyped ==
  ASSUME NEW bytes \in Seq(Byte)
  PROVE  /\ Len(bytes) \in Nat /\ Starts(bytes) \subseteq 1..Len(bytes)
         /\ Cardinality(Starts(bytes)) \in Nat
<1>1. Len(bytes) \in Nat /\ Starts(bytes) \subseteq 1..Len(bytes)
  BY LenProperties DEF Starts
<1> QED  BY <1>1, IndexSetFinite

LEMMA FramesInProperties ==
  ASSUME NEW bytes \in Seq(Byte)
  PROVE  FramesIn(bytes) = [k \in 1..Cardinality(Starts(bytes)) |-> FrameOf(Piece(bytes, k))]
<1> DEFINE S == Starts(bytes)
           at == Ordered(S)
           last(k) == IF k < Len(at) THEN at[k + 1] - 1 ELSE Len(bytes)
<1>1. Len(bytes) \in Nat /\ S \subseteq 1..Len(bytes) /\ Cardinality(S) \in Nat
  BY StartsTyped
<1>2. FramesIn(bytes) = [k \in DOMAIN at |-> FrameOf(SubSeq(bytes, at[k], last(k)))]
  BY DEF FramesIn
<1> HIDE DEF S
<1>3. /\ Len(at) = Cardinality(S) /\ DOMAIN at = 1..Cardinality(S)
      /\ \A k \in 1..Cardinality(S) : at[k] = Nth(S, k)
  BY <1>1, OrderedProperties
<1> HIDE DEF at
<1>4. ASSUME NEW k \in 1..Cardinality(S)
      PROVE  SubSeq(bytes, at[k], last(k)) = Piece(bytes, k)
  <2>1. last(k) = LastOf(bytes, k)
    <3>1. CASE k < Cardinality(S)
      <4>1. k + 1 \in 1..Cardinality(S)  BY <1>1, <3>1
      <4> QED  BY <1>3, <3>1, <4>1 DEF LastOf, S
    <3>2. CASE ~(k < Cardinality(S))  BY <1>3, <3>2 DEF LastOf, S
    <3> QED  BY <3>1, <3>2
  <2> HIDE DEF last
  <2> QED  BY <1>3, <2>1 DEF Piece, S
<1> HIDE DEF last
<1> QED  BY <1>2, <1>3, <1>4 DEF S

(* If the first byte starts a frame it is the first start.                 *)
LEMMA FirstStart ==
  ASSUME NEW n \in Nat, NEW S, S \subseteq 1..n, 1 \in S
  PROVE  Nth(S, 1) = 1 /\ 1 \in 1..Cardinality(S)
<1>1. {j \in S : j <= 1} = {1}
  <2>1. \A j \in S : j <= 1 <=> j = 1  OBVIOUS
  <2> QED  BY <2>1
<1>2. Rank(S, 1) = 1
  <2>1. Cardinality({1}) = 1  BY FS_Singleton
  <2> QED  BY <1>1, <2>1 DEF Rank
<1>3. Rank(S, 1) \in 1..Cardinality(S)  BY RankTyped
<1> QED  BY <1>2, <1>3, RankNth

(* Bytes that start with a frame, or none, leave the frames before them as *)
(* they are.                                                               *)
LEMMA PiecesJoined ==
  ASSUME NEW b \in Seq(Byte), NEW c \in Seq(Byte), c # <<>> => c[1] = BEG
  PROVE  LET s == Cardinality(Starts(b))
             t == Cardinality(Starts(c))
         IN  /\ b \o c \in Seq(Byte) /\ s \in Nat /\ t \in Nat
             /\ Cardinality(Starts(b \o c)) = s + t
             /\ \A k \in 1..s : Piece(b \o c, k) = Piece(b, k)
             /\ \A k \in 1..t : Piece(b \o c, s + k) = Piece(c, k)
<1> DEFINE d == b \o c
           m == Len(b)
           S == Starts(b)
           T == Starts(c)
           U == Starts(d)
           s == Cardinality(S)
           t == Cardinality(T)
<1>1. /\ d \in Seq(Byte) /\ Len(d) = m + Len(c)
      /\ \A i \in 1..(m + Len(c)) : d[i] = IF i <= m THEN b[i] ELSE c[i - m]
  BY ConcatProperties
<1>2. /\ m \in Nat /\ DOMAIN b = 1..m
      /\ Len(c) \in Nat /\ DOMAIN c = 1..Len(c) /\ DOMAIN d = 1..(m + Len(c))
  BY <1>1, LenProperties
<1>3. S \subseteq 1..m /\ s \in Nat /\ T \subseteq 1..Len(c) /\ t \in Nat
  BY StartsTyped
<1> HIDE DEF d, m
<1>4. Joins(U, m, S, Len(c), T)
  <2>1. \A i \in 1..m : i \in 1..(m + Len(c)) /\ d[i] = b[i]  BY <1>1, <1>2
  <2>2. \A i \in 1..Len(c) : m + i \in 1..(m + Len(c)) /\ d[m + i] = c[i]
    <3>1. \A i \in 1..Len(c) : m + i \in 1..(m + Len(c)) /\ ~(m + i <= m) /\ (m + i) - m = i
      BY <1>2
    <3> QED  BY <1>1, <3>1
  <2>3. U \subseteq 1..(m + Len(c))  BY <1>2 DEF Starts
  <2>4. /\ \A i \in 1..m : i \in U <=> i \in S
        /\ \A i \in 1..Len(c) : m + i \in U <=> i \in T
    BY <1>2, <2>1, <2>2 DEF Starts
  <2> HIDE DEF U, S, T, s, t
  <2> QED  BY <1>2, <1>3, <2>3, <2>4 DEF Joins
<1> HIDE DEF S, T, s, t
<1>5. /\ Cardinality(U) = s + t
      /\ \A k \in 1..s : Nth(U, k) = Nth(S, k)
      /\ \A k \in 1..t : Nth(U, s + k) = m + Nth(T, k)
  <2> HIDE DEF U
  <2> QED  BY <1>4, NthJoined DEF s, t
<1>6. \A k \in 1..s : Nth(S, k) \in S /\ Nth(S, k) \in 1..m
  BY <1>2, <1>3, NthExists DEF s
<1>7. \A k \in 1..t : Nth(T, k) \in T /\ Nth(T, k) \in 1..Len(c)
  BY <1>2, <1>3, NthExists DEF t
<1>8. c # <<>> => 1 \in 1..t /\ Nth(T, 1) = 1
  <2> SUFFICES ASSUME c # <<>> PROVE 1 \in 1..t /\ Nth(T, 1) = 1  OBVIOUS
  <2>1. Len(c) # 0  BY EmptySeq
  <2>2. 1 \in T  BY <1>2, <2>1 DEF T, Starts
  <2> QED  BY <1>2, <1>3, <2>2, FirstStart DEF t
<1>9. ASSUME NEW k \in 1..s
      PROVE  LastOf(d, k) = LastOf(b, k) /\ LastOf(b, k) \in 1..m
  <2>1. CASE k < s
    <3>1. k < s + t /\ k + 1 \in 1..s  BY <1>3, <2>1
    <3>2. LastOf(d, k) = Nth(U, k + 1) - 1  BY <1>5, <3>1 DEF LastOf, U
    <3>3. LastOf(b, k) = Nth(S, k + 1) - 1  BY <2>1 DEF LastOf, S, s
    <3>4. Nth(S, k) < Nth(S, k + 1)
      <4>1. /\ k \in 1..Cardinality(S) /\ k + 1 \in 1..Cardinality(S) /\ k < k + 1
        BY <3>1 DEF s
      <4> QED  BY <1>2, <1>3, <4>1, NthIncreases
    <3>5. Nth(S, k + 1) \in 1..m /\ Nth(S, k) \in 1..m  BY <1>6, <3>1
    <3> HIDE DEF U
    <3> QED  BY <1>2, <1>5, <3>1, <3>2, <3>3, <3>4, <3>5
  <2>2. CASE k = s
    <3>1. LastOf(b, k) = m  BY <1>3, <2>2 DEF LastOf, S, s, m
    <3>2. m >= 1  BY <1>2, <1>6
    <3>3. CASE c # <<>>
      <4>1. k < s + t /\ k + 1 = s + 1  BY <1>3, <1>8, <2>2, <3>3
      <4>2. LastOf(d, k) = Nth(U, k + 1) - 1  BY <1>5, <4>1 DEF LastOf, U
      <4>3. Nth(U, s + 1) = m + 1  BY <1>5, <1>8, <3>3
      <4> HIDE DEF U
      <4> QED  BY <1>2, <3>1, <3>2, <4>1, <4>2, <4>3
    <3>4. CASE c = <<>>
      <4>1. t = 0
        <5>1. T = {}  BY <1>3, <3>4
        <5> QED  BY <5>1, FS_EmptySet DEF t
      <4>2. LastOf(d, k) = Len(d)  BY <1>3, <1>5, <2>2, <4>1 DEF LastOf, U
      <4>3. Len(d) = m  BY <1>1, <1>2, <3>4
      <4> QED  BY <1>2, <3>1, <3>2, <4>2, <4>3
    <3> QED  BY <3>3, <3>4
  <2> QED  BY <1>3, <2>1, <2>2
<1>10. ASSUME NEW k \in 1..t
       PROVE  LastOf(d, s + k) = m + LastOf(c, k) /\ LastOf(c, k) \in 1..Len(c)
  <2>1. CASE k < t
    <3>1. s + k < s + t /\ k + 1 \in 1..t /\ (s + k) + 1 = s + (k + 1)  BY <1>3, <2>1
    <3>2. LastOf(d, s + k) = Nth(U, (s + k) + 1) - 1  BY <1>5, <3>1 DEF LastOf, U
    <3>3. LastOf(c, k) = Nth(T, k + 1) - 1  BY <2>1 DEF LastOf, T, t
    <3>4. Nth(T, k) < Nth(T, k + 1)
      <4>1. /\ k \in 1..Cardinality(T) /\ k + 1 \in 1..Cardinality(T) /\ k < k + 1
        BY <3>1 DEF t
      <4> QED  BY <1>2, <1>3, <4>1, NthIncreases
    <3>5. Nth(T, k + 1) \in 1..Len(c) /\ Nth(T, k) \in 1..Len(c)  BY <1>7, <3>1
    <3>6. Nth(U, (s + k) + 1) = m + Nth(T, k + 1)  BY <1>5, <3>1
    <3> HIDE DEF U
    <3> QED  BY <1>2, <3>2, <3>3, <3>4, <3>5, <3>6
  <2>2. CASE k = t
    <3>1. LastOf(c, k) = Len(c)  BY <1>3, <2>2 DEF LastOf, T, t
    <3>2. LastOf(d, s + k) = Len(d)  BY <1>3, <1>5, <2>2 DEF LastOf, U
    <3>3. Len(c) >= 1  BY <1>2, <1>7
    <3> QED  BY <1>1, <1>2, <3>1, <3>2, <3>3
  <2> QED  BY <1>3, <2>1, <2>2
<1>11. ASSUME NEW k \in 1..s PROVE Piece(d, k) = Piece(b, k)
  <2>1. Nth(S, k) \in 1..m /\ LastOf(b, k) \in 1..m  BY <1>6, <1>9
  <2>2. SubSeq(d, Nth(S, k), LastOf(b, k)) = SubSeq(b, Nth(S, k), LastOf(b, k))
    BY <2>1, SubSeqOfConcat1 DEF d, m
  <2> QED  BY <1>5, <1>9, <2>2 DEF Piece, S, U
<1>12. ASSUME NEW k \in 1..t PROVE Piece(d, s + k) = Piece(c, k)
  <2> DEFINE a == Nth(T, k)
             z == LastOf(c, k)
  <2>1. a \in 1..Len(c) /\ z \in 1..Len(c)  BY <1>7, <1>10
  <2>2. Nth(U, s + k) = m + a /\ LastOf(d, s + k) = m + z  BY <1>5, <1>10
  <2> HIDE DEF a, z
  <2>3. /\ m + a \in (m + 1)..(m + Len(c)) /\ m + z \in (m + 1)..(m + Len(c))
        /\ (m + a) - m = a /\ (m + z) - m = z
    BY <1>2, <2>1
  <2>4. SubSeq(d, m + a, m + z) = SubSeq(c, a, z)
    <3>1. SubSeq(b \o c, m + a, m + z) = SubSeq(c, (m + a) - m, (m + z) - m)
      <4>1. \A i, j \in (Len(b) + 1)..(Len(b) + Len(c)) :
              SubSeq(b \o c, i, j) = SubSeq(c, i - Len(b), j - Len(b))
        BY SubSeqOfConcat2
      <4> QED  BY <2>3, <4>1 DEF m
    <3> QED  BY <2>3, <3>1 DEF d
  <2> QED  BY <2>2, <2>4 DEF Piece, U, a, z, T
<1> QED  BY <1>1, <1>3, <1>5, <1>11, <1>12 DEF d, U, s, t, S, T

LEMMA FramesJoined ==
  ASSUME NEW b \in Seq(Byte), NEW c \in Seq(Byte), c # <<>> => c[1] = BEG
  PROVE  FramesIn(b \o c) = FramesIn(b) \o FramesIn(c)
<1> DEFINE d == b \o c
           s == Cardinality(Starts(b))
           t == Cardinality(Starts(c))
<1>1. /\ d \in Seq(Byte) /\ s \in Nat /\ t \in Nat
      /\ Cardinality(Starts(d)) = s + t
      /\ \A k \in 1..s : Piece(d, k) = Piece(b, k)
      /\ \A k \in 1..t : Piece(d, s + k) = Piece(c, k)
  BY PiecesJoined
<1> HIDE DEF d
<1>2. /\ FramesIn(b) = [k \in 1..s |-> FrameOf(Piece(b, k))]
       /\ FramesIn(c) = [k \in 1..t |-> FrameOf(Piece(c, k))]
       /\ FramesIn(d) = [k \in 1..(s + t) |-> FrameOf(Piece(d, k))]
  BY <1>1, FramesInProperties
<1> HIDE DEF s, t
<1> DEFINE F == {FrameOf(Piece(b, k)) : k \in 1..s} \cup {FrameOf(Piece(c, k)) : k \in 1..t}
<1>3. FramesIn(b) \in Seq(F) /\ FramesIn(c) \in Seq(F)
       /\ Len(FramesIn(b)) = s /\ Len(FramesIn(c)) = t
  <2>1. /\ \A k \in 1..s : FrameOf(Piece(b, k)) \in F
        /\ \A k \in 1..t : FrameOf(Piece(c, k)) \in F
    OBVIOUS
  <2> HIDE DEF F
  <2>2. [k \in 1..s |-> FrameOf(Piece(b, k))] \in Seq(F)  BY <1>1, <2>1
  <2>3. [k \in 1..t |-> FrameOf(Piece(c, k))] \in Seq(F)  BY <1>1, <2>1
  <2> QED  BY <1>1, <1>2, <2>2, <2>3
<1>4. /\ FramesIn(b) \o FramesIn(c) \in Seq(F) /\ Len(FramesIn(b) \o FramesIn(c)) = s + t
       /\ \A k \in 1..(s + t) : (FramesIn(b) \o FramesIn(c))[k] =
            IF k <= s THEN FramesIn(b)[k] ELSE FramesIn(c)[k - s]
  BY <1>3, ConcatProperties, ZenonT(40)
<1>5. ASSUME NEW k \in 1..(s + t)
       PROVE  FrameOf(Piece(d, k)) = IF k <= s THEN FramesIn(b)[k] ELSE FramesIn(c)[k - s]
  <2>1. CASE k <= s
    <3>1. k \in 1..s  BY <1>1, <2>1
    <3> QED  BY <1>1, <1>2, <2>1, <3>1
  <2>2. CASE ~(k <= s)
    <3>1. k - s \in 1..t /\ s + (k - s) = k  BY <1>1, <2>2
    <3> QED  BY <1>1, <1>2, <2>2, <3>1
  <2> QED  BY <2>1, <2>2
<1> HIDE DEF F
<1>6. FramesIn(d) \in Seq(F) /\ Len(FramesIn(d)) = s + t
  <2>1. \A k \in 1..(s + t) : FramesIn(d)[k] = (FramesIn(b) \o FramesIn(c))[k]
    BY <1>2, <1>4, <1>5
  <2>2. \A k \in 1..(s + t) : FramesIn(d)[k] \in F
    BY <1>4, <2>1, ElementOfSeq
  <2> QED  BY <1>1, <1>2, <2>2
<1> QED
  <2>1. \A k \in 1..(s + t) : FramesIn(d)[k] = (FramesIn(b) \o FramesIn(c))[k]
    BY <1>2, <1>4, <1>5
  <2> QED  BY <1>4, <1>6, <2>1, SeqEqual DEF d

-----------------------------------------------------------------------------
(* What becomes of the bytes PROTO_AddRb puts.                             *)

LEMMA FramedStarts ==
  ASSUME NEW packet \in Seq(Byte)
  PROVE  /\ Starts(PROTO_AddRb(packet)) = {1}
         /\ Ends(PROTO_AddRb(packet)) = {Len(PROTO_AddRb(packet))}
<1> DEFINE bytes == PROTO_AddRb(packet)
<1>1. /\ bytes \in Seq(Byte) /\ Len(bytes) >= 2
      /\ \A k \in 1..Len(bytes) : bytes[k] = BEG <=> k = 1
      /\ \A k \in 1..Len(bytes) : bytes[k] = END <=> k = Len(bytes)
  BY FramedProperties
<1> HIDE DEF bytes
<1>2. Len(bytes) \in Nat /\ DOMAIN bytes = 1..Len(bytes)  BY <1>1, LenProperties
<1>3. 1 \in 1..Len(bytes) /\ Len(bytes) \in 1..Len(bytes)
  <2>1. \A n \in Nat : n >= 2 => 1 \in 1..n /\ n \in 1..n  OBVIOUS
  <2> QED  BY <1>1, <1>2, <2>1
<1>4. Starts(bytes) = {1}  BY <1>1, <1>2, <1>3 DEF Starts
<1>5. Ends(bytes) = {Len(bytes)}  BY <1>1, <1>2, <1>3 DEF Ends
<1> QED  BY <1>4, <1>5 DEF bytes

(* PROTO_ParseRb gets out what PROTO_AddRb put in.                         *)
LEMMA ParseFramed ==
  ASSUME NEW packet \in Seq(Byte), Len(packet) <= MaxLen
  PROVE  PROTO_ParseRb(TRUE, PROTO_AddRb(packet)) = packet
<1> DEFINE bytes == PROTO_AddRb(packet)
           n == Len(packet)
           f == [i \in 1..n |-> Goes(packet, i)]
           C == Counted(TRUE, bytes)
           at == Ordered(C)
           byte(k) == IF at[k] > 1 /\ bytes[at[k] - 1] = ESC
                      THEN Flip(bytes[at[k]]) ELSE bytes[at[k]]
<1>1. /\ bytes \in Seq(Byte) /\ Len(bytes) >= 2
      /\ \A k \in 1..Len(bytes) : bytes[k] \notin Special <=> Here(packet, k) # {}
      /\ \A i \in DOMAIN packet :
           /\ Goes(packet, i) \in 2..(Len(bytes) - 1)
           /\ bytes[Goes(packet, i)] = Coded(packet, i)
           /\ bytes[Goes(packet, i) - 1] = ESC <=> packet[i] \in Special
  BY FramedProperties
<1>2. n \in Nat /\ DOMAIN packet = 1..n  BY LenProperties
<1>3. Starts(bytes) = {1}  BY FramedStarts
<1> HIDE DEF bytes, n
<1>4. Len(bytes) \in Nat /\ DOMAIN bytes = 1..Len(bytes)  BY <1>1, LenProperties
<1>5. f \in [1..n -> 1..Len(bytes)]
  <2>1. \A m \in Nat : 2..(m - 1) \subseteq 1..m  OBVIOUS
  <2>2. \A i \in 1..n : Goes(packet, i) \in 1..Len(bytes)  BY <1>1, <1>2, <1>4, <2>1
  <2> QED  BY <2>2
<1>6. \A i, j \in 1..n : i < j => f[i] < f[j]
  <2> SUFFICES ASSUME NEW i \in 1..n, NEW j \in 1..n, i < j PROVE f[i] < f[j]  OBVIOUS
  <2>1. i \in Nat /\ j \in Nat  BY <1>2
  <2>2. Goes(packet, i) < Goes(packet, j)  BY <2>1, GoesProperties
  <2> QED  BY <2>2
<1>7. C = {f[i] : i \in 1..n}
  <2>1. ASSUME NEW k \in C PROVE \E i \in 1..n : f[i] = k
    <3>1. k \in 1..Len(bytes) /\ bytes[k] \notin Special
      BY <1>4 DEF Counted, Special
    <3>2. PICK i \in 1..n : Goes(packet, i) = k  BY <1>1, <1>2, <3>1 DEF Here
    <3> QED  BY <3>2
  <2>2. ASSUME NEW i \in 1..n PROVE f[i] \in C
    <3>1. Goes(packet, i) \in 2..(Len(bytes) - 1) /\ i \in Here(packet, Goes(packet, i))
      BY <1>1, <1>2 DEF Here
    <3>2. Goes(packet, i) \in 1..Len(bytes) /\ 1 < Goes(packet, i)  BY <1>4, <3>1
    <3>3. bytes[Goes(packet, i)] \notin Special  BY <1>1, <3>1, <3>2
    <3> QED  BY <1>3, <1>4, <3>2, <3>3 DEF Counted, Special
  <2> HIDE DEF C, f
  <2> QED  BY <2>1, <2>2
<1>8. Cardinality(C) = n /\ \A k \in 1..n : Nth(C, k) = f[k]
  <2> DEFINE V == {f[i] : i \in 1..n}
  <2>1. Cardinality(V) = n /\ \A k \in 1..n : Nth(V, k) = f[k]
    <3> HIDE DEF f
    <3> QED  BY <1>2, <1>4, <1>5, <1>6, NthOfFunction
  <2>2. C = V  BY <1>7
  <2> HIDE DEF V, f, C
  <2> QED  BY <2>1, <2>2
<1>9. Len(at) = n /\ \A k \in 1..n : at[k] = Goes(packet, k)
  <2>1. C \subseteq 1..Len(bytes)  BY <1>4 DEF Counted
  <2>2. \A k \in 1..n : Nth(C, k) = Goes(packet, k)  BY <1>8
  <2> HIDE DEF C
  <2> QED  BY <1>4, <1>8, <2>1, <2>2, OrderedProperties
<1>10. PROTO_ParseRb(TRUE, bytes)
         = [k \in 1..(IF Len(at) < MaxLen THEN Len(at) ELSE MaxLen) |-> byte(k)]
  BY DEF PROTO_ParseRb
<1> HIDE DEF at, C, f
<1>11. (IF Len(at) < MaxLen THEN Len(at) ELSE MaxLen) = n
  <2>1. n <= MaxLen /\ MaxLen \in Nat  BY RingAssumption DEF n
  <2> QED  BY <1>2, <1>9, <2>1
<1>12. ASSUME NEW k \in 1..n PROVE byte(k) = packet[k]
  <2>1. at[k] = Goes(packet, k) /\ at[k] > 1
    <3>1. Goes(packet, k) \in 2..(Len(bytes) - 1)  BY <1>1, <1>2
    <3>2. Goes(packet, k) > 1  BY <1>4, <3>1
    <3> QED  BY <1>9, <3>2
  <2>2. /\ bytes[at[k]] = Coded(packet, k)
        /\ bytes[at[k] - 1] = ESC <=> packet[k] \in Special
    BY <1>1, <1>2, <2>1
  <2>3. packet[k] \in Special => Flip(Coded(packet, k)) = packet[k]  BY <1>2, CodedTyped
  <2> QED  BY <2>1, <2>2, <2>3 DEF Coded
<1> HIDE DEF byte
<1>13. packet = [k \in 1..n |-> packet[k]]  BY <1>2, SeqDef, LenProperties
<1> QED  BY <1>10, <1>11, <1>12, <1>13 DEF bytes

LEMMA NoFrames == FramesIn(<<>>) = <<>>
<1>1. <<>> \in Seq(Byte) /\ Len(<<>>) = 0 /\ Starts(<<>>) = {}
  BY EmptySeq DEF Starts
<1>2. Cardinality(Starts(<<>>)) = 0  BY <1>1, FS_EmptySet
<1>3. FramesIn(<<>>) = [k \in 1..0 |-> FrameOf(Piece(<<>>, k))]
  BY <1>1, <1>2, FramesInProperties
<1> QED  BY <1>3

(* Bytes that start a frame and no other.                                  *)
LEMMA OneFrame ==
  ASSUME NEW bytes \in Seq(Byte), Starts(bytes) = {1}
  PROVE  FramesIn(bytes) = <<FrameOf(bytes)>>
<1> DEFINE len == Len(bytes)
<1>1. Cardinality(Starts(bytes)) = 1  BY FS_Singleton
<1>2. len \in Nat /\ Starts(bytes) \subseteq 1..len  BY StartsTyped
<1> HIDE DEF len
<1>3. Nth(Starts(bytes), 1) = 1  BY <1>2, FirstStart
<1>4. LastOf(bytes, 1) = len  BY <1>1 DEF LastOf, len
<1>5. SubSeq(bytes, 1, len) = bytes
  <2>1. 1 \in 1..len  BY <1>2
  <2> QED  BY <1>2, <2>1, SubSeqFull DEF len
<1>6. Piece(bytes, 1) = bytes  BY <1>3, <1>4, <1>5 DEF Piece
<1>7. FramesIn(bytes) = [k \in 1..1 |-> FrameOf(Piece(bytes, k))]
  BY <1>1, FramesInProperties
<1>8. \A k \in 1..1 : k = 1  OBVIOUS
<1>9. FramesIn(bytes) = [k \in 1..1 |-> FrameOf(bytes)]  BY <1>6, <1>7, <1>8
<1> QED  BY <1>9

(* Where frame k lies.                                                     *)
LEMMA PieceProperties ==
  ASSUME NEW bytes \in Seq(Byte), NEW k \in 1..Cardinality(Starts(bytes))
  PROVE  LET a == Nth(Starts(bytes), k)
             z == LastOf(bytes, k)
         IN  /\ a \in 1..Len(bytes) /\ z \in a..Len(bytes) /\ bytes[a] = BEG
             /\ k < Cardinality(Starts(bytes)) => z < Len(bytes)
             /\ k = Cardinality(Starts(bytes)) =>
                  z = Len(bytes) /\ \A i \in (a + 1)..z : bytes[i] # BEG
             /\ Piece(bytes, k) \in Seq(Byte) /\ Len(Piece(bytes, k)) = z - a + 1
             /\ \A i \in 1..(z - a + 1) : Piece(bytes, k)[i] = bytes[a + i - 1]
<1> DEFINE S == Starts(bytes)
           s == Cardinality(S)
           len == Len(bytes)
           a == Nth(S, k)
           z == LastOf(bytes, k)
<1>1. len \in Nat /\ S \subseteq 1..len /\ s \in Nat  BY StartsTyped
<1>2. a \in S /\ bytes[a] = BEG
  <2>1. a \in S
    <3> HIDE DEF S, len
    <3> QED  BY <1>1, NthExists DEF S
  <2> QED  BY <2>1 DEF Starts
<1> HIDE DEF len
<1>3. a \in 1..len /\ a \in Nat /\ k \in Nat
  <2> HIDE DEF S, a
  <2> QED  BY <1>1, <1>2
<1>4. z = IF k < s THEN Nth(S, k + 1) - 1 ELSE len  BY DEF LastOf, len
<1>5. ASSUME k < s PROVE z \in a..len /\ z < len
  <2>1. k + 1 \in 1..s /\ k < k + 1  BY <1>1, <1>3, <1>5
  <2> DEFINE b == Nth(S, k + 1)
  <2>2. b \in S /\ a < b
    <3> HIDE DEF S
    <3>1. k \in 1..Cardinality(S) /\ k + 1 \in 1..Cardinality(S)  BY <2>1 DEF S
    <3> QED  BY <1>1, <2>1, <3>1, NthExists, NthIncreases
  <2>3. b \in 1..len
    <3> HIDE DEF S, b
    <3> QED  BY <1>1, <2>2
  <2>4. z = b - 1  BY <1>4, <1>5
  <2> HIDE DEF a, b, z, S, s
  <2> QED  BY <1>1, <1>3, <2>2, <2>3, <2>4
<1>6. ASSUME k = s
      PROVE  z = len /\ z \in a..len /\ \A i \in (a + 1)..z : bytes[i] # BEG
  <2>1. z = len  BY <1>1, <1>4, <1>6
  <2>2. ASSUME NEW i \in (a + 1)..len, bytes[i] = BEG PROVE FALSE
    <3>1. i \in 1..len /\ a < i  BY <1>1, <1>3
    <3>2. i \in S  BY <2>2, <3>1, LenProperties DEF Starts, len
    <3> DEFINE r == Rank(S, i)
    <3>3. r \in 1..s /\ Nth(S, r) = i
      <4> HIDE DEF S
      <4> QED  BY <1>1, <3>2, RankTyped, RankNth
    <3>4. r < s => Nth(S, r) < Nth(S, k)
      <4> HIDE DEF S, r
      <4>1. k \in 1..Cardinality(S) /\ r \in 1..Cardinality(S)  BY <3>3 DEF S
      <4> QED  BY <1>1, <1>6, <4>1, NthIncreases
    <3> HIDE DEF r, S, s
    <3>5. r = s \/ r < s  BY <1>1, <3>3
    <3>6. i < a \/ i = a  BY <1>6, <3>3, <3>4, <3>5
    <3> QED  BY <1>3, <3>1, <3>6
  <2> HIDE DEF a, z, S, s
  <2> QED  BY <1>1, <1>3, <2>1, <2>2
<1>7. z \in a..len
  <2>1. k < s \/ k = s  BY <1>1, <1>3
  <2> QED  BY <1>5, <1>6, <2>1
<1> HIDE DEF a, z
<1>8. /\ Piece(bytes, k) \in Seq(Byte) /\ Len(Piece(bytes, k)) = z - a + 1
      /\ \A i \in 1..(z - a + 1) : Piece(bytes, k)[i] = bytes[a + i - 1]
  <2>1. a \in 1..(Len(bytes) + 1) /\ z \in (a - 1)..Len(bytes) /\ a <= z
    BY <1>1, <1>3, <1>7 DEF len
  <2>2. /\ SubSeq(bytes, a, z) \in Seq(Byte)
        /\ Len(SubSeq(bytes, a, z)) = IF a <= z THEN z - a + 1 ELSE 0
        /\ \A i \in 1..(z - a + 1) : SubSeq(bytes, a, z)[i] = bytes[a + i - 1]
    BY <2>1, SubSeqProperties
  <2> QED  BY <2>1, <2>2 DEF Piece, a, z, S
<1> QED  BY <1>2, <1>3, <1>5, <1>6, <1>7, <1>8 DEF a, z, S, s, len

LEMMA CutFrame ==
  ASSUME NEW piece, piece[Len(piece)] # END
  PROVE  FrameOf(piece) = Lossy!Remains
BY DEF FrameOf, Frames!CUT, Frames!Packet, Lossy!Remains

(* A packet that was put whole is one frame, one that was cut, if anything *)
(* of it was put, the remains of one.                                      *)
LEMMA FramedFrames ==
  ASSUME NEW packet \in Seq(Byte), Len(packet) <= MaxLen
  PROVE  FramesIn(PROTO_AddRb(packet)) = <<Lossy!Stored(packet)>>
<1> DEFINE bytes == PROTO_AddRb(packet)
<1>1. bytes \in Seq(Byte)  BY FramedProperties
<1>2. Starts(bytes) = {1} /\ Len(bytes) \in Ends(bytes)  BY FramedStarts
<1>3. PROTO_ParseRb(TRUE, bytes) = packet  BY ParseFramed
<1> HIDE DEF bytes
<1>4. bytes[Len(bytes)] = END  BY <1>2 DEF Ends
<1>5. FrameOf(bytes) = Lossy!Stored(packet)
  BY <1>3, <1>4 DEF FrameOf, Frames!Publication, Lossy!Stored
<1> QED  BY <1>1, <1>2, <1>5, OneFrame DEF bytes

LEMMA PrefixFrames ==
  ASSUME NEW packet \in Seq(Byte), NEW m \in Nat, m < Len(PROTO_AddRb(packet))
  PROVE  FramesIn(SubSeq(PROTO_AddRb(packet), 1, m))
           = IF m = 0 THEN <<>> ELSE <<Lossy!Remains>>
<1> DEFINE bytes == PROTO_AddRb(packet)
           part == SubSeq(bytes, 1, m)
<1>1. /\ bytes \in Seq(Byte)
      /\ \A k \in 1..Len(bytes) : bytes[k] = BEG <=> k = 1
      /\ \A k \in 1..Len(bytes) : bytes[k] = END <=> k = Len(bytes)
  BY FramedProperties
<1>2. m < Len(bytes)  OBVIOUS
<1> HIDE DEF bytes
<1>3. Len(bytes) \in Nat  BY <1>1, LenProperties
<1>4. \A i \in 1..m : i \in 1..Len(bytes) /\ i # Len(bytes)  BY <1>2, <1>3
<1>5. CASE m = 0
  <2>1. part = <<>>  BY <1>5, SubSeqEmpty
  <2> QED  BY <1>5, <2>1, NoFrames DEF bytes
<1>6. CASE m # 0
  <2>1. \A i \in 1..m : bytes[i] \in Byte  BY <1>1, <1>4, ElementOfSeq
  <2>2. /\ part \in Seq(Byte) /\ Len(part) = IF 1 <= m THEN m - 1 + 1 ELSE 0
        /\ \A i \in 1..(m - 1 + 1) : part[i] = bytes[1 + i - 1]
    <3>1. 1 \in Int /\ m \in Int  OBVIOUS
    <3> QED  BY <2>1, <3>1, SubSeqProperties
  <2> HIDE DEF part
  <2>3. Len(part) = m /\ 1 \in 1..m /\ m \in 1..m  BY <1>6, <2>2
  <2>4. \A i \in 1..m : part[i] = bytes[i]
    <3>1. \A i \in 1..m : i \in 1..(m - 1 + 1) /\ 1 + i - 1 = i  OBVIOUS
    <3> QED  BY <2>2, <3>1
  <2>5. DOMAIN part = 1..m  BY <2>2, <2>3, LenProperties
  <2>6. Starts(part) = {1}
    <3>1. \A i \in 1..m : part[i] = BEG <=> i = 1  BY <1>1, <1>4, <2>4
    <3> QED  BY <2>3, <2>5, <3>1 DEF Starts
  <2>7. part[Len(part)] # END  BY <1>1, <1>4, <2>3, <2>4
  <2>8. FramesIn(part) = <<Lossy!Remains>>
    BY <2>2, <2>6, <2>7, OneFrame, CutFrame
  <2> QED  BY <1>6, <2>8 DEF part, bytes
<1> QED  BY <1>5, <1>6

(* Whatever lies before it and whatever isBegin was, the bytes are parsed  *)
(* from the last start of a frame.                                         *)
LEMMA ParseLast ==
  ASSUME NEW bytes \in Seq(Byte), NEW s, s = Cardinality(Starts(bytes)), s >= 1,
         NEW isBegin \in BOOLEAN
  PROVE  PROTO_ParseRb(isBegin, bytes) = PROTO_ParseRb(TRUE, Piece(bytes, s))
<1> DEFINE piece == Piece(bytes, s)
           a == Nth(Starts(bytes), s)
           z == LastOf(bytes, s)
           m == a - 1
           n == z - a + 1
           len == Len(bytes)
           U == Counted(isBegin, bytes)
           T == Counted(TRUE, piece)
<1>1. s \in Nat /\ len \in Nat /\ DOMAIN bytes = 1..len  BY StartsTyped, LenProperties
<1>2. s \in 1..Cardinality(Starts(bytes))  BY <1>1
<1>3. /\ a \in 1..len /\ z \in a..len /\ bytes[a] = BEG
      /\ z = len /\ \A i \in (a + 1)..z : bytes[i] # BEG
      /\ piece \in Seq(Byte) /\ Len(piece) = z - a + 1
      /\ \A i \in 1..(z - a + 1) : piece[i] = bytes[a + i - 1]
  BY <1>2, PieceProperties
<1> HIDE DEF len, piece, a, z
<1>4. /\ m \in Nat /\ n \in Nat /\ len = m + n /\ a = m + 1 /\ n >= 1
      /\ DOMAIN piece = 1..n
  BY <1>1, <1>3, LenProperties, SMTT(30)
<1>5. \A i \in 1..n : piece[i] = bytes[m + i]
  <2>1. \A i \in 1..n : i \in 1..(z - a + 1) /\ a + i - 1 = m + i
    BY <1>4
  <2> QED  BY <1>3, <2>1
<1>6. \A i \in (m + 2)..(m + n) : bytes[i] # BEG
  <2>1. (m + 2)..(m + n) = (a + 1)..z  BY <1>3, <1>4
  <2> QED  BY <1>3, <2>1
<1>7. Starts(bytes) \subseteq 1..(m + 1) /\ m + 1 \in Starts(bytes)
  <2>1. ASSUME NEW i \in 1..len, bytes[i] = BEG PROVE i \in 1..(m + 1)
    <3>1. i \notin (m + 2)..(m + n)  BY <1>6, <2>1
    <3> QED  BY <1>4, <3>1
  <2>2. m + 1 \in 1..len /\ bytes[m + 1] = BEG  BY <1>3, <1>4
  <2> QED  BY <1>1, <2>1, <2>2 DEF Starts
<1>8. Starts(piece) = {1}
  <2>1. 1 \in 1..n /\ piece[1] = BEG  BY <1>3, <1>4, <1>5
  <2>2. ASSUME NEW i \in 1..n, i # 1 PROVE piece[i] # BEG
    <3>1. m + i \in (m + 2)..(m + n)  BY <1>4, <2>2
    <3> QED  BY <1>5, <1>6, <3>1
  <2> QED  BY <1>4, <2>1, <2>2 DEF Starts
<1> HIDE DEF m, n
<1>9. Joins(U, m, {}, n, T)
  <2>1. U \subseteq 1..(m + n) /\ T \subseteq 1..n  BY <1>1, <1>4 DEF Counted
  <2>2. ASSUME NEW i \in 1..m PROVE i \notin U
    <3>1. ~(m + 1 < i)  BY <1>4
    <3> QED  BY <1>7, <3>1 DEF Counted
  <2>3. ASSUME NEW i \in 1..n PROVE m + i \in U <=> i \in T
    <3>1. m + i \in 1..len  BY <1>4
    <3>2. piece[i] = bytes[m + i]  BY <1>5
    <3>3. (\A j \in Starts(bytes) : j < m + i) <=> 1 < i
      <4>1. m + 1 < m + i <=> 1 < i  BY <1>4
      <4>2. 1 < i => \A j \in 1..(m + 1) : j < m + i  BY <1>4
      <4> QED  BY <1>7, <4>1, <4>2
    <3>4. (\A j \in Starts(piece) : j < i) <=> 1 < i  BY <1>8
    <3>5. m + i \in U <=> (bytes[m + i] \notin {ESC, BEG, END} /\ 1 < i)
      BY <1>1, <1>7, <3>1, <3>3 DEF Counted
    <3>6. i \in T <=> (piece[i] \notin {ESC, BEG, END} /\ 1 < i)
      BY <1>4, <3>4 DEF Counted
    <3> QED  BY <3>2, <3>5, <3>6
  <2> HIDE DEF U, T
  <2> QED  BY <1>4, <2>1, <2>2, <2>3 DEF Joins
<1>10. T \subseteq 2..n
  <2>1. \A i \in T : i \in 1..n /\ 1 < i  BY <1>4, <1>8 DEF Counted
  <2> HIDE DEF T
  <2> QED  BY <1>4, <2>1
<1> HIDE DEF U, T
<1>11. /\ U \subseteq 1..(m + n) /\ T \subseteq 1..n /\ m + n \in Nat
  BY <1>4, <1>9 DEF Joins
<1>12. /\ Cardinality(T) \in Nat /\ Cardinality(U) = Cardinality(T)
       /\ \A k \in 1..Cardinality(T) : Nth(U, k) = m + Nth(T, k)
  <2>1. Cardinality({}) = 0  BY FS_EmptySet
  <2>2. /\ Cardinality(U) = Cardinality({}) + Cardinality(T)
        /\ \A k \in 1..Cardinality(T) : Nth(U, Cardinality({}) + k) = m + Nth(T, k)
    BY <1>9, NthJoined
  <2>3. Cardinality(T) \in Nat  BY <1>4, <1>11, IndexSetFinite
  <2> QED  BY <2>1, <2>2, <2>3
<1> DEFINE at == Ordered(U)
           bt == Ordered(T)
           byteU(k) == IF at[k] > 1 /\ bytes[at[k] - 1] = ESC
                       THEN Flip(bytes[at[k]]) ELSE bytes[at[k]]
           byteT(k) == IF bt[k] > 1 /\ piece[bt[k] - 1] = ESC
                       THEN Flip(piece[bt[k]]) ELSE piece[bt[k]]
<1>13. /\ Len(at) = Len(bt) /\ Len(bt) \in Nat
       /\ \A k \in 1..Len(bt) : at[k] = m + bt[k] /\ bt[k] \in T
  <2>1. /\ Len(at) = Cardinality(U)
        /\ \A k \in 1..Cardinality(U) : at[k] = Nth(U, k)
    <3> HIDE DEF at
    <3> QED  BY <1>11, OrderedProperties DEF at
  <2>2. /\ Len(bt) = Cardinality(T)
        /\ \A k \in 1..Cardinality(T) : bt[k] = Nth(T, k) /\ Nth(T, k) \in T
    <3> HIDE DEF bt
    <3> QED  BY <1>4, <1>11, OrderedProperties DEF bt
  <2> HIDE DEF at, bt
  <2> QED  BY <1>12, <2>1, <2>2
<1>14. /\ PROTO_ParseRb(isBegin, bytes)
            = [k \in 1..(IF Len(at) < MaxLen THEN Len(at) ELSE MaxLen) |-> byteU(k)]
       /\ PROTO_ParseRb(TRUE, piece)
            = [k \in 1..(IF Len(bt) < MaxLen THEN Len(bt) ELSE MaxLen) |-> byteT(k)]
  BY DEF PROTO_ParseRb, U, T
<1> HIDE DEF at, bt
<1>15. ASSUME NEW k \in 1..Len(bt) PROVE byteU(k) = byteT(k)
  <2>1. at[k] = m + bt[k] /\ bt[k] \in 2..n  BY <1>10, <1>13
  <2>2. at[k] > 1 /\ bt[k] > 1 /\ at[k] - 1 = m + (bt[k] - 1)
        /\ bt[k] \in 1..n /\ bt[k] - 1 \in 1..n
    BY <1>4, <2>1
  <2>3. piece[bt[k]] = bytes[at[k]] /\ piece[bt[k] - 1] = bytes[at[k] - 1]
    BY <1>5, <2>1, <2>2
  <2> QED  BY <2>2, <2>3
<1>16. 1..(IF Len(bt) < MaxLen THEN Len(bt) ELSE MaxLen) \subseteq 1..Len(bt)
  <2>1. MaxLen \in Nat  BY RingAssumption
  <2> QED  BY <1>13, <2>1
<1> HIDE DEF byteU, byteT
<1> QED  BY <1>13, <1>14, <1>15, <1>16 DEF piece

-----------------------------------------------------------------------------
(* The queue's steps as steps of LossyQueue.                               *)

LEMMA HeldTyped ==
  ASSUME NEW r \in RINGBUF
  PROVE  Held(r) \in Seq(Byte) /\ Len(Held(r)) = r.fill_cnt
<1>1. /\ r.fill_cnt \in 0..Size /\ r.fill_cnt \in Nat /\ r.p_r \in Offset
      /\ r.buf \in [Offset -> Byte]
  BY RingAssumption DEF RINGBUF
<1>2. ASSUME NEW i \in 1..r.fill_cnt PROVE r.buf[Advance(r.p_r, i - 1)] \in Byte
  <2>1. i - 1 \in 0..Size  BY <1>1, RingAssumption
  <2> QED  BY <1>1, <2>1, AdvanceTyped
<1>3. Held(r) = [i \in 1..r.fill_cnt |-> r.buf[Advance(r.p_r, i - 1)]]  BY DEF Held
<1> QED  BY <1>1, <1>2, <1>3

(* What the ring holds after a put is what it held and as much of the      *)
(* frame as there was room for.                                            *)
LEMMA HeldAfterPut ==
  ASSUME NEW r, PointersAgree(r), NEW bytes \in Seq(Byte),
         NEW n \in Nat, n <= Len(bytes), n <= Size - r.fill_cnt
  PROVE  /\ Held(RINGBUF_Put(r, bytes, n)) = Held(r) \o SubSeq(bytes, 1, n)
         /\ SubSeq(bytes, 1, n) \in Seq(Byte) /\ Len(SubSeq(bytes, 1, n)) = n
         /\ n > 0 => SubSeq(bytes, 1, n)[1] = bytes[1]
<1> DEFINE k == RINGBUF_Put(r, bytes, n)
           part == SubSeq(bytes, 1, n)
           f == r.fill_cnt
<1>1. /\ PointersAgree(k)
      /\ DOMAIN Held(k) = 1..(f + n)
      /\ \A i \in 1..f : Held(k)[i] = Held(r)[i]
      /\ \A i \in 1..n : Held(k)[f + i] = bytes[i]
  BY PutProperties
<1> HIDE DEF k
<1>2. /\ Held(r) \in Seq(Byte) /\ Len(Held(r)) = f /\ f \in Nat
      /\ Held(k) \in Seq(Byte)
  BY <1>1, HeldTyped, HeldProperties DEF PointersAgree
<1>3. Len(Held(k)) = f + n
  <2>1. f + n \in Nat  BY <1>2
  <2> QED  BY <1>1, <1>2, <2>1, LenProperties
<1>4. part \in Seq(Byte) /\ Len(part) = n /\ \A i \in 1..n : part[i] = bytes[i]
  <2>1. \A i \in 1..n : i \in 1..Len(bytes)  BY LenProperties
  <2>2. \A i \in 1..n : bytes[i] \in Byte  BY <2>1, ElementOfSeq
  <2>3. /\ part \in Seq(Byte) /\ Len(part) = IF 1 <= n THEN n - 1 + 1 ELSE 0
        /\ \A i \in 1..(n - 1 + 1) : part[i] = bytes[1 + i - 1]
    <3>1. 1 \in Int /\ n \in Int  OBVIOUS
    <3> QED  BY <2>2, <3>1, SubSeqProperties
  <2> HIDE DEF part
  <2>4. \A i \in 1..n : i \in 1..(n - 1 + 1) /\ 1 + i - 1 = i  OBVIOUS
  <2>5. Len(part) = n  BY <2>3
  <2> QED  BY <2>3, <2>4, <2>5
<1> HIDE DEF part
<1>5. /\ Held(r) \o part \in Seq(Byte) /\ Len(Held(r) \o part) = f + n
      /\ \A i \in 1..(f + n) : (Held(r) \o part)[i] =
           IF i <= f THEN Held(r)[i] ELSE part[i - f]
  <2>1. Held(r) \in Seq(Byte) /\ part \in Seq(Byte)  BY <1>2, <1>4
  <2>2. /\ Held(r) \o part \in Seq(Byte) /\ Len(Held(r) \o part) = Len(Held(r)) + Len(part)
        /\ \A i \in 1..(Len(Held(r)) + Len(part)) : (Held(r) \o part)[i] =
             IF i <= Len(Held(r)) THEN Held(r)[i] ELSE part[i - Len(Held(r))]
    BY <2>1, ConcatProperties
  <2>3. Len(Held(r)) = f /\ Len(part) = n  BY <1>2, <1>4
  <2> QED  BY <2>2, <2>3
<1>6. \A i \in 1..(f + n) : Held(k)[i] = (Held(r) \o part)[i]
  <2> SUFFICES ASSUME NEW i \in 1..(f + n) PROVE Held(k)[i] = (Held(r) \o part)[i]
    OBVIOUS
  <2>1. CASE i <= f
    <3>1. i \in 1..f  BY <1>2, <2>1
    <3> QED  BY <1>1, <1>5, <2>1, <3>1
  <2>2. CASE ~(i <= f)
    <3>1. i - f \in 1..n /\ f + (i - f) = i  BY <1>2, <2>2
    <3> QED  BY <1>1, <1>4, <1>5, <2>2, <3>1, ZenonT(40)
  <2> QED  BY <2>1, <2>2
<1>7. Held(k) = Held(r) \o part
  BY <1>2, <1>3, <1>5, <1>6, SeqEqual
<1>8. n > 0 => 1 \in 1..n  OBVIOUS
<1> QED  BY <1>4, <1>7, <1>8 DEF k, part

(* And after a get what follows the bytes that were read.                  *)
LEMMA HeldAfterGet ==
  ASSUME NEW r, PointersAgree(r), NEW n \in 0..r.fill_cnt
  PROVE  /\ Held(RINGBUF_Get(r, n)) \in Seq(Byte)
         /\ Len(Held(RINGBUF_Get(r, n))) = r.fill_cnt - n
         /\ SubSeq(Held(r), 1, n) \in Seq(Byte) /\ Len(SubSeq(Held(r), 1, n)) = n
         /\ \A i \in 1..n : SubSeq(Held(r), 1, n)[i] = Held(r)[i]
         /\ Held(r) = SubSeq(Held(r), 1, n) \o Held(RINGBUF_Get(r, n))
<1> DEFINE k == RINGBUF_Get(r, n)
           part == SubSeq(Held(r), 1, n)
           f == r.fill_cnt
<1>1. /\ PointersAgree(k)
      /\ DOMAIN Held(k) = 1..(f - n)
      /\ \A i \in 1..(f - n) : Held(k)[i] = Held(r)[n + i]
  BY GetProperties
<1> HIDE DEF k
<1>2. /\ Held(r) \in Seq(Byte) /\ Len(Held(r)) = f /\ f \in Nat
      /\ Held(k) \in Seq(Byte)
  BY <1>1, HeldTyped, HeldProperties DEF PointersAgree
<1>3. n \in Nat /\ n <= f /\ f - n \in Nat  BY <1>2
<1>4. Len(Held(k)) = f - n  BY <1>1, <1>2, <1>3, LenProperties
<1>5. part \in Seq(Byte) /\ Len(part) = n /\ \A i \in 1..n : part[i] = Held(r)[i]
  <2>1. \A i \in 1..n : i \in 1..Len(Held(r))  BY <1>2, <1>3
  <2>2. \A i \in 1..n : Held(r)[i] \in Byte  BY <1>2, <2>1, ElementOfSeq
  <2>3. /\ part \in Seq(Byte) /\ Len(part) = IF 1 <= n THEN n - 1 + 1 ELSE 0
        /\ \A i \in 1..(n - 1 + 1) : part[i] = Held(r)[1 + i - 1]
    <3>1. 1 \in Int /\ n \in Int  BY <1>3
    <3> QED  BY <2>2, <3>1, SubSeqProperties
  <2> HIDE DEF part
  <2>4. \A i \in 1..n : i \in 1..(n - 1 + 1) /\ 1 + i - 1 = i  BY <1>3
  <2>5. Len(part) = n  BY <1>3, <2>3
  <2> QED  BY <2>3, <2>4, <2>5
<1> HIDE DEF part
<1>6. /\ part \o Held(k) \in Seq(Byte) /\ Len(part \o Held(k)) = n + (f - n)
      /\ \A i \in 1..(n + (f - n)) : (part \o Held(k))[i] =
           IF i <= n THEN part[i] ELSE Held(k)[i - n]
  <2>1. part \in Seq(Byte) /\ Held(k) \in Seq(Byte)  BY <1>2, <1>5
  <2>2. /\ part \o Held(k) \in Seq(Byte) /\ Len(part \o Held(k)) = Len(part) + Len(Held(k))
        /\ \A i \in 1..(Len(part) + Len(Held(k))) : (part \o Held(k))[i] =
             IF i <= Len(part) THEN part[i] ELSE Held(k)[i - Len(part)]
    BY <2>1, ConcatProperties
  <2>3. Len(part) = n /\ Len(Held(k)) = f - n  BY <1>4, <1>5
  <2> QED  BY <2>2, <2>3
<1>7. n + (f - n) = f  BY <1>2, <1>3
<1>8. \A i \in 1..f : Held(r)[i] = (part \o Held(k))[i]
  <2> SUFFICES ASSUME NEW i \in 1..f PROVE Held(r)[i] = (part \o Held(k))[i]
    OBVIOUS
  <2>1. CASE i <= n
    <3>1. i \in 1..n  BY <1>3, <2>1
    <3> QED  BY <1>5, <1>6, <1>7, <2>1, <3>1
  <2>2. CASE ~(i <= n)
    <3>1. i - n \in 1..(f - n) /\ n + (i - n) = i  BY <1>2, <1>3, <2>2
    <3> QED  BY <1>1, <1>6, <1>7, <2>2, <3>1
  <2> QED  BY <2>1, <2>2
<1>9. Held(r) = part \o Held(k)
  BY <1>2, <1>6, <1>7, <1>8, SeqEqual
<1> QED  BY <1>2, <1>4, <1>5, <1>9 DEF k, part

LEMMA FramesTyped ==
  ASSUME NEW bytes \in Seq(Byte)
  PROVE  \E F : FramesIn(bytes) \in Seq(F)
                /\ Len(FramesIn(bytes)) = Cardinality(Starts(bytes))
<1> DEFINE s == Cardinality(Starts(bytes))
           F == {FrameOf(Piece(bytes, k)) : k \in 1..s}
<1>1. s \in Nat  BY StartsTyped
<1>2. FramesIn(bytes) = [k \in 1..s |-> FrameOf(Piece(bytes, k))]  BY FramesInProperties
<1>3. \A k \in 1..s : FrameOf(Piece(bytes, k)) \in F  OBVIOUS
<1> HIDE DEF F, s
<1>4. FramesIn(bytes) \in Seq(F) /\ Len(FramesIn(bytes)) = s  BY <1>1, <1>2, <1>3
<1> QED  BY <1>4 DEF s

(* A put adds part of a frame: all of it, or as much as there is room for. *)
Adds(bytes, part, sum, packet) ==
  /\ bytes \in Seq(Byte) /\ part \in Seq(Byte) /\ sum = bytes \o part
  /\ part # <<>> => part[1] = BEG
  /\ \/ /\ Len(part) = Len(PROTO_AddRb(packet)) /\ Len(part) <= Size - Len(bytes)
        /\ FramesIn(part) = <<Lossy!Stored(packet)>>
     \/ /\ Size - Len(bytes) < Len(PROTO_AddRb(packet)) /\ Len(part) = Size - Len(bytes)
        /\ FramesIn(part) = IF part = <<>> THEN <<>> ELSE <<Lossy!Remains>>

LEMMA PutsAdds ==
  ASSUME RInv, q = FramesIn(Held(rb)),
         NEW packet \in Payload, QUEUE_Puts(packet)
  PROVE  /\ got' = got /\ q' = FramesIn(Held(rb))'
         /\ \E part : /\ Adds(Held(rb), part, Held(rb'), packet)
                      /\ ret' = IF Len(part) = Len(PROTO_AddRb(packet))
                                THEN "stored" ELSE "full"
<1> DEFINE bytes == PROTO_AddRb(packet)
           free == Size - rb.fill_cnt
           n == IF Len(bytes) <= free THEN Len(bytes) ELSE free
           k == RINGBUF_Put(rb, bytes, n)
           part == SubSeq(bytes, 1, n)
<1>1. packet \in Seq(Byte) /\ Len(packet) <= MaxLen  BY RingAssumption, FitAssumption
<1>2. /\ bytes \in Seq(Byte) /\ Len(bytes) >= 2
      /\ \A i \in 1..Len(bytes) : bytes[i] = BEG <=> i = 1
  BY <1>1, FramedProperties
<1>3. /\ FramesIn(bytes) = <<Lossy!Stored(packet)>>
      /\ \A m \in Nat : m < Len(bytes) =>
           FramesIn(SubSeq(bytes, 1, m)) = IF m = 0 THEN <<>> ELSE <<Lossy!Remains>>
  BY <1>1, FramedFrames, PrefixFrames
<1>4. /\ rb' = k /\ q' = FramesIn(Held(k)) /\ UNCHANGED got
      /\ ret' = IF n = Len(bytes) THEN "stored" ELSE "full"
  BY DEF QUEUE_Puts, Now
<1>5. rb.fill_cnt \in 0..Size /\ Size \in Nat /\ PointersAgree(rb)
  BY RingAssumption DEF RInv, PointersAgree, RINGBUF
<1> HIDE DEF bytes
<1>6. Len(bytes) \in Nat  BY <1>2, LenProperties
<1>7. n \in Nat /\ n <= Len(bytes) /\ n <= Size - rb.fill_cnt
  BY <1>5, <1>6
<1> HIDE DEF n
<1>8. /\ Held(k) = Held(rb) \o part
      /\ part \in Seq(Byte) /\ Len(part) = n
      /\ n > 0 => part[1] = bytes[1]
  BY <1>2, <1>5, <1>7, HeldAfterPut
<1> HIDE DEF k, part
<1>9. part # <<>> => part[1] = BEG
  <2>1. part # <<>> => n > 0
    <3>1. n = 0 => part = <<>>  BY <1>8, EmptySeq
    <3> QED  BY <1>7, <3>1
  <2>2. 1 \in 1..Len(bytes)
    <3>1. \A m \in Nat : m >= 2 => 1 \in 1..m  OBVIOUS
    <3> QED  BY <1>2, <1>6, <3>1
  <2> QED  BY <1>2, <1>8, <2>1, <2>2
<1>10. Held(rb) \in Seq(Byte)  BY <1>5, HeldTyped DEF PointersAgree
<1>11. Held(rb) \in Seq(Byte) /\ Len(Held(rb)) = rb.fill_cnt /\ Len(Held(rb)) \in Nat
  BY <1>5, HeldTyped, LenProperties DEF PointersAgree
<1>12. CASE Len(bytes) <= Size - rb.fill_cnt
  <2>1. n = Len(bytes)  BY <1>12 DEF n
  <2>2. part = bytes  BY <1>2, <2>1, SubSeqFull DEF part
  <2>3. Adds(Held(rb), part, Held(k), packet)
    BY <1>3, <1>8, <1>9, <1>11, <1>12, <2>1, <2>2 DEF Adds, bytes
  <2> QED  BY <1>4, <1>8, <2>1, <2>3 DEF bytes
<1>13. CASE ~(Len(bytes) <= Size - rb.fill_cnt)
  <2>1. n = Size - rb.fill_cnt /\ n < Len(bytes)  BY <1>5, <1>6, <1>7, <1>13 DEF n
  <2>2. FramesIn(part) = IF n = 0 THEN <<>> ELSE <<Lossy!Remains>>
    BY <1>3, <1>7, <2>1 DEF part
  <2>3. part = <<>> <=> n = 0  BY <1>8, EmptySeq
  <2>4. Adds(Held(rb), part, Held(k), packet)
    BY <1>5, <1>6, <1>8, <1>9, <1>11, <2>1, <2>2, <2>3 DEF Adds, bytes
  <2>5. Len(part) # Len(bytes)  BY <1>6, <1>7, <1>8, <2>1
  <2> QED  BY <1>4, <1>8, <2>1, <2>4, <2>5 DEF bytes
<1> QED  BY <1>12, <1>13

(* The queue gets the frames of the bytes that were put.                   *)
LEMMA QueueAdds ==
  ASSUME q = FramesIn(Held(rb)), q' = FramesIn(Held(rb))',
         NEW packet, NEW part, Adds(Held(rb), part, Held(rb'), packet)
  PROVE  /\ \E H : q \in Seq(H)
         /\ FramesIn(part) = <<>> => q' = q
         /\ \A x : FramesIn(part) = <<x>> => q' = Append(q, x)
<1>1. /\ Held(rb) \in Seq(Byte) /\ part \in Seq(Byte) /\ Held(rb') = Held(rb) \o part
      /\ part # <<>> => part[1] = BEG
  BY DEF Adds
<1>2. q' = q \o FramesIn(part)
  <2>1. FramesIn(Held(rb) \o part) = FramesIn(Held(rb)) \o FramesIn(part)
    BY <1>1, FramesJoined
  <2> QED  BY <1>1, <2>1
<1>3. PICK F : q \in Seq(F)  BY <1>1, FramesTyped
<1>4. ASSUME NEW x PROVE q \o <<x>> = Append(q, x)
  <2>1. q \in Seq(F \cup {x}) /\ x \in F \cup {x}
    BY <1>3, LenProperties, SeqDef
  <2> QED  BY <2>1, AppendIsConcat
<1>5. q \o <<>> = q  BY <1>3, ConcatEmptySeq
<1> QED  BY <1>2, <1>3, <1>4, <1>5

(* A put stores a frame, or leaves the remains of one, or nothing.         *)
LEMMA PutsDelivers ==
  ASSUME RInv, q = FramesIn(Held(rb)),
         NEW packet \in Payload, QUEUE_Puts(packet)
  PROVE  Lossy!Puts(packet) /\ q' = FramesIn(Held(rb))'
<1>1. /\ got' = got /\ q' = FramesIn(Held(rb))'
      /\ \E part : /\ Adds(Held(rb), part, Held(rb'), packet)
                   /\ ret' = IF Len(part) = Len(PROTO_AddRb(packet))
                             THEN "stored" ELSE "full"
  BY PutsAdds
<1>2. PICK part : /\ Adds(Held(rb), part, Held(rb'), packet)
                  /\ ret' = IF Len(part) = Len(PROTO_AddRb(packet))
                            THEN "stored" ELSE "full"
  BY <1>1
<1>3. /\ FramesIn(part) = <<>> => q' = q
      /\ \A x : FramesIn(part) = <<x>> => q' = Append(q, x)
  BY <1>1, <1>2, QueueAdds
<1>4. CASE Len(part) = Len(PROTO_AddRb(packet)) /\ FramesIn(part) = <<Lossy!Stored(packet)>>
  BY <1>1, <1>2, <1>3, <1>4 DEF Lossy!Puts
<1>5. CASE /\ Len(part) # Len(PROTO_AddRb(packet))
           /\ FramesIn(part) = <<>> \/ FramesIn(part) = <<Lossy!Remains>>
  BY <1>1, <1>2, <1>3, <1>5 DEF Lossy!Puts
<1>6. \/ Len(part) = Len(PROTO_AddRb(packet)) /\ FramesIn(part) = <<Lossy!Stored(packet)>>
      \/ /\ Len(part) # Len(PROTO_AddRb(packet))
         /\ FramesIn(part) = <<>> \/ FramesIn(part) = <<Lossy!Remains>>
  <2>1. Len(part) \in Nat  BY <1>2, LenProperties DEF Adds
  <2>2. \A m \in Nat : m < Len(PROTO_AddRb(packet)) => m # Len(PROTO_AddRb(packet))
    <3>1. packet \in Seq(Byte)  BY RingAssumption
    <3>2. Len(PROTO_AddRb(packet)) \in Nat  BY <3>1, FramedProperties, LenProperties
    <3> QED  BY <3>2
  <2> QED  BY <1>2, <2>1, <2>2 DEF Adds
<1> QED  BY <1>1, <1>4, <1>5, <1>6

(* The bytes of a whole frame after s - 1 cut ones, followed by rest.      *)
Splits(bytes, part, rest, s, packet) ==
  /\ bytes \in Seq(Byte) /\ part \in Seq(Byte) /\ rest \in Seq(Byte)
  /\ bytes = part \o rest
  /\ Len(part) \in Nat \ {0} /\ part[1] = BEG
  /\ rest # <<>> => rest[1] = BEG
  /\ s \in Nat \ {0} /\ s = Cardinality(Starts(part))
  /\ \A j \in 1..(s - 1) : FramesIn(part)[j] = Lossy!Remains
  /\ FramesIn(part)[s] = Lossy!Stored(packet)

(* A get reads over the remains of frames up to the end of the first whole *)
(* one or, if there is none, empties the ring.                             *)
LEMMA GetsSplits ==
  ASSUME RInv, q = FramesIn(Held(rb)), QUEUE_Gets
  PROVE  /\ ret' = ret /\ q' = FramesIn(Held(rb))'
         /\ \/ \E part, s : Splits(Held(rb), part, Held(rb'), s, got')
            \/ /\ got' = None /\ q' = <<>> /\ Held(rb') = <<>>
               /\ \A j \in DOMAIN q : q[j] = Lossy!Remains
<1> DEFINE bytes == Held(rb)
           f == rb.fill_cnt
<1>1. PointersAgree(rb) /\ Marked(bytes)  BY DEF RInv
<1>2. /\ bytes \in Seq(Byte) /\ Len(bytes) = f /\ f \in Nat
      /\ DOMAIN bytes = 1..f
  BY <1>1, HeldTyped, HeldProperties DEF PointersAgree
<1> HIDE DEF bytes, f
<1>3. ASSUME NEW n \in Ends(bytes), NEW isBegin \in BOOLEAN,
             \A i \in Ends(bytes) : n <= i,
             got' = PROTO_ParseRb(isBegin, SubSeq(bytes, 1, n)),
             Now(RINGBUF_Get(rb, n)), UNCHANGED ret
      PROVE  /\ q' = FramesIn(Held(rb))'
             /\ \E part, s : Splits(Held(rb), part, Held(rb'), s, got')
  <2> DEFINE k == RINGBUF_Get(rb, n)
             part == SubSeq(bytes, 1, n)
             s == Cardinality(Starts(part))
  <2>1. n \in 1..f /\ bytes[n] = END /\ n \in Nat /\ n >= 1  BY <1>2 DEF Ends
  <2>2. rb' = k /\ q' = FramesIn(Held(k))  BY <1>3 DEF Now
  <2>3. /\ Held(k) \in Seq(Byte) /\ Len(Held(k)) = f - n
        /\ part \in Seq(Byte) /\ Len(part) = n
        /\ \A i \in 1..n : part[i] = bytes[i]
        /\ bytes = part \o Held(k)
    <3>1. n \in 0..rb.fill_cnt  BY <1>2, <2>1 DEF f
    <3> QED  BY <1>1, <3>1, HeldAfterGet DEF bytes, f
  <2> HIDE DEF k, part
  <2>4. Held(k) # <<>> => Held(k)[1] = BEG
    <3> SUFFICES ASSUME Held(k) # <<>> PROVE Held(k)[1] = BEG  OBVIOUS
    <3>1. f - n # 0 /\ f - n \in Nat
      <4>1. f - n \in Nat  BY <1>2, <2>1
      <4> QED  BY <2>3, <4>1, EmptySeq
    <3>2. n + 1 \in 1..f /\ n \in 1..f  BY <1>2, <2>1, <3>1
    <3>3. bytes[n + 1] = BEG  BY <1>1, <1>2, <2>1, <3>2 DEF Marked
    <3>4. (part \o Held(k))[n + 1] = Held(k)[1]
      <4>1. \A i \in 1..(Len(part) + Len(Held(k))) : (part \o Held(k))[i] =
              IF i <= Len(part) THEN part[i] ELSE Held(k)[i - Len(part)]
        BY <2>3, ConcatProperties
      <4>2. n + 1 \in 1..(n + (f - n)) /\ ~(n + 1 <= n) /\ (n + 1) - n = 1
        BY <1>2, <2>1, <3>1
      <4> QED  BY <2>3, <4>1, <4>2
    <3> QED  BY <2>3, <3>3, <3>4
  <2>5. FramesIn(bytes) = FramesIn(part) \o q'
    <3>1. FramesIn(part \o Held(k)) = FramesIn(part) \o FramesIn(Held(k))
      BY <2>3, <2>4, FramesJoined
    <3> QED  BY <2>2, <2>3, <3>1
  <2>6. \A i \in 1..n : part[i] = END <=> i = n
    <3>1. \A i \in 1..n : i \in 1..f  BY <1>2, <2>1
    <3>2. \A i \in 1..n : bytes[i] = END => i = n
      <4>1. \A i \in 1..n : bytes[i] = END => n <= i  BY <1>2, <1>3, <3>1 DEF Ends
      <4> QED  BY <2>1, <4>1
    <3> QED  BY <2>1, <2>3, <3>2
  <2>7. s \in Nat /\ s >= 1
    <3>1. 1 \in 1..n /\ 1 \in 1..f  BY <1>2, <2>1
    <3>2. part[1] = BEG  BY <1>1, <1>2, <2>3, <3>1 DEF Marked
    <3>3. 1 \in Starts(part)  BY <2>3, <3>1, <3>2, LenProperties DEF Starts
    <3>4. Starts(part) \subseteq 1..Len(part) /\ Len(part) \in Nat /\ s \in Nat
      BY <2>3, StartsTyped
    <3>5. 1 \in 1..s  BY <3>3, <3>4, FirstStart
    <3> QED  BY <3>4, <3>5
  <2> HIDE DEF s
  <2>8. FramesIn(part) = [j \in 1..s |-> FrameOf(Piece(part, j))]
    BY <2>3, FramesInProperties DEF s
  <2>9. ASSUME NEW j \in 1..s
        PROVE  /\ Piece(part, j)[Len(Piece(part, j))] = part[LastOf(part, j)]
               /\ LastOf(part, j) \in 1..n
               /\ LastOf(part, j) = n <=> j = s
    <3> DEFINE a == Nth(Starts(part), j)
               z == LastOf(part, j)
    <3>1. /\ a \in 1..Len(part) /\ z \in a..Len(part)
          /\ j < s => z < Len(part)
          /\ j = s => z = Len(part)
          /\ Len(Piece(part, j)) = z - a + 1
          /\ \A i \in 1..(z - a + 1) : Piece(part, j)[i] = part[a + i - 1]
      BY <2>3, PieceProperties DEF s
    <3> HIDE DEF a, z
    <3>2. z - a + 1 \in 1..(z - a + 1) /\ a + (z - a + 1) - 1 = z /\ z \in 1..n
      BY <2>1, <2>3, <3>1
    <3>3. Piece(part, j)[z - a + 1] = part[z]
      <4>1. Piece(part, j)[z - a + 1] = part[a + (z - a + 1) - 1]  BY <3>1, <3>2
      <4> QED  BY <3>2, <4>1
    <3>4. j < s \/ j = s  BY <2>7
    <3>5. z = n <=> j = s
      <4>1. j < s => z # n  BY <2>1, <2>3, <3>1, <3>2
      <4>2. j < s => j # s  BY <2>7
      <4> QED  BY <2>3, <3>1, <3>4, <4>1, <4>2
    <3> QED  BY <3>1, <3>2, <3>3, <3>5 DEF z
  <2>10. \A j \in 1..(s - 1) : FramesIn(part)[j] = Lossy!Remains
    <3> SUFFICES ASSUME NEW j \in 1..(s - 1) PROVE FramesIn(part)[j] = Lossy!Remains
      OBVIOUS
    <3>1. j \in 1..s /\ j # s  BY <2>7
    <3>2. Piece(part, j)[Len(Piece(part, j))] # END  BY <2>6, <2>9, <3>1
    <3>3. FrameOf(Piece(part, j)) = Lossy!Remains  BY <3>2, CutFrame
    <3> QED  BY <2>8, <3>1, <3>3
  <2>11. s \in 1..s /\ FramesIn(part)[s] = Lossy!Stored(got')
    <3>1. s \in 1..s  BY <2>7
    <3>2. Piece(part, s)[Len(Piece(part, s))] = END  BY <2>6, <2>9, <3>1
    <3>3. PROTO_ParseRb(isBegin, part) = PROTO_ParseRb(TRUE, Piece(part, s))
      BY <2>3, <2>7, ParseLast DEF s
    <3>4. got' = PROTO_ParseRb(isBegin, part)  BY <1>3 DEF part
    <3>5. FrameOf(Piece(part, s)) = Lossy!Stored(got')
      BY <3>2, <3>3, <3>4 DEF FrameOf, Frames!Publication, Lossy!Stored
    <3> QED  BY <2>8, <3>1, <3>5
  <2>12. Splits(Held(rb), part, Held(rb'), s, got')
    <3>1. 1 \in 1..n /\ 1 \in 1..f  BY <1>2, <2>1
    <3>2. part[1] = BEG  BY <1>1, <1>2, <2>3, <3>1 DEF Marked
    <3> QED  BY <1>2, <2>1, <2>2, <2>3, <2>4, <2>7, <2>10, <2>11, <3>2 DEF Splits, bytes, s
  <2> QED  BY <2>2, <2>12
<1>4. ASSUME Ends(bytes) = {}, got' = None, Now(RINGBUF_Get(rb, rb.fill_cnt)), UNCHANGED ret
      PROVE  /\ q' = FramesIn(Held(rb))' /\ got' = None /\ q' = <<>> /\ Held(rb') = <<>>
             /\ \A j \in DOMAIN q : q[j] = Lossy!Remains
  <2> DEFINE k == RINGBUF_Get(rb, rb.fill_cnt)
             s == Cardinality(Starts(bytes))
  <2>1. rb' = k /\ q' = FramesIn(Held(k))  BY <1>4 DEF Now
  <2>2. Held(k) \in Seq(Byte) /\ Len(Held(k)) = f - f
    <3>1. rb.fill_cnt \in 0..rb.fill_cnt  BY <1>2 DEF f
    <3> QED  BY <1>1, <3>1, HeldAfterGet DEF f
  <2> HIDE DEF k
  <2>3. Held(k) = <<>>
    <3>1. f - f = 0  BY <1>2
    <3> QED  BY <2>2, <3>1, EmptySeq
  <2>4. q' = <<>>  BY <2>1, <2>3, NoFrames
  <2>5. q = [j \in 1..s |-> FrameOf(Piece(bytes, j))]
    BY <1>2, FramesInProperties DEF bytes
  <2>6. ASSUME NEW j \in 1..s PROVE FrameOf(Piece(bytes, j)) = Lossy!Remains
    <3> DEFINE a == Nth(Starts(bytes), j)
               z == LastOf(bytes, j)
    <3>1. /\ a \in 1..Len(bytes) /\ z \in a..Len(bytes)
          /\ Len(Piece(bytes, j)) = z - a + 1
          /\ \A i \in 1..(z - a + 1) : Piece(bytes, j)[i] = bytes[a + i - 1]
      BY <1>2, PieceProperties
    <3> HIDE DEF a, z
    <3>2. z - a + 1 \in 1..(z - a + 1) /\ a + (z - a + 1) - 1 = z /\ z \in 1..f
      BY <1>2, <3>1
    <3>3. Piece(bytes, j)[z - a + 1] = bytes[z]
      <4>1. Piece(bytes, j)[z - a + 1] = bytes[a + (z - a + 1) - 1]  BY <3>1, <3>2
      <4> QED  BY <3>2, <4>1
    <3>4. bytes[z] # END  BY <1>2, <1>4, <3>2 DEF Ends
    <3>5. Piece(bytes, j)[Len(Piece(bytes, j))] # END  BY <3>1, <3>3, <3>4
    <3> QED  BY <3>5, CutFrame
  <2> HIDE DEF s
  <2>7. \A j \in DOMAIN q : q[j] = Lossy!Remains  BY <2>5, <2>6
  <2> QED  BY <1>4, <2>1, <2>3, <2>4, <2>7
<1> QED  BY <1>3, <1>4 DEF QUEUE_Gets, bytes

(* The queue of frames then loses those of the bytes that were read.       *)
LEMMA QueueSplits ==
  ASSUME q = FramesIn(Held(rb)), q' = FramesIn(Held(rb))',
         NEW part, NEW s, Splits(Held(rb), part, Held(rb'), s, got')
  PROVE  /\ s \in DOMAIN q /\ q' = SubSeq(q, s + 1, Len(q))
         /\ q[s] = Lossy!Stored(got') /\ \A j \in 1..(s - 1) : q[j] = Lossy!Remains
         /\ \E H : q \in Seq(H) /\ q' \in Seq(H) /\ Len(q) = s + Len(q')
<1> DEFINE p == FramesIn(part)
<1>1. /\ part \in Seq(Byte) /\ Held(rb') \in Seq(Byte) /\ Held(rb) = part \o Held(rb')
      /\ Held(rb') # <<>> => Held(rb')[1] = BEG
      /\ s \in Nat /\ s >= 1 /\ s = Cardinality(Starts(part))
      /\ \A j \in 1..(s - 1) : FramesIn(part)[j] = Lossy!Remains
      /\ FramesIn(part)[s] = Lossy!Stored(got')
  <2>1. s \in Nat /\ s >= 1  BY DEF Splits
  <2> QED  BY <2>1 DEF Splits
<1>2. q = p \o q'
  <2>1. FramesIn(part \o Held(rb')) = FramesIn(part) \o FramesIn(Held(rb'))
    BY <1>1, FramesJoined
  <2> QED  BY <1>1, <2>1
<1>3. PICK F : p \in Seq(F) /\ Len(p) = s
  BY <1>1, FramesTyped
<1>4. PICK G : q' \in Seq(G) /\ Len(q') \in Nat
  BY <1>1, FramesTyped, LenProperties
<1> DEFINE H == F \cup G
<1> HIDE DEF p
<1>5. p \in Seq(H) /\ q' \in Seq(H)  BY <1>3, <1>4, LenProperties, SeqDef
<1> HIDE DEF H
<1>6. /\ q \in Seq(H) /\ Len(q) = s + Len(q') /\ Len(p) = s
      /\ \A j \in 1..s : q[j] = p[j]
  <2>1. /\ p \o q' \in Seq(H) /\ Len(p \o q') = Len(p) + Len(q')
        /\ \A j \in 1..(Len(p) + Len(q')) : (p \o q')[j] =
             IF j <= Len(p) THEN p[j] ELSE q'[j - Len(p)]
    BY <1>5, ConcatProperties
  <2>2. \A j \in 1..s : j \in 1..(s + Len(q')) /\ j <= s  BY <1>1, <1>4
  <2> QED  BY <1>2, <1>3, <2>1, <2>2
<1>7. q' = SubSeq(q, s + 1, Len(q))
  <2>1. CASE Len(q') = 0
    <3>1. s + 1 \in Int /\ Len(q) \in Int /\ Len(q) < s + 1  BY <1>1, <1>6, <2>1
    <3>2. SubSeq(q, s + 1, Len(q)) = <<>>  BY <3>1, SubSeqEmpty
    <3>3. q' = <<>>  BY <1>5, <2>1, EmptySeq
    <3> QED  BY <3>2, <3>3
  <2>2. CASE Len(q') # 0
    <3>1. \A i, j \in (Len(p) + 1)..(Len(p) + Len(q')) :
            SubSeq(p \o q', i, j) = SubSeq(q', i - Len(p), j - Len(p))
      BY <1>5, SubSeqOfConcat2
    <3>2. /\ s + 1 \in (s + 1)..(s + Len(q')) /\ Len(q) \in (s + 1)..(s + Len(q'))
          /\ (s + 1) - s = 1 /\ Len(q) - s = Len(q')
      BY <1>1, <1>4, <1>6, <2>2
    <3>3. SubSeq(q, s + 1, Len(q)) = SubSeq(q', 1, Len(q'))  BY <1>2, <1>6, <3>1, <3>2
    <3> QED  BY <1>5, <3>3, SubSeqFull
  <2> QED  BY <2>1, <2>2
<1>8. s \in DOMAIN q
  <2>1. s \in 1..(s + Len(q'))  BY <1>1, <1>4
  <2> QED  BY <1>6, <2>1, LenProperties
<1>9. q[s] = Lossy!Stored(got') /\ \A j \in 1..(s - 1) : q[j] = Lossy!Remains
  <2>1. s \in 1..s /\ \A j \in 1..(s - 1) : j \in 1..s  BY <1>1
  <2> QED  BY <1>1, <1>6, <2>1 DEF p
<1> QED  BY <1>5, <1>6, <1>7, <1>8, <1>9

LEMMA GetsDelivers ==
  ASSUME RInv, q = FramesIn(Held(rb)), QUEUE_Gets
  PROVE  Lossy!Gets /\ q' = FramesIn(Held(rb))'
<1>1. /\ ret' = ret /\ q' = FramesIn(Held(rb))'
      /\ \/ \E part, s : Splits(Held(rb), part, Held(rb'), s, got')
         \/ /\ got' = None /\ q' = <<>> /\ Held(rb') = <<>>
            /\ \A j \in DOMAIN q : q[j] = Lossy!Remains
  BY GetsSplits
<1>2. ASSUME NEW part, NEW s, Splits(Held(rb), part, Held(rb'), s, got')
      PROVE  Lossy!Gets
  <2>1. /\ s \in DOMAIN q /\ q' = SubSeq(q, s + 1, Len(q))
        /\ q[s] = Lossy!Stored(got') /\ \A j \in 1..(s - 1) : q[j] = Lossy!Remains
    BY <1>1, <1>2, QueueSplits
  <2>2. q[s].type = "PUBLISH" /\ got' = q[s].data  BY <2>1 DEF Lossy!Stored
  <2> QED  BY <1>1, <2>1, <2>2 DEF Lossy!Gets
<1>3. CASE /\ got' = None /\ q' = <<>>
           /\ \A j \in DOMAIN q : q[j] = Lossy!Remains
  BY <1>1, <1>3 DEF Lossy!Gets
<1> QED  BY <1>1, <1>2, <1>3

(* For a ring and packets of any size and wherever the ring wraps, what    *)
(* QUEUE_Gets delivers is what QUEUE_Puts reported as stored, unaltered,   *)
(* once and in order: byte by byte the queue does what LossyQueue allows.  *)
THEOREM RingDelivers == Spec => DeliversStored
<1> DEFINE I == RInv /\ q = FramesIn(Held(rb))
<1>1. Init => I /\ Lossy!Init
  <2> SUFFICES ASSUME Init PROVE I /\ Lossy!Init  OBVIOUS
  <2>1. RInv  BY InitKeeps
  <2>2. rb.fill_cnt = 0 /\ rb \in RINGBUF
    BY <2>1 DEF Init, RINGBUF_Init, RInv, PointersAgree
  <2>3. Held(rb) = <<>>  BY <2>2, HeldTyped, EmptySeq
  <2>4. q = FramesIn(Held(rb))  BY <2>3, NoFrames DEF Init
  <2> QED  BY <2>1, <2>4 DEF Init, Lossy!Init
<1>2. I /\ [Next]_vars => I' /\ [Lossy!Next]_(Lossy!vars)
  <2> SUFFICES ASSUME RInv, q = FramesIn(Held(rb)), [Next]_vars
               PROVE  /\ RInv' /\ q' = FramesIn(Held(rb))'
                      /\ [Lossy!Next]_(Lossy!vars)
    OBVIOUS
  <2>1. CASE \E packet \in Payload : QUEUE_Puts(packet)
    <3>1. PICK packet \in Payload : QUEUE_Puts(packet)  BY <2>1
    <3>2. RInv'  BY <3>1, PutsKeeps
    <3>3. Lossy!Puts(packet) /\ q' = FramesIn(Held(rb))'  BY <3>1, PutsDelivers
    <3> QED  BY <3>2, <3>3 DEF Lossy!Next
  <2>2. CASE QUEUE_Gets
    <3>1. RInv'  BY <2>2, GetsKeeps
    <3>2. Lossy!Gets /\ q' = FramesIn(Held(rb))'  BY <2>2, GetsDelivers
    <3> QED  BY <3>1, <3>2 DEF Lossy!Next
  <2>3. CASE UNCHANGED vars
    <3>1. rb' = rb /\ q' = q /\ ret' = ret /\ got' = got  BY <2>3 DEF vars
    <3>2. RInv'  BY <3>1 DEF RInv, PointersAgree, Held, Marked
    <3>3. Held(rb)' = Held(rb)  BY <3>1 DEF Held
    <3>4. q' = FramesIn(Held(rb))'  BY <3>1, <3>3
    <3> QED  BY <3>1, <3>2, <3>4 DEF Lossy!vars
  <2> QED  BY <2>1, <2>2, <2>3 DEF Next
<1> QED  BY <1>1, <1>2, PTL DEF Spec, DeliversStored, Lossy!Spec

-----------------------------------------------------------------------------
(* With frames of one size.  Outbox counts frames, so the bytes of each    *)
(* frame in the ring and the room there is for more have to be related to  *)
(* that count.                                                             *)

OneSize ==
  /\ FrameSize \in 1..Size
  /\ \A packet \in Payload : Len(PROTO_AddRb(packet)) = FrameSize

Capacity == Size \div FrameSize
Spare == Size % FrameSize

FrameBytes(frame) == IF frame = Lossy!Remains THEN Spare ELSE FrameSize

(* Every frame has its size.                                               *)
Measured(bytes) ==
  \A k \in 1..Cardinality(Starts(bytes)) :
    Len(Piece(bytes, k)) = FrameBytes(FrameOf(Piece(bytes, k)))

(* The room in the ring, of which a cut frame takes the spare bytes.       *)
SpareLeft(frames) == IF Exact!HasCut(frames) THEN 0 ELSE Spare

Balanced(bytes, frames) ==
  /\ Exact!OneCut(frames)
  /\ Size - Len(bytes) = FrameSize * Exact!Room(frames) + SpareLeft(frames)

LEMMA SizesTyped ==
  ASSUME OneSize
  PROVE  /\ Size \in Nat /\ FrameSize \in Nat /\ FrameSize >= 1
         /\ Spare \in Nat /\ Spare < FrameSize
         /\ Capacity \in Nat /\ Size = FrameSize * Capacity + Spare
<1>1. Size \in Nat /\ FrameSize \in Nat \ {0}  BY RingAssumption DEF OneSize
<1>2. \A a \in Nat, b \in Nat \ {0} :
        /\ a \div b \in Nat /\ a % b \in 0..(b - 1)
        /\ a = b * (a \div b) + (a % b)
  OBVIOUS
<1>3. Capacity \in Nat /\ Spare \in 0..(FrameSize - 1)
      /\ Size = FrameSize * Capacity + Spare
  BY <1>1, <1>2 DEF Capacity, Spare
<1> QED  BY <1>1, <1>3

(* Whether a frame fits is whether there is room for one.                  *)
LEMMA RoomProperties ==
  ASSUME OneSize, NEW free \in Nat, NEW room \in Int, NEW left \in {0, Spare},
         free = FrameSize * room + left
  PROVE  /\ room \in Nat
         /\ FrameSize <= free <=> 1 <= room
         /\ free < FrameSize => room = 0 /\ free = left
<1>1. /\ FrameSize \in Nat /\ FrameSize >= 1 /\ Spare \in Nat /\ Spare < FrameSize
      /\ left \in Nat /\ left < FrameSize
  BY SizesTyped
<1>2. room >= 1 => FrameSize * room >= FrameSize
  <2>1. \A a \in Nat, b \in Nat : b >= 1 => a * b >= a  OBVIOUS
  <2> QED  BY <1>1, <2>1
<1>3. room <= -1 => FrameSize * room <= -FrameSize
  <2>1. \A a \in Nat, b \in Int : b <= -1 => a * b <= -a  OBVIOUS
  <2> QED  BY <1>1, <2>1
<1>4. room = 0 => FrameSize * room = 0  BY <1>1
<1> DEFINE product == FrameSize * room
<1>5. product \in Int  BY <1>1
<1> HIDE DEF product
<1>6. room >= 1 \/ room <= -1 \/ room = 0  OBVIOUS
<1>7. free = product + left  BY DEF product
<1>8. CASE room >= 1
  <2>1. product >= FrameSize  BY <1>2, <1>8 DEF product
  <2> QED  BY <1>1, <1>5, <1>7, <1>8, <2>1
<1>9. CASE room <= -1
  <2>1. product <= -FrameSize  BY <1>3, <1>9 DEF product
  <2> QED  BY <1>1, <1>5, <1>7, <2>1
<1>10. CASE room = 0
  <2>1. product = 0  BY <1>4, <1>10 DEF product
  <2> QED  BY <1>1, <1>7, <1>10, <2>1
<1> QED  BY <1>6, <1>8, <1>9, <1>10

-----------------------------------------------------------------------------
(* The sizes of the frames in the ring.                                    *)

LEMMA MeasuredJoined ==
  ASSUME NEW b \in Seq(Byte), NEW c \in Seq(Byte), c # <<>> => c[1] = BEG
  PROVE  Measured(b \o c) <=> Measured(b) /\ Measured(c)
<1> DEFINE d == b \o c
           s == Cardinality(Starts(b))
           t == Cardinality(Starts(c))
           Right(e, k) == Len(Piece(e, k)) = FrameBytes(FrameOf(Piece(e, k)))
<1>1. /\ s \in Nat /\ t \in Nat /\ Cardinality(Starts(d)) = s + t
      /\ \A k \in 1..s : Piece(d, k) = Piece(b, k)
      /\ \A k \in 1..t : Piece(d, s + k) = Piece(c, k)
  BY PiecesJoined
<1>2. /\ Measured(d) <=> \A k \in 1..(s + t) : Right(d, k)
      /\ Measured(b) <=> \A k \in 1..s : Right(b, k)
      /\ Measured(c) <=> \A k \in 1..t : Right(c, k)
  BY <1>1 DEF Measured
<1>3. /\ \A k \in 1..s : Right(d, k) <=> Right(b, k)
      /\ \A k \in 1..t : Right(d, s + k) <=> Right(c, k)
  BY <1>1
<1> HIDE DEF d, s, t, Right
<1>4. ASSUME \A k \in 1..(s + t) : Right(d, k)
      PROVE  (\A k \in 1..s : Right(b, k)) /\ (\A k \in 1..t : Right(c, k))
  <2>1. \A k \in 1..s : k \in 1..(s + t)  BY <1>1
  <2>2. \A k \in 1..t : s + k \in 1..(s + t)  BY <1>1
  <2> QED  BY <1>3, <1>4, <2>1, <2>2
<1>5. ASSUME \A k \in 1..s : Right(b, k), \A k \in 1..t : Right(c, k)
      PROVE  \A k \in 1..(s + t) : Right(d, k)
  <2> SUFFICES ASSUME NEW k \in 1..(s + t) PROVE Right(d, k)  OBVIOUS
  <2>1. CASE k \in 1..s  BY <1>3, <1>5, <2>1
  <2>2. CASE k \notin 1..s
    <3>1. k - s \in 1..t /\ s + (k - s) = k  BY <1>1, <2>2
    <3>2. Right(d, s + (k - s))  BY <1>3, <1>5, <3>1
    <3> QED  BY <3>1, <3>2
  <2> QED  BY <2>1, <2>2
<1> QED  BY <1>2, <1>4, <1>5 DEF d

LEMMA MeasuredNone == Measured(<<>>)
<1>1. Starts(<<>>) = {}  BY DEF Starts
<1>2. Cardinality(Starts(<<>>)) = 0  BY <1>1, FS_EmptySet
<1> QED  BY <1>2 DEF Measured

(* One frame of its size.                                                  *)
LEMMA MeasuredOne ==
  ASSUME NEW bytes \in Seq(Byte), bytes # <<>>, bytes[1] = BEG,
         NEW frame, FramesIn(bytes) = <<frame>>, Len(bytes) = FrameBytes(frame)
  PROVE  Measured(bytes)
<1> DEFINE s == Cardinality(Starts(bytes))
           n == Len(bytes)
<1>1. n \in Nat /\ Starts(bytes) \subseteq 1..n /\ s \in Nat  BY StartsTyped
<1>2. FramesIn(bytes) = [k \in 1..s |-> FrameOf(Piece(bytes, k))]  BY FramesInProperties
<1>3. s = 1
  <2>1. Len(FramesIn(bytes)) = 1  OBVIOUS
  <2>2. Len(FramesIn(bytes)) = s  BY FramesTyped
  <2> QED  BY <2>1, <2>2
<1>4. 1 \in Starts(bytes)
  <2>1. n # 0  BY EmptySeq
  <2>2. 1 \in 1..n  BY <1>1, <2>1
  <2> QED  BY <2>2, LenProperties DEF Starts
<1>5. Nth(Starts(bytes), 1) = 1  BY <1>1, <1>4, FirstStart
<1>6. LastOf(bytes, 1) = n  BY <1>3 DEF LastOf
<1>7. Piece(bytes, 1) = bytes  BY <1>5, <1>6, SubSeqFull DEF Piece
<1>8. FrameOf(bytes) = frame
  <2>1. FramesIn(bytes)[1] = FrameOf(Piece(bytes, 1))
    <3> HIDE DEF s
    <3> QED  BY <1>2, <1>3
  <2> QED  BY <1>7, <2>1
<1> QED  BY <1>3, <1>7, <1>8 DEF Measured

(* The bytes of a whole frame after s - 1 cut ones.                        *)
LEMMA SplitMeasured ==
  ASSUME OneSize, NEW bytes, NEW part, NEW rest, NEW s, NEW packet,
         Splits(bytes, part, rest, s, packet), Measured(bytes), s \in {1, 2}
  PROVE  /\ Measured(rest)
         /\ Len(part) = FrameSize + (IF s = 1 THEN 0 ELSE Spare)
<1>1. /\ part \in Seq(Byte) /\ rest \in Seq(Byte) /\ bytes = part \o rest
      /\ rest # <<>> => rest[1] = BEG
      /\ part[1] = BEG /\ s = Cardinality(Starts(part))
      /\ \A j \in 1..(s - 1) : FramesIn(part)[j] = Lossy!Remains
      /\ FramesIn(part)[s] = Lossy!Stored(packet)
  BY DEF Splits
<1>2. Measured(part) /\ Measured(rest)  BY <1>1, MeasuredJoined
<1>3. Len(part) \in Nat /\ Len(part) >= 1  BY DEF Splits
<1>4. FrameSize \in Nat /\ Spare \in Nat  BY SizesTyped
<1>5. \A j \in 1..s : FramesIn(part)[j] = FrameOf(Piece(part, j))
  BY <1>1, FramesInProperties
<1>6. FrameBytes(Lossy!Stored(packet)) = FrameSize /\ FrameBytes(Lossy!Remains) = Spare
  BY DEF FrameBytes, Lossy!Stored, Lossy!Remains
<1>7. Len(Piece(part, s)) = FrameSize
  <2>1. s \in 1..s  OBVIOUS
  <2> QED  BY <1>1, <1>2, <1>5, <1>6, <2>1 DEF Measured
<1>8. Nth(Starts(part), 1) = 1
  <2>1. 1 \in Starts(part)
    <3>1. 1 \in 1..Len(part)  BY <1>3
    <3> QED  BY <1>1, <3>1, LenProperties DEF Starts
  <2> QED  BY <1>1, <2>1, StartsTyped, FirstStart
<1>9. \A j \in 1..s : Len(Piece(part, j)) = LastOf(part, j) - Nth(Starts(part), j) + 1
  BY <1>1, PieceProperties
<1>10. LastOf(part, s) = Len(part)
  <2>1. ~(s < s)  OBVIOUS
  <2> QED  BY <1>1, <2>1 DEF LastOf
<1>11. CASE s = 1
  <2>1. Len(Piece(part, 1)) = Len(part) - 1 + 1
    <3>1. 1 \in 1..s  OBVIOUS
    <3> QED  BY <1>8, <1>9, <1>10, <1>11, <3>1
  <2> QED  BY <1>2, <1>3, <1>4, <1>7, <1>11, <2>1
<1>12. CASE s = 2
  <2> DEFINE a == Nth(Starts(part), 2)
  <2>1. 1 \in 1..s /\ 2 \in 1..s /\ 1 \in 1..(s - 1)  BY <1>12
  <2>2. a \in 1..Len(part)  BY <1>1, <2>1, PieceProperties
  <2>3. Len(Piece(part, 1)) = Spare
    <3>1. FrameOf(Piece(part, 1)) = Lossy!Remains  BY <1>1, <1>5, <2>1
    <3> QED  BY <1>1, <1>2, <1>6, <2>1, <3>1 DEF Measured
  <2>4. LastOf(part, 1) = a - 1  BY <1>1, <1>12 DEF LastOf
  <2>5. Len(Piece(part, 1)) = LastOf(part, 1) - 1 + 1  BY <1>8, <1>9, <2>1
  <2>6. Len(Piece(part, 2)) = Len(part) - a + 1  BY <1>9, <1>10, <1>12, <2>1
  <2> HIDE DEF a
  <2>7. a \in Nat  BY <1>3, <2>2
  <2> QED  BY <1>2, <1>3, <1>4, <1>7, <1>12, <2>3, <2>4, <2>5, <2>6, <2>7
<1> QED  BY <1>11, <1>12

-----------------------------------------------------------------------------
(* The queue's steps as steps of Outbox.                                   *)

LEMMA CutIsRemains == Exact!CUT = Lossy!Remains
BY DEF Exact!CUT, Exact!Packet, Lossy!Remains

(* What a frame at the end does to the count.                              *)
LEMMA RoomAfterAppend ==
  ASSUME OneSize, NEW H, NEW frames \in Seq(H), NEW x
  PROVE  /\ Exact!HasCut(Append(frames, x)) <=> Exact!HasCut(frames) \/ x = Lossy!Remains
         /\ x # Lossy!Remains => Exact!Room(Append(frames, x)) = Exact!Room(frames) - 1
         /\ x = Lossy!Remains /\ ~Exact!HasCut(frames) =>
              Exact!Room(Append(frames, x)) = Exact!Room(frames)
         /\ Exact!OneCut(frames) /\ (x # Lossy!Remains \/ ~Exact!HasCut(frames)) =>
              Exact!OneCut(Append(frames, x))
<1> DEFINE longer == Append(frames, x)
           n == Len(frames)
<1>1. n \in Nat /\ DOMAIN frames = 1..n  BY LenProperties
<1>2. /\ Len(longer) = n + 1 /\ DOMAIN longer = 1..(n + 1)
      /\ \A i \in 1..n : longer[i] = frames[i]
      /\ longer[n + 1] = x
  <2>1. frames \in Seq(H \cup {x}) /\ x \in H \cup {x}  BY LenProperties, SeqDef
  <2>2. /\ longer \in Seq(H \cup {x}) /\ Len(longer) = n + 1
        /\ \A i \in 1..n : longer[i] = frames[i]
        /\ longer[n + 1] = x
    BY <2>1, AppendProperties
  <2> HIDE DEF longer
  <2> QED  BY <2>2, LenProperties
<1> HIDE DEF longer, n
<1>3. \A i : i \in 1..(n + 1) <=> i \in 1..n \/ i = n + 1  BY <1>1
<1>4. Exact!HasCut(longer) <=> Exact!HasCut(frames) \/ x = Lossy!Remains
  BY <1>1, <1>2, <1>3, CutIsRemains DEF Exact!HasCut
<1>5. /\ Exact!Room(longer) = Capacity - (IF Exact!HasCut(longer) THEN (n + 1) - 1 ELSE n + 1)
      /\ Exact!Room(frames) = Capacity - (IF Exact!HasCut(frames) THEN n - 1 ELSE n)
  BY <1>2 DEF Exact!Room, Exact!Frames, Capacity, n
<1>6. Capacity \in Nat  BY SizesTyped
<1>7. x # Lossy!Remains => Exact!Room(longer) = Exact!Room(frames) - 1
  BY <1>1, <1>4, <1>5, <1>6
<1>8. x = Lossy!Remains /\ ~Exact!HasCut(frames) => Exact!Room(longer) = Exact!Room(frames)
  BY <1>1, <1>4, <1>5, <1>6
<1>9. ASSUME Exact!OneCut(frames), x # Lossy!Remains \/ ~Exact!HasCut(frames)
      PROVE  Exact!OneCut(longer)
  <2> SUFFICES ASSUME NEW i \in 1..(n + 1), NEW j \in 1..(n + 1),
                      longer[i] = Lossy!Remains, longer[j] = Lossy!Remains
               PROVE  i = j
    BY <1>2, CutIsRemains DEF Exact!OneCut
  <2>1. CASE x # Lossy!Remains
    <3>1. i \in 1..n /\ j \in 1..n  BY <1>2, <1>3, <2>1
    <3> QED  BY <1>1, <1>2, <1>9, <3>1, CutIsRemains DEF Exact!OneCut
  <2>2. CASE ~Exact!HasCut(frames)
    <3>1. \A k \in 1..n : longer[k] # Lossy!Remains
      BY <1>1, <1>2, <2>2, CutIsRemains DEF Exact!HasCut
    <3> QED  BY <1>3, <3>1
  <2> QED  BY <1>9, <2>1, <2>2
<1> QED  BY <1>4, <1>7, <1>8, <1>9 DEF longer

(* And what it does to lose the first whole frame and the cut one before.  *)
Loses(frames, rest, s) ==
  /\ s \in Nat \ {0} /\ Len(frames) = s + Len(rest)
  /\ rest = SubSeq(frames, s + 1, Len(frames))
  /\ frames[s] # Lossy!Remains /\ \A j \in 1..(s - 1) : frames[j] = Lossy!Remains
  /\ Exact!OneCut(frames)

LEMMA RoomAfterGet ==
  ASSUME OneSize, NEW H, NEW frames \in Seq(H), NEW rest \in Seq(H),
         NEW s, Loses(frames, rest, s)
  PROVE  /\ s \in {1, 2} /\ Exact!OneCut(rest)
         /\ Exact!Room(rest) = Exact!Room(frames) + 1
         /\ SpareLeft(rest) = SpareLeft(frames) + (IF s = 1 THEN 0 ELSE Spare)
<1> DEFINE n == Len(frames)
           m == Len(rest)
<1>0. /\ s \in Nat \ {0} /\ n = s + m
      /\ rest = SubSeq(frames, s + 1, n)
      /\ frames[s] # Lossy!Remains /\ \A j \in 1..(s - 1) : frames[j] = Lossy!Remains
      /\ Exact!OneCut(frames)
  BY DEF Loses
<1>1. /\ n \in Nat /\ m \in Nat /\ n = s + m
      /\ DOMAIN frames = 1..n /\ DOMAIN rest = 1..m
  BY <1>0, LenProperties
<1> HIDE DEF n, m
<1>2. \A i \in 1..m : rest[i] = frames[s + i] /\ s + i \in 1..n
  <2>1. \A i \in (s + 1)..n : frames[i] \in H
    <3>1. \A i \in (s + 1)..n : i \in 1..n  BY <1>0, <1>1
    <3> QED  BY <1>0, <1>1, <3>1, ElementOfSeq DEF n
  <2>2. s + 1 \in Int /\ n \in Int  BY <1>0, <1>1
  <2>3. \A i \in 1..(n - (s + 1) + 1) : SubSeq(frames, s + 1, n)[i] = frames[(s + 1) + i - 1]
    BY <2>1, <2>2, SubSeqProperties
  <2>4. \A i \in 1..m : i \in 1..(n - (s + 1) + 1) /\ (s + 1) + i - 1 = s + i /\ s + i \in 1..n
    BY <1>0, <1>1
  <2> QED  BY <1>0, <2>3, <2>4
<1>3. \A i, j \in 1..n : frames[i] = Lossy!Remains /\ frames[j] = Lossy!Remains => i = j
  BY <1>0, <1>1, CutIsRemains DEF Exact!OneCut
<1>4. s \in {1, 2}
  <2> SUFFICES ASSUME s > 2 PROVE FALSE  BY <1>0
  <2>1. 1 \in 1..(s - 1) /\ 2 \in 1..(s - 1) /\ 1 \in 1..n /\ 2 \in 1..n  BY <1>0, <1>1
  <2> QED  BY <1>0, <1>3, <2>1
<1>5. Exact!OneCut(rest)
  <2> SUFFICES ASSUME NEW i \in 1..m, NEW j \in 1..m,
                      rest[i] = Lossy!Remains, rest[j] = Lossy!Remains
               PROVE  i = j
    BY <1>0, <1>1, CutIsRemains DEF Exact!OneCut
  <2>1. s + i = s + j  BY <1>0, <1>2, <1>3
  <2> QED  BY <1>0, <1>1, <2>1
<1>6. /\ Exact!HasCut(frames) <=> \E i \in 1..n : frames[i] = Lossy!Remains
      /\ Exact!HasCut(rest) <=> \E i \in 1..m : rest[i] = Lossy!Remains
  BY <1>0, <1>1, CutIsRemains DEF Exact!HasCut
<1>7. CASE s = 1
  <2>1. Exact!HasCut(frames) <=> Exact!HasCut(rest)
    <3>1. ASSUME NEW i \in 1..n, frames[i] = Lossy!Remains
          PROVE  \E j \in 1..m : rest[j] = Lossy!Remains
      <4>1. i # 1  BY <1>0, <1>7, <3>1
      <4>2. i - 1 \in 1..m /\ s + (i - 1) = i  BY <1>0, <1>1, <1>7, <4>1
      <4> QED  BY <1>0, <1>2, <3>1, <4>2
    <3> QED  BY <1>0, <1>2, <1>6, <3>1
  <2> QED
    <3>1. /\ Exact!Room(frames) = Capacity - (IF Exact!HasCut(frames) THEN n - 1 ELSE n)
          /\ Exact!Room(rest) = Capacity - (IF Exact!HasCut(frames) THEN m - 1 ELSE m)
      BY <2>1 DEF Exact!Room, Exact!Frames, Capacity, n, m
    <3>2. n = m + 1  BY <1>0, <1>1, <1>7
    <3>3. Exact!Room(rest) = Exact!Room(frames) + 1
      <4>1. Capacity \in Nat  BY SizesTyped
      <4> QED  BY <1>1, <3>1, <3>2, <4>1
    <3>4. Spare \in Nat  BY SizesTyped
    <3> QED  BY <1>0, <1>4, <1>5, <1>7, <2>1, <3>3, <3>4 DEF SpareLeft
<1>8. CASE s = 2
  <2>1. 1 \in 1..(s - 1) /\ 1 \in 1..n  BY <1>0, <1>1, <1>8
  <2>2. frames[1] = Lossy!Remains /\ Exact!HasCut(frames)  BY <1>0, <1>6, <2>1
  <2>3. ~Exact!HasCut(rest)
    <3> SUFFICES ASSUME NEW i \in 1..m, rest[i] = Lossy!Remains PROVE FALSE
      BY <1>0, <1>6
    <3>1. s + i = 1  BY <1>0, <1>2, <1>3, <2>1, <2>2
    <3> QED  BY <1>0, <1>8, <3>1
  <2>4. Exact!Room(frames) = Capacity - (n - 1)
        /\ Exact!Room(rest) = Capacity - m
    BY <2>2, <2>3 DEF Exact!Room, Exact!Frames, Capacity, n, m
  <2>5. Exact!Room(rest) = Exact!Room(frames) + 1
    <3>1. n = m + 2  BY <1>0, <1>1, <1>8
    <3> QED  BY <1>0, <1>1, <2>4, <3>1, SizesTyped
  <2>6. Spare \in Nat  BY SizesTyped
  <2> QED  BY <1>0, <1>4, <1>5, <1>8, <2>2, <2>3, <2>5, <2>6 DEF SpareLeft
<1> QED  BY <1>4, <1>7, <1>8

EInv == RInv /\ q = FramesIn(Held(rb)) /\ Measured(Held(rb)) /\ Balanced(Held(rb), q)

(* A frame that does not fit is cut where Outbox cuts it.                  *)
LEMMA PutsExactly ==
  ASSUME OneSize, EInv, NEW packet \in Payload, QUEUE_Puts(packet)
  PROVE  Exact!Puts(packet) /\ EInv'
<1> DEFINE left == SpareLeft(q)
           room == Exact!Room(q)
           stored == Lossy!Stored(packet)
<1>1. /\ RInv /\ q = FramesIn(Held(rb)) /\ Measured(Held(rb))
      /\ Exact!OneCut(q) /\ Size - Len(Held(rb)) = FrameSize * room + left
  BY DEF EInv, Balanced
<1>2. RInv' /\ got' = got /\ q' = FramesIn(Held(rb))'  BY <1>1, PutsKeeps, PutsAdds
<1>3. PICK part : Adds(Held(rb), part, Held(rb'), packet)  BY <1>1, PutsAdds
<1>4. /\ Held(rb) \in Seq(Byte) /\ part \in Seq(Byte) /\ Held(rb') = Held(rb) \o part
      /\ part # <<>> => part[1] = BEG
      /\ \/ /\ Len(part) = FrameSize /\ Len(part) <= Size - Len(Held(rb))
            /\ FramesIn(part) = <<stored>>
         \/ /\ Size - Len(Held(rb)) < FrameSize /\ Len(part) = Size - Len(Held(rb))
            /\ FramesIn(part) = IF part = <<>> THEN <<>> ELSE <<Lossy!Remains>>
  BY <1>3 DEF Adds, OneSize
<1>5. Len(part) \in Nat /\ Len(Held(rb)) \in Nat
      /\ Len(Held(rb')) = Len(Held(rb)) + Len(part)
  BY <1>4, LenProperties, ConcatProperties
<1>6. /\ FramesIn(part) = <<>> => q' = q
      /\ \A x : FramesIn(part) = <<x>> => q' = Append(q, x)
  BY <1>1, <1>2, <1>3, QueueAdds
<1>7. PICK H : q \in Seq(H)  BY <1>1, <1>2, <1>3, QueueAdds
<1>8. /\ Size \in Nat /\ FrameSize \in Nat /\ FrameSize >= 1
      /\ Spare \in Nat /\ Spare < FrameSize /\ Capacity \in Nat
  BY SizesTyped
<1>9. room \in Int /\ left \in {0, Spare} /\ left \in Nat
  <2>1. Len(q) \in Nat  BY <1>7, LenProperties
  <2> QED  BY <1>8, <2>1 DEF Exact!Room, Exact!Frames, Capacity, SpareLeft
<1>10. Size - Len(Held(rb)) \in Nat
  <2>1. rb.fill_cnt \in 0..Size /\ rb \in RINGBUF  BY <1>1 DEF RInv, PointersAgree, RINGBUF
  <2>2. Len(Held(rb)) = rb.fill_cnt  BY <2>1, HeldTyped
  <2> QED  BY <1>8, <2>1, <2>2
<1> DEFINE free == Size - Len(Held(rb))
<1>11. /\ room \in Nat
       /\ FrameSize <= free <=> 1 <= room
       /\ free < FrameSize => room = 0 /\ free = left
  <2> HIDE DEF room, left
  <2> QED  BY <1>1, <1>9, <1>10, RoomProperties
<1>12. stored # Lossy!Remains /\ Exact!Publication(None, packet) = stored
  BY DEF Lossy!Stored, Lossy!Remains, Exact!Publication
<1>13. Measured(part) => Measured(Held(rb'))
  BY <1>1, <1>4, MeasuredJoined
<1>14. Len(<<stored>>) = 1 /\ SubSeq(<<stored>>, 1, 0) = <<>>
  OBVIOUS
<1> DEFINE onlyStored == Exact!QUEUE_Puts(q, <<stored>>)
<1>15. onlyStored = IF 1 <= room THEN q \o <<stored>>
                    ELSE LET kept == q \o SubSeq(<<stored>>, 1, room)
                         IN  IF Size % FrameSize # 0 /\ ~Exact!HasCut(q)
                             THEN Append(kept, Exact!CUT) ELSE kept
  BY <1>14 DEF Exact!QUEUE_Puts
<1>16. Exact!Puts(packet) <=> q' = onlyStored /\ got' = got
  BY <1>12 DEF Exact!Puts
<1> HIDE DEF onlyStored, stored, room, left
<1>17. CASE /\ Len(part) = FrameSize /\ Len(part) <= free
            /\ FramesIn(part) = <<stored>>
  <2>1. q' = Append(q, stored)  BY <1>6, <1>17
  <2>2. 1 <= room
    <3>1. FrameSize <= free  BY <1>17
    <3> QED  BY <1>11, <3>1
  <2>3. Append(q, stored) = q \o <<stored>>
    <3>1. q \in Seq(H \cup {stored}) /\ stored \in H \cup {stored}
      BY <1>7, LenProperties, SeqDef
    <3> QED  BY <3>1, AppendIsConcat
  <2>4. Exact!Puts(packet)  BY <1>2, <1>15, <1>16, <2>1, <2>2, <2>3
  <2>5. Measured(Held(rb'))
    <3>1. part # <<>>  BY <1>8, <1>17, EmptySeq
    <3>2. FrameBytes(stored) = FrameSize  BY <1>12 DEF FrameBytes
    <3>3. Measured(part)  BY <1>4, <1>17, <3>1, <3>2, MeasuredOne
    <3> QED  BY <1>13, <3>3
  <2>6. Balanced(Held(rb'), q')
    <3>1. /\ Exact!OneCut(q') /\ Exact!Room(q') = room - 1
          /\ Exact!HasCut(q') <=> Exact!HasCut(q)
      BY <1>1, <1>7, <1>12, <2>1, RoomAfterAppend DEF room
    <3>2. SpareLeft(q') = left  BY <3>1 DEF SpareLeft, left
    <3>3. Size - Len(Held(rb')) = free - FrameSize  BY <1>5, <1>8, <1>17
    <3>4. FrameSize * (room - 1) = FrameSize * room - FrameSize
      <4>1. \A a \in Nat, b \in Int : a * (b - 1) = a * b - a  OBVIOUS
      <4> QED  BY <1>8, <1>9, <4>1
    <3> DEFINE product == FrameSize * room
    <3>5. product \in Int /\ free = product + left  BY <1>1, <1>8, <1>9
    <3>6. free - FrameSize = (product - FrameSize) + left
      <4> HIDE DEF product, free
      <4> QED  BY <1>8, <1>9, <3>5
    <3> QED  BY <3>1, <3>2, <3>3, <3>4, <3>6 DEF Balanced
  <2> QED  BY <1>2, <2>4, <2>5, <2>6 DEF EInv
<1>18. CASE /\ free < FrameSize /\ Len(part) = free
            /\ FramesIn(part) = IF part = <<>> THEN <<>> ELSE <<Lossy!Remains>>
  <2>1. room = 0 /\ free = left /\ ~(1 <= room)  BY <1>11, <1>18
  <2>2. q \o SubSeq(<<stored>>, 1, room) = q
    <3>1. SubSeq(<<stored>>, 1, room) = <<>>  BY <2>1, SubSeqEmpty
    <3> QED  BY <1>7, <3>1, ConcatEmptySeq
  <2>3. onlyStored = IF Spare # 0 /\ ~Exact!HasCut(q) THEN Append(q, Lossy!Remains) ELSE q
    BY <1>15, <2>1, <2>2, CutIsRemains DEF Spare
  <2>4. part = <<>> <=> left = 0  BY <1>4, <1>18, <2>1, EmptySeq
  <2>5. left # 0 <=> Spare # 0 /\ ~Exact!HasCut(q)  BY DEF left, SpareLeft
  <2>6. Len(Held(rb')) = Size  BY <1>5, <1>8, <1>18
  <2>7. CASE left = 0
    <3>1. q' = q /\ part = <<>>  BY <1>6, <1>18, <2>4, <2>7
    <3>2. Exact!Puts(packet)  BY <1>2, <1>16, <2>3, <2>5, <2>7, <3>1
    <3>3. Measured(Held(rb'))  BY <1>13, <3>1, MeasuredNone
    <3>4. Held(rb') = Held(rb)  BY <1>4, <3>1, ConcatEmptySeq
    <3>5. Balanced(Held(rb'), q')  BY <3>1, <3>4 DEF EInv
    <3> QED  BY <1>2, <3>2, <3>3, <3>5 DEF EInv
  <2>8. CASE left # 0
    <3>1. q' = Append(q, Lossy!Remains) /\ part # <<>>  BY <1>6, <1>18, <2>4, <2>8
    <3>2. Exact!Puts(packet)  BY <1>2, <1>16, <2>3, <2>5, <2>8, <3>1
    <3>3. left = Spare /\ FrameBytes(Lossy!Remains) = Spare  BY <1>9, <2>8 DEF FrameBytes
    <3>4. Measured(part)  BY <1>4, <1>18, <2>1, <3>1, <3>3, MeasuredOne
    <3>5. /\ Exact!OneCut(q') /\ Exact!Room(q') = room /\ Exact!HasCut(q')
      BY <1>1, <1>7, <2>5, <2>8, <3>1, RoomAfterAppend DEF room
    <3>6. SpareLeft(q') = 0  BY <3>5 DEF SpareLeft
    <3>7. Balanced(Held(rb'), q')
      <4>1. FrameSize * 0 + 0 = 0 /\ Size - Size = 0  BY <1>8
      <4> QED  BY <2>1, <2>6, <3>5, <3>6, <4>1 DEF Balanced
    <3> QED  BY <1>2, <1>13, <3>2, <3>4, <3>7 DEF EInv
  <2> QED  BY <2>7, <2>8
<1> QED  BY <1>4, <1>17, <1>18

LEMMA NothingBalanced ==
  ASSUME OneSize
  PROVE  Balanced(<<>>, <<>>)
<1>1. ~Exact!HasCut(<<>>) /\ Exact!OneCut(<<>>)  BY DEF Exact!HasCut, Exact!OneCut
<1>2. Size = FrameSize * Capacity + Spare /\ Size \in Nat /\ Capacity \in Nat  BY SizesTyped
<1>3. Len(<<>>) = 0  OBVIOUS
<1>4. Exact!Room(<<>>) = Capacity
  BY <1>1, <1>2, <1>3 DEF Exact!Room, Exact!Frames, Capacity
<1>5. SpareLeft(<<>>) = Spare  BY <1>1 DEF SpareLeft
<1>6. Size - 0 = Size  BY <1>2
<1> QED  BY <1>1, <1>2, <1>3, <1>4, <1>5, <1>6 DEF Balanced

LEMMA TailTwice ==
  ASSUME NEW H, NEW frames \in Seq(H), Len(frames) >= 2
  PROVE  Tail(Tail(frames)) = SubSeq(frames, 3, Len(frames))
<1> DEFINE n == Len(frames)
           second == SubSeq(frames, 3, n)
<1>1. n \in Nat /\ frames # <<>>  BY LenProperties
<1>2. /\ Tail(frames) \in Seq(H) /\ Len(Tail(frames)) = n - 1
      /\ \A i \in 1..Len(Tail(frames)) : Tail(frames)[i] = frames[i + 1]
  BY <1>1, HeadTailProperties
<1>3. Tail(frames) # <<>>
  <2>1. Len(<<>>) = 0 /\ Len(Tail(frames)) # 0  BY <1>1, <1>2
  <2> QED  BY <2>1
<1>4. /\ Tail(Tail(frames)) \in Seq(H) /\ Len(Tail(Tail(frames))) = (n - 1) - 1
      /\ \A i \in 1..Len(Tail(Tail(frames))) : Tail(Tail(frames))[i] = Tail(frames)[i + 1]
  BY <1>2, <1>3, HeadTailProperties
<1>5. /\ second \in Seq(H) /\ Len(second) = n - 2
      /\ \A i \in 1..(n - 2) : second[i] = frames[i + 2]
  <2>1. \A i \in 3..n : frames[i] \in H
    <3>1. \A i \in 3..n : i \in 1..n  BY <1>1
    <3> QED  BY <3>1, ElementOfSeq
  <2> HIDE DEF n
  <2>2. /\ second \in Seq(H) /\ Len(second) = IF 3 <= n THEN n - 3 + 1 ELSE 0
        /\ \A i \in 1..(n - 3 + 1) : second[i] = frames[3 + i - 1]
    <3>1. 3 \in Int /\ n \in Int  BY <1>1
    <3> QED  BY <2>1, <3>1, SubSeqProperties
  <2> HIDE DEF second
  <2>3. n >= 2  BY DEF n
  <2>4. \A i \in 1..(n - 2) : i \in 1..(n - 3 + 1) /\ 3 + i - 1 = i + 2  BY <1>1
  <2> QED  BY <1>1, <2>2, <2>3, <2>4
<1> HIDE DEF second, n
<1>6. \A i \in 1..(n - 2) : Tail(Tail(frames))[i] = second[i]
  <2> SUFFICES ASSUME NEW i \in 1..(n - 2) PROVE Tail(Tail(frames))[i] = second[i]
    OBVIOUS
  <2>1. i \in 1..Len(Tail(Tail(frames))) /\ i + 1 \in 1..Len(Tail(frames))
        /\ (i + 1) + 1 = i + 2
    BY <1>1, <1>2, <1>4
  <2> QED  BY <1>2, <1>4, <1>5, <2>1
<1>7. (n - 1) - 1 = n - 2  BY <1>1
<1> QED  BY <1>4, <1>5, <1>6, <1>7, SeqEqual DEF second, n

(* A get finds at most one cut frame and gives back the room of the frame  *)
(* it delivers and of the cut one before it.                               *)
LEMMA GetsExactly ==
  ASSUME OneSize, EInv, QUEUE_Gets
  PROVE  Exact!Gets /\ EInv'
<1>1. /\ RInv /\ q = FramesIn(Held(rb)) /\ Measured(Held(rb))
      /\ Exact!OneCut(q)
      /\ Size - Len(Held(rb)) = FrameSize * Exact!Room(q) + SpareLeft(q)
  BY DEF EInv, Balanced
<1>2. /\ ret' = ret /\ q' = FramesIn(Held(rb))'
      /\ \/ \E part, s : Splits(Held(rb), part, Held(rb'), s, got')
         \/ /\ got' = None /\ q' = <<>> /\ Held(rb') = <<>>
            /\ \A j \in DOMAIN q : q[j] = Lossy!Remains
  BY <1>1, GetsSplits
<1>3. RInv'  BY <1>1, GetsKeeps
<1>4. /\ Size \in Nat /\ FrameSize \in Nat /\ FrameSize >= 1
      /\ Spare \in Nat /\ Spare < FrameSize /\ Capacity \in Nat
      /\ Size = FrameSize * Capacity + Spare
  BY SizesTyped
<1>5. Held(rb) \in Seq(Byte) /\ Len(Held(rb)) \in Nat
  BY <1>1, HeldTyped, LenProperties DEF RInv, PointersAgree
<1>6. ASSUME NEW part, NEW s, Splits(Held(rb), part, Held(rb'), s, got')
      PROVE  Exact!Gets /\ EInv'
  <2>1. /\ s \in DOMAIN q /\ q' = SubSeq(q, s + 1, Len(q))
        /\ q[s] = Lossy!Stored(got') /\ \A j \in 1..(s - 1) : q[j] = Lossy!Remains
        /\ \E H : q \in Seq(H) /\ q' \in Seq(H) /\ Len(q) = s + Len(q')
    BY <1>1, <1>2, <1>6, QueueSplits
  <2>2. PICK H : q \in Seq(H) /\ q' \in Seq(H) /\ Len(q) = s + Len(q')
    BY <2>1
  <2>3. s \in Nat \ {0} /\ q[s] # Lossy!Remains /\ got' = q[s].data
    BY <1>6, <2>1 DEF Splits, Lossy!Stored, Lossy!Remains
  <2>4. /\ s \in {1, 2} /\ Exact!OneCut(q')
        /\ Exact!Room(q') = Exact!Room(q) + 1
        /\ SpareLeft(q') = SpareLeft(q) + (IF s = 1 THEN 0 ELSE Spare)
    <3>1. Loses(q, q', s)  BY <1>1, <2>1, <2>2, <2>3 DEF Loses
    <3> QED  BY <2>2, <3>1, RoomAfterGet
  <2>5. /\ Measured(Held(rb'))
        /\ Len(part) = FrameSize + (IF s = 1 THEN 0 ELSE Spare)
    BY <1>1, <1>6, <2>4, SplitMeasured
  <2>6. Len(Held(rb)) = Len(part) + Len(Held(rb')) /\ Len(Held(rb')) \in Nat
    BY <1>6, ConcatProperties, LenProperties DEF Splits
  <2>7. Balanced(Held(rb'), q')
    <3> DEFINE room == Exact!Room(q)
               left == SpareLeft(q)
               more == IF s = 1 THEN 0 ELSE Spare
               product == FrameSize * room
    <3>1. room \in Int /\ left \in Nat
      <4>1. Len(q) \in Nat  BY <2>2, LenProperties
      <4> QED  BY <1>4, <4>1 DEF Exact!Room, Exact!Frames, Capacity, SpareLeft
    <3>2. FrameSize * (room + 1) = product + FrameSize
      <4> HIDE DEF room
      <4>1. \A a \in Nat, b \in Int : a * (b + 1) = a * b + a  OBVIOUS
      <4> QED  BY <1>4, <3>1, <4>1
    <3>3. more \in Nat  BY <1>4
    <3>4. product \in Int
      <4> HIDE DEF room
      <4> QED  BY <1>4, <3>1
    <3>5. Size - Len(Held(rb)) = product + left  BY <1>1
    <3>6. SpareLeft(q') = left + more /\ Len(part) = FrameSize + more
      BY <2>4, <2>5
    <3> HIDE DEF product, room, left, more
    <3>7. Size - Len(Held(rb')) = (product + FrameSize) + (left + more)
      BY <1>4, <1>5, <2>6, <3>1, <3>3, <3>4, <3>5, <3>6
    <3>8. Exact!Room(q') = room + 1  BY <2>4 DEF room
    <3> QED  BY <2>4, <3>2, <3>6, <3>7, <3>8 DEF Balanced
  <2>8. Exact!Gets
    <3>1. q # <<>> /\ Len(q) \in Nat /\ DOMAIN q = 1..Len(q)  BY <2>1, <2>2, LenProperties
    <3>2. Head(q) = q[1] /\ Tail(q) = SubSeq(q, 2, Len(q))
      BY <2>2, <3>1, HeadTailProperties
    <3>3. CASE s = 1
      <4>1. Exact!FromNextFrame(q) = q
        BY <2>3, <3>2, <3>3, CutIsRemains DEF Exact!FromNextFrame
      <4>2. q' = Tail(q)
        <5>1. s + 1 = 2  BY <3>3
        <5> QED  BY <2>1, <3>2, <5>1
      <4> QED  BY <2>3, <3>1, <3>2, <3>3, <4>1, <4>2 DEF Exact!Gets, Exact!CanGet, Exact!AfterGet
    <3>4. CASE s = 2
      <4>1. q[1] = Lossy!Remains
        <5>1. 1 \in 1..(s - 1)  BY <3>4
        <5> QED  BY <2>1, <5>1
      <4>2. Exact!FromNextFrame(q) = Tail(q)
        BY <3>1, <3>2, <4>1, CutIsRemains DEF Exact!FromNextFrame
      <4>3. /\ Tail(q) \in Seq(H) /\ Len(Tail(q)) = Len(q) - 1
            /\ \A i \in 1..Len(Tail(q)) : Tail(q)[i] = q[i + 1]
        BY <2>2, <3>1, HeadTailProperties
      <4>4. 2 \in 1..Len(q)  BY <2>1, <3>1, <3>4
      <4>5. Tail(q) # <<>> /\ Head(Tail(q)) = q[2]
        <5>1. Len(Tail(q)) # 0 /\ 1 \in 1..Len(Tail(q))  BY <3>1, <4>3, <4>4
        <5>2. Tail(q) # <<>>
          <6>1. Len(<<>>) = 0  OBVIOUS
          <6> QED  BY <5>1, <6>1
        <5>3. Tail(q)[1] = q[1 + 1]  BY <4>3, <5>1
        <5>4. Head(Tail(q)) = Tail(q)[1]  BY <4>3, <5>2
        <5> QED  BY <5>2, <5>3, <5>4
      <4>6. Tail(Tail(q)) = SubSeq(q, 3, Len(q))
        BY <2>2, <3>1, <3>2, <4>3, <4>4, <4>5, TailTwice
      <4> QED  BY <2>1, <2>3, <3>4, <4>2, <4>5, <4>6, SMTT(30) DEF Exact!Gets, Exact!CanGet, Exact!AfterGet
    <3> QED  BY <2>4, <3>3, <3>4
  <2> QED  BY <1>2, <1>3, <2>5, <2>7, <2>8 DEF EInv
<1>7. CASE /\ got' = None /\ q' = <<>> /\ Held(rb') = <<>>
           /\ \A j \in DOMAIN q : q[j] = Lossy!Remains
  <2>1. Exact!FromNextFrame(q) = <<>>
    <3>1. PICK H : q \in Seq(H)  BY <1>1, <1>5, FramesTyped
    <3>2. Len(q) \in Nat /\ DOMAIN q = 1..Len(q)  BY <3>1, LenProperties
    <3>3. Len(q) <= 1
      <4> SUFFICES ASSUME Len(q) > 1 PROVE FALSE  BY <3>2
      <4>1. 1 \in DOMAIN q /\ 2 \in DOMAIN q  BY <3>2
      <4>2. q[1] = Exact!CUT /\ q[2] = Exact!CUT  BY <1>7, <4>1, CutIsRemains
      <4> QED  BY <1>1, <4>1, <4>2 DEF Exact!OneCut
    <3>4. CASE q = <<>>  BY <3>4 DEF Exact!FromNextFrame
    <3>5. CASE q # <<>>
      <4>1. Len(q) = 1  BY <3>1, <3>2, <3>3, <3>5, EmptySeq
      <4>2. Head(q) = q[1]  BY <3>1, <3>5
      <4>3. 1 \in DOMAIN q  BY <3>2, <4>1
      <4>4. Exact!FromNextFrame(q) = Tail(q)
        BY <1>7, <3>5, <4>2, <4>3, CutIsRemains DEF Exact!FromNextFrame
      <4>5. Tail(q) \in Seq(H) /\ Len(Tail(q)) = 0
        BY <3>1, <3>5, <4>1, HeadTailProperties
      <4> QED  BY <4>4, <4>5, EmptySeq
    <3> QED  BY <3>4, <3>5
  <2>2. Exact!Gets
    BY <1>7, <2>1 DEF Exact!Gets, Exact!CanGet, Exact!AfterGet
  <2>3. Measured(Held(rb'))  BY <1>7, MeasuredNone
  <2>4. Balanced(Held(rb'), q')  BY <1>7, NothingBalanced
  <2> QED  BY <1>2, <1>3, <2>2, <2>3, <2>4 DEF EInv
<1> QED  BY <1>2, <1>6, <1>7

(* With frames of one size, whatever the ring's size and the bytes in the  *)
(* packets, the queue is the one the broker's model uses: as many frames   *)
(* fit as Outbox says, one that does not is cut only into spare bytes, and *)
(* at most one cut frame is ever in the ring.                              *)
THEOREM RingImplementsOutbox == OneSize => (Spec => ImplementsOutbox)
<1> SUFFICES ASSUME OneSize PROVE Spec => ImplementsOutbox
  OBVIOUS
<1>1. Init => EInv /\ Exact!Init
  <2> SUFFICES ASSUME Init PROVE EInv /\ Exact!Init  OBVIOUS
  <2>1. RInv  BY InitKeeps
  <2>2. rb.fill_cnt = 0 /\ rb \in RINGBUF
    BY <2>1 DEF Init, RINGBUF_Init, RInv, PointersAgree
  <2>3. Held(rb) = <<>>  BY <2>2, HeldTyped, EmptySeq
  <2>4. q = <<>> /\ q = FramesIn(Held(rb))  BY <2>3, NoFrames DEF Init
  <2> QED  BY <2>1, <2>3, <2>4, MeasuredNone, NothingBalanced DEF Init, EInv, Exact!Init
<1>2. EInv /\ [Next]_vars => EInv' /\ [Exact!Next]_(Exact!vars)
  <2> SUFFICES ASSUME EInv, [Next]_vars
               PROVE  EInv' /\ [Exact!Next]_(Exact!vars)
    OBVIOUS
  <2>1. CASE \E packet \in Payload : QUEUE_Puts(packet)
    BY <2>1, PutsExactly DEF Exact!Next
  <2>2. CASE QUEUE_Gets
    BY <2>2, GetsExactly DEF Exact!Next
  <2>3. CASE UNCHANGED vars
    <3>1. rb' = rb /\ q' = q /\ ret' = ret /\ got' = got  BY <2>3 DEF vars
    <3>2. Held(rb)' = Held(rb)  BY <3>1 DEF Held
    <3>3. RInv'  BY <3>1, <3>2 DEF EInv, RInv, PointersAgree, Marked
    <3> QED  BY <3>1, <3>2, <3>3 DEF EInv, Exact!vars, Measured, Balanced
  <2> QED  BY <2>1, <2>2, <2>3 DEF Next
<1> QED  BY <1>1, <1>2, PTL DEF Spec, ImplementsOutbox, Exact!Spec
=============================================================================
