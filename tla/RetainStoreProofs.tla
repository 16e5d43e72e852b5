------------------------- MODULE RetainStoreProofs -------------------------
(***************************************************************************)
(* What a start of the broker finds in flash, for every size of the table  *)
(* and of the buffer, every set of topics and contents, and wherever the   *)
(* power went.                                                             *)
(*                                                                         *)
(* The one fact about the encoding is ReadBack: deserialising what a write *)
(* of serialised entries has left in an erased sector, interrupted or not, *)
(* gives the first of these entries, the last perhaps damaged; when it was *)
(* not interrupted, those in front of the first with an empty topic.       *)
(***************************************************************************)
EXTENDS RetainStore, SequenceProofs

(* The entries that the table and the image hold.                          *)
Entry == [topic : Seq(1..255), data : Seq(Byte) \ {<<>>}, qos : Byte]

-----------------------------------------------------------------------------
(* The encoding of an entry.                                               *)

LEMMA Sizes ==
  /\ MAX_RETAINED_LEN \in Nat /\ MAX_RETAINED_LEN >= 8 /\ MAX_RETAINED_LEN <= 4096
  /\ MaxRetained \in Nat /\ MaxRetained >= 1
BY RetainAssumption DEF SPI_FLASH_SEC_SIZE

LEMMA EntryTyped ==
  ASSUME NEW e \in Entry
  PROVE  /\ e.topic \in Seq(1..255) /\ e.data \in Seq(Byte) /\ e.qos \in Byte
         /\ Len(e.topic) \in Nat /\ Len(e.data) \in Nat \ {0}
         /\ e.topic # <<>> => Len(e.topic) # 0
         /\ \A i \in 1..Len(e.topic) : e.topic[i] \in 1..255
         /\ \A i \in 1..Len(e.data) : e.data[i] \in Byte
<1>1. /\ e.topic \in Seq(1..255) /\ e.data \in Seq(Byte) /\ e.qos \in Byte
      /\ e.data # <<>>
  BY DEF Entry
<1>2. Len(e.topic) \in Nat /\ (e.topic # <<>> => Len(e.topic) # 0)
  BY <1>1, EmptySeq, LenProperties
<1>3. Len(e.data) \in Nat /\ Len(e.data) # 0  BY <1>1, EmptySeq, LenProperties
<1> QED  BY <1>1, <1>2, <1>3, ElementOfSeq

LEMMA CodeForm ==
  ASSUME NEW topic \in Seq(Byte), NEW data \in Seq(Byte), NEW qos \in Byte
  PROVE  LET a == Len(topic)
             d == Len(data)
             code == topic \o <<0, d % 256, (d \div 256) % 256>> \o data \o <<qos>>
         IN  /\ code \in Seq(Byte) /\ Len(code) = a + d + 4
             /\ \A i \in 1..a : code[i] = topic[i]
             /\ code[a + 1] = 0
             /\ code[a + 2] = d % 256
             /\ code[a + 3] = (d \div 256) % 256
             /\ \A i \in 1..d : code[a + 3 + i] = data[i]
             /\ code[a + d + 4] = qos
<1> DEFINE a == Len(topic)
           d == Len(data)
           size == <<0, d % 256, (d \div 256) % 256>>
           code == ((topic \o size) \o data) \o <<qos>>
<1>1. a \in Nat /\ d \in Nat  BY LenProperties
<1>2. d % 256 \in Byte /\ (d \div 256) % 256 \in Byte
  <2>1. \A x \in Nat : x % 256 \in 0..255 /\ x \div 256 \in Nat  OBVIOUS
  <2> QED  BY <1>1, <2>1, ZenonT(40) DEF Byte
<1>3. /\ size \in Seq(Byte) /\ Len(size) = 3
      /\ size[1] = 0 /\ size[2] = d % 256 /\ size[3] = (d \div 256) % 256
  <2>1. \A x, y, z \in Byte : <<x, y, z>> \in Seq(Byte) /\ Len(<<x, y, z>>) = 3
    OBVIOUS
  <2>2. 0 \in Byte  BY DEF Byte
  <2>3. size \in Seq(Byte) /\ Len(size) = 3  BY <1>2, <2>1, <2>2
  <2>4. size[1] = 0 /\ size[2] = d % 256 /\ size[3] = (d \div 256) % 256  OBVIOUS
  <2> QED  BY <2>3, <2>4
<1>4. <<qos>> \in Seq(Byte) /\ Len(<<qos>>) = 1 /\ <<qos>>[1] = qos
  <2>1. \A x \in Byte : <<x>> \in Seq(Byte) /\ Len(<<x>>) = 1  OBVIOUS
  <2>2. <<qos>>[1] = qos  OBVIOUS
  <2> QED  BY <1>1, <2>1, <2>2
<1>5. a = Len(topic) /\ d = Len(data)  OBVIOUS
<1> HIDE DEF size, code, a, d
<1> DEFINE p == topic \o size
<1>6. /\ p \in Seq(Byte) /\ Len(p) = a + 3
      /\ \A i \in 1..(a + 3) : p[i] = IF i <= a THEN topic[i] ELSE size[i - a]
  <2>1. size \in Seq(Byte)  BY <1>3
  <2>2. /\ p \in Seq(Byte) /\ Len(p) = Len(topic) + Len(size)
        /\ \A i \in 1..(Len(topic) + Len(size)) :
             p[i] = IF i <= Len(topic) THEN topic[i] ELSE size[i - Len(topic)]
    BY <2>1, ConcatProperties
  <2> HIDE DEF p
  <2>3. Len(topic) = a /\ Len(size) = 3  BY <1>3, <1>5
  <2> QED  BY <2>2, <2>3
<1> HIDE DEF p
<1> DEFINE q == p \o data
<1>7. /\ q \in Seq(Byte) /\ Len(q) = a + 3 + d
      /\ \A i \in 1..(a + 3 + d) : q[i] = IF i <= a + 3 THEN p[i] ELSE data[i - (a + 3)]
  <2>1. /\ q \in Seq(Byte) /\ Len(q) = Len(p) + Len(data)
        /\ \A i \in 1..(Len(p) + Len(data)) :
             q[i] = IF i <= Len(p) THEN p[i] ELSE data[i - Len(p)]
    BY <1>6, ConcatProperties
  <2> HIDE DEF q
  <2>2. Len(p) = a + 3 /\ Len(data) = d  BY <1>5, <1>6
  <2> QED  BY <2>1, <2>2
<1> HIDE DEF q
<1>8. /\ code \in Seq(Byte) /\ Len(code) = a + d + 4
      /\ \A i \in 1..(a + d + 4) : code[i] = IF i <= a + 3 + d THEN q[i] ELSE qos
  <2>1. code = q \o <<qos>>  BY DEF code, q, p
  <2>2. /\ code \in Seq(Byte) /\ Len(code) = Len(q) + 1
        /\ \A i \in 1..(Len(q) + 1) :
             code[i] = IF i <= Len(q) THEN q[i] ELSE <<qos>>[i - Len(q)]
    BY <1>4, <1>7, <2>1, ConcatProperties
  <2>3. Len(q) + 1 = a + d + 4 /\ \A i \in 1..(a + d + 4) : ~(i <= Len(q)) => i - Len(q) = 1
    BY <1>1, <1>7
  <2>4. \A i \in 1..(a + d + 4) : ~(i <= Len(q)) => <<qos>>[i - Len(q)] = qos
    BY <1>4, <2>3
  <2> QED  BY <1>7, <2>2, <2>3, <2>4
<1>9. \A i \in 1..a : code[i] = topic[i]
  <2>1. \A i \in 1..a : /\ i \in 1..(a + d + 4) /\ i <= a + 3 + d /\ i <= a + 3
                        /\ i \in 1..(a + 3 + d) /\ i \in 1..(a + 3) /\ i <= a
    BY <1>1
  <2> QED  BY <1>6, <1>7, <1>8, <2>1
<1>10. \A i \in {1, 2, 3} : code[a + i] = size[i]
  <2>1. \A i \in {1, 2, 3} : /\ a + i \in 1..(a + d + 4) /\ a + i <= a + 3 + d /\ a + i <= a + 3
                             /\ a + i \in 1..(a + 3 + d) /\ a + i \in 1..(a + 3)
                             /\ ~(a + i <= a) /\ (a + i) - a = i
    BY <1>1
  <2> QED  BY <1>6, <1>7, <1>8, <2>1
<1>11. \A i \in 1..d : code[a + 3 + i] = data[i]
  <2>1. \A i \in 1..d : /\ a + 3 + i \in 1..(a + d + 4) /\ a + 3 + i <= a + 3 + d
                        /\ a + 3 + i \in 1..(a + 3 + d)
                        /\ ~(a + 3 + i <= a + 3) /\ (a + 3 + i) - (a + 3) = i
    BY <1>1
  <2> QED  BY <1>7, <1>8, <2>1
<1>12. code[a + d + 4] = qos
  <2>1. a + d + 4 \in 1..(a + d + 4) /\ ~(a + d + 4 <= a + 3 + d)  BY <1>1
  <2> QED  BY <1>8, <2>1
<1> QED  BY <1>3, <1>8, <1>9, <1>10, <1>11, <1>12, SMTT(30) DEF code, size, a, d

(* Byte for byte, the encoding of e.                                       *)
CodeOf(code, e) ==
  LET a == Len(e.topic)
      d == Len(e.data)
  IN  /\ code \in Seq(Byte) /\ Len(code) = a + d + 4
      /\ \A i \in 1..a : code[i] = e.topic[i]
      /\ code[a + 1] = 0
      /\ code[a + 2] = d % 256
      /\ code[a + 3] = (d \div 256) % 256
      /\ \A i \in 1..d : code[a + 3 + i] = e.data[i]
      /\ code[a + d + 4] = e.qos

LEMMA EncodedForm ==
  ASSUME NEW e \in Entry
  PROVE  CodeOf(Encoded(e), e)
<1>1. 1..255 \subseteq Byte  BY DEF Byte
<1>2. Seq(1..255) \subseteq Seq(Byte)  BY <1>1, SeqMonotonic
<1>3. e.topic \in Seq(Byte) /\ e.data \in Seq(Byte) /\ e.qos \in Byte  BY <1>2, EntryTyped
<1> DEFINE topic == e.topic
           data == e.data
           qos == e.qos
<1>4. topic \in Seq(Byte) /\ data \in Seq(Byte) /\ qos \in Byte  BY <1>3
<1>5. Encoded(e) = topic \o <<0, Len(data) % 256, (Len(data) \div 256) % 256>> \o data \o <<qos>>
  BY DEF Encoded
<1> HIDE DEF topic, data, qos
<1>6. LET a == Len(topic)
          d == Len(data)
          code == Encoded(e)
      IN  /\ code \in Seq(Byte) /\ Len(code) = a + d + 4
          /\ \A i \in 1..a : code[i] = topic[i]
          /\ code[a + 1] = 0
          /\ code[a + 2] = d % 256
          /\ code[a + 3] = (d \div 256) % 256
          /\ \A i \in 1..d : code[a + 3 + i] = data[i]
          /\ code[a + d + 4] = qos
  BY ONLY <1>4, <1>5, CodeForm, SMTT(30)
<1> QED  BY ONLY <1>6 DEF CodeOf, topic, data, qos

-----------------------------------------------------------------------------
(* Reading a buffer.                                                       *)

NulsFrom(buf, pos) == {i \in pos..(MAX_RETAINED_LEN - 1) : buf[i] = 0}
FirstNul(buf, pos) == Lowest(NulsFrom(buf, pos))
SizeAt(buf, nul) == buf[nul + 1] + 256 * buf[nul + 2]

(* The reading ends at pos; else an entry is read, and it goes on behind.  *)
ReadEnds(buf, pos) ==
  LET nul == FirstNul(buf, pos)
  IN  \/ NulsFrom(buf, pos) = {} \/ nul = pos
      \/ nul + 2 >= MAX_RETAINED_LEN
      \/ nul + 3 + SizeAt(buf, nul) >= MAX_RETAINED_LEN

EntryAt(buf, pos) ==
  LET nul == FirstNul(buf, pos)
      size == SizeAt(buf, nul)
  IN  [topic |-> [i \in 1..(nul - pos) |-> buf[pos + i - 1]],
       data  |-> [i \in 1..size |-> buf[nul + 2 + i]],
       qos   |-> buf[nul + 3 + size]]

Behind(buf, pos) == FirstNul(buf, pos) + 4 + SizeAt(buf, FirstNul(buf, pos))

ReadAt(buf, f, pos) ==
  IF ReadEnds(buf, pos) THEN <<>> ELSE <<EntryAt(buf, pos)>> \o f[Behind(buf, pos)]

(* f is what the recursion of deserialize_retainedtopics defines from low  *)
(* to the end of the buffer.                                               *)
Reads(f, buf, low) == f = [pos \in low..MAX_RETAINED_LEN |-> ReadAt(buf, f, pos)]

Sector == [0..(MAX_RETAINED_LEN - 1) -> Byte]

LEMMA FirstNulProperties ==
  ASSUME NEW buf, NEW pos \in Nat, NulsFrom(buf, pos) # {}
  PROVE  LET nul == FirstNul(buf, pos)
         IN  /\ nul \in Nat /\ pos <= nul /\ nul < MAX_RETAINED_LEN
             /\ buf[nul] = 0
             /\ \A i \in pos..(MAX_RETAINED_LEN - 1) : buf[i] = 0 => nul <= i
<1> DEFINE N == NulsFrom(buf, pos)
<1>1. \A i \in N : i \in Nat /\ pos <= i /\ i < MAX_RETAINED_LEN /\ buf[i] = 0
  BY Sizes DEF NulsFrom
<1>2. \A i \in pos..(MAX_RETAINED_LEN - 1) : buf[i] = 0 => i \in N  BY DEF NulsFrom
<1> HIDE DEF N
<1>3. N \subseteq Nat /\ N # {}  BY <1>1 DEF N
<1>4. Lowest(N) \in N /\ \A j \in N : Lowest(N) <= j  BY <1>3, LowestProperties
<1> QED  BY <1>1, <1>2, <1>4 DEF FirstNul, N

(* An entry that is read takes up at least four bytes of the buffer.       *)
LEMMA BehindTyped ==
  ASSUME NEW buf \in Sector, NEW pos \in Nat, ~ReadEnds(buf, pos)
  PROVE  /\ SizeAt(buf, FirstNul(buf, pos)) \in Nat
         /\ Behind(buf, pos) \in Nat /\ Behind(buf, pos) > pos
         /\ Behind(buf, pos) <= MAX_RETAINED_LEN
<1> DEFINE nul == FirstNul(buf, pos)
           size == SizeAt(buf, nul)
<1>1. NulsFrom(buf, pos) # {} /\ nul + 2 < MAX_RETAINED_LEN /\ nul \in Nat /\ pos <= nul
  <2>1. NulsFrom(buf, pos) # {} /\ ~(nul + 2 >= MAX_RETAINED_LEN)  BY DEF ReadEnds
  <2>2. nul \in Nat /\ pos <= nul  BY <2>1, FirstNulProperties
  <2> HIDE DEF nul
  <2> QED  BY <2>1, <2>2, Sizes
<1>2. ~(nul + 3 + size >= MAX_RETAINED_LEN)  BY DEF ReadEnds
<1> HIDE DEF nul
<1>3. buf[nul + 1] \in Nat /\ buf[nul + 2] \in Nat
  <2>1. nul + 1 \in 0..(MAX_RETAINED_LEN - 1) /\ nul + 2 \in 0..(MAX_RETAINED_LEN - 1)
    BY <1>1, Sizes
  <2>2. \A i \in 0..(MAX_RETAINED_LEN - 1) : buf[i] \in 0..255  BY DEF Sector, Byte
  <2>3. buf[nul + 1] \in 0..255 /\ buf[nul + 2] \in 0..255  BY <2>1, <2>2
  <2> QED  BY <2>3
<1>4. size \in Nat  BY <1>3 DEF SizeAt
<1> HIDE DEF size
<1>5. nul + 4 + size \in Nat /\ nul + 4 + size > pos /\ nul + 4 + size <= MAX_RETAINED_LEN
  BY <1>1, <1>2, <1>4, Sizes
<1> QED  BY <1>4, <1>5 DEF Behind, nul, size

(* The recursion has a solution, built from the end of the buffer.         *)
LEMMA ReadFunction ==
  ASSUME NEW buf \in Sector
  PROVE  \E f : Reads(f, buf, 0)
<1> DEFINE M == MAX_RETAINED_LEN
           Soluble(m) == m <= M => \E f : Reads(f, buf, M - m)
           Solved == {m \in Nat : Soluble(m)}
<1>1. M \in Nat  BY Sizes
<1> HIDE DEF M
<1>2. Soluble(0)
  <2>1. \A pos \in M..M : ~ReadEnds(buf, pos) => FALSE
    <3> SUFFICES ASSUME ~ReadEnds(buf, M) PROVE FALSE  BY <1>1
    <3>1. Behind(buf, M) \in Nat /\ Behind(buf, M) > M /\ Behind(buf, M) <= M
      BY <1>1, BehindTyped DEF M
    <3> QED  BY <1>1, <3>1
  <2> DEFINE f == [pos \in M..M |-> <<>>]
  <2>2. f = [pos \in M..M |-> ReadAt(buf, f, pos)]  BY <2>1 DEF ReadAt
  <2> HIDE DEF f
  <2>3. M - 0 = M  BY <1>1
  <2> QED  BY <2>2, <2>3 DEF Reads, M
<1>3. ASSUME NEW m \in Nat, Soluble(m) PROVE Soluble(m + 1)
  <2> SUFFICES ASSUME m + 1 <= M PROVE \E g : Reads(g, buf, M - (m + 1))  OBVIOUS
  <2> DEFINE low == M - (m + 1)
  <2>1. low \in Nat /\ M - m = low + 1 /\ m <= M  BY <1>1
  <2>2. PICK f : Reads(f, buf, low + 1)  BY <1>3, <2>1
  <2> HIDE DEF low
  <2>3. \A pos \in (low + 1)..M : f[pos] = ReadAt(buf, f, pos)  BY <2>2 DEF Reads, M
  <2> DEFINE g == [pos \in low..M |-> IF pos = low THEN ReadAt(buf, f, pos) ELSE f[pos]]
  <2>4. \A pos \in (low + 1)..M : g[pos] = f[pos]  BY <1>1, <2>1
  <2>5. ASSUME NEW pos \in low..M PROVE ReadAt(buf, g, pos) = ReadAt(buf, f, pos)
    <3>1. CASE ReadEnds(buf, pos)  BY <3>1 DEF ReadAt
    <3>2. CASE ~ReadEnds(buf, pos)
      <4>1. pos \in Nat  BY <1>1, <2>1
      <4>2. Behind(buf, pos) \in Nat /\ Behind(buf, pos) > pos /\ Behind(buf, pos) <= M
        BY <3>2, <4>1, BehindTyped DEF M
      <4>3. Behind(buf, pos) \in (low + 1)..M  BY <1>1, <2>1, <4>1, <4>2
      <4>4. g[Behind(buf, pos)] = f[Behind(buf, pos)]  BY <2>4, <4>3
      <4> HIDE DEF g
      <4> QED  BY <4>4 DEF ReadAt
    <3> QED  BY <3>1, <3>2
  <2>6. \A pos \in low..M : g[pos] = ReadAt(buf, f, pos)
    <3> SUFFICES ASSUME NEW pos \in low..M PROVE g[pos] = ReadAt(buf, f, pos)  OBVIOUS
    <3>1. pos = low \/ pos \in (low + 1)..M  BY <1>1, <2>1
    <3> QED  BY <2>3, <2>4, <3>1
  <2>7. g = [pos \in low..M |-> g[pos]]  OBVIOUS
  <2> HIDE DEF g
  <2>8. g = [pos \in low..M |-> ReadAt(buf, g, pos)]  BY <2>5, <2>6, <2>7
  <2> QED  BY <2>8 DEF Reads, low, M
<1> HIDE DEF Soluble
<1>4. Nat \subseteq Solved
  <2>1. 0 \in Solved /\ \A m \in Nat : m \in Solved => m + 1 \in Solved  BY <1>2, <1>3
  <2> HIDE DEF Solved
  <2> QED  BY <2>1, Induction
<1>5. Soluble(M) /\ M <= M /\ M - M = 0  BY <1>1, <1>4
<1> QED  BY <1>5 DEF Soluble

(* f says what is read from each position of the buffer on.                *)
ReadFrom(f, buf) == \A pos \in 0..MAX_RETAINED_LEN : f[pos] = ReadAt(buf, f, pos)

LEMMA DeserializeReads ==
  ASSUME NEW buf \in Sector
  PROVE  \E f : ReadFrom(f, buf) /\ deserialize_retainedtopics(buf) = f[0]
<1> DEFINE Solves(f) == f = [pos \in 0..MAX_RETAINED_LEN |-> ReadAt(buf, f, pos)]
<1>1. \E f : Solves(f)  BY ReadFunction DEF Reads
<1>2. deserialize_retainedtopics(buf) = (CHOOSE f : Solves(f))[0]
  BY DEF deserialize_retainedtopics, ReadAt, ReadEnds, EntryAt, Behind, FirstNul, NulsFrom, SizeAt
<1> HIDE DEF Solves
<1>3. Solves(CHOOSE f : Solves(f))  BY <1>1
<1>4. \E f : Solves(f) /\ deserialize_retainedtopics(buf) = f[0]  BY <1>2, <1>3
<1> QED  BY <1>4 DEF Solves, ReadFrom

-----------------------------------------------------------------------------
(* Writing and reading back.                                               *)

(* buf is what n words of bytes and its terminator, written into an erased *)
(* sector, have left there.                                                *)
Carries(buf, bytes, n) ==
  /\ buf \in Sector
  /\ \A i \in 0..(MAX_RETAINED_LEN - 1) :
       /\ i < 4 * n /\ i < Len(bytes) => buf[i] = bytes[i + 1]
       /\ i < 4 * n /\ i = Len(bytes) => buf[i] = 0
       /\ i >= 4 * n \/ i > Len(bytes) => buf[i] = 255

LEMMA WriteForm ==
  ASSUME NEW bytes \in Seq(Byte), NEW n \in Nat
  PROVE  Carries(spi_flash_write(Erased, bytes, n), bytes, n)
<1> DEFINE buffer == bytes \o <<0>>
           buf == spi_flash_write(Erased, bytes, n)
           L == Len(bytes)
<1>1. L \in Nat /\ MAX_RETAINED_LEN \in Nat /\ 4 * n \in Nat  BY LenProperties, Sizes
<1>2. \A i \in 1..L : bytes[i] \in Byte  BY ElementOfSeq
<1>3. /\ Len(buffer) = L + 1
      /\ \A i \in 1..L : buffer[i] = bytes[i]
      /\ buffer[L + 1] = 0
  <2>1. <<0>> \in Seq(Byte) /\ Len(<<0>>) = 1 /\ <<0>>[1] = 0
    <3>1. \A x \in Byte : <<x>> \in Seq(Byte) /\ Len(<<x>>) = 1  OBVIOUS
    <3>2. 0 \in Byte  BY DEF Byte
    <3> QED  BY <3>1, <3>2
  <2>2. <<0>> \in Seq(Byte)  BY <2>1
  <2>3. /\ Len(buffer) = L + Len(<<0>>)
        /\ \A i \in 1..(L + Len(<<0>>)) :
             buffer[i] = IF i <= L THEN bytes[i] ELSE <<0>>[i - L]
    BY <2>2, ConcatProperties
  <2> HIDE DEF buffer, L
  <2>4. /\ \A i \in 1..L : i \in 1..(L + Len(<<0>>)) /\ i <= L
        /\ L + 1 \in 1..(L + Len(<<0>>)) /\ ~(L + 1 <= L) /\ (L + 1) - L = 1
    BY <1>1, <2>1
  <2> QED  BY <2>1, <2>3, <2>4
<1> HIDE DEF buffer
<1>4. /\ buf = [i \in 0..(MAX_RETAINED_LEN - 1) |->
                  IF i < 4 * n /\ i < Len(buffer) THEN buffer[i + 1] ELSE 255]
  BY DEF spi_flash_write, Erased, buffer
<1> HIDE DEF buf, L
<1>5. \A i \in 0..(MAX_RETAINED_LEN - 1) :
        /\ i < 4 * n /\ i < L => buf[i] = bytes[i + 1]
        /\ i < 4 * n /\ i = L => buf[i] = 0
        /\ i >= 4 * n \/ i > L => buf[i] = 255
  <2> SUFFICES ASSUME NEW i \in 0..(MAX_RETAINED_LEN - 1)
               PROVE  /\ i < 4 * n /\ i < L => buf[i] = bytes[i + 1]
                      /\ i < 4 * n /\ i = L => buf[i] = 0
                      /\ i >= 4 * n \/ i > L => buf[i] = 255
    OBVIOUS
  <2>1. buf[i] = IF i < 4 * n /\ i < L + 1 THEN buffer[i + 1] ELSE 255  BY <1>3, <1>4
  <2>2. i < L => i + 1 \in 1..L /\ i < L + 1  BY <1>1
  <2>3. i = L => i < L + 1  BY <1>1
  <2>4. i >= 4 * n \/ i > L => ~(i < 4 * n /\ i < L + 1)  BY <1>1
  <2> QED  BY <1>3, <2>1, <2>2, <2>3, <2>4
<1>6. buf \in Sector
  <2>1. \A i \in 0..(MAX_RETAINED_LEN - 1) : buf[i] \in Byte
    <3> SUFFICES ASSUME NEW i \in 0..(MAX_RETAINED_LEN - 1) PROVE buf[i] \in Byte  OBVIOUS
    <3>1. 0 \in Byte /\ 255 \in Byte  BY DEF Byte
    <3>2. CASE i < 4 * n /\ i < L
      <4>1. i + 1 \in 1..L  BY <1>1, <3>2
      <4> QED  BY <1>2, <1>5, <3>2, <4>1 DEF L
    <3>3. CASE i < 4 * n /\ i = L  BY <1>5, <3>1, <3>3
    <3>4. CASE i >= 4 * n \/ i > L  BY <1>5, <3>1, <3>4
    <3> QED  BY <1>1, <3>2, <3>3, <3>4
  <2> QED  BY <1>4, <2>1 DEF Sector
<1> QED  BY <1>5, <1>6 DEF Carries, buf, L

(* The reading ends where no NUL follows and where a NUL is next.          *)
LEMMA NothingToRead ==
  ASSUME NEW buf, NEW f, NEW pos \in Nat, f[pos] = ReadAt(buf, f, pos),
         \/ \A i \in pos..(MAX_RETAINED_LEN - 1) : buf[i] # 0
         \/ pos < MAX_RETAINED_LEN /\ buf[pos] = 0
  PROVE  f[pos] = <<>>
<1>1. CASE \A i \in pos..(MAX_RETAINED_LEN - 1) : buf[i] # 0
  <2>1. NulsFrom(buf, pos) = {}  BY <1>1 DEF NulsFrom
  <2> QED  BY <2>1 DEF ReadAt, ReadEnds
<1>2. CASE pos < MAX_RETAINED_LEN /\ buf[pos] = 0
  <2>1. pos \in pos..(MAX_RETAINED_LEN - 1)  BY <1>2, Sizes
  <2>2. NulsFrom(buf, pos) # {}  BY <1>2, <2>1 DEF NulsFrom
  <2>3. FirstNul(buf, pos) \in Nat /\ pos <= FirstNul(buf, pos) /\ FirstNul(buf, pos) <= pos
    BY <1>2, <2>1, <2>2, FirstNulProperties
  <2>4. FirstNul(buf, pos) = pos  BY <2>3
  <2> QED  BY <2>4 DEF ReadAt, ReadEnds
<1> QED  BY <1>1, <1>2

(* The two bytes of a length give the length, if it is not absurd.         *)
LEMMA LengthBytes ==
  ASSUME NEW d \in Nat, d < 65536
  PROVE  (d % 256) + 256 * ((d \div 256) % 256) = d
<1>1. \A x \in Nat : /\ x \div 256 \in Nat /\ x % 256 \in 0..255
                     /\ x = 256 * (x \div 256) + (x % 256)
  OBVIOUS
<1>2. d \div 256 < 256 /\ d \div 256 \in Nat  BY <1>1
<1>3. \A x \in Nat : x < 256 => x % 256 = x  OBVIOUS
<1>4. (d \div 256) % 256 = d \div 256  BY <1>2, <1>3
<1> QED  BY <1>1, <1>4

(* x is e, or e with other bytes in its content and quality of service.    *)
Damaged(x, e) ==
  x \in Entry /\ x.topic # <<>> /\ x.topic = e.topic /\ Len(x.data) = Len(e.data)

(* The encoding of e stands in bytes behind the first pos of them.         *)
StandsAt(bytes, pos, e) ==
  /\ pos + Len(Encoded(e)) <= Len(bytes)
  /\ \A j \in 1..Len(Encoded(e)) : bytes[pos + j] = Encoded(e)[j]

(* An entry, once it is written, is read as it was; one that is not yet    *)
(* all written is the last that is read, if it is read at all.             *)
ReadsEntry(f, pos, e, n) ==
  LET q == pos + Len(Encoded(e))
  IN  /\ 4 * n >= q => f[pos] = <<e>> \o f[q]
      /\ 4 * n < q => f[pos] = <<>> \/ \E x : Damaged(x, e) /\ f[pos] = <<x>>

LEMMA EntryRead ==
  ASSUME NEW bytes \in Seq(Byte), NEW n \in Nat, NEW buf, Carries(buf, bytes, n),
         Len(bytes) + 2 < MAX_RETAINED_LEN,
         NEW e \in Entry, e.topic # <<>>, NEW pos \in Nat, StandsAt(bytes, pos, e),
         NEW f, ReadFrom(f, buf)
  PROVE  ReadsEntry(f, pos, e, n)
<1> DEFINE a == Len(e.topic)
           d == Len(e.data)
           code == Encoded(e)
           nul == pos + a
           M == MAX_RETAINED_LEN
           w == 4 * n
           q == pos + a + d + 4
           topic == e.topic
           data == e.data
           L == Len(bytes)
<1>1. /\ a \in Nat /\ d \in Nat /\ a # 0 /\ d # 0 /\ M \in Nat /\ M <= 4096 /\ w \in Nat
      /\ L \in Nat /\ pos \in Nat
  BY EntryTyped, Sizes, LenProperties
<1>2. /\ Len(code) = a + d + 4
      /\ \A i \in 1..a : code[i] = topic[i]
      /\ code[a + 1] = 0
      /\ code[a + 2] = d % 256
      /\ code[a + 3] = (d \div 256) % 256
      /\ \A i \in 1..d : code[a + 3 + i] = data[i]
      /\ code[a + d + 4] = e.qos
  <2>1. CodeOf(code, e)  BY EncodedForm
  <2> QED  BY ONLY <2>1 DEF CodeOf
<1>3. /\ topic = [i \in 1..a |-> topic[i]] /\ data = [i \in 1..d |-> data[i]]
      /\ topic \in Seq(1..255) /\ topic # <<>> /\ e.qos \in Byte
      /\ \A i \in 1..a : topic[i] \in 1..255
  BY EntryTyped DEF Entry
<1>4. /\ buf \in Sector
      /\ \A i \in 0..(M - 1) :
           /\ i < w /\ i < L => buf[i] = bytes[i + 1]
           /\ i >= w => buf[i] = 255
  BY DEF Carries
<1>5. /\ \A j \in 1..Len(code) : bytes[pos + j] = code[j]
      /\ pos + Len(code) <= L /\ L + 2 < M
      /\ \A p \in 0..M : f[p] = ReadAt(buf, f, p)
  BY DEF StandsAt, ReadFrom
<1>6. \A i \in 0..(M - 1) : buf[i] \in 0..255  BY <1>4 DEF Sector, Byte
<1> HIDE DEF a, d, code, nul, M, w, q, topic, data, L
<1>7. q = pos + Len(code) /\ q = nul + d + 4  BY ONLY <1>1, <1>2 DEF q, nul
<1>8. /\ nul = pos + a /\ nul \in Nat /\ q = nul + d + 4 /\ q \in Nat /\ q <= L /\ L + 2 < M /\ nul > pos
      /\ nul + 2 < M /\ nul + 2 < q /\ d < 65536 /\ nul + 3 + d < M /\ q < M
  BY ONLY <1>1, <1>5, <1>7 DEF nul
<1>9. ASSUME NEW j \in Nat, j >= 1, j <= a + d + 4, pos + j <= w
      PROVE  buf[pos + j - 1] = code[j]
  <2>1. /\ pos + j - 1 \in 0..(M - 1) /\ pos + j - 1 < w /\ pos + j - 1 < L
        /\ (pos + j - 1) + 1 = pos + j /\ j \in 1..Len(code)
    <3>1. Len(code) = a + d + 4 /\ pos + Len(code) <= L /\ L + 2 < M  BY <1>2, <1>5
    <3> QED  BY ONLY <1>1, <1>9, <3>1
  <2> QED  BY <1>4, <1>5, <2>1
<1>10. ASSUME NEW i \in Nat, pos <= i, i < nul PROVE buf[i] # 0
  <2>1. CASE i >= w
    <3>1. i \in 0..(M - 1)  BY <1>1, <1>8, <1>10
    <3> QED  BY <1>4, <2>1, <3>1
  <2>2. CASE i < w
    <3> DEFINE j == i - pos + 1
    <3>1. j \in Nat /\ j >= 1 /\ j <= a + d + 4 /\ pos + j <= w /\ j \in 1..a
          /\ pos + j - 1 = i
      BY <1>1, <1>8, <1>10, <2>2
    <3> HIDE DEF j
    <3>2. buf[i] = code[j]  BY <1>9, <3>1
    <3>3. code[j] \in 1..255  BY <1>2, <1>3, <3>1
    <3>4. \A k \in 1..255 : k # 0  OBVIOUS
    <3> QED  BY <3>2, <3>3, <3>4
  <2> QED  BY <1>1, <2>1, <2>2
<1>11. ASSUME w <= nul
       PROVE  f[pos] = <<>>
  <2>1. ASSUME NEW i \in pos..(M - 1) PROVE buf[i] # 0
    <3>1. i \in Nat /\ pos <= i  BY <1>1
    <3>2. CASE i < nul  BY <1>10, <3>1, <3>2
    <3>3. CASE i >= nul
      <4>1. i \in 0..(M - 1) /\ i >= w  BY <1>1, <1>8, <1>11, <3>1, <3>3
      <4> QED  BY <1>4, <4>1
    <3> QED  BY <1>8, <3>1, <3>2, <3>3
  <2>2. pos \in 0..M  BY <1>1, <1>8
  <2>3. f[pos] = ReadAt(buf, f, pos)  BY <1>5, <2>2
  <2> QED  BY <2>1, <2>3, NothingToRead DEF M
<1>12. ASSUME w > nul
       PROVE  NulsFrom(buf, pos) # {} /\ FirstNul(buf, pos) = nul
  <2>1. /\ a + 1 \in Nat /\ a + 1 >= 1 /\ a + 1 <= a + d + 4 /\ pos + (a + 1) <= w
        /\ pos + (a + 1) - 1 = nul
    BY <1>1, <1>8, <1>12
  <2>2. buf[nul] = 0  BY <1>2, <1>9, <2>1
  <2>3. nul \in pos..(M - 1)  BY <1>1, <1>8
  <2>4. NulsFrom(buf, pos) # {}  BY <2>2, <2>3 DEF NulsFrom, M
  <2> DEFINE k == FirstNul(buf, pos)
  <2>5. k \in Nat /\ pos <= k /\ buf[k] = 0 /\ k <= nul
    BY <2>2, <2>3, <2>4, FirstNulProperties DEF M
  <2> HIDE DEF k
  <2>6. ~(k < nul)  BY <1>10, <2>5
  <2>7. k = nul  BY <1>8, <2>5, <2>6
  <2> QED  BY <2>4, <2>7 DEF k
<1>13. f[pos] = ReadAt(buf, f, pos)
  <2>1. pos \in 0..M  BY <1>1, <1>8
  <2> QED  BY <1>5, <2>1
<1>14. ASSUME w > nul, w <= nul + 2 PROVE f[pos] = <<>>
  <2>1. nul + 1 \in 0..(M - 1) /\ nul + 2 \in 0..(M - 1) /\ nul + 2 >= w
    BY ONLY <1>1, <1>8, <1>14
  <2>2. buf[nul + 1] \in 0..255  BY ONLY <1>6, <2>1
  <2>3. buf[nul + 2] = 255  BY ONLY <1>4, <2>1
  <2>4. nul + 3 + SizeAt(buf, nul) >= M
    <3>1. \A x \in 0..255 : nul + 3 + (x + 256 * 255) >= M
      <4>1. M \in Nat /\ M <= 4096 /\ nul \in Nat  BY <1>1, <1>8
      <4> QED  BY ONLY <4>1
    <3>2. SizeAt(buf, nul) = buf[nul + 1] + 256 * 255  BY ONLY <2>3 DEF SizeAt
    <3> QED  BY ONLY <2>2, <3>1, <3>2, ZenonT(40)
  <2> QED  BY <1>12, <1>13, <1>14, <2>4 DEF ReadAt, ReadEnds, M
<1>15. ASSUME w > nul + 2
       PROVE  LET x == EntryAt(buf, pos)
              IN  /\ f[pos] = <<x>> \o f[q]
                  /\ Damaged(x, e)
                  /\ w >= q => x = e
  <2>1. w > nul  BY ONLY <1>1, <1>8, <1>15
  <2>2. FirstNul(buf, pos) = nul /\ NulsFrom(buf, pos) # {}  BY <1>12, <2>1
  <2>3. buf[nul + 1] = d % 256 /\ buf[nul + 2] = (d \div 256) % 256
    <3>1. /\ a + 2 \in Nat /\ a + 2 >= 1 /\ a + 2 <= a + d + 4 /\ pos + (a + 2) <= w
          /\ pos + (a + 2) - 1 = nul + 1
          /\ a + 3 \in Nat /\ a + 3 >= 1 /\ a + 3 <= a + d + 4 /\ pos + (a + 3) <= w
          /\ pos + (a + 3) - 1 = nul + 2
      BY <1>1, <1>8, <1>15
    <3> QED  BY <1>2, <1>9, <3>1
  <2>4. SizeAt(buf, nul) = d
    <3>1. (d % 256) + 256 * ((d \div 256) % 256) = d  BY ONLY <1>1, <1>8, LengthBytes
    <3> QED  BY <2>3, <3>1 DEF SizeAt
  <2>5. ~ReadEnds(buf, pos)
    <3>1. nul # pos /\ ~(nul + 2 >= M) /\ ~(nul + 3 + d >= M)  BY <1>1, <1>8
    <3> QED  BY <2>2, <2>4, <3>1 DEF ReadEnds, M
  <2>6. Behind(buf, pos) = q
    <3>1. nul + 4 + d = q  BY <1>1, <1>8
    <3> QED  BY <2>2, <2>4, <3>1 DEF Behind
  <2> DEFINE x == EntryAt(buf, pos)
             read == [i \in 1..(nul - pos) |-> buf[pos + i - 1]]
             content == [i \in 1..d |-> buf[nul + 2 + i]]
             last == buf[nul + 3 + d]
  <2>7. f[pos] = <<x>> \o f[q]  BY <1>13, <2>5, <2>6 DEF ReadAt
  <2>8. x = [topic |-> read, data |-> content, qos |-> last]  BY <2>2, <2>4 DEF EntryAt
  <2>9. read = topic
    <3>1. nul - pos = a  BY <1>1, <1>8
    <3>2. ASSUME NEW i \in 1..a PROVE buf[pos + i - 1] = topic[i]
      <4>1. i \in Nat /\ i >= 1 /\ i <= a + d + 4 /\ pos + i <= w  BY <1>1, <1>8, <2>1
      <4> QED  BY <1>2, <1>9, <4>1
    <3> QED  BY <1>3, <3>1, <3>2
  <2>10. content \in Seq(Byte) /\ Len(content) = d /\ content # <<>>
    <3>1. ASSUME NEW i \in 1..d PROVE buf[nul + 2 + i] \in Byte
      <4>1. nul + 2 + i \in 0..(M - 1)
        <5>1. i \in Nat /\ i <= d  BY <1>1
        <5> QED  BY ONLY <1>1, <1>8, <5>1
      <4> QED  BY <1>6, <4>1 DEF Byte
    <3>2. content \in [1..d -> Byte]  BY <3>1
    <3> HIDE DEF content
    <3>3. content \in Seq(Byte)  BY ONLY <1>1, <3>2, SeqDef
    <3>4. Len(content) = d  BY <1>1, <3>2, <3>3, LenProperties
    <3>5. content # <<>>  BY <1>1, <3>4, EmptySeq
    <3> QED  BY <3>3, <3>4, <3>5
  <2>11. last \in Byte
    <3>1. nul + 3 + d \in 0..(M - 1)  BY <1>1, <1>8
    <3> QED  BY <1>6, <3>1 DEF Byte
  <2> HIDE DEF read, content, last, x
  <2>12. Damaged(x, e)
    <3>1. x \in Entry  BY <1>3, <2>8, <2>9, <2>10, <2>11 DEF Entry
    <3>2. x.topic = e.topic  BY <2>8, <2>9 DEF topic
    <3>3. Len(x.data) = Len(e.data)  BY <2>8, <2>10 DEF d
    <3> QED  BY <3>1, <3>2, <3>3 DEF Damaged
  <2>13. ASSUME w >= q PROVE x = e
    <3>1. ASSUME NEW i \in 1..d PROVE buf[nul + 2 + i] = data[i]
      <4>1. /\ a + 3 + i \in Nat /\ a + 3 + i >= 1 /\ a + 3 + i <= a + d + 4
            /\ pos + (a + 3 + i) <= w /\ pos + (a + 3 + i) - 1 = nul + 2 + i
        BY <1>1, <1>8, <2>13
      <4> QED  BY <1>2, <1>9, <4>1
    <3>2. content = data  BY <1>3, <3>1 DEF content
    <3>3. last = e.qos
      <4>1. /\ a + d + 4 \in Nat /\ a + d + 4 >= 1 /\ a + d + 4 <= a + d + 4
            /\ pos + (a + d + 4) <= w /\ pos + (a + d + 4) - 1 = nul + 3 + d
        BY ONLY <1>1, <1>8, <2>13
      <4> QED  BY <1>2, <1>9, <4>1 DEF last
    <3>4. e = [topic |-> e.topic, data |-> e.data, qos |-> e.qos]  BY DEF Entry
    <3> QED  BY <2>8, <2>9, <3>2, <3>3, <3>4 DEF topic, data
  <2> QED  BY <2>7, <2>12, <2>13 DEF x
<1>16. ASSUME w < q PROVE f[q] = <<>>
  <2>1. ASSUME NEW i \in q..(M - 1) PROVE buf[i] # 0
    <3>1. i \in 0..(M - 1) /\ i >= w  BY <1>1, <1>8, <1>16
    <3> QED  BY <1>4, <3>1
  <2>2. q \in 0..M  BY <1>1, <1>8
  <2>3. f[q] = ReadAt(buf, f, q)  BY <1>5, <2>2
  <2>4. q \in Nat  BY <1>8
  <2> QED  BY ONLY <2>1, <2>3, <2>4, NothingToRead DEF M
<1>17. ASSUME w >= q PROVE f[pos] = <<e>> \o f[q]
  <2>1. w > nul + 2  BY ONLY <1>1, <1>8, <1>17
  <2> QED  BY <1>15, <1>17, <2>1
<1>18. ASSUME w < q, w > nul + 2 PROVE \E x : Damaged(x, e) /\ f[pos] = <<x>>
  <2>1. f[q] = <<>>  BY <1>16, <1>18
  <2> DEFINE x == EntryAt(buf, pos)
  <2>2. f[pos] = <<x>> \o f[q] /\ Damaged(x, e)  BY <1>15, <1>18
  <2> HIDE DEF x
  <2>3. <<x>> \o <<>> = <<x>>
    <3>1. x \in Entry  BY <2>2 DEF Damaged
    <3>2. \A y \in Entry : <<y>> \in Seq(Entry)  OBVIOUS
    <3>3. <<x>> \in Seq(Entry)  BY <3>1, <3>2
    <3> QED  BY <3>3, ConcatEmptySeq
  <2> QED  BY <2>1, <2>2, <2>3
<1>19. w <= nul \/ (w > nul /\ w <= nul + 2) \/ w > nul + 2  BY ONLY <1>1, <1>8
<1> QED  BY <1>7, <1>11, <1>14, <1>17, <1>18, <1>19 DEF ReadsEntry, w, code

-----------------------------------------------------------------------------
(* Reading back a whole image.                                             *)

(* The first byte of an entry with an empty topic ends the reading.        *)
LEMMA EmptyTopicRead ==
  ASSUME NEW bytes \in Seq(Byte), NEW n \in Nat, NEW buf, Carries(buf, bytes, n),
         Len(bytes) + 2 < MAX_RETAINED_LEN,
         NEW e \in Entry, e.topic = <<>>, NEW pos \in Nat, StandsAt(bytes, pos, e),
         NEW f, ReadFrom(f, buf)
  PROVE  f[pos] = <<>>
<1> DEFINE M == MAX_RETAINED_LEN
           L == Len(bytes)
           w == 4 * n
           c == Len(Encoded(e))
<1>1. c \in Nat /\ c >= 1 /\ Encoded(e)[1] = 0
  <2>1. CodeOf(Encoded(e), e)  BY EncodedForm
  <2>2. Len(e.topic) = 0  BY EmptySeq
  <2>3. Len(e.data) \in Nat  BY EntryTyped
  <2>4. Len(Encoded(e)) = 0 + Len(e.data) + 4 /\ Encoded(e)[0 + 1] = 0
    BY ONLY <2>1, <2>2 DEF CodeOf
  <2> QED  BY <2>3, <2>4
<1>2. M \in Nat /\ L \in Nat /\ w \in Nat /\ L + 2 < M  BY Sizes, LenProperties
<1>3. pos + c <= L /\ \A j \in 1..c : bytes[pos + j] = Encoded(e)[j]  BY DEF StandsAt
<1>4. \A i \in 0..(M - 1) : /\ i < w /\ i < L => buf[i] = bytes[i + 1]
                            /\ i >= w => buf[i] = 255
  BY DEF Carries
<1>5. \A p \in 0..M : f[p] = ReadAt(buf, f, p)  BY DEF ReadFrom
<1> HIDE DEF M, L, w, c
<1>6. pos \in 0..(M - 1) /\ pos \in 0..M /\ pos < L /\ pos < M /\ 1 \in 1..c
  BY ONLY <1>1, <1>2, <1>3
<1>7. CASE pos < w
  <2>1. buf[pos] = 0  BY <1>1, <1>3, <1>4, <1>6, <1>7
  <2> QED  BY <1>5, <1>6, <2>1, NothingToRead DEF M
<1>8. CASE pos >= w
  <2>1. \A i \in pos..(M - 1) : i \in 0..(M - 1) /\ i >= w  BY ONLY <1>2, <1>8
  <2>2. \A i \in pos..(M - 1) : buf[i] # 0  BY <1>4, <2>1
  <2> QED  BY <1>5, <1>6, <2>2, NothingToRead DEF M
<1> QED  BY ONLY <1>2, <1>7, <1>8

(* t is what may be read of im behind its first k entries: entries of im   *)
(* in their order, only the last of them damaged; if all is written, all   *)
(* in front of one with an empty topic.                                    *)
TailRead(t, im, k, all) ==
  /\ t \in Seq(Entry) /\ Len(t) <= Len(im) - k
  /\ \A i \in 1..Len(t) : /\ Damaged(t[i], im[k + i])
                          /\ i < Len(t) => t[i] = im[k + i]
  /\ all => /\ \A i \in 1..Len(t) : t[i] = im[k + i]
            /\ Len(t) = Len(im) - k \/ im[k + Len(t) + 1].topic = <<>>

LEMMA TailGrows ==
  ASSUME NEW im \in Seq(Entry), NEW k \in 1..Len(im), im[k].topic # <<>>,
         NEW all, NEW t, TailRead(t, im, k, all)
  PROVE  TailRead(<<im[k]>> \o t, im, k - 1, all)
<1> DEFINE e == im[k]
           m == Len(im)
           l == Len(t)
           c == <<e>> \o t
<1>1. e \in Entry  BY ElementOfSeq
<1>2. m \in Nat /\ k \in Nat /\ k >= 1 /\ k <= m  BY LenProperties
<1>3. /\ t \in Seq(Entry) /\ l <= m - k
      /\ \A i \in 1..l : Damaged(t[i], im[k + i])
      /\ \A i \in 1..l : i < l => t[i] = im[k + i]
      /\ all => l = m - k \/ im[k + l + 1].topic = <<>>
      /\ all => \A i \in 1..l : t[i] = im[k + i]
  BY DEF TailRead
<1>4. l \in Nat  BY <1>3, LenProperties
<1>5. /\ c \in Seq(Entry) /\ Len(c) = l + 1
      /\ c[1] = e /\ \A i \in 1..l : c[i + 1] = t[i]
  <2>1. \A y \in Entry : <<y>> \in Seq(Entry) /\ Len(<<y>>) = 1 /\ <<y>>[1] = y  OBVIOUS
  <2> HIDE DEF e
  <2>2. <<e>> \in Seq(Entry) /\ t \in Seq(Entry)  BY <1>1, <1>3, <2>1
  <2>3. /\ c \in Seq(Entry) /\ Len(c) = Len(<<e>>) + Len(t)
        /\ \A i \in 1..(Len(<<e>>) + Len(t)) :
             c[i] = IF i <= Len(<<e>>) THEN <<e>>[i] ELSE t[i - Len(<<e>>)]
    BY <2>2, ConcatProperties
  <2>4. Len(<<e>>) = 1 /\ <<e>>[1] = e  BY <1>1, <2>1
  <2> HIDE DEF c, l
  <2>5. /\ c \in Seq(Entry) /\ Len(c) = 1 + l
        /\ \A i \in 1..(1 + l) : c[i] = IF i <= 1 THEN <<e>>[i] ELSE t[i - 1]
    BY <2>3, <2>4 DEF l
  <2>6. \A i \in 1..l : i + 1 \in 1..(1 + l) /\ ~(i + 1 <= 1) /\ (i + 1) - 1 = i
    BY <1>4
  <2>7. 1 \in 1..(1 + l) /\ 1 + l = l + 1  BY <1>4
  <2> QED  BY <2>4, <2>5, <2>6, <2>7
<1>6. Damaged(e, e)  BY <1>1 DEF Damaged
<1>7. e = im[k]  OBVIOUS
<1> HIDE DEF e, m, l, c
<1>8. ASSUME NEW i \in 1..(l + 1) PROVE i = 1 \/ \E j \in 1..l : i = j + 1 /\ (k - 1) + i = k + j
  <2>1. i = 1 \/ (i - 1 \in 1..l /\ i = (i - 1) + 1 /\ (k - 1) + i = k + (i - 1))
    BY ONLY <1>2, <1>4, <1>8
  <2> QED  BY <2>1
<1>9. (k - 1) + 1 = k  BY <1>2
<1>10. ASSUME NEW i \in 1..(l + 1) PROVE Damaged(c[i], im[(k - 1) + i])
  <2>1. CASE i = 1  BY <1>5, <1>6, <1>7, <1>9, <2>1
  <2>2. CASE \E j \in 1..l : i = j + 1 /\ (k - 1) + i = k + j
    <3>1. PICK j \in 1..l : i = j + 1 /\ (k - 1) + i = k + j  BY <2>2
    <3> QED  BY <1>3, <1>5, <3>1
  <2> QED  BY <1>8, <2>1, <2>2
<1>11. ASSUME NEW i \in 1..(l + 1), i < l + 1 \/ all PROVE c[i] = im[(k - 1) + i]
  <2>1. CASE i = 1  BY <1>5, <1>7, <1>9, <2>1
  <2>2. CASE \E j \in 1..l : i = j + 1 /\ (k - 1) + i = k + j
    <3>1. PICK j \in 1..l : i = j + 1 /\ (k - 1) + i = k + j  BY <2>2
    <3>2. c[i] = t[j]  BY <1>5, <3>1
    <3>3. i < l + 1 => j < l  BY <1>4, <3>1
    <3> QED  BY <1>3, <1>11, <3>1, <3>2, <3>3
  <2> QED  BY <1>8, <2>1, <2>2
<1>12. /\ l + 1 <= m - (k - 1) /\ (l = m - k => l + 1 = m - (k - 1))
       /\ (k - 1) + (l + 1) + 1 = k + l + 1
  BY <1>2, <1>3, <1>4
<1>13. TailRead(c, im, k - 1, all)
  BY <1>3, <1>5, <1>10, <1>11, <1>12 DEF TailRead, m
<1> QED  BY <1>13 DEF c, e

LEMMA TailStarts ==
  ASSUME NEW im \in Seq(Entry), NEW k \in 1..Len(im), NEW all, ~all,
         NEW t, t = <<>> \/ \E x : Damaged(x, im[k]) /\ t = <<x>>
  PROVE  TailRead(t, im, k - 1, all)
<1>1. Len(im) \in Nat /\ k \in Nat /\ k >= 1 /\ k <= Len(im)  BY LenProperties
<1>2. CASE t = <<>>
  <2>1. t \in Seq(Entry) /\ Len(t) = 0  BY <1>2
  <2>2. 0 <= Len(im) - (k - 1) /\ 1..0 = {}  BY <1>1
  <2> QED  BY <2>1, <2>2 DEF TailRead
<1>3. CASE \E x : Damaged(x, im[k]) /\ t = <<x>>
  <2>1. PICK x : Damaged(x, im[k]) /\ t = <<x>>  BY <1>3
  <2>2. \A y \in Entry : <<y>> \in Seq(Entry) /\ Len(<<y>>) = 1 /\ <<y>>[1] = y  OBVIOUS
  <2>3. x \in Entry  BY <2>1 DEF Damaged
  <2>4. t \in Seq(Entry) /\ Len(t) = 1 /\ t[1] = x  BY <2>1, <2>2, <2>3
  <2>5. /\ 1 <= Len(im) - (k - 1) /\ (k - 1) + 1 = k
        /\ \A i \in 1..1 : i = 1 /\ ~(i < 1)
    BY <1>1
  <2> QED  BY <2>1, <2>4, <2>5 DEF TailRead
<1> QED  BY <1>2, <1>3

LEMMA TailStops ==
  ASSUME NEW im \in Seq(Entry), NEW k \in 1..Len(im), im[k].topic = <<>>, NEW all
  PROVE  TailRead(<<>>, im, k - 1, all)
<1>1. Len(im) \in Nat /\ k \in Nat /\ k >= 1 /\ k <= Len(im)  BY LenProperties
<1>2. <<>> \in Seq(Entry) /\ Len(<<>>) = 0 /\ 1..0 = {}  OBVIOUS
<1>3. 0 <= Len(im) - (k - 1) /\ (k - 1) + 0 + 1 = k  BY <1>1
<1> QED  BY <1>2, <1>3 DEF TailRead

(* A write of im into an erased sector that has come n words far.          *)
Written(im, n) ==
  spi_flash_write(Erased, serialize_retainedtopics(im), n)

Whole(im) == Words(serialize_retainedtopics(im))

LEMMA SerializedTyped ==
  ASSUME NEW im \in Seq(Entry)
  PROVE  /\ [i \in DOMAIN im |-> Encoded(im[i])] \in Seq(Seq(Byte))
         /\ Len([i \in DOMAIN im |-> Encoded(im[i])]) = Len(im)
         /\ serialize_retainedtopics(im) \in Seq(Byte)
<1> DEFINE codes == [i \in DOMAIN im |-> Encoded(im[i])]
<1>1. DOMAIN im = 1..Len(im) /\ Len(im) \in Nat  BY LenProperties
<1>2. \A i \in 1..Len(im) : Encoded(im[i]) \in Seq(Byte)
  BY ElementOfSeq, EncodedForm, ZenonT(40) DEF CodeOf
<1>3. codes \in [1..Len(im) -> Seq(Byte)]  BY <1>1, <1>2
<1> HIDE DEF codes
<1>4. codes \in Seq(Seq(Byte))  BY ONLY <1>1, <1>3, SeqDef
<1>5. Len(codes) = Len(im)  BY ONLY <1>1, <1>3, <1>4, LenProperties
<1>6. FlattenSeq(codes) \in Seq(Byte)  BY <1>4, FlattenTyped
<1>7. <<0>> \in Seq(Byte)
  <2>1. \A x \in Byte : <<x>> \in Seq(Byte)  OBVIOUS
  <2>2. 0 \in Byte  BY DEF Byte
  <2> QED  BY <2>1, <2>2
<1> QED  BY <1>4, <1>5, <1>6, <1>7 DEF serialize_retainedtopics, codes

(* The table that had nothing in it is read as one with nothing in it,     *)
(* also from a sector that has only been erased.                           *)
LEMMA EmptyReadBack ==
  ASSUME NEW n \in Nat
  PROVE  deserialize_retainedtopics(Written(<<>>, n)) = <<>>
<1> DEFINE buf == Written(<<>>, n)
<1>1. serialize_retainedtopics(<<>>) = <<0>>  BY DEF serialize_retainedtopics
<1>2. <<0>> \in Seq(Byte) /\ Len(<<0>>) = 1 /\ <<0>>[1] = 0
  <2>1. \A x \in Byte : <<x>> \in Seq(Byte) /\ Len(<<x>>) = 1  OBVIOUS
  <2>2. 0 \in Byte  BY DEF Byte
  <2> QED  BY <2>1, <2>2
<1>3. Carries(buf, <<0>>, n)  BY <1>1, <1>2, WriteForm DEF Written
<1> HIDE DEF buf
<1>4. buf \in Sector  BY <1>3 DEF Carries
<1>5. PICK f : ReadFrom(f, buf) /\ deserialize_retainedtopics(buf) = f[0]
  BY <1>4, DeserializeReads
<1>6. \/ \A i \in 0..(MAX_RETAINED_LEN - 1) : buf[i] # 0
      \/ 0 < MAX_RETAINED_LEN /\ buf[0] = 0
  <2>1. CASE n = 0
    <3>1. \A i \in 0..(MAX_RETAINED_LEN - 1) : i >= 4 * n  BY <2>1
    <3>2. \A i \in 0..(MAX_RETAINED_LEN - 1) : buf[i] = 255  BY <1>3, <3>1 DEF Carries
    <3> QED  BY <3>2
  <2>2. CASE n # 0
    <3>1. 0 \in 0..(MAX_RETAINED_LEN - 1) /\ 0 < 4 * n /\ 0 < 1 /\ 0 + 1 = 1  BY <2>2, Sizes
    <3>2. buf[0] = 0  BY <1>2, <1>3, <3>1 DEF Carries
    <3> QED  BY <3>1, <3>2, Sizes
  <2> QED  BY <2>1, <2>2
<1>7. f[0] = ReadAt(buf, f, 0)
  <2>1. 0 \in 0..MAX_RETAINED_LEN  BY Sizes
  <2> QED  BY <1>5, <2>1 DEF ReadFrom
<1>8. 0 \in Nat  OBVIOUS
<1>9. f[0] = <<>>  BY ONLY <1>6, <1>7, <1>8, NothingToRead
<1> QED  BY <1>5, <1>9 DEF buf

(* What a start reads of what has been written.                            *)
LEMMA ReadBack ==
  ASSUME NEW im \in Seq(Entry), Fits(im), NEW n \in Nat
  PROVE  TailRead(deserialize_retainedtopics(Written(im, n)), im, 0,
                  im = <<>> \/ n >= Whole(im))
<1>1. CASE im = <<>>
  <2>1. <<>> \in Seq(Entry) /\ Len(<<>>) = 0 /\ 1..0 = {}  OBVIOUS
  <2>2. TailRead(<<>>, <<>>, 0, TRUE)  BY <2>1 DEF TailRead
  <2> QED  BY <1>1, <2>2, EmptyReadBack
<1>2. CASE im # <<>>
  <2> DEFINE m == Len(im)
             codes == [i \in DOMAIN im |-> Encoded(im[i])]
             bytes == serialize_retainedtopics(im)
             buf == Written(im, n)
             L == Len(bytes)
             M == MAX_RETAINED_LEN
             w == 4 * n
  <2>1. bytes = FlattenSeq(codes)  BY <1>2 DEF serialize_retainedtopics
  <2>2. codes \in Seq(Seq(Byte)) /\ Len(codes) = m /\ bytes \in Seq(Byte)
    BY SerializedTyped
  <2>3. L + 2 < M  BY <1>2 DEF Fits
  <2>4. Carries(buf, bytes, n)  BY <2>2, WriteForm DEF Written
  <2>5. \A k \in 1..m : codes[k] = Encoded(im[k]) /\ im[k] \in Entry
    BY ElementOfSeq, LenProperties
  <2>6. m \in Nat /\ L \in Nat /\ M \in Nat /\ w \in Nat
    BY <2>2, LenProperties, Sizes
  <2>7. buf \in Sector  BY <2>4 DEF Carries
  <2>8. n >= Whole(im) => w >= L
    <3>1. Whole(im) = (L + 3) \div 4  BY DEF Whole, Words
    <3>2. \A x \in Nat : n >= (x + 3) \div 4 => 4 * n >= x  OBVIOUS
    <3> QED  BY <2>6, <3>1, <3>2
  <2> HIDE DEF codes, bytes, buf, L, M, w, m
  <2>9. PICK off \in [0..m -> Nat] :
          /\ off[0] = 0 /\ off[m] = L
          /\ \A k \in 1..m :
               /\ off[k] = off[k - 1] + Len(codes[k])
               /\ off[k] <= off[m]
               /\ \A j \in 1..Len(codes[k]) : bytes[off[k - 1] + j] = codes[k][j]
    <3>1. \E off \in [0..Len(codes) -> Nat] :
            /\ off[0] = 0 /\ off[Len(codes)] = Len(FlattenSeq(codes))
            /\ \A k \in 1..Len(codes) :
                 /\ off[k] = off[k - 1] + Len(codes[k])
                 /\ off[k] <= off[Len(codes)]
                 /\ \A j \in 1..Len(codes[k]) : FlattenSeq(codes)[off[k - 1] + j] = codes[k][j]
      BY ONLY <2>2, FlattenLayout, SMTT(30)
    <3>2. Len(codes) = m /\ Len(FlattenSeq(codes)) = L /\ FlattenSeq(codes) = bytes
      BY <2>1, <2>2 DEF L
    <3> QED  BY ONLY <3>1, <3>2
  <2>10. PICK f : ReadFrom(f, buf) /\ deserialize_retainedtopics(buf) = f[0]
    BY <2>7, DeserializeReads
  <2> DEFINE all == w >= L
             Good(k) == TailRead(f[off[k]], im, k, all)
  <2>11. Good(m)
    <3>1. L \in 0..M  BY ONLY <2>3, <2>6
    <3>2. f[L] = ReadAt(buf, f, L)  BY <2>10, <3>1 DEF ReadFrom, M
    <3>3. \/ \A i \in L..(M - 1) : buf[i] # 0
          \/ L < M /\ buf[L] = 0
      <4>1. CASE w <= L
        <5>1. \A i \in L..(M - 1) : i \in 0..(M - 1) /\ i >= w  BY ONLY <2>6, <4>1
        <5>2. \A i \in L..(M - 1) : buf[i] = 255  BY <2>4, <5>1 DEF Carries, M, w
        <5> QED  BY <5>2
      <4>2. CASE w > L
        <5>1. L \in 0..(M - 1) /\ L < M /\ L < w  BY ONLY <2>3, <2>6, <4>2
        <5> QED  BY <2>4, <5>1 DEF Carries, M, w, L
      <4> QED  BY <2>6, <4>1, <4>2
    <3>4. f[L] = <<>>  BY ONLY <2>6, <3>2, <3>3, NothingToRead DEF M
    <3>5. <<>> \in Seq(Entry) /\ Len(<<>>) = 0 /\ 0 <= m - m /\ 1..0 = {} /\ m - m = 0
      BY <2>6
    <3>6. TailRead(<<>>, im, m, all)  BY <3>5 DEF TailRead, m
    <3> QED  BY <2>9, <3>4, <3>6
  <2>12. ASSUME NEW k \in 1..m, Good(k) PROVE Good(k - 1)
    <3> DEFINE e == im[k]
               pos == off[k - 1]
               q == off[k]
    <3>1. e \in Entry /\ codes[k] = Encoded(e)  BY <2>5
    <3>2. k - 1 \in 0..m /\ k \in 0..m  BY ONLY <2>6, <2>12
    <3>3. pos \in Nat /\ q \in Nat  BY <3>2
    <3>4. q = pos + Len(Encoded(e)) /\ q <= L  BY <2>9, <3>1
    <3>5. StandsAt(bytes, pos, e)  BY <2>9, <3>1, <3>4 DEF StandsAt, L
    <3>6. e = im[k] /\ TailRead(f[q], im, k, all)  BY <2>12
    <3> HIDE DEF e, pos, q
    <3>20. CASE e.topic = <<>>
      <4>1. Len(bytes) + 2 < MAX_RETAINED_LEN  BY <2>3 DEF L, M
      <4>2. n \in Nat /\ bytes \in Seq(Byte)  BY <2>2
      <4>3. ReadFrom(f, buf)  BY <2>10
      <4>4. f[pos] = <<>>
        BY ONLY <2>4, <3>1, <3>3, <3>5, <3>20, <4>1, <4>2, <4>3, EmptyTopicRead
      <4>5. k \in 1..Len(im) /\ im[k].topic = <<>>  BY <3>6, <3>20 DEF m
      <4>6. TailRead(<<>>, im, k - 1, all)  BY <4>5, TailStops
      <4> QED  BY <4>4, <4>6 DEF pos
    <3> SUFFICES ASSUME e.topic # <<>> PROVE Good(k - 1)  BY <3>20
    <3>7. /\ w >= q => f[pos] = <<e>> \o f[q]
          /\ w < q => f[pos] = <<>> \/ \E x : Damaged(x, e) /\ f[pos] = <<x>>
      <4>1. Len(bytes) + 2 < MAX_RETAINED_LEN  BY <2>3 DEF L, M
      <4>2. n \in Nat /\ bytes \in Seq(Byte)  BY <2>2
      <4>3. ReadFrom(f, buf)  BY <2>10
      <4>4. ReadsEntry(f, pos, e, n)
        BY <2>4, <3>1, <3>3, <3>5, <4>1, <4>2, <4>3, EntryRead
      <4>5. pos + Len(Encoded(e)) = q /\ 4 * n = w  BY <3>4 DEF w
      <4> QED  BY ONLY <4>4, <4>5 DEF ReadsEntry
    <3>8. k \in 1..Len(im)  BY DEF m
    <3> HIDE DEF all
    <3>9. CASE w >= q
      <4>1. f[pos] = <<im[k]>> \o f[q]  BY <3>6, <3>7, <3>9
      <4>2. im[k].topic # <<>>  BY <3>6
      <4>3. TailRead(f[pos], im, k - 1, all)  BY <3>6, <3>8, <4>1, <4>2, TailGrows
      <4> QED  BY <4>3 DEF pos
    <3>10. CASE w < q
      <4>1. ~all  BY ONLY <2>6, <3>3, <3>4, <3>10 DEF all
      <4>2. f[pos] = <<>> \/ \E x : Damaged(x, im[k]) /\ f[pos] = <<x>>
        BY <3>6, <3>7, <3>10
      <4>3. TailRead(f[pos], im, k - 1, all)  BY <3>8, <4>1, <4>2, TailStarts
      <4> QED  BY <4>3 DEF pos
    <3> QED  BY ONLY <2>6, <3>3, <3>9, <3>10
  <2> DEFINE Done(j) == j <= m => Good(m - j)
             Reached == {j \in Nat : Done(j)}
  <2>13. Done(0)
    <3>1. m - 0 = m  BY <2>6
    <3> QED  BY <2>11, <3>1
  <2>14. ASSUME NEW j \in Nat, Done(j) PROVE Done(j + 1)
    <3> HIDE DEF Good
    <3> SUFFICES ASSUME j + 1 <= m PROVE Good(m - (j + 1))  OBVIOUS
    <3>1. m - j \in 1..m /\ j <= m /\ (m - j) - 1 = m - (j + 1)  BY <2>6
    <3> QED  BY <2>12, <2>14, <3>1
  <2> HIDE DEF Done
  <2>15. Nat \subseteq Reached
    <3>1. 0 \in Reached /\ \A j \in Nat : j \in Reached => j + 1 \in Reached
      BY <2>13, <2>14
    <3> HIDE DEF Reached
    <3> QED  BY <3>1, Induction
  <2>16. Good(0)
    <3>1. Done(m)  BY <2>6, <2>15
    <3>2. m <= m /\ m - m = 0  BY <2>6
    <3> HIDE DEF Good
    <3> QED  BY <3>1, <3>2 DEF Done
  <2>17. TailRead(f[0], im, 0, all)  BY <2>9, <2>16
  <2>18. TailRead(f[0], im, 0, im = <<>> \/ n >= Whole(im))
    BY <1>2, <2>8, <2>17 DEF TailRead
  <2> QED  BY <2>10, <2>18 DEF buf
<1> QED  BY <1>1, <1>2

-----------------------------------------------------------------------------
(* Tables, images and the sector.                                          *)

(* A table as a loop over it sees it, each topic once.                     *)
GoodList(l) ==
  /\ l \in [1..MaxRetained -> Entry \cup {None}]
  /\ \A i, j \in Occupied(l) : l[i].topic = l[j].topic => i = j

GoodImage(im) ==
  /\ im \in Seq(Entry) /\ Len(im) <= MaxRetained
  /\ \A i, j \in 1..Len(im) : im[i].topic = im[j].topic => i = j

LEMMA NoneIsNoEntry == None \notin Entry
<1>1. 1..255 \subseteq Byte  BY DEF Byte
<1>2. Seq(1..255) \subseteq Seq(Byte)  BY <1>1, SeqMonotonic
<1> QED  BY <1>2, RetainAssumption DEF Entry

LEMMA OccupiedTyped ==
  ASSUME NEW l \in [1..MaxRetained -> Entry \cup {None}]
  PROVE  /\ Occupied(l) \subseteq 1..MaxRetained
         /\ \A i \in 1..MaxRetained : i \in Occupied(l) <=> l[i] # None
         /\ \A i \in Occupied(l) : l[i] \in Entry
BY DEF Occupied

(* What is written is a list of entries, each topic once.                  *)
LEMMA ImageTyped ==
  ASSUME NEW l, GoodList(l)
  PROVE  GoodImage(Image(l))
<1> DEFINE S == Occupied(l)
           c == Cardinality(S)
           im == Image(l)
<1>1. l \in [1..MaxRetained -> Entry \cup {None}]  BY DEF GoodList
<1>2. MaxRetained \in Nat  BY Sizes
<1>3. S \subseteq 1..MaxRetained /\ \A i \in S : l[i] \in Entry  BY <1>1, OccupiedTyped
<1>4. \A i, j \in S : l[i].topic = l[j].topic => i = j  BY DEF GoodList
<1>5. im = [k \in 1..c |-> l[Nth(S, k)]]  BY DEF Image, Selected
<1> HIDE DEF S, im
<1>6. IsFiniteSet(S) /\ c \in Nat  BY <1>2, <1>3, IndexSetFinite
<1>7. c <= MaxRetained
  <2>1. IsFiniteSet(1..MaxRetained) /\ Cardinality(1..MaxRetained) = MaxRetained
    BY <1>2, FS_Interval
  <2> QED  BY <1>3, <2>1, FS_Subset
<1> HIDE DEF c
<1>8. \A k \in 1..c : Nth(S, k) \in S  BY <1>2, <1>3, NthExists DEF c
<1>9. im \in [1..c -> Entry]  BY <1>3, <1>5, <1>8
<1>10. im \in Seq(Entry) /\ Len(im) = c
  <2>1. im \in Seq(Entry)  BY ONLY <1>6, <1>9, SeqDef
  <2> QED  BY ONLY <1>6, <1>9, <2>1, LenProperties
<1>11. ASSUME NEW j \in 1..c, NEW k \in 1..c, im[j].topic = im[k].topic PROVE j = k
  <2>1. Nth(S, j) = Nth(S, k)  BY <1>4, <1>5, <1>8, <1>11
  <2>2. ~(Nth(S, j) < Nth(S, k)) /\ ~(Nth(S, k) < Nth(S, j))
    <3>1. Nth(S, j) \in 1..MaxRetained  BY <1>3, <1>8
    <3> QED  BY <1>2, <2>1, <3>1
  <2>3. ~(j < k)  BY <1>2, <1>3, <2>2, NthIncreases DEF c
  <2>4. ~(k < j)  BY <1>2, <1>3, <2>2, NthIncreases DEF c
  <2>5. j \in Nat /\ k \in Nat  BY <1>6
  <2> QED  BY ONLY <2>3, <2>4, <2>5
<1> QED  BY <1>7, <1>10, <1>11 DEF GoodImage, im

-----------------------------------------------------------------------------
(* Updates.                                                                *)

(* The entry that an update changes holds the topic; or none does, and it  *)
(* is free and there is content.                                           *)
LEMMA PlaceProperties ==
  ASSUME NEW l, GoodList(l), NEW e, NEW i \in Place(l, e)
  PROVE  /\ i \in 1..MaxRetained
         /\ \/ i \in Occupied(l) /\ l[i].topic = e.topic
            \/ /\ l[i] = None /\ e.data # <<>>
               /\ \A j \in Occupied(l) : l[j].topic # e.topic
<1> DEFINE holding == Table!Holding(l, e.topic)
           vacant == Table!Vacant(l)
<1>1. /\ holding = {j \in 1..MaxRetained : l[j] # None /\ l[j].topic = e.topic}
      /\ vacant = {j \in 1..MaxRetained : l[j] = None}
  BY DEF Table!Holding, Table!Vacant
<1>2. l \in [1..MaxRetained -> Entry \cup {None}]  BY DEF GoodList
<1>3. /\ Occupied(l) \subseteq 1..MaxRetained
      /\ \A j \in 1..MaxRetained : j \in Occupied(l) <=> l[j] # None
  BY <1>2, OccupiedTyped
<1>4. i \in (IF holding # {} THEN {Lowest(holding)}
             ELSE IF e.data # <<>> /\ vacant # {} THEN {Lowest(vacant)} ELSE {})
  BY DEF Place
<1>5. holding \subseteq Nat /\ vacant \subseteq Nat  BY <1>1, Sizes
<1> HIDE DEF holding, vacant
<1>6. CASE holding # {}
  <2>1. i \in holding  BY <1>4, <1>5, <1>6, LowestProperties
  <2> QED  BY <1>1, <1>3, <2>1
<1>7. CASE holding = {}
  <2>1. e.data # <<>> /\ vacant # {} /\ i = Lowest(vacant)  BY <1>4, <1>7
  <2>2. i \in vacant  BY <1>5, <2>1, LowestProperties
  <2> QED  BY <1>1, <1>3, <1>7, <2>1, <2>2
<1> QED  BY <1>6, <1>7

(* A topic that is held has its place.                                     *)
LEMMA HeldHasPlace ==
  ASSUME NEW l, GoodList(l), NEW e, NEW i \in Occupied(l), l[i].topic = e.topic
  PROVE  Place(l, e) # {}
<1>1. i \in 1..MaxRetained /\ l[i] # None  BY OccupiedTyped DEF GoodList
<1>2. i \in Table!Holding(l, e.topic)  BY <1>1 DEF Table!Holding
<1> QED  BY <1>2 DEF Place

LEMMA OnePlace ==
  ASSUME NEW l, NEW e, NEW i \in Place(l, e), NEW j \in Place(l, e)
  PROVE  i = j
BY DEF Place

(* An update keeps each topic in one entry.                                *)
LEMMA UpdateKeepsList ==
  ASSUME NEW l, GoodList(l), NEW e, e.data = <<>> \/ e \in Entry
  PROVE  GoodList(update_retainedtopic(l, e))
<1> DEFINE new == update_retainedtopic(l, e)
<1>1. l \in [1..MaxRetained -> Entry \cup {None}] /\ DOMAIN l = 1..MaxRetained
  BY DEF GoodList
<1>2. /\ \A i \in 1..MaxRetained : i \in Occupied(l) <=> l[i] # None
      /\ \A i, j \in Occupied(l) : l[i].topic = l[j].topic => i = j
  BY <1>1, OccupiedTyped DEF GoodList
<1>3. new = [i \in 1..MaxRetained |-> IF i \in Place(l, e)
                                      THEN IF e.data = <<>> THEN None ELSE e
                                      ELSE l[i]]
  BY <1>1 DEF update_retainedtopic
<1> HIDE DEF new
<1>4. new \in [1..MaxRetained -> Entry \cup {None}]  BY <1>1, <1>3
<1>5. /\ Occupied(new) \subseteq 1..MaxRetained
      /\ \A i \in Occupied(new) : new[i] # None
  BY <1>4, OccupiedTyped
<1>6. ASSUME NEW i \in Occupied(new), NEW j \in Occupied(new),
             i \in Place(l, e), j \notin Place(l, e)
      PROVE  new[i].topic # new[j].topic
  <2>1. i \in 1..MaxRetained /\ j \in 1..MaxRetained /\ new[i] # None /\ new[j] # None
    BY <1>5
  <2>2. new[i] = e /\ new[j] = l[j]  BY <1>3, <1>6, <2>1
  <2>3. j \in Occupied(l)  BY <1>2, <2>1, <2>2
  <2>4. \/ i \in Occupied(l) /\ l[i].topic = e.topic
        \/ \A k \in Occupied(l) : l[k].topic # e.topic
    BY <1>6, PlaceProperties
  <2>5. i # j  BY <1>6
  <2> QED  BY <1>2, <2>2, <2>3, <2>4, <2>5
<1>7. ASSUME NEW i \in Occupied(new), NEW j \in Occupied(new), new[i].topic = new[j].topic
      PROVE  i = j
  <2>1. CASE i \in Place(l, e) /\ j \in Place(l, e)  BY <2>1, OnePlace
  <2>2. CASE i \notin Place(l, e) /\ j \notin Place(l, e)
    <3>1. i \in 1..MaxRetained /\ j \in 1..MaxRetained /\ new[i] # None /\ new[j] # None
      BY <1>5
    <3>2. new[i] = l[i] /\ new[j] = l[j]  BY <1>3, <2>2, <3>1
    <3> QED  BY <1>2, <1>7, <3>1, <3>2
  <2> QED  BY <1>6, <1>7, <2>1, <2>2
<1> QED  BY <1>4, <1>7 DEF GoodList, new

LEMMA WithoutMemoryKeepsList ==
  ASSUME NEW l, GoodList(l), NEW e
  PROVE  GoodList(WithoutMemory(l, e))
<1> DEFINE new == WithoutMemory(l, e)
<1>1. l \in [1..MaxRetained -> Entry \cup {None}] /\ DOMAIN l = 1..MaxRetained
  BY DEF GoodList
<1>2. /\ \A i \in 1..MaxRetained : i \in Occupied(l) <=> l[i] # None
      /\ \A i, j \in Occupied(l) : l[i].topic = l[j].topic => i = j
  BY <1>1, OccupiedTyped DEF GoodList
<1>3. new = [i \in 1..MaxRetained |-> IF i \in Place(l, e) THEN None ELSE l[i]]
  BY <1>1 DEF WithoutMemory
<1> HIDE DEF new
<1>4. new \in [1..MaxRetained -> Entry \cup {None}]  BY <1>1, <1>3
<1>5. /\ Occupied(new) \subseteq 1..MaxRetained
      /\ \A i \in Occupied(new) : new[i] # None
  BY <1>4, OccupiedTyped
<1>6. \A i \in Occupied(new) : i \in Occupied(l) /\ new[i] = l[i]  BY <1>2, <1>3, <1>5
<1>7. \A i, j \in Occupied(new) : new[i].topic = new[j].topic => i = j  BY <1>2, <1>6
<1> QED  BY <1>4, <1>7 DEF GoodList, new

(* Without a place an update changes nothing.                              *)
LEMMA NoPlaceNoChange ==
  ASSUME NEW l, GoodList(l), NEW e, Place(l, e) = {}
  PROVE  update_retainedtopic(l, e) = l
<1>1. l = [i \in DOMAIN l |-> l[i]]  BY DEF GoodList
<1> QED  BY <1>1 DEF update_retainedtopic

-----------------------------------------------------------------------------
(* Loading.                                                                *)

(* The table after the first k entries of read have been put into it.      *)
Filled(read, k) == [i \in 1..MaxRetained |-> IF i <= k THEN read[i] ELSE None]

LEMMA FilledTyped ==
  ASSUME NEW read, GoodImage(read), NEW k \in 0..Len(read)
  PROVE  /\ GoodList(Filled(read, k))
         /\ Occupied(Filled(read, k)) = 1..k
<1> DEFINE l == Filled(read, k)
           m == Len(read)
           N == MaxRetained
<1>1. /\ read \in Seq(Entry) /\ m <= N
      /\ \A i, j \in 1..m : read[i].topic = read[j].topic => i = j
  BY DEF GoodImage
<1>2. m \in Nat /\ N \in Nat /\ k \in Nat /\ k <= m  BY <1>1, LenProperties, Sizes
<1>3. \A i \in 1..m : read[i] \in Entry /\ read[i] # None
  BY <1>1, ElementOfSeq, NoneIsNoEntry
<1>4. l = [i \in 1..N |-> IF i <= k THEN read[i] ELSE None]  BY DEF Filled
<1> HIDE DEF l, m, N
<1>5. \A i \in 1..N : i <= k => i \in 1..m  BY <1>2
<1>6. l \in [1..N -> Entry \cup {None}]  BY <1>3, <1>4, <1>5
<1>7. \A i \in 1..N : l[i] # None <=> i <= k  BY <1>3, <1>4, <1>5
<1>8. Occupied(l) = 1..k
  <2>1. DOMAIN l = 1..N  BY <1>4
  <2>2. Occupied(l) = {i \in 1..N : i <= k}  BY <1>7, <2>1 DEF Occupied
  <2>3. {i \in 1..N : i <= k} = 1..k  BY <1>1, <1>2
  <2> QED  BY <2>2, <2>3
<1>9. \A i \in 1..k : i \in 1..m /\ l[i] = read[i]
  <2>1. \A i \in 1..k : i \in 1..N /\ i <= k /\ i \in 1..m  BY <1>1, <1>2
  <2> QED  BY <1>4, <2>1
<1>10. \A i, j \in Occupied(l) : l[i].topic = l[j].topic => i = j  BY <1>1, <1>8, <1>9
<1> QED  BY <1>6, <1>8, <1>10 DEF GoodList, l, N

(* An entry with a new topic goes behind those already there.              *)
LEMMA FilledGrows ==
  ASSUME NEW read, GoodImage(read), NEW k \in 1..Len(read)
  PROVE  update_retainedtopic(Filled(read, k - 1), read[k]) = Filled(read, k)
<1> DEFINE l == Filled(read, k - 1)
           m == Len(read)
           N == MaxRetained
           e == read[k]
<1>1. /\ read \in Seq(Entry) /\ m <= N
      /\ \A i, j \in 1..m : read[i].topic = read[j].topic => i = j
  BY DEF GoodImage
<1>2. /\ m \in Nat /\ N \in Nat /\ k \in Nat /\ k >= 1 /\ k <= m
      /\ k - 1 \in Nat /\ k - 1 \in 0..m
  BY <1>1, LenProperties, Sizes
<1>3. e \in Entry /\ e.data # <<>>
  <2>1. e \in Entry  BY <1>1, ElementOfSeq
  <2> HIDE DEF e
  <2> QED  BY <2>1 DEF Entry
<1>4. GoodList(l) /\ Occupied(l) = 1..(k - 1)  BY <1>2, FilledTyped
<1>5. l = [i \in 1..N |-> IF i <= k - 1 THEN read[i] ELSE None]  BY DEF Filled
<1>6. e = read[k]  OBVIOUS
<1> HIDE DEF l, m, N, e
<1>7. l \in [1..N -> Entry \cup {None}]  BY <1>4 DEF GoodList, N
<1>8. \A i \in 1..N : l[i] # None <=> i <= k - 1
  <2>1. \A i \in 1..N : i \in 1..(k - 1) <=> i <= k - 1  BY <1>2
  <2> QED  BY <1>4, <1>7, <2>1, OccupiedTyped DEF N
<1>9. Table!Holding(l, e.topic) = {}
  <2> SUFFICES ASSUME NEW i \in 1..N, l[i] # None, l[i].topic = e.topic PROVE FALSE
    BY DEF Table!Holding, N
  <2>1. i <= k - 1 /\ i \in 1..m /\ k \in 1..m /\ i # k  BY <1>1, <1>2, <1>8
  <2>2. l[i] = read[i]  BY <1>5, <2>1
  <2> QED  BY <1>1, <1>6, <2>1, <2>2
<1>10. /\ Table!Vacant(l) # {} /\ Lowest(Table!Vacant(l)) = k
  <2> DEFINE vacant == Table!Vacant(l)
             first == Lowest(vacant)
  <2>1. vacant = {i \in 1..N : l[i] = None}  BY DEF Table!Vacant, N
  <2>2. \A i \in 1..N : i \in vacant <=> i >= k  BY <1>2, <1>8, <2>1
  <2>3. k \in vacant  BY <1>1, <1>2, <2>2
  <2>4. vacant \subseteq 1..N  BY <2>1
  <2> HIDE DEF vacant
  <2>5. vacant \subseteq Nat  BY <1>2, <2>4
  <2>6. first \in vacant /\ first <= k  BY <2>3, <2>5, LowestProperties
  <2> HIDE DEF first
  <2>7. first >= k /\ first \in Nat  BY <2>2, <2>4, <2>5, <2>6
  <2>8. first = k  BY <1>2, <2>6, <2>7
  <2> QED  BY <2>3, <2>8 DEF first, vacant
<1>11. Place(l, e) = {k}  BY <1>3, <1>9, <1>10 DEF Place
<1>12. DOMAIN l = 1..N  BY <1>5
<1>13. update_retainedtopic(l, e) = [i \in 1..N |-> IF i = k THEN e ELSE l[i]]
  BY <1>3, <1>11, <1>12 DEF update_retainedtopic
<1>14. \A i \in 1..N : (IF i = k THEN e ELSE l[i]) = (IF i <= k THEN read[i] ELSE None)
  <2> SUFFICES ASSUME NEW i \in 1..N
               PROVE  (IF i = k THEN e ELSE l[i]) = (IF i <= k THEN read[i] ELSE None)
    OBVIOUS
  <2>1. (i = k /\ i <= k) \/ (i # k /\ i <= k /\ i <= k - 1) \/ (i # k /\ ~(i <= k) /\ ~(i <= k - 1))
    BY <1>2
  <2> QED  BY <1>5, <1>6, <2>1
<1>15. [i \in 1..N |-> IF i = k THEN e ELSE l[i]] = Filled(read, k)
  BY <1>14 DEF Filled, N
<1> QED  BY <1>13, <1>15 DEF l, e

(* Loading fills the table with what is read, so that its image is that.   *)
LEMMA LoadFills ==
  ASSUME NEW buf, GoodImage(deserialize_retainedtopics(buf))
  PROVE  LET read == deserialize_retainedtopics(buf)
         IN  load_retainedtopics(buf) = Filled(read, Len(read))
<1> DEFINE read == deserialize_retainedtopics(buf)
           m == Len(read)
           Solves(f) == f = [k \in 0..m |-> IF k = 0 THEN Empty
                                            ELSE update_retainedtopic(f[k - 1], read[k])]
           after == CHOOSE f : Solves(f)
<1>1. load_retainedtopics(buf) = after[m]  BY DEF load_retainedtopics
<1>2. m \in Nat  BY LenProperties DEF GoodImage
<1>3. GoodImage(read)  OBVIOUS
<1> HIDE DEF read
<1>4. Filled(read, 0) = Empty
  <2>1. \A i \in 1..MaxRetained : ~(i <= 0)  BY Sizes
  <2>2. Empty = [i \in 1..MaxRetained |-> None]  BY DEF Empty, Table!create_retainedlist
  <2> QED  BY <2>1, <2>2 DEF Filled
<1>5. \A k \in 1..m : update_retainedtopic(Filled(read, k - 1), read[k]) = Filled(read, k)
  BY <1>3, FilledGrows
<1> HIDE DEF m
<1>6. \E f : Solves(f)
  <2> DEFINE g == [k \in 0..m |-> Filled(read, k)]
  <2>1. \A k \in 0..m : k # 0 => k \in 1..m /\ k - 1 \in 0..m  BY <1>2
  <2>2. \A k \in 0..m : k # 0 => g[k - 1] = Filled(read, k - 1)  BY <2>1
  <2>3. \A k \in 0..m : Filled(read, k) =
          IF k = 0 THEN Empty ELSE update_retainedtopic(g[k - 1], read[k])
    BY <1>4, <1>5, <2>1, <2>2
  <2>4. g = [k \in 0..m |-> IF k = 0 THEN Empty ELSE update_retainedtopic(g[k - 1], read[k])]
    <3>1. g = [k \in 0..m |-> Filled(read, k)]  OBVIOUS
    <3> HIDE DEF g
    <3> QED  BY <2>3, <3>1
  <2> HIDE DEF g
  <2> QED  BY <2>4
<1> HIDE DEF Solves
<1>7. Solves(after)  BY <1>6
<1> HIDE DEF after
<1>8. \A k \in 0..m : after[k] = IF k = 0 THEN Empty ELSE update_retainedtopic(after[k - 1], read[k])
  BY <1>7 DEF Solves
<1> DEFINE Right(k) == k <= m => after[k] = Filled(read, k)
           Reached == {k \in Nat : Right(k)}
<1>9. Right(0)
  <2>1. 0 \in 0..m  BY <1>2
  <2> QED  BY <1>4, <1>8, <2>1
<1>10. ASSUME NEW k \in Nat, Right(k) PROVE Right(k + 1)
  <2> SUFFICES ASSUME k + 1 <= m PROVE after[k + 1] = Filled(read, k + 1)  OBVIOUS
  <2>1. k + 1 \in 0..m /\ k + 1 # 0 /\ k + 1 \in 1..m /\ (k + 1) - 1 = k /\ k <= m
    BY <1>2
  <2>2. after[k + 1] = update_retainedtopic(after[k], read[k + 1])  BY <1>8, <2>1
  <2>3. after[k] = Filled(read, k)  BY <1>10, <2>1
  <2>4. update_retainedtopic(Filled(read, k), read[k + 1]) = Filled(read, k + 1)
    BY <1>5, <2>1
  <2> QED  BY <2>2, <2>3, <2>4
<1> HIDE DEF Right
<1>11. Nat \subseteq Reached
  <2>1. 0 \in Reached /\ \A k \in Nat : k \in Reached => k + 1 \in Reached
    BY <1>9, <1>10
  <2> HIDE DEF Reached
  <2> QED  BY <2>1, Induction
<1>12. after[m] = Filled(read, m)
  <2>1. Right(m) /\ m <= m  BY <1>2, <1>11
  <2> QED  BY <2>1 DEF Right
<1> QED  BY <1>1, <1>12 DEF read, m

LEMMA FilledImage ==
  ASSUME NEW read, GoodImage(read)
  PROVE  Image(Filled(read, Len(read))) = read
<1> DEFINE m == Len(read)
           l == Filled(read, m)
           N == MaxRetained
           id == [k \in 1..m |-> k]
<1>1. read \in Seq(Entry) /\ m <= N  BY DEF GoodImage
<1>2. m \in Nat /\ N \in Nat  BY <1>1, LenProperties, Sizes
<1>3. Occupied(l) = 1..m
  <2>1. m \in 0..Len(read)  BY <1>2
  <2> QED  BY <2>1, FilledTyped
<1>4. l = [i \in 1..N |-> IF i <= m THEN read[i] ELSE None]  BY DEF Filled
<1>5. read = [k \in 1..m |-> read[k]]  BY <1>1, LenProperties
<1> HIDE DEF l, m, N
<1>6. Cardinality(1..m) = m /\ \A k \in 1..m : Nth(1..m, k) = k
  <2>1. id \in [1..m -> 1..N]  BY <1>1, <1>2
  <2>2. \A j, k \in 1..m : j < k => id[j] < id[k]  OBVIOUS
  <2>3. {id[k] : k \in 1..m} = 1..m /\ \A k \in 1..m : id[k] = k  OBVIOUS
  <2> HIDE DEF id
  <2>4. Cardinality({id[k] : k \in 1..m}) = m /\ \A k \in 1..m : Nth({id[j] : j \in 1..m}, k) = id[k]
    BY ONLY <1>2, <2>1, <2>2, NthOfFunction
  <2> QED  BY <2>3, <2>4
<1>7. \A k \in 1..m : l[Nth(1..m, k)] = read[k]
  <2>1. \A k \in 1..m : k \in 1..N /\ k <= m  BY <1>1, <1>2
  <2> QED  BY <1>4, <1>6, <2>1
<1>8. Image(l) = [k \in 1..m |-> read[k]]  BY <1>3, <1>6, <1>7 DEF Image, Selected
<1> QED  BY <1>5, <1>8 DEF l, m

(* The first entries of an image, the last perhaps damaged, are an image.  *)
LEMMA ReadIsImage ==
  ASSUME NEW im, GoodImage(im), NEW all, NEW t, TailRead(t, im, 0, all)
  PROVE  GoodImage(t)
<1> DEFINE m == Len(im)
           l == Len(t)
<1>1. /\ im \in Seq(Entry) /\ m <= MaxRetained
      /\ \A i, j \in 1..m : im[i].topic = im[j].topic => i = j
  BY DEF GoodImage
<1>2. t \in Seq(Entry) /\ l <= m - 0 /\ \A i \in 1..l : Damaged(t[i], im[0 + i])
  BY DEF TailRead
<1>3. m \in Nat /\ l \in Nat /\ MaxRetained \in Nat  BY <1>1, <1>2, LenProperties, Sizes
<1> HIDE DEF m, l
<1>4. l <= MaxRetained /\ \A i \in 1..l : i \in 1..m /\ 0 + i = i  BY <1>1, <1>2, <1>3
<1>5. \A i \in 1..l : t[i].topic = im[i].topic  BY <1>2, <1>4 DEF Damaged
<1> QED  BY <1>1, <1>2, <1>4, <1>5 DEF GoodImage, l

-----------------------------------------------------------------------------
(* What the sector holds.                                                  *)

LEMMA WrittenTyped ==
  ASSUME NEW im \in Seq(Entry), NEW n \in Nat
  PROVE  Written(im, n) \in Sector
BY SerializedTyped, WriteForm DEF Written, Carries

LEMMA NothingWritten ==
  ASSUME NEW im \in Seq(Entry)
  PROVE  Written(im, 0) = Erased
<1>1. Erased = [i \in 0..(MAX_RETAINED_LEN - 1) |-> 255]  BY DEF Erased
<1>2. \A i \in 0..(MAX_RETAINED_LEN - 1) : ~(i < 4 * 0)  BY Sizes
<1> QED  BY <1>1, <1>2 DEF Written, spi_flash_write

LEMMA WholeTyped ==
  ASSUME NEW im \in Seq(Entry)
  PROVE  Whole(im) \in Nat /\ 0 \in 0..Whole(im) /\ Whole(im) \in 0..Whole(im)
<1>1. Len(serialize_retainedtopics(im)) \in Nat  BY SerializedTyped, LenProperties
<1>2. \A x \in Nat : (x + 3) \div 4 \in Nat  OBVIOUS
<1>3. Whole(im) \in Nat  BY <1>1, <1>2 DEF Whole, Words
<1> QED  BY <1>3

(* The image in the sector: the last save has written some words of it;    *)
(* none while it is under way, when it is the table that is being saved.   *)
SectorInv ==
  /\ GoodImage(image) /\ Fits(image)
  /\ \E n \in 0..Whole(image) : /\ flash = Written(image, n)
                                /\ saving => n = 0
                                /\ whole => n = Whole(image) \/ image = <<>>
  /\ saving => ~whole /\ up /\ image = Image(list)

Flags ==
  /\ {retained_cb, saving, clearing, up, built, whole, behind} \subseteq BOOLEAN
  /\ clearing => up

(* The inductive invariant.                                                *)
StoreInv == GoodList(list) /\ SectorInv /\ Flags /\ FlashCurrent

(* What a start finds: the first entries of the last image, all of them if *)
(* its save has come to its end, and the table that it loads holds them.   *)
LEMMA StartFinds ==
  ASSUME StoreInv
  PROVE  LET read == deserialize_retainedtopics(flash)
             l == load_retainedtopics(flash)
         IN  /\ TailRead(read, image, 0, whole)
             /\ GoodList(l) /\ Image(l) = read /\ FoundOf(read, read)
<1> DEFINE read == deserialize_retainedtopics(flash)
<1>1. GoodImage(image) /\ image \in Seq(Entry) /\ Fits(image)
  BY DEF StoreInv, SectorInv, GoodImage
<1>2. PICK n \in 0..Whole(image) : /\ flash = Written(image, n)
                                   /\ whole => n = Whole(image) \/ image = <<>>
  BY DEF StoreInv, SectorInv
<1>3. n \in Nat  BY <1>1, WholeTyped
<1>4. TailRead(read, image, 0, image = <<>> \/ n >= Whole(image))
  BY <1>1, <1>2, <1>3, ReadBack
<1> HIDE DEF read
<1>5. whole => image = <<>> \/ n >= Whole(image)  BY <1>1, <1>2, <1>3, WholeTyped
<1>6. TailRead(read, image, 0, whole)  BY <1>4, <1>5 DEF TailRead
<1>7. GoodImage(read)  BY <1>1, <1>6, ReadIsImage
<1>8. load_retainedtopics(flash) = Filled(read, Len(read))  BY <1>7, LoadFills DEF read
<1>9. Len(read) \in 0..Len(read)  BY <1>7, LenProperties DEF GoodImage
<1>10. GoodList(Filled(read, Len(read)))  BY <1>7, <1>9, FilledTyped
<1>11. Image(Filled(read, Len(read))) = read  BY <1>7, FilledImage
<1>12. FoundOf(read, read)
  <2>1. read \in Seq(Entry) /\ \A i \in 1..Len(read) : read[i].topic # <<>>
    BY <1>6 DEF TailRead, Damaged
  <2>2. Len(read) \in Nat /\ DOMAIN read = 1..Len(read)  BY <2>1, LenProperties
  <2>3. Len(read) <= Len(read) /\ ~(Len(read) < Len(read))  BY <2>2
  <2> QED  BY <2>1, <2>2, <2>3 DEF FoundOf
<1> QED  BY <1>6, <1>8, <1>10, <1>11, <1>12 DEF read

(* What is read of a table that was written to the end is found of it.     *)
LEMMA WholeRead ==
  ASSUME NEW im \in Seq(Entry), NEW t, TailRead(t, im, 0, TRUE)
  PROVE  FoundOf(t, im)
<1> DEFINE l == Len(t)
           m == Len(im)
<1>1. t \in Seq(Entry) /\ l <= m - 0  BY DEF TailRead
<1>2. \A i \in 1..l : t[i] = im[0 + i] /\ Damaged(t[i], im[0 + i])  BY DEF TailRead
<1>3. l = m - 0 \/ im[0 + l + 1].topic = <<>>  BY DEF TailRead
<1>4. m \in Nat /\ l \in Nat /\ DOMAIN t = 1..l  BY <1>1, LenProperties
<1> HIDE DEF l, m
<1>5. l <= m /\ 0 + l + 1 = l + 1 /\ (l < m => l # m - 0) /\ \A i \in 1..l : 0 + i = i
  BY <1>1, <1>4
<1>6. \A i \in 1..l : t[i] = im[i] /\ im[i].topic # <<>>  BY <1>2, <1>5 DEF Damaged
<1>7. l < m => im[l + 1].topic = <<>>  BY <1>3, <1>5
<1> QED  BY <1>4, <1>5, <1>6, <1>7 DEF FoundOf, l, m

-----------------------------------------------------------------------------
(* The invariant is inductive.                                             *)

LEMMA PublishedTyped ==
  ASSUME NEW e \in Published
  PROVE  e.data = <<>> \/ e \in Entry
BY RetainAssumption DEF Published, Entry

LEMMA EmptyGood == GoodList(Empty)
<1>1. Empty = [i \in 1..MaxRetained |-> None]  BY DEF Empty, Table!create_retainedlist
<1>2. Empty \in [1..MaxRetained -> Entry \cup {None}]  BY <1>1
<1>3. Occupied(Empty) = {}  BY <1>1 DEF Occupied
<1> QED  BY <1>2, <1>3 DEF GoodList

LEMMA InitStore == Init => StoreInv
<1> SUFFICES ASSUME Init PROVE StoreInv  OBVIOUS
<1>1. GoodList(list)  BY EmptyGood DEF Init
<1>2. <<>> \in Seq(Entry) /\ Len(<<>>) = 0 /\ 1..0 = {}  OBVIOUS
<1>3. GoodImage(<<>>) /\ Fits(<<>>)  BY <1>2, Sizes DEF GoodImage, Fits
<1>4. flash = Written(<<>>, 0) /\ 0 \in 0..Whole(<<>>)
  BY <1>2, NothingWritten, WholeTyped DEF Init
<1>5. SectorInv  BY <1>3, <1>4 DEF Init, SectorInv
<1> QED  BY <1>1, <1>5 DEF Init, StoreInv, Flags, FlashCurrent

LEMMA SectorUnchanged ==
  ASSUME SectorInv, UNCHANGED <<saving, flash, image, whole>>,
         ~saving \/ UNCHANGED <<list, up>>
  PROVE  SectorInv'
BY DEF SectorInv

LEMMA SectorSaved ==
  ASSUME SectorInv, ~saving, up', NEW l, GoodList(l), list' = l, save_retainedtopics(l)
  PROVE  /\ SectorInv'
         /\ IF Fits(Image(l)) THEN saving' = TRUE /\ whole' = FALSE
            ELSE UNCHANGED <<saving, flash, whole>>
<1>1. CASE Fits(Image(l))
  <2>1. /\ saving' = TRUE /\ flash' = Erased /\ image' = Image(l) /\ whole' = FALSE
    BY <1>1 DEF save_retainedtopics
  <2>2. GoodImage(image') /\ image' \in Seq(Entry)  BY <2>1, ImageTyped DEF GoodImage
  <2>3. flash' = Written(image', 0) /\ 0 \in 0..Whole(image')
    BY <2>1, <2>2, NothingWritten, WholeTyped
  <2>4. Fits(image')  BY <1>1, <2>1
  <2>5. SectorInv'  BY <2>1, <2>2, <2>3, <2>4 DEF SectorInv
  <2> QED  BY <1>1, <2>1, <2>5
<1>2. CASE ~Fits(Image(l))
  <2>1. UNCHANGED <<saving, flash, image, whole>>  BY <1>2 DEF save_retainedtopics
  <2> QED  BY <1>2, <2>1, SectorUnchanged
<1> QED  BY <1>1, <1>2

(* Steps that only set a flag.                                             *)
LEMMA QuietKeeps ==
  ASSUME StoreInv, UNCHANGED <<list, flash, saving, up, image, whole, behind>>, Flags'
  PROVE  StoreInv'
<1>1. SectorInv'  BY SectorUnchanged DEF StoreInv
<1> QED  BY <1>1 DEF StoreInv, FlashCurrent

LEMMA StartKeeps ==
  ASSUME StoreInv, MQTT_server_start
  PROVE  StoreInv'
<1>1. ~saving /\ ~clearing  BY DEF StoreInv, SectorInv, Flags, MQTT_server_start
<1>2. SectorInv'  BY <1>1, SectorUnchanged DEF StoreInv, MQTT_server_start
<1>3. /\ GoodList(list') /\ Image(list') = deserialize_retainedtopics(flash)
      /\ FoundOf(deserialize_retainedtopics(flash), deserialize_retainedtopics(flash))
  BY StartFinds DEF MQTT_server_start
<1>4. FlashCurrent'  BY <1>3 DEF FlashCurrent, MQTT_server_start
<1>5. Flags'  BY DEF StoreInv, Flags, MQTT_server_start
<1> QED  BY <1>2, <1>3, <1>4, <1>5 DEF StoreInv

LEMMA SaveKeeps ==
  ASSUME StoreInv, Save
  PROVE  StoreInv'
<1>1. ~saving /\ ~clearing /\ up /\ up' /\ list' = list  BY DEF Save, Idle
<1>2. /\ SectorInv'
      /\ IF Fits(Image(list)) THEN saving' = TRUE /\ whole' = FALSE
         ELSE UNCHANGED <<saving, flash, whole>>
  BY <1>1, SectorSaved DEF StoreInv, Save
<1>3. FlashCurrent'  BY <1>1, <1>2 DEF StoreInv, FlashCurrent, Save
<1>4. Flags'  BY <1>2 DEF StoreInv, Flags, Save
<1> QED  BY <1>1, <1>2, <1>3, <1>4 DEF StoreInv

LEMMA BlobKeeps ==
  ASSUME StoreInv, blob_save
  PROVE  StoreInv'
<1>1. GoodImage(image) /\ Fits(image) /\ image \in Seq(Entry)
  BY DEF StoreInv, SectorInv, GoodImage
<1>2. saving /\ ~whole /\ up /\ image = Image(list)  BY DEF StoreInv, SectorInv, blob_save
<1>3. flash = Erased  BY <1>1, <1>2, NothingWritten DEF StoreInv, SectorInv
<1>4. flash' = Written(image, Whole(image))  BY <1>3 DEF blob_save, Written, Whole
<1>5. Whole(image) \in 0..Whole(image) /\ Whole(image) \in Nat  BY <1>1, WholeTyped
<1>6. SectorInv'
  <2>1. image' = image /\ saving' = FALSE  BY DEF blob_save
  <2> QED  BY <1>1, <1>4, <1>5, <2>1 DEF SectorInv
<1>7. FoundOf(deserialize_retainedtopics(flash'), image)
  <2>1. Whole(image) >= Whole(image)  BY <1>5
  <2>2. TailRead(deserialize_retainedtopics(flash'), image, 0,
                 image = <<>> \/ Whole(image) >= Whole(image))
    BY <1>1, <1>4, <1>5, ReadBack
  <2>3. TailRead(deserialize_retainedtopics(flash'), image, 0, TRUE)
    BY <2>1, <2>2 DEF TailRead
  <2> QED  BY <1>1, <2>3, WholeRead
<1>8. FlashCurrent'  BY <1>2, <1>7 DEF FlashCurrent, blob_save
<1>9. Flags'  BY DEF StoreInv, Flags, blob_save
<1> QED  BY <1>6, <1>8, <1>9 DEF StoreInv, blob_save

(* The table becomes l, which differs only when the callback is called or  *)
(* the change is marked.                                                   *)
LEMMA ChangeKeeps ==
  ASSUME StoreInv, ~saving, up, up', NEW l, GoodList(l), NEW calls, Change(l, calls), Flags',
         ~saving' /\ ~behind' =>
           /\ ~behind
           /\ l = list \/ (calls /\ retained_cb /\ Fits(Image(l)))
  PROVE  StoreInv'
<1>1. list' = l  BY DEF Change
<1>2. CASE calls /\ retained_cb
  <2>1. save_retainedtopics(l)  BY <1>2 DEF Change
  <2>2. /\ SectorInv'
        /\ IF Fits(Image(l)) THEN saving' = TRUE /\ whole' = FALSE
           ELSE UNCHANGED <<saving, flash, whole>>
    BY <1>1, <2>1, SectorSaved DEF StoreInv
  <2>3. FlashCurrent'  BY <1>1, <2>2 DEF StoreInv, FlashCurrent
  <2> QED  BY <1>1, <2>2, <2>3 DEF StoreInv
<1>3. CASE ~(calls /\ retained_cb)
  <2>1. UNCHANGED <<saving, flash, image, whole>>  BY <1>3 DEF Change
  <2>2. SectorInv'  BY <2>1, SectorUnchanged DEF StoreInv
  <2>3. FlashCurrent'  BY <1>1, <1>3, <2>1 DEF StoreInv, FlashCurrent
  <2> QED  BY <1>1, <2>2, <2>3 DEF StoreInv
<1> QED  BY <1>2, <1>3

LEMMA UpdateKeeps ==
  ASSUME StoreInv, NEW e \in Published, Update(e)
  PROVE  StoreInv'
<1>1. /\ ~saving /\ ~clearing /\ up /\ up' /\ UNCHANGED <<retained_cb, clearing, built>>
  BY DEF Update, Idle
<1>2. GoodList(list)  BY DEF StoreInv
<1> DEFINE l == update_retainedtopic(list, e)
           k == WithoutMemory(list, e)
<1>3. ASSUME Change(l, CallsBack(list, e)),
             behind' = \/ list' # list /\ (~retained_cb \/ ~Fits(Image(list')))
                       \/ behind /\ ~saving'
      PROVE  StoreInv'
  <2>1. GoodList(l)  BY <1>2, PublishedTyped, UpdateKeepsList
  <2>2. l # list => CallsBack(list, e)  BY <1>2, NoPlaceNoChange DEF CallsBack
  <2> HIDE DEF l
  <2>3. list' = l  BY <1>3 DEF Change
  <2>4. Flags'
    <3>1. saving' \in BOOLEAN /\ whole' \in BOOLEAN
      BY <1>3 DEF StoreInv, Flags, Change, save_retainedtopics
    <3>2. behind' \in BOOLEAN  BY <1>3
    <3> QED  BY <1>1, <3>1, <3>2 DEF StoreInv, Flags
  <2>5. ~saving' /\ ~behind' =>
          /\ ~behind
          /\ l = list \/ (CallsBack(list, e) /\ retained_cb /\ Fits(Image(l)))
    BY <1>3, <2>2, <2>3
  <2> QED  BY <1>1, <1>3, <2>1, <2>4, <2>5, ChangeKeeps
<1>4. ASSUME Change(k, FALSE), behind' = (behind \/ list' # list)
      PROVE  StoreInv'
  <2>1. GoodList(k)  BY <1>2, WithoutMemoryKeepsList
  <2> HIDE DEF k
  <2>2. list' = k /\ UNCHANGED <<saving, whole>>  BY <1>4 DEF Change
  <2>3. Flags'
    <3>1. behind' \in BOOLEAN  BY <1>4
    <3> QED  BY <1>1, <2>2, <3>1 DEF StoreInv, Flags
  <2>4. ~saving' /\ ~behind' =>
          /\ ~behind
          /\ k = list \/ (FALSE /\ retained_cb /\ Fits(Image(k)))
    BY <1>4, <2>2
  <2> QED  BY <1>1, <1>4, <2>1, <2>3, <2>4, ChangeKeeps
<1> QED  BY <1>3, <1>4 DEF Update

LEMMA ClearEntryKeeps ==
  ASSUME StoreInv, ClearEntry
  PROVE  StoreInv'
<1> DEFINE i == Lowest(Occupied(list))
           e == [list[i] EXCEPT !.data = <<>>]
           l == update_retainedtopic(list, e)
<1>1. /\ ~saving /\ clearing /\ UNCHANGED <<retained_cb, clearing, up, built>>
      /\ Occupied(list) # {} /\ Change(l, CallsBack(list, e))
      /\ behind' = (~retained_cb \/ ~Fits(Image(list')) \/ (behind /\ ~saving'))
  BY DEF ClearEntry
<1>2. up /\ up'  BY <1>1 DEF StoreInv, Flags
<1>3. GoodList(list) /\ list \in [1..MaxRetained -> Entry \cup {None}]
  BY DEF StoreInv, GoodList
<1>4. i \in Occupied(list) /\ list[i] \in Entry
  <2>1. Occupied(list) \subseteq Nat  BY <1>3, OccupiedTyped, Sizes
  <2> QED  BY <1>1, <1>3, <2>1, LowestProperties, OccupiedTyped
<1> HIDE DEF i
<1>5. e.topic = list[i].topic /\ e.data = <<>>  BY <1>4 DEF Entry
<1> HIDE DEF e
<1>6. GoodList(l)  BY <1>3, <1>5, UpdateKeepsList
<1>7. CallsBack(list, e)  BY <1>3, <1>4, <1>5, HeldHasPlace DEF CallsBack
<1> HIDE DEF l
<1>8. list' = l  BY <1>1 DEF Change
<1>9. Flags'
  <2>1. saving' \in BOOLEAN /\ whole' \in BOOLEAN
    BY <1>1 DEF StoreInv, Flags, Change, save_retainedtopics
  <2>2. behind' \in BOOLEAN  BY <1>1
  <2> QED  BY <1>1, <2>1, <2>2 DEF StoreInv, Flags
<1>10. ~saving' /\ ~behind' =>
         /\ ~behind
         /\ l = list \/ (CallsBack(list, e) /\ retained_cb /\ Fits(Image(l)))
  BY <1>1, <1>7, <1>8
<1> QED  BY <1>1, <1>2, <1>6, <1>9, <1>10, ChangeKeeps

LEMMA RestartKeeps ==
  ASSUME StoreInv, Restart
  PROVE  StoreInv'
<1>1. GoodList(list')  BY EmptyGood DEF Restart
<1>2. Flags'  BY DEF StoreInv, Flags, Restart
<1>3. FlashCurrent'  BY DEF FlashCurrent, Restart
<1>4. SectorInv'
  <2>1. CASE saving
    <3>1. image \in Seq(Entry)  BY DEF StoreInv, SectorInv, GoodImage
    <3>2. flash = Erased /\ ~whole  BY <2>1, <3>1, NothingWritten DEF StoreInv, SectorInv
    <3>3. PICK n \in 0..Whole(image) : flash' = Written(image, n)
      BY <2>1, <3>2 DEF Restart, Written, Whole
    <3>4. UNCHANGED <<image, whole>> /\ saving' = FALSE  BY DEF Restart
    <3> QED  BY <3>2, <3>3, <3>4 DEF StoreInv, SectorInv
  <2>2. CASE ~saving
    <3>1. UNCHANGED <<flash, image, whole>> /\ saving' = FALSE  BY <2>2 DEF Restart
    <3> QED  BY <2>2, <3>1 DEF StoreInv, SectorInv
  <2> QED  BY <2>1, <2>2
<1> QED  BY <1>1, <1>2, <1>3, <1>4 DEF StoreInv

LEMMA NextKeeps == StoreInv /\ [Next]_vars => StoreInv'
<1> SUFFICES ASSUME StoreInv, [Next]_vars PROVE StoreInv'  OBVIOUS
<1>1. CASE uMQTTBroker
  <2>1. Flags'  BY <1>1 DEF StoreInv, Flags, uMQTTBroker
  <2> QED  BY <1>1, <2>1, QuietKeeps DEF uMQTTBroker
<1>2. CASE MQTT_server_start  BY <1>2, StartKeeps
<1>3. CASE MQTT_server_onRetain
  <2>1. Flags'  BY <1>3 DEF StoreInv, Flags, MQTT_server_onRetain
  <2> QED  BY <1>3, <2>1, QuietKeeps DEF MQTT_server_onRetain
<1>4. CASE Save  BY <1>4, SaveKeeps
<1>5. CASE blob_save  BY <1>5, BlobKeeps
<1>6. CASE \E e \in Published : Update(e)  BY <1>6, UpdateKeeps
<1>7. CASE ClearBegin
  <2>1. Flags'  BY <1>7 DEF StoreInv, Flags, ClearBegin, Idle
  <2> QED  BY <1>7, <2>1, QuietKeeps DEF ClearBegin
<1>8. CASE ClearEntry  BY <1>8, ClearEntryKeeps
<1>9. CASE ClearEnd
  <2>1. Flags'  BY <1>9 DEF StoreInv, Flags, ClearEnd
  <2> QED  BY <1>9, <2>1, QuietKeeps DEF ClearEnd
<1>10. CASE Restart  BY <1>10, RestartKeeps
<1>11. CASE UNCHANGED vars
  <2>1. Flags'  BY <1>11 DEF StoreInv, Flags, vars
  <2> QED  BY <1>11, <2>1, QuietKeeps DEF vars
<1> QED
  BY <1>1, <1>2, <1>3, <1>4, <1>5, <1>6, <1>7, <1>8, <1>9, <1>10, <1>11 DEF Next

LEMMA StoreInvariant == Spec => []StoreInv
BY InitStore, NextKeeps, PTL DEF Spec

-----------------------------------------------------------------------------
(* The theorems.                                                           *)

LEMMA StoreTypes == StoreInv => TypeOK
<1> SUFFICES ASSUME StoreInv PROVE TypeOK  OBVIOUS
<1>1. Entry \subseteq retained_entry
  <2>1. 1..255 \subseteq Byte  BY DEF Byte
  <2>2. Seq(1..255) \subseteq Seq(Byte)  BY <2>1, SeqMonotonic
  <2> QED  BY <2>2 DEF Entry, retained_entry
<1>2. list \in [1..MaxRetained -> retained_entry \cup {None}]
  BY <1>1 DEF StoreInv, GoodList
<1>3. image \in Seq(Entry) /\ Fits(image)  BY DEF StoreInv, SectorInv, GoodImage
<1>4. image \in Seq(retained_entry)  BY <1>1, <1>3, SeqMonotonic
<1>5. flash \in [0..(MAX_RETAINED_LEN - 1) -> Byte]
  <2>1. PICK n \in 0..Whole(image) : flash = Written(image, n)  BY DEF StoreInv, SectorInv
  <2>2. n \in Nat  BY <1>3, WholeTyped
  <2> QED  BY <1>3, <2>1, <2>2, WrittenTyped DEF Sector
<1>6. Len(serialize_retainedtopics(image)) < MAX_RETAINED_LEN
  <2>1. CASE image = <<>>
    <3>1. serialize_retainedtopics(image) = <<0>> /\ Len(<<0>>) = 1
      BY <2>1 DEF serialize_retainedtopics
    <3> QED  BY <3>1, Sizes
  <2>2. CASE image # <<>>
    <3> DEFINE n == Len(serialize_retainedtopics(image))
    <3>1. n \in Nat  BY <1>3, SerializedTyped, LenProperties
    <3>2. n + 2 < MAX_RETAINED_LEN  BY <1>3, <2>2 DEF Fits
    <3> HIDE DEF n
    <3>3. n < MAX_RETAINED_LEN  BY <3>1, <3>2, Sizes
    <3> QED  BY <3>3 DEF n
  <2> QED  BY <2>1, <2>2
<1>7. saving \/ clearing => up  BY DEF StoreInv, SectorInv, Flags
<1> QED  BY <1>2, <1>4, <1>5, <1>6, <1>7 DEF StoreInv, Flags, TypeOK

(* The table and the image hold entries, the sector bytes, and what is     *)
(* saved fits the buffer, with its terminator.                             *)
THEOREM StoreTypeOK == Spec => []TypeOK
BY StoreInvariant, StoreTypes, PTL

(* The sector holds the table of the moment, unless a change was made with *)
(* no callback registered, for want of memory, or to a table that does not *)
(* fit; what can be read of it ends at an entry with an empty topic.       *)
THEOREM FlashIsCurrent == Spec => []FlashCurrent
<1>1. StoreInv => FlashCurrent  BY DEF StoreInv
<1> QED  BY <1>1, StoreInvariant, PTL

LEMMA StartStep ==
  ASSUME StoreInv, [Next]_vars, Started
  PROVE  /\ UNCHANGED image
         /\ TailRead(Image(list'), image, 0, whole)
<1>1. MQTT_server_start
  BY DEF Started, Next, vars, uMQTTBroker, MQTT_server_onRetain, Save, blob_save, Update,
         Idle, ClearBegin, ClearEntry, ClearEnd, Restart
<1>2. list' = load_retainedtopics(flash) /\ image' = image  BY <1>1 DEF MQTT_server_start
<1> QED  BY <1>2, StartFinds

(* What a save has brought to its end is what the next start finds, up to  *)
(* the first entry with an empty topic.                                    *)
THEOREM SavesSurvive == Spec => SavedSurvives
<1>1. ASSUME StoreInv, [Next]_vars PROVE Started /\ whole => FoundOf(Image(list'), image)
  <2> SUFFICES ASSUME Started, whole PROVE FoundOf(Image(list'), image)  OBVIOUS
  <2>1. TailRead(Image(list'), image, 0, whole)  BY <1>1, StartStep
  <2>2. TailRead(Image(list'), image, 0, TRUE)  BY <2>1 DEF TailRead
  <2>3. image \in Seq(Entry)  BY <1>1 DEF StoreInv, SectorInv, GoodImage
  <2> QED  BY <2>2, <2>3, WholeRead
<1> QED  BY <1>1, StoreInvariant, PTL DEF Spec, SavedSurvives

(* After a save that was cut off, the next start finds the first entries   *)
(* of the table that was being saved, at most the last of them damaged in  *)
(* its content and quality of service.                                     *)
THEOREM RestoresPrefix == Spec => RestoredPrefix
<1> DEFINE Prefix == LET found == Image(list')
                     IN  /\ Len(found) <= Len(image)
                         /\ \A i \in DOMAIN found :
                              /\ found[i].topic = image[i].topic
                              /\ Len(found[i].data) = Len(image[i].data)
                              /\ i < Len(found) => found[i] = image[i]
<1>1. ASSUME StoreInv, [Next]_vars PROVE Started => Prefix
  <2> SUFFICES ASSUME Started PROVE Prefix  OBVIOUS
  <2> DEFINE found == Image(list')
             l == Len(found)
             m == Len(image)
  <2>1. TailRead(found, image, 0, whole)  BY <1>1, StartStep
  <2>2. image \in Seq(Entry)  BY <1>1 DEF StoreInv, SectorInv, GoodImage
  <2> HIDE DEF found
  <2>3. /\ found \in Seq(Entry) /\ l <= m - 0
        /\ \A i \in 1..l : Damaged(found[i], image[0 + i]) /\ (i < l => found[i] = image[0 + i])
    BY <2>1 DEF TailRead
  <2>4. m \in Nat /\ l \in Nat /\ DOMAIN found = 1..l  BY <2>2, <2>3, LenProperties
  <2> HIDE DEF l, m
  <2>5. l <= m /\ \A i \in 1..l : 0 + i = i  BY <2>3, <2>4
  <2>6. \A i \in 1..l : Damaged(found[i], image[i]) /\ (i < l => found[i] = image[i])
    BY <2>3, <2>5
  <2> QED  BY <2>4, <2>5, <2>6 DEF Damaged, found, l, m
<1> QED  BY <1>1, StoreInvariant, PTL DEF Spec, RestoredPrefix
=============================================================================
