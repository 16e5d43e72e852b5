---------------------------- MODULE OutboxProofs ----------------------------
(***************************************************************************)
(* What the operations of Outbox preserve, for rings of every size and for *)
(* every set F of frames to put into them.                                 *)
(***************************************************************************)
EXTENDS Outbox, SequenceTheorems, TLAPS

(* An empty ring is a queue.                                               *)
LEMMA EmptyQueueOf ==
  ASSUME NEW F
  PROVE  <<>> \in QueueOf(F)
<1>1. ~HasCut(<<>>) /\ OneCut(<<>>)  BY DEF HasCut, OneCut
<1>2. <<>> \in Seq(F \cup {CUT}) /\ Len(<<>>) = 0  OBVIOUS
<1> QED  BY <1>1, <1>2, QueueAssumption DEF QueueOf, Room, Frames

(* A queue has no more frames than the ring has room for.                  *)
LEMMA FramesBounded ==
  ASSUME NEW F, NEW q \in QueueOf(F)
  PROVE  /\ q \in Seq(F \cup {CUT}) /\ Len(q) \in Nat
         /\ OneCut(q)
         /\ Room(q) \in Nat
         /\ Len(q) + Room(q) = IF HasCut(q) THEN QueueCap + 1 ELSE QueueCap
BY QueueAssumption DEF QueueOf, Room, Frames

LEMMA QueueIntro ==
  ASSUME NEW F, NEW q \in Seq(F \cup {CUT}), OneCut(q),
         Len(q) <= QueueCap \/ (HasCut(q) /\ Len(q) <= QueueCap + 1)
  PROVE  q \in QueueOf(F)
<1>1. HasCut(q) => Len(q) # 0  BY DEF HasCut
<1>2. Frames(q) \in 0..QueueCap  BY <1>1, QueueAssumption DEF Frames
<1> QED  BY <1>2, QueueAssumption DEF QueueOf, Room

(* Whole frames behind a queue leave its cut frame the only one.           *)
LEMMA CutsBehind ==
  ASSUME NEW F, CUT \notin F, NEW q \in Seq(F \cup {CUT}), NEW t \in Seq(F), OneCut(q)
  PROVE  /\ q \o t \in Seq(F \cup {CUT}) /\ Len(q \o t) = Len(q) + Len(t)
         /\ OneCut(q \o t)
         /\ HasCut(q \o t) <=> HasCut(q)
<1>1. t \in Seq(F \cup {CUT}) /\ \A i \in DOMAIN t : t[i] \in F  OBVIOUS
<1>2. /\ q \o t \in Seq(F \cup {CUT}) /\ Len(q \o t) = Len(q) + Len(t)
      /\ \A i \in 1..(Len(q) + Len(t)) :
           (q \o t)[i] = IF i <= Len(q) THEN q[i] ELSE t[i - Len(q)]
  BY <1>1, ConcatProperties
<1>3. DOMAIN (q \o t) = 1..(Len(q) + Len(t)) /\ DOMAIN q = 1..Len(q) /\ DOMAIN t = 1..Len(t)
      /\ Len(q) \in Nat /\ Len(t) \in Nat
  BY <1>1, <1>2, LenProperties
<1>4. \A i \in DOMAIN (q \o t) : (q \o t)[i] = CUT => i \in DOMAIN q /\ q[i] = CUT
  <2>1. SUFFICES ASSUME NEW i \in 1..(Len(q) + Len(t)), (q \o t)[i] = CUT, ~(i <= Len(q))
                 PROVE  FALSE
    BY <1>2, <1>3
  <2>2. i - Len(q) \in DOMAIN t  BY <1>3, <2>1
  <2> QED  BY <2>1, <2>2, <1>1, <1>2
<1>5. \A i \in DOMAIN q : i \in DOMAIN (q \o t) /\ (q \o t)[i] = q[i]
  BY <1>2, <1>3
<1>6. HasCut(q \o t) <=> HasCut(q)  BY <1>4, <1>5 DEF HasCut
<1>7. OneCut(q \o t)  BY <1>4 DEF OneCut
<1> QED  BY <1>2, <1>6, <1>7

(* QUEUE_Puts keeps the queue within its ring, whatever is put.            *)
LEMMA PutsTypedOf ==
  ASSUME NEW F, CUT \notin F, NEW q \in QueueOf(F), NEW ms \in Seq(F)
  PROVE  QUEUE_Puts(q, ms) \in QueueOf(F)
<1> DEFINE n == Room(q)
           stored == q \o SubSeq(ms, 1, n)
<1>1. /\ q \in Seq(F \cup {CUT}) /\ Len(q) \in Nat /\ n \in Nat /\ OneCut(q)
      /\ Len(q) + n = IF HasCut(q) THEN QueueCap + 1 ELSE QueueCap
  BY FramesBounded
<1>3. CASE Len(ms) <= n
  <2>1. /\ q \o ms \in Seq(F \cup {CUT}) /\ Len(q \o ms) = Len(q) + Len(ms)
        /\ OneCut(q \o ms) /\ (HasCut(q \o ms) <=> HasCut(q))
    BY <1>1, CutsBehind
  <2>2. Len(q \o ms) <= QueueCap \/ (HasCut(q \o ms) /\ Len(q \o ms) <= QueueCap + 1)
    BY <2>1, <1>1, <1>3, QueueAssumption
  <2>3. q \o ms \in QueueOf(F)  BY <2>1, <2>2, QueueIntro
  <2> QED  BY <2>3, <1>3 DEF QUEUE_Puts
<1>4. CASE ~(Len(ms) <= n)
  <2>1. SubSeq(ms, 1, n) \in Seq(F) /\ Len(SubSeq(ms, 1, n)) = n
    BY <1>1, <1>4
  <2>2. /\ stored \in Seq(F \cup {CUT}) /\ Len(stored) = Len(q) + n
        /\ OneCut(stored) /\ (HasCut(stored) <=> HasCut(q))
    <3> DEFINE t == SubSeq(ms, 1, n)
    <3>1. t \in Seq(F) /\ Len(t) = n  BY <2>1
    <3> HIDE DEF t
    <3>2. /\ q \o t \in Seq(F \cup {CUT}) /\ Len(q \o t) = Len(q) + Len(t)
          /\ OneCut(q \o t) /\ (HasCut(q \o t) <=> HasCut(q))
      BY <3>1, <1>1, CutsBehind
    <3> QED  BY <3>1, <3>2 DEF t
  <2>4. Len(stored) <= QueueCap \/ (HasCut(stored) /\ Len(stored) <= QueueCap + 1)
    <3> HIDE DEF stored
    <3> QED  BY <2>2, <1>1, QueueAssumption
  <2> HIDE DEF stored
  <2>5. stored \in QueueOf(F)  BY <2>2, <2>4, QueueIntro
  <2>6. QUEUE_Puts(q, ms) = IF Slack /\ ~HasCut(q) THEN Append(stored, CUT) ELSE stored
    BY <1>4 DEF QUEUE_Puts, stored
  <2>7. CASE ~HasCut(q)
    <3> DEFINE full == Append(stored, CUT)
    <3>1. /\ full \in Seq(F \cup {CUT}) /\ Len(full) = QueueCap + 1
          /\ DOMAIN full = 1..(QueueCap + 1) /\ Len(stored) = QueueCap
          /\ \A i \in 1..QueueCap : full[i] = stored[i] /\ full[i] # CUT
          /\ full[QueueCap + 1] = CUT
      <4>1. \A i \in 1..Len(stored) : stored[i] # CUT
        BY <2>2, <2>7, LenProperties DEF HasCut
      <4> QED  BY <4>1, <2>2, <2>7, <1>1, AppendProperties, LenProperties, QueueAssumption
    <3> HIDE DEF full
    <3>2. \A i \in DOMAIN full : full[i] = CUT => i = QueueCap + 1
      BY <3>1, QueueAssumption
    <3>3. OneCut(full) /\ HasCut(full)  BY <3>1, <3>2, QueueAssumption DEF OneCut, HasCut
    <3>5. Len(full) <= QueueCap + 1  BY <3>1, QueueAssumption
    <3>6. full \in QueueOf(F)  BY <3>1, <3>3, <3>5, QueueIntro
    <3> QED  BY <3>6, <2>5, <2>6 DEF full
  <2> QED  BY <2>5, <2>6, <2>7
<1> QED  BY <1>3, <1>4, <1>1

LEMMA PutsOneOf ==
  ASSUME NEW F, CUT \notin F, NEW q \in QueueOf(F), NEW m \in F
  PROVE  QUEUE_Puts(q, <<m>>) \in QueueOf(F)
<1>1. <<m>> \in Seq(F)  OBVIOUS
<1> QED  BY <1>1, PutsTypedOf

(* Behind the first frame there are no more cut frames than before.        *)
LEMMA CutsOfTail ==
  ASSUME NEW F, NEW q \in Seq(F \cup {CUT}), q # <<>>, OneCut(q)
  PROVE  /\ Tail(q) \in Seq(F \cup {CUT}) /\ Len(Tail(q)) = Len(q) - 1 /\ OneCut(Tail(q))
         /\ q[1] = CUT => ~HasCut(Tail(q))
<1>1. /\ Tail(q) \in Seq(F \cup {CUT}) /\ Len(Tail(q)) = Len(q) - 1
      /\ \A i \in 1..(Len(q) - 1) : Tail(q)[i] = q[i + 1]
      /\ Len(q) \in Nat \ {0}
  BY HeadTailProperties
<1>2. DOMAIN q = 1..Len(q) /\ DOMAIN Tail(q) = 1..(Len(q) - 1)
  BY <1>1, LenProperties
<1>3. \A i \in DOMAIN Tail(q) : i \in Nat /\ i + 1 \in DOMAIN q /\ Tail(q)[i] = q[i + 1]
  BY <1>1, <1>2
<1>4. OneCut(Tail(q))
  <2>1. SUFFICES ASSUME NEW i \in DOMAIN Tail(q), NEW j \in DOMAIN Tail(q),
                        Tail(q)[i] = CUT, Tail(q)[j] = CUT
                 PROVE  i = j
    BY DEF OneCut
  <2>2. i + 1 = j + 1  BY <1>3, <2>1 DEF OneCut
  <2> QED  BY <2>2, <1>3
<1>5. q[1] = CUT => ~HasCut(Tail(q))
  <2>1. SUFFICES ASSUME q[1] = CUT, NEW i \in DOMAIN Tail(q), Tail(q)[i] = CUT
                 PROVE  FALSE
    BY DEF HasCut
  <2>2. 1 \in DOMAIN q  BY <1>1, <1>2
  <2>3. i + 1 = 1  BY <1>3, <2>1, <2>2 DEF OneCut
  <2> QED  BY <2>3, <1>2, <1>1, <2>1
<1> QED  BY <1>1, <1>4, <1>5

LEMMA NextFrameTyped ==
  ASSUME NEW F, NEW q \in QueueOf(F)
  PROVE  /\ FromNextFrame(q) \in Seq(F \cup {CUT}) /\ Len(FromNextFrame(q)) \in Nat
         /\ Len(FromNextFrame(q)) <= QueueCap + 1 /\ OneCut(FromNextFrame(q))
         /\ CanGet(q) => FromNextFrame(q)[1] # CUT
<1>1. /\ q \in Seq(F \cup {CUT}) /\ Len(q) \in Nat /\ Len(q) <= QueueCap + 1 /\ OneCut(q)
  BY FramesBounded, QueueAssumption
<1>2. CASE q # <<>> /\ Head(q) = CUT
  <2>1. q[1] = CUT  BY <1>1, <1>2, HeadTailProperties
  <2>2. /\ Tail(q) \in Seq(F \cup {CUT}) /\ Len(Tail(q)) = Len(q) - 1 /\ OneCut(Tail(q))
        /\ ~HasCut(Tail(q))
    BY <1>1, <1>2, <2>1, CutsOfTail
  <2>3. Tail(q) # <<>> => 1 \in DOMAIN Tail(q)  BY <2>2, LenProperties, EmptySeq
  <2>4. FromNextFrame(q) = Tail(q)  BY <1>2 DEF FromNextFrame
  <2>5. Len(Tail(q)) \in Nat /\ Len(Tail(q)) <= QueueCap + 1
    BY <2>2, <1>1, LenProperties, QueueAssumption
  <2> QED  BY <2>2, <2>3, <2>4, <2>5 DEF HasCut, CanGet
<1>3. CASE ~(q # <<>> /\ Head(q) = CUT)
  <2>1. FromNextFrame(q) = q  BY <1>3 DEF FromNextFrame
  <2>2. q # <<>> => Head(q) = q[1]  BY <1>1, HeadTailProperties
  <2> QED  BY <2>1, <2>2, <1>1, <1>3 DEF CanGet
<1> QED  BY <1>2, <1>3

(* QUEUE_Gets reads a whole frame, if any.                                 *)
LEMMA GetsWhole ==
  ASSUME NEW F, NEW q \in QueueOf(F), CanGet(q)
  PROVE  Head(FromNextFrame(q)) \in F
<1>1. /\ FromNextFrame(q) \in Seq(F \cup {CUT}) /\ FromNextFrame(q) # <<>>
      /\ FromNextFrame(q)[1] # CUT
  BY NextFrameTyped DEF CanGet
<1>2. Head(FromNextFrame(q)) \in F \cup {CUT} /\ Head(FromNextFrame(q)) # CUT
  BY <1>1, HeadTailProperties
<1> QED  BY <1>2

(* QUEUE_Gets leaves a queue behind.                                       *)
LEMMA AfterGetTypedOf ==
  ASSUME NEW F, NEW q \in QueueOf(F)
  PROVE  /\ AfterGet(q) \in QueueOf(F)
         /\ CanGet(q) => Len(AfterGet(q)) < Len(q)
<1> DEFINE r == FromNextFrame(q)
<1>1. /\ r \in Seq(F \cup {CUT}) /\ Len(r) \in Nat /\ Len(r) <= QueueCap + 1 /\ OneCut(r)
  BY NextFrameTyped
<1>2. CASE CanGet(q)
  <2>1. r # <<>>  BY <1>2 DEF CanGet
  <2>2. /\ Tail(r) \in Seq(F \cup {CUT}) /\ Len(Tail(r)) = Len(r) - 1 /\ OneCut(Tail(r))
    BY <1>1, <2>1, CutsOfTail
  <2>3. Len(Tail(r)) <= QueueCap  BY <2>2, <1>1, QueueAssumption
  <2>4. AfterGet(q) = Tail(r)  BY <1>2 DEF AfterGet
  <2>5. Tail(r) \in QueueOf(F)  BY <2>2, <2>3, QueueIntro
  <2>6. Len(r) <= Len(q)
    BY FramesBounded, HeadTailProperties DEF FromNextFrame
  <2>7. Len(Tail(r)) < Len(q)
    <3>1. Len(q) \in Nat  BY FramesBounded
    <3> HIDE DEF r
    <3> QED  BY <2>2, <2>6, <1>1, <3>1
  <2> QED  BY <2>4, <2>5, <2>7
<1>3. CASE ~CanGet(q)
  BY <1>3, EmptyQueueOf DEF AfterGet
<1> QED  BY <1>2, <1>3

-----------------------------------------------------------------------------
(* The frames of the broker.                                               *)

LEMMA CutIsNoFrame == CUT \notin Frame
BY DEF CUT, Packet, Frame

LEMMA PacketTyped ==
  ASSUME NEW type \in {"CONNACK", "REFUSED", "SUBACK", "UNSUBACK", "PINGRESP"}
  PROVE  Packet(type) \in Frame
BY DEF Packet, Frame

LEMMA PublicationTyped ==
  ASSUME NEW topic \in Topic, NEW data \in Data
  PROVE  Publication(topic, data) \in Frame /\ Retained(topic, data) \in Frame
BY DEF Publication, Retained, Frame

LEMMA EmptyQueue == <<>> \in Queue
BY EmptyQueueOf DEF Queue

LEMMA PutsTyped ==
  ASSUME NEW q \in Queue, NEW ms \in Seq(Frame)
  PROVE  QUEUE_Puts(q, ms) \in Queue
BY PutsTypedOf, CutIsNoFrame DEF Queue

LEMMA PutsOne ==
  ASSUME NEW q \in Queue, NEW m \in Frame
  PROVE  QUEUE_Puts(q, <<m>>) \in Queue
BY PutsOneOf, CutIsNoFrame DEF Queue

LEMMA AfterGetTyped ==
  ASSUME NEW q \in Queue
  PROVE  AfterGet(q) \in Queue
BY AfterGetTypedOf DEF Queue
=============================================================================
