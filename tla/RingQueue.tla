----------------------------- MODULE RingQueue -----------------------------
(***************************************************************************)
(* The outbound queue of one client byte by byte: queue.c over the framing *)
(* of proto.c over the ring buffer of ringbuf_mqtt.c.  A packet is put     *)
(* into the ring between 0x7E and 0x7F, with those two bytes and 0x7D      *)
(* escaped; a ring that is full in the middle of a frame keeps what has    *)
(* been put so far.                                                        *)
(*                                                                         *)
(* Both calls run to their end without a yield, so each is one step.       *)
(***************************************************************************)
EXTENDS Content, Order, Sequences

CONSTANTS
  Size,     \* bytes of the ring, QUEUE_BUFFER_SIZE
  MaxLen    \* room of the reader's buffer, MQTT_BUF_SIZE

Byte == 0..255

ASSUME RingAssumption ==
  /\ Size \in Nat \ {0, 1} /\ MaxLen \in Nat
  /\ Payload \subseteq Seq(Byte)

(* A message is encoded in a buffer of the size it is read into.           *)
ASSUME FitAssumption == \A packet \in Payload : Len(packet) <= MaxLen

-----------------------------------------------------------------------------
(* The ring: a RINGBUF with its pointers as offsets into buf.              *)

Offset == 0..(Size - 1)

RINGBUF == [buf : [Offset -> Byte], p_r : Offset, p_w : Offset, fill_cnt : 0..Size]

RINGBUF_Init == [buf |-> [i \in Offset |-> 0], p_r |-> 0, p_w |-> 0, fill_cnt |-> 0]

(* (Mutant: the wrap comes one byte late.)                                 *)
AdvanceLate(p, n) == IF p + n > Size THEN p + n - Size ELSE p + n

(* A pointer moved on by n bytes, n at most Size, and the way from p to i. *)
Advance(p, n) == IF p + n >= Size THEN p + n - Size ELSE p + n
Distance(p, i) == IF i >= p THEN i - p ELSE i + Size - p

(* What the ring holds, oldest byte first.                                 *)
Held(r) == [i \in 1..r.fill_cnt |-> r.buf[Advance(r.p_r, i - 1)]]

(* RINGBUF_Put for the first n of bytes; RINGBUF_Get n times.              *)
RINGBUF_Put(r, bytes, n) ==
  [r EXCEPT !.buf = [i \in Offset |-> IF Distance(r.p_w, i) < n
                                      THEN bytes[Distance(r.p_w, i) + 1] ELSE @[i]],
            !.p_w = Advance(@, n),
            !.fill_cnt = @ + n]

RINGBUF_Get(r, n) == [r EXCEPT !.p_r = Advance(@, n), !.fill_cnt = @ - n]

-----------------------------------------------------------------------------
(* Framing.                                                                *)

ESC == 125
BEG == 126
END == 127

(* The exclusive or with 0x20.                                             *)
Flip(b) == IF (b \div 32) % 2 = 1 THEN b - 32 ELSE b + 32

(* (Mutant: the escape byte itself is not escaped.)                        *)
MarksOnly(packet, i) == {j \in 1..i : packet[j] \in {BEG, END}}

(* The bytes among the first i of a packet that are escaped, and where in  *)
(* the frame byte i goes, after an escape if it is one of them.            *)
Escaped(packet, i) == {j \in 1..i : packet[j] \in {ESC, BEG, END}}
Goes(packet, i) == 1 + i + Cardinality(Escaped(packet, i))

(* The bytes PROTO_AddRb puts, as far as there is room.                    *)
PROTO_AddRb(packet) ==
  LET len == Goes(packet, Len(packet)) + 1
      here(k) == {i \in DOMAIN packet : Goes(packet, i) = k}
      coded(i) == IF i \in Escaped(packet, i) THEN Flip(packet[i]) ELSE packet[i]
  IN  [k \in 1..len |-> CASE k = 1   -> BEG
                         [] k = len -> END
                         [] k \in 2..(len - 1) /\ here(k) # {} -> coded(CHOOSE i \in here(k) : TRUE)
                         [] OTHER   -> ESC]

(* The elements of a set of numbers, in order.                             *)
Ordered(S) == [k \in 1..Cardinality(S) |-> Nth(S, k)]

(* PROTO_ParseByte over bytes up to the end of a frame: the start of a     *)
(* frame discards what came before it, and before any start it depends on  *)
(* isBegin, which is not initialised, whether bytes count.                 *)
Starts(bytes) == {i \in DOMAIN bytes : bytes[i] = BEG}

(* (Mutant: the start of a frame does not discard what came before.)       *)
CountedKeepingCut(isBegin, bytes) ==
  {i \in DOMAIN bytes : bytes[i] \notin {ESC, BEG, END}}

Counted(isBegin, bytes) ==
  {i \in DOMAIN bytes :
     /\ bytes[i] \notin {ESC, BEG, END}
     /\ \A j \in Starts(bytes) : j < i
     /\ isBegin \/ Starts(bytes) # {}}

PROTO_ParseRb(isBegin, bytes) ==
  LET at == Ordered(Counted(isBegin, bytes))
  IN  [k \in 1..(IF Len(at) < MaxLen THEN Len(at) ELSE MaxLen) |->
         IF at[k] > 1 /\ bytes[at[k] - 1] = ESC THEN Flip(bytes[at[k]]) ELSE bytes[at[k]]]

-----------------------------------------------------------------------------
(* The frames in the ring: complete ones with their packet, others CUT.    *)

Frames == INSTANCE Outbox WITH QueueCap <- 1, Slack <- FALSE

FrameOf(piece) ==
  IF piece[Len(piece)] = END THEN Frames!Publication(None, PROTO_ParseRb(TRUE, piece))
  ELSE Frames!CUT

FramesIn(bytes) ==
  LET starts == Ordered(Starts(bytes))
      last(k) == IF k < Len(starts) THEN starts[k + 1] - 1 ELSE Len(bytes)
  IN  [k \in DOMAIN starts |-> FrameOf(SubSeq(bytes, starts[k], last(k)))]

-----------------------------------------------------------------------------
(* The queue's operations.                                                 *)

VARIABLES
  rb,     \* the ring
  ret,    \* history: the result of the last QUEUE_Puts
  got,    \* history: the packet of the last QUEUE_Gets
  q       \* history: the frames in the ring, always FramesIn(Held(rb))

vars == <<rb, ret, got, q>>

Init == rb = RINGBUF_Init /\ ret = "stored" /\ got = None /\ q = <<>>

Now(r) == rb' = r /\ q' = FramesIn(Held(r))

(* (Mutant: a full ring overwrites its oldest bytes.)                      *)
PutsOverwriting(packet) ==
  LET bytes == PROTO_AddRb(packet)
      r     == RINGBUF_Put(rb, bytes, Len(bytes))
  IN  /\ Now([r EXCEPT !.fill_cnt = IF @ > Size THEN Size ELSE @])
      /\ ret' = "stored"
      /\ UNCHANGED got

QUEUE_Puts(packet) ==
  LET bytes == PROTO_AddRb(packet)
      free  == Size - rb.fill_cnt
      n     == IF Len(bytes) <= free THEN Len(bytes) ELSE free
  IN  /\ Now(RINGBUF_Put(rb, bytes, n))
      /\ ret' = IF n = Len(bytes) THEN "stored" ELSE "full"
      /\ UNCHANGED got

Ends(bytes) == {i \in DOMAIN bytes : bytes[i] = END}

(* The bytes are read up to the first end of a frame, or all of them.      *)
QUEUE_Gets ==
  LET bytes == Held(rb)
  IN  /\ \/ \E n \in Ends(bytes), isBegin \in BOOLEAN :
              /\ \A i \in Ends(bytes) : n <= i
              /\ got' = PROTO_ParseRb(isBegin, SubSeq(bytes, 1, n))
              /\ Now(RINGBUF_Get(rb, n))
         \/ /\ Ends(bytes) = {}
            /\ got' = None
            /\ Now(RINGBUF_Get(rb, rb.fill_cnt))
      /\ UNCHANGED ret

Next == (\E packet \in Payload : QUEUE_Puts(packet)) \/ QUEUE_Gets

Spec == Init /\ [][Next]_vars

-----------------------------------------------------------------------------
(* Properties.                                                             *)

(* Type invariant: the pointers stay in the buffer and fill_cnt is the     *)
(* distance between them.                                                  *)
TypeOK ==
  /\ rb \in RINGBUF
  /\ rb.p_w = Advance(rb.p_r, rb.fill_cnt)
  /\ ret \in {"stored", "full"}

(* Between two calls the oldest byte in the ring starts a frame, also      *)
(* after a frame was cut: PROTO_ParseByte never looks at the isBegin that  *)
(* PROTO_ParseRb leaves uninitialised on its stack.                        *)
StartsWithFrame == rb.fill_cnt > 0 => rb.buf[rb.p_r] = BEG

(* The queue delivers what QUEUE_Puts reported as stored, each packet      *)
(* once, unaltered and in order, and nothing of what it reported as full,  *)
(* whatever the sizes of the packets and wherever the ring wraps.          *)
Lossy == INSTANCE LossyQueue
DeliversStored == Lossy!Spec

(* With frames of one size the queue is the one the broker's model uses:   *)
(* Outbox says how many frames fit and what becomes of one that does not.  *)
CONSTANT FrameSize
Exact == INSTANCE FrameQueue
           WITH QueueCap <- Size \div FrameSize, Slack <- Size % FrameSize # 0
ImplementsOutbox == Exact!Spec
=============================================================================
