----------------------------- MODULE RecvBuffer -----------------------------
(***************************************************************************)
(* How the bytes of one connection become messages: MQTT_network_loop      *)
(* reads what there is, MQTT_ClientCon_recv_cb appends it to in_buffer and *)
(* takes one message after the other from there (READPACKET), with the     *)
(* length that mqtt_get_total_length finds in the fixed header.  Broker    *)
(* has the same loop with whole messages for bytes.                        *)
(*                                                                         *)
(* A length is coded in digits to the base 128, low digit first, with a    *)
(* flag of 128 on every digit but the last; the base and the widths of the *)
(* C types are parameters.  A peer sends as many digits as it likes.  What *)
(* a message does is left out here: the session outlives it.               *)
(***************************************************************************)
EXTENDS Integers, Sequences, SequencesExt

CONSTANTS
  Base,           \* 128
  MQTT_BUF_SIZE,
  Modulus,        \* 2^16: message_length is an uint16_t
  IntDigits,      \* 5: by more than 28 bits an int of 32 is not shifted
  IntMax,         \* 2^31 - 1
  Headers,        \* the lengths the peer sends, as digits
  MaxSent         \* bounds the number of messages

Byte == 0..(2 * Base - 1)

(* More digits follow.                                                     *)
Flagged(b) == b >= Base

ASSUME RecvAssumption ==
  /\ Base \in Nat \ {0, 1} /\ MQTT_BUF_SIZE \in Nat /\ MaxSent \in Nat
  /\ Modulus \in Nat /\ MQTT_BUF_SIZE < Modulus
  /\ IntDigits \in Nat /\ IntMax \in Nat
  /\ \A h \in Headers :
       /\ h \in Seq(Byte) /\ h # <<>>
       /\ \A i \in 1..Len(h) : Flagged(h[i]) <=> i < Len(h)

-----------------------------------------------------------------------------
(* The digits of the length among the bytes b: up to and including the     *)
(* first without the flag, or all there are.                               *)
Digits(b) == {i \in 2..Len(b) : \A j \in 2..(i - 1) : Flagged(b[j])}

HeaderWhole(b) == \E i \in Digits(b) : ~Flagged(b[i])

(* What the digit behind k others counts: the code shifts it by 7 * k bits. *)
Weight[k \in Nat] == IF k = 0 THEN 1 ELSE Base * Weight[k - 1]

Digit(b, i) == (b[i] % Base) * Weight[i - 2]

(* The length itself, which the peer goes by.                              *)
Remaining(b) ==
  LET sum[i \in 1..Len(b)] ==
        IF i = 1 THEN 0 ELSE sum[i - 1] + IF i \in Digits(b) THEN Digit(b, i) ELSE 0
  IN  sum[Len(b)]

(* A message: type, length, and so many bytes, which look like digits.     *)
Message(h) == <<1>> \o h \o [i \in 1..Remaining(<<1>> \o h) |-> Base]

(* (Mutant: the bytes of the header are not counted.)                      *)
BodyLength(b) == Remaining(b)

mqtt_get_total_length(b) ==
  LET sum[i \in 1..Len(b)] ==
        IF i = 1 THEN 1 ELSE sum[i - 1] + IF i \in Digits(b) THEN Digit(b, i) + 1 ELSE 0
  IN  sum[Len(b)]

(* The count exceeds an int, or a digit is shifted beyond its width.       *)
Overflows(b) ==
  mqtt_get_total_length(b) > IntMax \/ \E i \in Digits(b) : i - 1 > IntDigits

(* What message_length may become: the count cut to its width, or anything *)
(* if the count is undefined.                                              *)
MessageLengths(b) ==
  IF Overflows(b) THEN 0..(Modulus - 1) ELSE {mqtt_get_total_length(b) % Modulus}

-----------------------------------------------------------------------------
VARIABLES
  pipe,   \* what the peer has sent and the broker has not read
  buf,    \* in_buffer up to message_length_read
  busy,   \* the callback is in its loop
  con,    \* "up", "ended" for a message too long, "overrun" and "stuck" (below)
  sent,   \* history: the messages sent
  out,    \* history: the messages taken from the buffer, until slip
  slip    \* history: one was taken for longer or shorter than it is

vars == <<pipe, buf, busy, con, sent, out, slip>>

Init ==
  /\ pipe = <<>> /\ buf = <<>> /\ busy = FALSE /\ con = "up"
  /\ sent = <<>> /\ out = <<>> /\ slip = FALSE

PeerSends ==
  /\ con = "up" /\ ~busy /\ Len(sent) < MaxSent
  /\ \E h \in Headers :
       pipe' = pipe \o Message(h) /\ sent' = Append(sent, Message(h))
  /\ UNCHANGED <<buf, busy, con, out, slip>>

-----------------------------------------------------------------------------
(* (Mutant: what the buffer holds already is not counted.)                 *)
TooLongAlone(len) == len > MQTT_BUF_SIZE

TooLong(len) == len + Len(buf) > MQTT_BUF_SIZE

(* What there is is read, unless it is a single byte.  The loop's own      *)
(* buffer has MQTT_BUF_SIZE bytes: more than that is written beyond it,    *)
(* and nothing is said here of what comes then.                            *)
Network_clients_loop ==
  /\ con = "up" /\ ~busy
  /\ \E len \in 2..Len(pipe) :
       /\ pipe' = SubSeq(pipe, len + 1, Len(pipe))
       /\ CASE len > MQTT_BUF_SIZE -> con' = "overrun" /\ UNCHANGED <<buf, busy>>
            [] len <= MQTT_BUF_SIZE /\ TooLong(len) -> con' = "ended" /\ UNCHANGED <<buf, busy>>
            [] OTHER -> /\ buf' = buf \o SubSeq(pipe, 1, len)
                        /\ busy' = TRUE
                        /\ UNCHANGED con
  /\ UNCHANGED <<sent, out, slip>>

(* The message at the start of the buffer is not n bytes long.             *)
Slips(n) == ~HeaderWhole(buf) \/ n # mqtt_get_total_length(buf)

(* A message of n bytes is taken from the buffer.                          *)
Taken(n) ==
  /\ n \in 1..Len(buf)
  /\ buf' = SubSeq(buf, n + 1, Len(buf))
  /\ slip' = (slip \/ Slips(n))
  /\ out' = IF slip' THEN out ELSE Append(out, SubSeq(buf, 1, n))
  /\ UNCHANGED <<pipe, con, sent>>

(* (Mutant: what is left over waits for the next read.)                    *)
TakeOne ==
  /\ busy /\ busy' = FALSE
  /\ \E n \in MessageLengths(buf) : Taken(n)

(* One message is taken; the loop goes on while anything is left over.     *)
(* The length of the last read is at least 2, so that is all READPACKET    *)
(* asks before it trusts the length.                                       *)
Take ==
  /\ busy
  /\ \E n \in MessageLengths(buf) : Taken(n) /\ busy' = (n < Len(buf))

(* A message of length zero: the buffer is moved by nothing and READPACKET *)
(* finds the same message for ever.                                        *)
Spin ==
  /\ busy /\ 0 \in MessageLengths(buf)
  /\ con' = "stuck" /\ busy' = FALSE /\ slip' = TRUE
  /\ UNCHANGED <<pipe, buf, sent, out>>

(* An incomplete message is kept.                                          *)
Wait ==
  /\ busy /\ \E n \in MessageLengths(buf) : n > Len(buf)
  /\ busy' = FALSE
  /\ UNCHANGED <<pipe, buf, con, sent, out, slip>>

Loop == Network_clients_loop \/ Take \/ Spin \/ Wait

Next == PeerSends \/ Loop

Spec == Init /\ [][Next]_vars

(* The loop of the program goes round for ever.                            *)
FairSpec == Spec /\ WF_vars(Loop)

-----------------------------------------------------------------------------
(* Properties.                                                             *)

(* Type invariant: in_buffer is never written beyond its end.              *)
TypeOK ==
  /\ pipe \in Seq(Byte) /\ buf \in Seq(Byte) /\ Len(buf) <= MQTT_BUF_SIZE
  /\ busy \in BOOLEAN /\ con \in {"up", "ended", "overrun", "stuck"} /\ slip \in BOOLEAN
  /\ busy => buf # <<>>

(* Wherever the stream is cut, the messages taken are the messages sent,   *)
(* in order, none lost or altered, as long as none was taken for longer or *)
(* shorter than it is.                                                     *)
Faithful ==
  ~slip => /\ IsPrefix(out, sent)
           /\ con = "up" => FlattenSeq(out) \o buf \o pipe = FlattenSeq(sent)

(* The broker loses its place in the stream in two ways only.  The length  *)
(* so far is beyond what uint16_t or the shifts of an int hold.  Or all    *)
(* the buffer has is the start of the next message, cut off inside its     *)
(* length, and the digits before the cut are zeros: behind the type, as    *)
(* READPACKET finds it when it comes back for one byte left over, or       *)
(* behind any number of digits, 01 80 | 01 or 01 80 80 | 01.               *)
SlipsKnown ==
  [][slip' /\ ~slip =>
       \/ mqtt_get_total_length(buf) >= Modulus \/ Overflows(buf)
       \/ /\ IsPrefix(buf, sent[Len(out) + 1])
          /\ \A i \in 2..Len(buf) : buf[i] = Base]_vars

(* Every message that was sent is taken in the end, unless the session     *)
(* ends, the place is lost, all but its last byte has been read (one byte  *)
(* alone is not fetched), or the length of the one before it is undefined. *)
AllTaken ==
  \A n \in 1..MaxSent :
    Len(sent) = n ~> \/ Len(out) >= n \/ Len(pipe) = 1
                     \/ con # "up" \/ slip
                     \/ (buf # <<>> /\ Overflows(buf))
=============================================================================
