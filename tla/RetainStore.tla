---------------------------- MODULE RetainStore ----------------------------
(***************************************************************************)
(* The retained table with its memory, its callback and its image in flash *)
(* (mqtt_retainedlist.c, config_flash.c), as a build with                  *)
(* MQTT_RETAIN_PERSISTANCE runs it.  The image is modelled byte by byte,   *)
(* because what a restart in the middle of a write leaves behind depends   *)
(* on the encoding.                                                        *)
(*                                                                         *)
(* A save erases the sector and then writes it; the program does nothing   *)
(* else in between, but the power may go.                                  *)
(***************************************************************************)
EXTENDS Order, Sequences, SequencesExt

CONSTANTS
  None,               \* a free entry
  MaxRetained,        \* max_entry
  MAX_RETAINED_LEN,   \* bytes of the buffer that is saved and loaded
  TopicName, Contents, \* topics and contents, as the bytes they consist of
  QoS,
  MemoryFails         \* TRUE when os_malloc may fail

Byte == 0..255

SPI_FLASH_SEC_SIZE == 4096   \* bytes of the sector the buffer is read from

ASSUME RetainAssumption ==
  /\ MaxRetained \in Nat \ {0}
  /\ MAX_RETAINED_LEN \in 8..SPI_FLASH_SEC_SIZE /\ MAX_RETAINED_LEN % 4 = 0
  /\ TopicName \subseteq Seq(1..255) /\ Contents \subseteq Seq(Byte)
  /\ QoS \subseteq Byte /\ MemoryFails \in BOOLEAN
  /\ None \notin [topic : Seq(Byte), data : Seq(Byte), qos : Byte]

-----------------------------------------------------------------------------
(* The table.                                                              *)

Table == INSTANCE Tables
           WITH Topic <- TopicName, Payload <- Contents \ {<<>>}, NoPayload <- <<>>,
                MaxSubs <- 1, Filter <- {}, BadFilter <- {}, Match <- {}

retained_entry == [topic : Seq(Byte), data : Seq(Byte), qos : Byte]

Published == [topic : TopicName, data : Contents, qos : QoS]

Empty == Table!create_retainedlist

(* The entry an update changes, if any: the one that holds the topic, or   *)
(* for new content the first that is free.                                 *)
Place(list, e) ==
  LET holding == Table!Holding(list, e.topic)
      vacant  == Table!Vacant(list)
  IN  IF holding # {} THEN {Lowest(holding)}
      ELSE IF e.data # <<>> /\ vacant # {} THEN {Lowest(vacant)} ELSE {}

update_retainedtopic(list, e) ==
  [i \in DOMAIN list |-> IF i \in Place(list, e)
                         THEN IF e.data = <<>> THEN None ELSE e
                         ELSE list[i]]

(* (Mutant: a deletion is not reported.)                                   *)
CallsForContent(list, e) == Place(list, e) # {} /\ e.data # <<>>

(* Whether an update that found its memory calls the callback.             *)
CallsBack(list, e) == Place(list, e) # {}

(* Memory is needed for a new entry and for content of another length; it  *)
(* is asked for after the old content has been given up.                   *)
NeedsMemory(list, e) ==
  e.data # <<>> /\ \E i \in Place(list, e) :
                     list[i] # None => Len(list[i].data) # Len(e.data)

WithoutMemory(list, e) ==
  [i \in DOMAIN list |-> IF i \in Place(list, e) THEN None ELSE list[i]]

-----------------------------------------------------------------------------
(* The image.                                                              *)

Occupied(list) == {i \in DOMAIN list : list[i] # None}

Image(list) == Selected(list, Occupied(list))

Encoded(e) ==
  e.topic \o <<0, Len(e.data) % 256, (Len(e.data) \div 256) % 256>> \o e.data \o <<e.qos>>

serialize_retainedtopics(image) ==
  IF image = <<>> THEN <<0>> ELSE FlattenSeq([i \in DOMAIN image |-> Encoded(image[i])])

(* (Mutant: the size of the topic is left out.)                            *)
FitsWithoutTopics(image) ==
  image = <<>> \/ FoldLeft(LAMBDA n, e : n + Len(e.data) + 4, 2, image) < MAX_RETAINED_LEN

(* Nothing is serialised when it does not fit, with bytes to spare.        *)
Fits(image) ==
  image = <<>> \/ Len(serialize_retainedtopics(image)) + 2 < MAX_RETAINED_LEN

(* The entries read from the buffer: up to a NUL where a topic should      *)
(* start, which is also how the entry of an empty topic starts, or to an   *)
(* entry that is not whole.  A length that reaches beyond  *)
(* the buffer, or that makes the 16-bit pos wrap, is more than the heap    *)
(* has.                                                                    *)
deserialize_retainedtopics(buf) ==
  LET size(nul) == buf[nul + 1] + 256 * buf[nul + 2]
      entry(pos, nul) ==
        [topic |-> [i \in 1..(nul - pos) |-> buf[pos + i - 1]],
         data  |-> [i \in 1..size(nul) |-> buf[nul + 2 + i]],
         qos   |-> buf[nul + 3 + size(nul)]]
      from[pos \in 0..MAX_RETAINED_LEN] ==
        LET nuls == {i \in pos..(MAX_RETAINED_LEN - 1) : buf[i] = 0}
            nul  == Lowest(nuls)
        IN  IF \/ nuls = {} \/ nul = pos
               \/ nul + 2 >= MAX_RETAINED_LEN
               \/ nul + 3 + size(nul) >= MAX_RETAINED_LEN
            THEN <<>>
            ELSE <<entry(pos, nul)>> \o from[nul + 4 + size(nul)]
  IN  from[0]

load_retainedtopics(buf) ==
  LET read == deserialize_retainedtopics(buf)
      after[k \in 0..Len(read)] ==
        IF k = 0 THEN Empty ELSE update_retainedtopic(after[k - 1], read[k])
  IN  after[Len(read)]

-----------------------------------------------------------------------------
(* The flash sector, as far as it is read.                                 *)

Erased == [i \in 0..(MAX_RETAINED_LEN - 1) |-> 255]

(* A write goes word by word; it ends in the word of the last byte, where  *)
(* the terminator of the serialisation follows if there is room.           *)
Words(bytes) == (Len(bytes) + 3) \div 4

spi_flash_write(sector, bytes, words) ==
  LET buffer == bytes \o <<0>>
  IN  [i \in DOMAIN sector |->
         IF i < 4 * words /\ i < Len(buffer) THEN buffer[i + 1] ELSE sector[i]]

-----------------------------------------------------------------------------
VARIABLES
  list,          \* retained_list
  retained_cb,   \* TRUE: onRetain, which saves the table, is registered
  flash,         \* the first bytes of the sector
  saving,        \* blob_save has erased and not yet written
  clearing,      \* clear_retainedtopics is under way
  up,            \* the broker has been started
  built,         \* a uMQTTBroker has been constructed
  image,         \* the entries in the buffer of the last save
  whole,         \* history: the last save came to its end
  behind         \* history: a change the callback could not report or save

vars == <<list, retained_cb, flash, saving, clearing, up, built, image, whole, behind>>

Init ==
  /\ list = Empty /\ retained_cb = FALSE
  /\ flash = Erased /\ saving = FALSE /\ clearing = FALSE
  /\ up = FALSE /\ built = FALSE
  /\ image = <<>> /\ whole = TRUE /\ behind = FALSE

(* The constructor of uMQTTBroker registers the callback.                  *)
uMQTTBroker ==
  /\ ~up /\ ~built
  /\ built' = TRUE /\ retained_cb' = TRUE
  /\ UNCHANGED <<list, flash, saving, clearing, up, image, whole, behind>>

(* (Mutant: the table is loaded before it is created.)                     *)
StartLoadingFirst ==
  /\ ~up
  /\ up' = TRUE
  /\ list' = Empty
  /\ retained_cb' = FALSE
  /\ UNCHANGED <<flash, saving, clearing, built, image, whole, behind>>

(* create_retainedlist clears the callback; then the table is loaded.      *)
MQTT_server_start ==
  /\ ~up
  /\ up' = TRUE
  /\ list' = load_retainedtopics(flash)
  /\ retained_cb' = FALSE
  /\ UNCHANGED <<flash, saving, clearing, built, image, whole, behind>>

MQTT_server_onRetain ==
  /\ up /\ ~saving /\ ~clearing
  /\ retained_cb' = TRUE
  /\ UNCHANGED <<list, flash, saving, clearing, up, built, image, whole, behind>>

-----------------------------------------------------------------------------
(* Saving.                                                                 *)

(* (Mutant: the sector is not erased before it is written.)                *)
SaveUnerased(l) ==
  IF Fits(Image(l))
  THEN /\ saving' = TRUE /\ UNCHANGED flash
       /\ image' = Image(l) /\ whole' = FALSE
  ELSE UNCHANGED <<saving, flash, image, whole>>

(* save_retainedtopics up to the erased sector; nothing happens when the   *)
(* table does not fit.                                                     *)
save_retainedtopics(l) ==
  IF Fits(Image(l))
  THEN /\ saving' = TRUE /\ flash' = Erased
       /\ image' = Image(l) /\ whole' = FALSE
  ELSE UNCHANGED <<saving, flash, image, whole>>

blob_save ==
  /\ saving
  /\ LET bytes == serialize_retainedtopics(image)
     IN  flash' = spi_flash_write(flash, bytes, Words(bytes))
  /\ saving' = FALSE /\ whole' = TRUE
  /\ UNCHANGED <<list, retained_cb, clearing, up, built, image, behind>>

Idle == up /\ ~saving /\ ~clearing

(* save_retainedtopics called by the program.                              *)
Save ==
  /\ Idle
  /\ save_retainedtopics(list)
  /\ behind' = (behind /\ ~saving')
  /\ UNCHANGED <<list, retained_cb, clearing, up, built>>

-----------------------------------------------------------------------------
(* Updates.                                                                *)

(* The table becomes l; it is saved if the callback is called.             *)
Change(l, calls) ==
  /\ list' = l
  /\ IF calls /\ retained_cb THEN save_retainedtopics(l)
     ELSE UNCHANGED <<saving, flash, image, whole>>

Update(e) ==
  /\ Idle
  /\ \/ /\ Change(update_retainedtopic(list, e), CallsBack(list, e))
        /\ behind' = \/ list' # list /\ (~retained_cb \/ ~Fits(Image(list')))
                     \/ behind /\ ~saving'
     \/ /\ MemoryFails /\ NeedsMemory(list, e)
        /\ Change(WithoutMemory(list, e), FALSE)
        /\ behind' = (behind \/ list' # list)
  /\ UNCHANGED <<retained_cb, clearing, up, built>>

(* clear_retainedtopics deletes entry by entry; each deletion is reported, *)
(* and so saved, on its own.                                               *)
ClearBegin ==
  /\ Idle
  /\ clearing' = TRUE
  /\ UNCHANGED <<list, retained_cb, flash, saving, up, built, image, whole, behind>>

ClearEntry ==
  /\ clearing /\ ~saving
  /\ Occupied(list) # {}
  /\ LET e == [list[Lowest(Occupied(list))] EXCEPT !.data = <<>>]
     IN  Change(update_retainedtopic(list, e), CallsBack(list, e))
  /\ behind' = (~retained_cb \/ ~Fits(Image(list')) \/ (behind /\ ~saving'))
  /\ UNCHANGED <<retained_cb, clearing, up, built>>

ClearEnd ==
  /\ clearing /\ ~saving
  /\ Occupied(list) = {}
  /\ clearing' = FALSE
  /\ UNCHANGED <<list, retained_cb, flash, saving, up, built, image, whole, behind>>

-----------------------------------------------------------------------------
(* The power goes; a write may have come any number of words far.          *)
Restart ==
  /\ up
  /\ list' = Empty /\ retained_cb' = FALSE
  /\ saving' = FALSE /\ clearing' = FALSE /\ up' = FALSE /\ built' = FALSE
  /\ behind' = FALSE
  /\ IF saving
     THEN LET bytes == serialize_retainedtopics(image)
          IN  \E words \in 0..Words(bytes) : flash' = spi_flash_write(flash, bytes, words)
     ELSE UNCHANGED flash
  /\ UNCHANGED <<image, whole>>

Next ==
  \/ uMQTTBroker \/ MQTT_server_start \/ MQTT_server_onRetain
  \/ Save \/ blob_save
  \/ \E e \in Published : Update(e)
  \/ ClearBegin \/ ClearEntry \/ ClearEnd
  \/ Restart

Spec == Init /\ [][Next]_vars

-----------------------------------------------------------------------------
(* Properties.                                                             *)

(* Type invariant: the table and the image hold entries, the sector bytes, *)
(* and what is being saved fits the buffer, with its terminator.           *)
TypeOK ==
  /\ list \in [1..MaxRetained -> retained_entry \cup {None}]
  /\ flash \in [0..(MAX_RETAINED_LEN - 1) -> Byte]
  /\ image \in Seq(retained_entry)
  /\ Len(serialize_retainedtopics(image)) < MAX_RETAINED_LEN
  /\ {retained_cb, saving, clearing, up, built, whole, behind} \subseteq BOOLEAN
  /\ saving \/ clearing => up

Started == ~up /\ up'

(* What is found of what was saved: the entries in front of the first with *)
(* an empty topic, as they were; all of them when there is no such entry.  *)
FoundOf(found, saved) ==
  /\ Len(found) <= Len(saved)
  /\ \A i \in DOMAIN found : saved[i].topic # <<>> /\ found[i] = saved[i]
  /\ Len(found) < Len(saved) => saved[Len(found) + 1].topic = <<>>

(* What a save has brought to its end is what the next start finds: every  *)
(* entry, with its content and quality of service, in the order of the     *)
(* table, whatever entries were free in between and whatever bytes the     *)
(* contents are made of; but an entry with an empty topic, which may be    *)
(* published and retained, is lost with all entries behind it.             *)
SavedSurvives == [][Started /\ whole => FoundOf(Image(list'), image)]_vars

(* When the power goes in the middle of a save, the next start finds the   *)
(* first entries of the table that was being saved, of which only the last *)
(* may be damaged, and that only in its content and quality of service:    *)
(* never a topic that was not retained, never an entry of an older table.  *)
RestoredPrefix ==
  [][Started => LET found == Image(list')
                IN  /\ Len(found) <= Len(image)
                    /\ \A i \in DOMAIN found :
                         /\ found[i].topic = image[i].topic
                         /\ Len(found[i].data) = Len(image[i].data)
                         /\ i < Len(found) => found[i] = image[i]]_vars

(* The sector holds the table of the moment, unless a change was made with *)
(* no callback registered, for want of memory, or to a table that does not *)
(* fit, and there has been no save since; also in the middle of a clear.   *)
(* From an entry with an empty topic on it cannot be read back.            *)
FlashCurrent ==
  (up /\ ~saving /\ ~behind) => FoundOf(deserialize_retainedtopics(flash), Image(list))

-----------------------------------------------------------------------------
(* What the documentation says and the code does not do.                   *)

(* README.md:9: retain topics are stored in flash.  The callback that      *)
(* stores them is registered by the constructor of uMQTTBroker and cleared *)
(* by create_retainedlist when the broker is started: nothing is stored,   *)
(* and not for the want of a topic with a name.                            *)
RetainStored ==
  (built /\ up /\ ~saving /\ Fits(Image(list)))
    => FoundOf(deserialize_retainedtopics(flash), Image(list))
=============================================================================
