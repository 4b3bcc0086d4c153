---------------------------------- MODULE Spooler ----------------------------------
(***************************************************************************)
(* The print and audio queues and the service that empties them            *)
(* (services.c).  Each is a ring that may fill all its slots, with a flag  *)
(* that tells a full ring from an empty one; a slot of the audio ring also *)
(* has a valid flag.  A text ends with 0.  The service runs from one       *)
(* task_yield to the next without another task in between.                 *)
(*                                                                         *)
(* The test for a full ring at the head of spool_print and                 *)
(* spool_audio_tone fails in a ring that has just filled: its tail is its  *)
(* head, and the slot after the tail is another.  A caller that adds to a  *)
(* full ring overwrites its oldest entry, and from then on the flag and    *)
(* the indices disagree.  The properties say what holds until then, and    *)
(* what holds in any case.                                                 *)
(***************************************************************************)
EXTENDS Integers, Flatten

CONSTANTS
  SLOTS,      \* PRINT_QUEUE_SLOTS and AUDIO_QUEUE_SLOTS
  SIZE,       \* PRINT_MESSAGE_SIZE
  Chars,      \* characters, without 0
  Texts,      \* texts callers print
  Tones, NONE

ASSUME SpoolerAssumption ==
  /\ SLOTS \in Nat \ {0, 1} /\ SIZE \in Nat \ {0}
  /\ 0 \notin Chars /\ NONE \notin Chars \cup Tones
  /\ Texts \subseteq Seq(Chars)

Slots == 0 .. SLOTS - 1

VARIABLES
  print_queue, print_head, print_tail, print_offset, print_queue_full,
  serial,        \* the character the last step sent to the serial port
  audio_queue,   \* a slot that is not valid is NONE
  audio_head, audio_tail, audio_queue_full,
  played         \* the tone the last step played

print == <<print_queue, print_head, print_tail, print_offset, print_queue_full, serial>>
audio == <<audio_queue, audio_head, audio_tail, audio_queue_full, played>>
vars == <<print, audio>>

Init ==
  /\ print_queue = [s \in Slots |-> [i \in 0 .. SIZE - 1 |-> 0]]
  /\ print_head = 0 /\ print_tail = 0 /\ print_offset = 0
  /\ print_queue_full = FALSE /\ serial = NONE
  /\ audio_queue = [s \in Slots |-> NONE]
  /\ audio_head = 0 /\ audio_tail = 0
  /\ audio_queue_full = FALSE /\ played = NONE

-------------------------------------------------------------------------------
Truncate(text) == SubSeq(text, 1, IF Len(text) < SIZE - 1 THEN Len(text) ELSE SIZE - 1)

\* A slot with a text written over what it held.
Written(slot, text) ==
  LET kept == Truncate(text)
  IN  [i \in 0 .. SIZE - 1 |->
         IF i < Len(kept) THEN kept[i + 1] ELSE IF i = Len(kept) THEN 0 ELSE slot[i]]

SpoolPrint(text) ==
  /\ LET next == (print_tail + 1) % SLOTS
     IN  IF next = print_head /\ print_queue_full
         THEN UNCHANGED <<print_queue, print_tail, print_queue_full>>
         ELSE /\ print_queue' = [print_queue EXCEPT ![print_tail] = Written(@, text)]
              /\ print_tail' = next
              /\ print_queue_full' = (print_queue_full \/ next = print_head)
  /\ serial' = NONE
  /\ UNCHANGED <<print_head, print_offset, audio>>

SpoolAudioTone(tone) ==
  /\ LET next == (audio_tail + 1) % SLOTS
     IN  IF next = audio_head /\ audio_queue_full
         THEN UNCHANGED <<audio_queue, audio_tail, audio_queue_full>>
         ELSE /\ audio_queue' = [audio_queue EXCEPT ![audio_tail] = tone]
              /\ audio_tail' = next
              /\ audio_queue_full' = (audio_queue_full \/ next = audio_head)
  /\ played' = NONE
  /\ UNCHANGED <<audio_head, print>>

ToneDue == audio_queue[audio_head] # NONE

\* Mutant: the slot is not marked free.
PlayToneKeeps ==
  IF ToneDue
  THEN /\ played' = audio_queue[audio_head]
       /\ audio_head' = (audio_head + 1) % SLOTS
       /\ audio_queue_full' = FALSE
       /\ UNCHANGED <<audio_queue, audio_tail>>
  ELSE played' = NONE /\ UNCHANGED <<audio_queue, audio_head, audio_tail, audio_queue_full>>

PlayTone ==
  IF ToneDue
  THEN /\ played' = audio_queue[audio_head]
       /\ audio_queue' = [audio_queue EXCEPT ![audio_head] = NONE]
       /\ audio_head' = (audio_head + 1) % SLOTS
       /\ audio_queue_full' = FALSE
       /\ UNCHANGED audio_tail
  ELSE played' = NONE /\ UNCHANGED <<audio_queue, audio_head, audio_tail, audio_queue_full>>

\* Mutant: a full ring is taken for an empty one.
PrintDueByIndex == print_head # print_tail \/ print_offset # 0

PrintDue == print_head # print_tail \/ print_offset # 0 \/ print_queue_full

\* Mutant: the next text starts where the last one ended.
NextTextKeepsOffset ==
  /\ print_queue' = [print_queue EXCEPT ![print_head][0] = 0]
  /\ print_head' = (print_head + 1) % SLOTS
  /\ print_queue_full' = FALSE
  /\ UNCHANGED print_offset

\* At the end of a text.
NextText ==
  /\ print_queue' = [print_queue EXCEPT ![print_head][0] = 0]
  /\ print_head' = (print_head + 1) % SLOTS
  /\ print_offset' = 0
  /\ print_queue_full' = FALSE

PrintChar ==
  LET c == print_queue[print_head][print_offset]
  IN  IF ~PrintDue
      THEN serial' = NONE /\ UNCHANGED <<print_queue, print_head, print_offset, print_queue_full>>
      ELSE IF c # 0
      THEN /\ serial' = c
           /\ print_offset' = print_offset + 1
           /\ UNCHANGED <<print_queue, print_head, print_queue_full>>
      ELSE serial' = NONE /\ NextText

AudioSpoolerService == PlayTone /\ PrintChar /\ UNCHANGED print_tail

Next ==
  \/ \E text \in Texts : SpoolPrint(text)
  \/ \E tone \in Tones : SpoolAudioTone(tone)
  \/ AudioSpoolerService

\* The service is a task and is scheduled again and again.
Spec == Init /\ [][Next]_vars /\ WF_vars(AudioSpoolerService)

-------------------------------------------------------------------------------
(***************************************************************************)
(* Properties                                                              *)
(***************************************************************************)

\* How many slots hold entries.
InUse(head, tail, full) == IF full THEN SLOTS ELSE (tail - head) % SLOTS

\* The characters of a slot from an offset to its 0.
TextFrom(slot, offset) ==
  LET end == CHOOSE i \in offset .. SIZE - 1 :
               slot[i] = 0 /\ \A j \in offset .. i - 1 : slot[j] # 0
  IN  [k \in 1 .. end - offset |-> slot[offset + k - 1]]

Unprinted ==
  FlattenSeq([k \in 1 .. InUse(print_head, print_tail, print_queue_full) |->
                TextFrom(print_queue[(print_head + k - 1) % SLOTS],
                         IF k = 1 THEN print_offset ELSE 0)])

Unplayed ==
  [k \in 1 .. InUse(audio_head, audio_tail, audio_queue_full) |->
     audio_queue[(audio_head + k - 1) % SLOTS]]

P == INSTANCE Stream WITH
       Texts <- {Truncate(t) : t \in Texts}, due <- Unprinted, out <- serial
A == INSTANCE BoundedQueue WITH
       Values <- Tones, CAPACITY <- SLOTS, queue <- Unplayed, out <- played

PrintSound == print_queue_full => print_head = print_tail

AudioSound ==
  LET used == InUse(audio_head, audio_tail, audio_queue_full)
  IN  /\ audio_queue_full => audio_head = audio_tail
      /\ \A k \in 0 .. SLOTS - 1 :
           k < used <=> audio_queue[(audio_head + k) % SLOTS] # NONE

\* While nobody has added to a full print ring, spool_print queues the text,
\* cut to its slot, the service prints texts whole and in order, up to and
\* including a full ring, and only adding to a full ring ends this.
PrintsInOrder ==
  [][PrintSound =>
       LET calls == {t \in Texts : SpoolPrint(t)}
       IN  \/ calls # {} /\ print_queue_full
           \/ /\ PrintSound'
              /\ P!Next \/ UNCHANGED <<Unprinted, serial>>
              /\ \A t \in calls : P!Write(Truncate(t))]_vars

\* While nobody has added to a full audio ring, it is a queue of SLOTS places:
\* its valid flags, its indices and its full flag agree, and only adding to a
\* full ring ends this.
PlaysInOrder ==
  [][AudioSound =>
       LET calls == {t \in Tones : SpoolAudioTone(t)}
       IN  \/ calls # {} /\ audio_queue_full
           \/ /\ AudioSound'
              /\ A!Next \/ UNCHANGED <<Unplayed, played>>
              /\ \A t \in calls : A!Put(t)]_vars

\* No text and no tone is held back for ever, unless somebody adds to its ring
\* when it is full.
EventuallyOut ==
  /\ []PrintSound => ((Unprinted # << >>) ~> (serial # NONE))
  /\ []AudioSound => ((Unplayed # << >>) ~> (played # NONE))

===============================================================================
