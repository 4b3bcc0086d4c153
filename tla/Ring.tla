----------------------------------- MODULE Ring -----------------------------------
(***************************************************************************)
(* The ring buffer of the keyboard driver (keyboard.c).  The mouse driver  *)
(* and the USB driver keep theirs in the same way: one slot stays free, so *)
(* that equal indices always mean an empty ring.  SIZE is 256 for keys and *)
(* a power of two everywhere, so "& (SIZE - 1)" is "% SIZE".               *)
(***************************************************************************)
EXTENDS Integers, Sequences

CONSTANTS SIZE, Values, NONE

ASSUME SizeAssumption == SIZE \in Nat \ {0}
ASSUME NoneAssumption == NONE \notin Values

VARIABLES key_queue, key_head, key_tail,
          out   \* what the last call returned

vars == <<key_queue, key_head, key_tail, out>>

\* keyboard_initialize does not clear the slots.
Init ==
  /\ key_queue \in [0 .. SIZE - 1 -> Values]
  /\ key_head = 0 /\ key_tail = 0
  /\ out = NONE

\* Mutant: the ring may fill all its slots.
QueueCharFull(c) ==
  /\ key_queue' = [key_queue EXCEPT ![key_tail] = c]
  /\ key_tail' = (key_tail + 1) % SIZE
  /\ out' = NONE
  /\ UNCHANGED key_head

QueueChar(c) ==
  LET next == (key_tail + 1) % SIZE
  IN  /\ IF next # key_head
         THEN key_queue' = [key_queue EXCEPT ![key_tail] = c] /\ key_tail' = next
         ELSE UNCHANGED <<key_queue, key_tail>>
      /\ out' = NONE
      /\ UNCHANGED key_head

\* The end of keyboard_read_char; the polls before it are QueueChar steps.
ReadChar ==
  /\ IF key_head = key_tail
     THEN out' = NONE /\ UNCHANGED key_head
     ELSE /\ out' = key_queue[key_head]
          /\ key_head' = (key_head + 1) % SIZE
  /\ UNCHANGED <<key_queue, key_tail>>

Next == ReadChar \/ \E c \in Values : QueueChar(c)

Spec == Init /\ [][Next]_vars

-------------------------------------------------------------------------------
\* What the ring holds, oldest first.
Count == IF key_tail >= key_head THEN key_tail - key_head ELSE key_tail - key_head + SIZE
Contents == [k \in 1 .. Count |-> key_queue[(key_head + k - 1) % SIZE]]

Q == INSTANCE BoundedQueue WITH queue <- Contents, CAPACITY <- SIZE - 1

\* Every variable keeps its type; no index leaves the ring.
TypeOK ==
  /\ key_queue \in [0 .. SIZE - 1 -> Values]
  /\ key_head \in 0 .. SIZE - 1 /\ key_tail \in 0 .. SIZE - 1
  /\ out \in Values \cup {NONE}

\* A call does to the contents what the queue's call with the same argument
\* does.
CallMatches == (ReadChar => Q!Take) /\ \A c \in Values : QueueChar(c) => Q!Put(c)

\* The ring is a queue of SIZE - 1 places: no character is overtaken, given
\* twice, or lost while there is room, however often the indices wrap.
ImplementsQueue == Q!Spec /\ [][CallMatches]_vars

===============================================================================
