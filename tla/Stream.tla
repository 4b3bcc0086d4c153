---------------------------------- MODULE Stream ----------------------------------
(***************************************************************************)
(* What a print spooler promises: the characters of the texts given to it  *)
(* come out one at a time, all of them, in order.                          *)
(***************************************************************************)
EXTENDS Sequences

CONSTANTS Texts, NONE

VARIABLES due, out   \* characters to come, and the one a step puts out

Init == due = << >> /\ out = NONE

Write(text) == due' = due \o text /\ out' = NONE

Emit ==
  /\ due # << >>
  /\ out' = Head(due)
  /\ due' = Tail(due)

Wait == out' = NONE /\ UNCHANGED due

Next == Emit \/ Wait \/ \E text \in Texts : Write(text)

Spec == Init /\ [][Next]_<<due, out>>

===============================================================================
