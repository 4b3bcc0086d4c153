------------------------------ MODULE BoundedQueue ------------------------------
(***************************************************************************)
(* What an input queue promises: values come out in the order they went    *)
(* in, and a value that finds CAPACITY others waiting is dropped.          *)
(***************************************************************************)
EXTENDS Naturals, Sequences

CONSTANTS Values, CAPACITY, NONE

VARIABLES queue, out   \* out: what the last call returned

vars == <<queue, out>>

Init == queue = << >> /\ out = NONE

Put(v) ==
  /\ queue' = IF Len(queue) < CAPACITY THEN Append(queue, v) ELSE queue
  /\ out' = NONE

Take ==
  /\ queue' = IF queue = << >> THEN queue ELSE Tail(queue)
  /\ out' = IF queue = << >> THEN NONE ELSE Head(queue)

Next == Take \/ \E v \in Values : Put(v)

Spec == Init /\ [][Next]_vars

===============================================================================
