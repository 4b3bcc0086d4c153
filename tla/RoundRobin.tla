------------------------------ MODULE RoundRobin ------------------------------
(***************************************************************************)
(* What the process scheduler promises, with no queue, no pointers and no  *)
(* context switch: a set of live tasks, numbered in creation order, and    *)
(* the one whose turn it is.  Turns pass in cyclic creation order.         *)
(* Scheduler.tla is shown to implement this specification.                 *)
(***************************************************************************)
EXTENDS Naturals

CONSTANT Tasks      \* task numbers: positive, increasing with creation

VARIABLES
  live,             \* the tasks that exist and have not exited
  turn              \* whose turn it is; 0 when nobody's

vars == <<live, turn>>

\* u follows t in the cyclic order of S: the next larger member, or the
\* smallest one when S has none above t.
Follows(S, t, u) ==
  /\ u \in S
  /\ \/ t < u /\ \A s \in S : s <= t \/ u <= s
     \/ \A s \in S : u <= s /\ s <= t

Init == live = {} /\ turn = 0

\* The first task to exist gets the turn; the later ones wait for theirs.
Create ==
  \E t \in Tasks :
    /\ \A s \in live : s < t
    /\ live' = live \cup {t}
    /\ turn' = IF live = {} THEN t ELSE turn

Pass ==
  \E u \in live :
    /\ turn \in live
    /\ Follows(live, turn, u)
    /\ turn' = u
    /\ UNCHANGED live

Exit ==
  /\ turn \in live
  /\ live' = live \ {turn}
  /\ turn' = 0

Next == Create \/ Pass \/ Exit

Spec == Init /\ [][Next]_vars

===============================================================================
