------------------------------ MODULE WindowStack ------------------------------
(***************************************************************************)
(* What z-ordering promises: the windows are in a pile.  A new window and  *)
(* a raised one lie above all others, a lowered one below all others, and  *)
(* nothing else about the pile changes.                                    *)
(***************************************************************************)
VARIABLES
  shown,    \* the windows
  above     \* pairs <<v, w>> where v is above w

Init == shown = {} /\ above = {}

\* The pile without w.
Without(w) == {p \in above : p[1] # w /\ p[2] # w}

Create ==
  \E w \in shown' \ shown :
    /\ shown' = shown \cup {w}
    /\ above' = above \cup ({w} \X shown)

Raise(w) == above' = Without(w) \cup ({w} \X (shown \ {w}))

Lower(w) == above' = Without(w) \cup ((shown \ {w}) \X {w})

Next ==
  \/ Create
  \/ \E w \in shown : (Raise(w) \/ Lower(w)) /\ UNCHANGED shown

Spec == Init /\ [][Next]_<<shown, above>>

===============================================================================
