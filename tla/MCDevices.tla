--------------------------------- MODULE MCDevices ---------------------------------
(***************************************************************************)
(* Small instances of Traps and of Input.  The two do not meet: a          *)
(* behaviour runs one part, and the other stays where it started.          *)
(***************************************************************************)
EXTENDS Traps, Input

VARIABLE part

MCMoves == {<<1, -1>>, <<-2, 2>>}

MCVars == <<trapsVars, vars, part>>

MCInit == TrapsInit /\ Init /\ part \in {"traps", "input"}

MCTraps == part = "traps" /\ TrapsNext /\ UNCHANGED <<vars, part>>

MCInput == part = "input" /\ Next /\ UNCHANGED <<trapsVars, part>>

MCSpec ==
  /\ MCInit /\ [][MCTraps \/ MCInput]_MCVars
  /\ WF_MCVars(part = "traps" /\ Cpu /\ UNCHANGED <<vars, part>>)
  /\ WF_MCVars(part = "input" /\ Shell /\ UNCHANGED <<trapsVars, part>>)

===============================================================================
