---------------------------------- MODULE MCLibrary ----------------------------------
(***************************************************************************)
(* Three small parts that share nothing, each checked by itself: the ring  *)
(* buffer, the file table and the start of the drivers.                    *)
(***************************************************************************)
EXTENDS Ring, FileOps, Drivers

VARIABLE part

MCBuses == [xhci |-> 1, hda |-> 1, nic |-> 1, ahci |-> 2]

\* A device with three functions, one behind it, and one on the second bus.
Slots == {0, 1} \X {0, 1} \X {0, 1, 2}
Used == {<<0, 0, 0>>, <<0, 0, 2>>, <<0, 1, 0>>, <<1, 0, 0>>}
Function(c, m, b) == [class |-> c, multi |-> m, bar |-> b]
Kinds == {ABSENT, Function("bridge", TRUE, FALSE), Function("xhci", FALSE, TRUE),
          Function("hda", TRUE, TRUE), Function("nic", TRUE, FALSE), Function("nic", FALSE, TRUE),
          Function("ahci", FALSE, TRUE)}
MCBoards == {[s \in Slots |-> IF s \in Used THEN b[s] ELSE ABSENT] : b \in [Used -> Kinds]}
MCTones == {<<440, 40>>, <<19, 1>>, <<18, 1>>, <<0, 1>>, <<440, 0>>}

\* The parts that rest start somewhere.
MCInit == /\ part \in {"ring", "files", "drivers"}
          /\ IF part = "ring" THEN TRUE ELSE key_queue \in [0 .. SIZE - 1 -> {CHOOSE v \in Values : TRUE}]
          /\ IF part = "drivers" THEN TRUE ELSE board = [s \in Slots |-> ABSENT]
          /\ Init /\ FileInit /\ DriversInit

MCNext ==
  /\ UNCHANGED part
  /\ part # "ring" => UNCHANGED vars
  /\ part # "files" => UNCHANGED fileVars
  /\ part # "drivers" => UNCHANGED driverVars
  /\ \/ part = "ring" /\ Next
     \/ part = "files" /\ FileNext
     \/ part = "drivers" /\ DriversNext

MCSpec == MCInit /\ [][MCNext]_<<part, vars, fileVars, driverVars>>

===============================================================================
