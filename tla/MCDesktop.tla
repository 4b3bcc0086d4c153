--------------------------------- MODULE MCDesktop ---------------------------------
(***************************************************************************)
(* The desktop as kernel_main sets it up, clicked on and beside the edges  *)
(* of everything that is drawn; or the window manager alone, with more     *)
(* windows and all of its operations.                                      *)
(***************************************************************************)
EXTENDS Desktop

VARIABLE part

MCGuiWindows == << <<10, 3, 40, 12>>, <<52, 3, 26, 10>>, <<15, 14, 50, 8>> >>
MCManagedWindows == << <<2, 2, 36, 10>>, <<40, 2, 36, 10>> >>

MCPoints ==
  {5, 6, 13, 14, 20, 21, 26, 31, 33, 34, 61, 62, 68, 75, 76} \X {18, 19, 20}
  \cup {61, 62, 64, 65, 70, 73} \X {0, 1} \cup {1, 2, 8, 9, 14} \X {2, 4, 6}

MCInit == DesktopInit /\ part \in {"windows", "desktop"}

MCNext ==
  /\ UNCHANGED part
  /\ \/ part = "windows" /\ Next /\ UNCHANGED desktopVars
     \/ part = "desktop" /\ DesktopNext

MCSpec == MCInit /\ [][MCNext]_<<vars, desktopVars, part>>

===============================================================================
