----------------------------- MODULE WindowManager -----------------------------
(***************************************************************************)
(* The window manager (window_manager.c).  A window is its place in the    *)
(* table, counted from 1: windows are never removed, so this is also its   *)
(* id, and next_window_id is window_count + 1.  The geometry and the title *)
(* are left out, and so are active and minimized, which create sets and    *)
(* nothing changes.  A call with an id that is not in the table changes    *)
(* nothing.                                                                *)
(***************************************************************************)
EXTENDS Integers, Sequences

CONSTANT MAX_WINDOWS

ASSUME WindowAssumption == MAX_WINDOWS \in Nat

Slots == 1 .. MAX_WINDOWS
NONE == -1

VARIABLES
  window_count,
  z_order,
  focused,          \* the windows whose focused flag is set
  focused_window,
  painted           \* what the last render drew: windows, the last one on top

vars == <<window_count, z_order, focused, focused_window, painted>>

Windows == 1 .. window_count

-------------------------------------------------------------------------------
\* The table is static storage: zero before it is used.
Init ==
  /\ window_count = 0
  /\ z_order = [i \in Slots |-> 0]
  /\ focused = {}
  /\ focused_window = NONE
  /\ painted = << >>

CreateWindow ==
  /\ window_count < MAX_WINDOWS
  /\ window_count' = window_count + 1
  /\ z_order' = [z_order EXCEPT ![window_count + 1] = window_count]
  /\ focused' = IF focused_window = NONE THEN focused \cup {window_count + 1} ELSE focused
  /\ focused_window' = IF focused_window = NONE THEN window_count + 1 ELSE focused_window
  /\ UNCHANGED painted

SetFocus(i) ==
  /\ focused_window' = i
  /\ focused' = focused \cup {i}
  /\ z_order' = [z_order EXCEPT ![i] = window_count - 1]
  /\ UNCHANGED <<window_count, painted>>

RaiseWindow(i) ==
  /\ z_order' = [j \in Slots |->
       IF j = i THEN window_count - 1
       ELSE IF j \in Windows /\ z_order[j] > z_order[i] THEN z_order[j] - 1
       ELSE z_order[j]]
  /\ focused_window' = i
  /\ UNCHANGED <<window_count, focused, painted>>

LowerWindow(i) ==
  /\ z_order' = [j \in Slots |->
       IF j = i THEN 0
       ELSE IF j \in Windows /\ z_order[j] < z_order[i] THEN z_order[j] + 1
       ELSE z_order[j]]
  /\ UNCHANGED <<window_count, focused, focused_window, painted>>

\* One of the render loop's comparisons, the one after the first k: i and j run
\* over all pairs, and an earlier window with the larger z_order swaps.
Compare(s, k) ==
  LET i == (k \div window_count) + 1
      j == (k % window_count) + 1
  IN  IF i < j /\ z_order[s[i]] > z_order[s[j]]
      THEN [s EXCEPT ![i] = s[j], ![j] = s[i]]
      ELSE s

\* The windows after the first k comparisons.
Sorting[k \in 0 .. window_count * window_count] ==
  IF k = 0 THEN [i \in Windows |-> i] ELSE Compare(Sorting[k - 1], k - 1)

\* Mutant: the last comparison is missed.
PaintListShort ==
  LET n == window_count IN IF n < 2 THEN Sorting[n * n] ELSE Sorting[n * n - n - 1]

\* The windows in the order in which they are drawn, each over the earlier ones.
PaintList == Sorting[window_count * window_count]

Render ==
  /\ painted' = PaintList
  /\ UNCHANGED <<window_count, z_order, focused, focused_window>>

\* Everything but set_focus.
StackNext ==
  \/ CreateWindow
  \/ \E i \in Windows : RaiseWindow(i) \/ LowerWindow(i)
  \/ Render

Next == StackNext \/ \E i \in Windows : SetFocus(i)

StackSpec == Init /\ [][StackNext]_vars

Spec == Init /\ [][Next]_vars

-------------------------------------------------------------------------------
(***************************************************************************)
(* Properties                                                              *)
(***************************************************************************)

\* Every variable keeps its type; a z_order stays below the window count
\* through any mix of raising, lowering and focusing, ties included.
TypeOK ==
  /\ window_count \in 0 .. MAX_WINDOWS
  /\ z_order \in [Slots -> Int]
  /\ \A i \in Windows : z_order[i] \in 0 .. window_count - 1
  /\ focused \subseteq Windows
  /\ focused_window \in {NONE} \cup Windows

\* A render draws every window once, and none before a window of a smaller
\* z_order, even when set_focus has given two windows the same z_order.
PaintsBottomUp ==
  /\ DOMAIN PaintList = Windows
  /\ \A i \in Windows : \E k \in Windows : PaintList[k] = i
  /\ \A k, l \in Windows : k < l => z_order[PaintList[k]] <= z_order[PaintList[l]]

\* No two windows have the same z_order.
ZDistinct ==
  \A i, j \in Windows : i # j => z_order[i] # z_order[j]

Above == {p \in Windows \X Windows : z_order[p[1]] > z_order[p[2]]}

W == INSTANCE WindowStack WITH shown <- Windows, above <- Above

\* A call moves the window it is about.
CallMatches ==
  \A i \in Windows : (RaiseWindow(i) => W!Raise(i)) /\ (LowerWindow(i) => W!Lower(i))

\* As long as no two windows have the same z_order, creating, raising and
\* lowering treat the z_orders as a pile: a call moves the window it is about,
\* reorders no other two, and makes no two the same.  It takes set_focus to
\* break this.
KeepsPile ==
  [][ZDistinct /\ StackNext =>
       /\ ZDistinct' /\ CallMatches
       /\ W!Next \/ UNCHANGED <<Windows, Above>>]_vars

\* As long as set_focus is not called, the table is a pile of windows.
ImplementsStack == W!Spec /\ [][CallMatches]_vars

===============================================================================
