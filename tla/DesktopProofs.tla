------------------------------ MODULE DesktopProofs ------------------------------
(***************************************************************************)
(* Proofs about the window manager, for every size of its table, and about *)
(* the desktop, for every screen size, every set of windows and every      *)
(* point that may be clicked; and about the file operations, for every     *)
(* size of their table.                                                    *)
(***************************************************************************)
EXTENDS Desktop, FileOps, FiniteSetTheorems, SequenceTheorems, WellFoundedInduction, TLAPS

-------------------------------------------------------------------------------
(***************************************************************************)
(* The window manager (WindowManager)                                      *)
(***************************************************************************)

\* z_orders are below the window count.
InRange ==
  /\ window_count \in 0 .. MAX_WINDOWS
  /\ z_order \in [Slots -> Int]
  /\ \A i \in Windows : z_order[i] >= 0 /\ z_order[i] < window_count

IInv == InRange /\ ZDistinct

USE WindowAssumption DEF Slots

LEMMA InitIInv == Init => IInv
BY DEF Init, IInv, InRange, ZDistinct, Windows

LEMMA CreateStep == IInv /\ CreateWindow => IInv'
<1> SUFFICES ASSUME IInv, CreateWindow PROVE IInv'
  BY Zenon
<1>1. /\ window_count \in Nat /\ window_count' = window_count + 1
      /\ window_count' \in 0 .. MAX_WINDOWS /\ window_count + 1 \in Slots
      /\ z_order' = [z_order EXCEPT ![window_count + 1] = window_count]
  BY DEF IInv, InRange, CreateWindow
<1>2. z_order' \in [Slots -> Int]
  BY <1>1 DEF IInv, InRange
<1>3. z_order'[window_count + 1] = window_count
  BY <1>1, Zenon DEF IInv, InRange
<1>4. \A i \in Windows : i \in Slots /\ i # window_count + 1 /\ z_order'[i] = z_order[i]
  BY <1>1 DEF IInv, InRange, Windows
<1>5. Windows' = Windows \cup {window_count + 1}
  BY <1>1 DEF Windows
<1>6. \A i \in Windows : z_order[i] \in Int /\ z_order[i] >= 0 /\ z_order[i] < window_count
  BY <1>4, Zenon DEF IInv, InRange
<1>7. \A i \in Windows' : z_order'[i] >= 0 /\ z_order'[i] < window_count'
  BY <1>1, <1>3, <1>4, <1>5, <1>6
<1>8. ASSUME NEW i \in Windows', NEW j \in Windows', i # j PROVE z_order'[i] # z_order'[j]
  <2>1. CASE i \in Windows /\ j \in Windows
    BY <1>4, <1>8, <2>1, Zenon DEF IInv, ZDistinct
  <2>2. CASE i = window_count + 1 /\ j \in Windows
    BY <1>1, <1>3, <1>4, <1>6, <2>2
  <2>3. CASE i \in Windows /\ j = window_count + 1
    BY <1>1, <1>3, <1>4, <1>6, <2>3
  <2> QED
    BY <1>5, <1>8, <2>1, <2>2, <2>3, Zenon
<1> QED
  BY <1>1, <1>2, <1>7, <1>8, Zenon DEF IInv, InRange, ZDistinct

\* What a raise does to the z_orders.
LEMMA Raised ==
  ASSUME IInv, NEW i \in Windows, RaiseWindow(i)
  PROVE  /\ window_count' = window_count /\ Windows' = Windows
         /\ z_order' \in [Slots -> Int] /\ z_order'[i] = window_count - 1
         /\ \A j \in Windows : j # i =>
              z_order'[j] = IF z_order[j] > z_order[i] THEN z_order[j] - 1 ELSE z_order[j]
BY DEF IInv, InRange, RaiseWindow, Windows

LEMMA Lowered ==
  ASSUME IInv, NEW i \in Windows, LowerWindow(i)
  PROVE  /\ window_count' = window_count /\ Windows' = Windows
         /\ z_order' \in [Slots -> Int] /\ z_order'[i] = 0
         /\ \A j \in Windows : j # i =>
              z_order'[j] = IF z_order[j] < z_order[i] THEN z_order[j] + 1 ELSE z_order[j]
BY DEF IInv, InRange, LowerWindow, Windows

LEMMA ZTyped ==
  ASSUME IInv
  PROVE  /\ window_count \in Nat
         /\ \A j \in Windows : z_order[j] \in Int /\ z_order[j] >= 0 /\ z_order[j] < window_count
BY DEF IInv, InRange, Windows

LEMMA RaiseStep == ASSUME IInv, NEW i \in Windows, RaiseWindow(i) PROVE IInv'
<1>1. ASSUME NEW j \in Windows PROVE z_order'[j] >= 0 /\ z_order'[j] < window_count
  <2>1. z_order'[j] = IF j = i THEN window_count - 1 ELSE IF z_order[j] > z_order[i] THEN z_order[j] - 1 ELSE z_order[j]
    BY Raised, Zenon
  <2>2. /\ window_count \in Nat
        /\ \A m \in {i, j} : z_order[m] \in Int /\ z_order[m] >= 0 /\ z_order[m] < window_count
    BY ZTyped, Zenon
  <2> QED
    BY <2>1, <2>2
<1>2. ASSUME NEW j \in Windows, NEW k \in Windows, j # k PROVE z_order'[j] # z_order'[k]
  <2>1. z_order[j] # z_order[k] /\ (j # i => z_order[j] # z_order[i]) /\ (k # i => z_order[k] # z_order[i])
    BY <1>2, Zenon DEF IInv, InRange, ZDistinct
  <2>2. \A m \in {j, k} :
         z_order'[m] = IF m = i THEN window_count - 1 ELSE IF z_order[m] > z_order[i] THEN z_order[m] - 1 ELSE z_order[m]
    BY Raised
  <2>3. /\ window_count \in Nat
        /\ \A m \in {i, j, k} : z_order[m] \in Int /\ z_order[m] >= 0 /\ z_order[m] < window_count
    BY ZTyped, Zenon
  <2> QED
    BY <1>2, <2>1, <2>2, <2>3
<1> QED
  BY <1>1, <1>2, Raised DEF IInv, InRange, ZDistinct

LEMMA LowerStep == ASSUME IInv, NEW i \in Windows, LowerWindow(i) PROVE IInv'
<1>1. ASSUME NEW j \in Windows PROVE z_order'[j] >= 0 /\ z_order'[j] < window_count
  <2>1. z_order'[j] = IF j = i THEN 0 ELSE IF z_order[j] < z_order[i] THEN z_order[j] + 1 ELSE z_order[j]
    BY Lowered, Zenon
  <2>2. /\ window_count \in Nat
        /\ \A m \in {i, j} : z_order[m] \in Int /\ z_order[m] >= 0 /\ z_order[m] < window_count
    BY ZTyped
  <2> QED
    BY <2>1, <2>2
<1>2. ASSUME NEW j \in Windows, NEW k \in Windows, j # k PROVE z_order'[j] # z_order'[k]
  <2>1. z_order[j] # z_order[k] /\ (j # i => z_order[j] # z_order[i]) /\ (k # i => z_order[k] # z_order[i])
    BY <1>2 DEF IInv, InRange, ZDistinct
  <2>2. \A m \in {j, k} :
         z_order'[m] = IF m = i THEN 0 ELSE IF z_order[m] < z_order[i] THEN z_order[m] + 1 ELSE z_order[m]
    BY Lowered, Zenon
  <2>3. /\ window_count \in Nat
        /\ \A m \in {i, j, k} : z_order[m] \in Int /\ z_order[m] >= 0 /\ z_order[m] < window_count
    BY ZTyped
  <2> QED
    BY <1>2, <2>1, <2>2, <2>3
<1> QED
  BY <1>1, <1>2, Lowered DEF IInv, InRange, ZDistinct

LEMMA StackStep == IInv /\ [StackNext]_vars => IInv'
<1>1. IInv /\ Render => IInv'
  BY Zenon DEF IInv, InRange, Render, Windows, ZDistinct
<1>2. IInv /\ UNCHANGED vars => IInv'
  BY Zenon DEF IInv, InRange, vars, Windows, ZDistinct
<1> QED
  BY <1>1, <1>2, CreateStep, RaiseStep, LowerStep, Zenon DEF StackNext

LEMMA Invariance == StackSpec => []IInv
BY InitIInv, StackStep, PTL DEF StackSpec

\* Creating, raising and lowering windows never give two windows the same
\* z_order, whatever the size of the table.
THEOREM DistinctCorrect == StackSpec => []ZDistinct
<1>1. IInv => ZDistinct
  BY Zenon DEF IInv
<1> QED
  BY Invariance, <1>1, PTL

-------------------------------------------------------------------------------
\* A step of create, raise, lower or render is one of the pile.
LEMMA PileStep == IInv /\ [StackNext]_vars => [W!Next]_<<Windows, Above>> /\ CallMatches
<1> SUFFICES ASSUME IInv, [StackNext]_vars
             PROVE  [W!Next]_<<Windows, Above>> /\ CallMatches
  BY Zenon
<1>1. ASSUME UNCHANGED <<window_count, z_order>> PROVE UNCHANGED <<Windows, Above>>
  BY <1>1, Zenon DEF Windows, Above
<1>2. ASSUME CreateWindow PROVE W!Next
  <2> DEFINE w == window_count + 1
  <2>1. /\ window_count \in Nat /\ Windows' = Windows \cup {w} /\ w \notin Windows
        /\ z_order'[w] = window_count
        /\ \A i \in Windows : z_order'[i] = z_order[i]
    BY <1>2 DEF IInv, InRange, CreateWindow, Windows
  <2>2. \A i \in Windows : z_order[i] \in Int /\ z_order[i] < window_count
    BY ZTyped, Zenon
  <2>3. Above' = Above \cup ({w} \X Windows)
    <3>1. ASSUME NEW i \in Windows', NEW j \in Windows'
          PROVE  z_order'[i] > z_order'[j] <=>
                   \/ i = w /\ j \in Windows
                   \/ i \in Windows /\ j \in Windows /\ z_order[i] > z_order[j]
      BY <2>1, <2>2
    <3> HIDE DEF w
    <3> QED
      BY <2>1, <3>1 DEF Above
  <2> HIDE DEF w
  <2> QED
    BY <2>1, <2>3, Zenon DEF W!Next, W!Create
<1>3. ASSUME NEW i \in Windows, RaiseWindow(i) PROVE W!Raise(i) /\ UNCHANGED Windows
  <2>1. ASSUME NEW j \in Windows, NEW k \in Windows
        PROVE  z_order'[j] > z_order'[k] <=>
                 \/ j # i /\ k # i /\ z_order[j] > z_order[k]
                 \/ j = i /\ k # i
    <3>1. /\ j # k => z_order[j] # z_order[k]
          /\ j # i => z_order[j] # z_order[i]
          /\ k # i => z_order[k] # z_order[i]
      BY Zenon DEF IInv, InRange, ZDistinct
    <3>2. \A m \in {j, k} :
           z_order'[m] = IF m = i THEN window_count - 1 ELSE IF z_order[m] > z_order[i] THEN z_order[m] - 1 ELSE z_order[m]
      BY <1>3, Raised
    <3>3. /\ window_count \in Nat
          /\ \A m \in {i, j, k} : z_order[m] \in Int /\ z_order[m] >= 0 /\ z_order[m] < window_count
      BY ZTyped, Zenon
    <3> QED
      BY <3>1, <3>2, <3>3
  <2>2. Windows' = Windows
    BY <1>3, Raised, Zenon
  <2>3. Above' = W!Without(i) \cup ({i} \X (Windows \ {i}))
    BY <2>1, <2>2 DEF Above, W!Without
  <2> QED
    BY <2>2, <2>3, Zenon DEF W!Raise
<1>4. ASSUME NEW i \in Windows, LowerWindow(i) PROVE W!Lower(i) /\ UNCHANGED Windows
  <2>1. ASSUME NEW j \in Windows, NEW k \in Windows
        PROVE  z_order'[j] > z_order'[k] <=>
                 \/ j # i /\ k # i /\ z_order[j] > z_order[k]
                 \/ j # i /\ k = i
    <3>1. /\ j # k => z_order[j] # z_order[k]
          /\ j # i => z_order[j] # z_order[i]
          /\ k # i => z_order[k] # z_order[i]
      BY DEF IInv, InRange, ZDistinct
    <3>2. \A m \in {j, k} :
           z_order'[m] = IF m = i THEN 0 ELSE IF z_order[m] < z_order[i] THEN z_order[m] + 1 ELSE z_order[m]
      BY <1>4, Lowered, Zenon
    <3>3. /\ window_count \in Nat
          /\ \A m \in {i, j, k} : z_order[m] \in Int /\ z_order[m] >= 0 /\ z_order[m] < window_count
      BY ZTyped
    <3> QED
      BY <3>1, <3>2, <3>3
  <2>2. Windows' = Windows
    BY <1>4, Lowered, Zenon
  <2>3. Above' = W!Without(i) \cup ((Windows \ {i}) \X {i})
    BY <2>1, <2>2, Zenon DEF Above, W!Without
  <2> QED
    BY <2>2, <2>3, Zenon DEF W!Lower
<1>5. CallMatches
  BY <1>3, <1>4, Zenon DEF CallMatches
<1>6. [W!Next]_<<Windows, Above>>
  BY <1>1, <1>2, <1>3, <1>4, Zenon DEF StackNext, Render, vars, W!Next
<1> QED
  BY <1>5, <1>6, Zenon

\* The z_orders implement a pile of windows: a raise or a lower changes the
\* place of the window it is about and the order of no two others.
THEOREM Refinement == StackSpec => ImplementsStack
<1>1. Init => W!Init
  BY DEF Init, W!Init, Windows, Above
<1> QED
  BY <1>1, PileStep, Invariance, PTL DEF StackSpec, ImplementsStack, W!Spec

-------------------------------------------------------------------------------
\* z_orders stay in range through set_focus and the ties it makes as well, and
\* the focus is on windows that are there.
THEOREM TypeCorrect == Spec => []TypeOK
<1>1. Init => TypeOK
  BY WindowAssumption DEF Init, TypeOK, Windows, Slots
<1>2. TypeOK /\ [Next]_vars => TypeOK'
  <2> SUFFICES ASSUME TypeOK, [Next]_vars PROVE TypeOK'
    BY Zenon
  <2>1. CASE CreateWindow
    BY <2>1 DEF CreateWindow, TypeOK, Windows, Slots
  <2>2. ASSUME NEW i \in Windows, RaiseWindow(i) PROVE TypeOK'
    <3>1. window_count' = window_count /\ Windows' = Windows /\ z_order' \in [Slots -> Int]
      BY <2>2 DEF RaiseWindow, TypeOK, Windows, Slots
    <3>2. ASSUME NEW j \in Windows PROVE z_order'[j] \in 0 .. window_count - 1
      <4>1. /\ window_count \in Nat
            /\ z_order[i] \in 0 .. window_count - 1 /\ z_order[j] \in 0 .. window_count - 1
        BY DEF TypeOK, Windows, Slots
      <4>2. z_order'[j] = IF j = i THEN window_count - 1 ELSE IF z_order[j] > z_order[i] THEN z_order[j] - 1 ELSE z_order[j]
        BY <2>2 DEF RaiseWindow, TypeOK, Windows, Slots
      <4> QED
        BY <4>1, <4>2
    <3> QED
      BY <2>2, <3>1, <3>2, Zenon DEF RaiseWindow, TypeOK, Windows, Slots
  <2>3. ASSUME NEW i \in Windows, LowerWindow(i) PROVE TypeOK'
    <3>1. window_count' = window_count /\ Windows' = Windows /\ z_order' \in [Slots -> Int]
      BY <2>3 DEF LowerWindow, TypeOK, Windows, Slots
    <3>2. ASSUME NEW j \in Windows PROVE z_order'[j] \in 0 .. window_count - 1
      <4>1. /\ window_count \in Nat
            /\ z_order[i] \in 0 .. window_count - 1 /\ z_order[j] \in 0 .. window_count - 1
        BY DEF TypeOK, Windows, Slots
      <4>2. z_order'[j] = IF j = i THEN 0 ELSE IF z_order[j] < z_order[i] THEN z_order[j] + 1 ELSE z_order[j]
        BY <2>3 DEF LowerWindow, TypeOK, Windows, Slots
      <4> QED
        BY <4>1, <4>2
    <3> QED
      BY <2>3, <3>1, <3>2, Zenon DEF LowerWindow, TypeOK, Windows, Slots
  <2>4. ASSUME NEW i \in Windows, SetFocus(i) PROVE TypeOK'
    BY <2>4 DEF SetFocus, TypeOK, Windows, Slots
  <2>5. CASE Render
    BY <2>5, Zenon DEF Render, TypeOK, Windows, Slots
  <2>6. CASE UNCHANGED vars
    BY <2>6, Zenon DEF vars, TypeOK, Windows, Slots
  <2> QED
    BY <2>1, <2>2, <2>3, <2>4, <2>5, <2>6, Zenon DEF Next, StackNext
<1> QED
  BY <1>1, <1>2, PTL DEF Spec

\* Whatever set_focus did before: from z_orders that are distinct, create, raise
\* and lower go to distinct ones and move only the window they are about.
THEOREM PileCorrect == Spec => KeepsPile
<1>1. TypeOK => [ZDistinct /\ StackNext =>
                    /\ ZDistinct' /\ CallMatches
                    /\ W!Next \/ UNCHANGED <<Windows, Above>>]_vars
  <2>1. TypeOK => InRange
    BY DEF TypeOK, InRange
  <2> QED
    BY <2>1, StackStep, PileStep, Zenon DEF IInv
<1> QED
  BY <1>1, TypeCorrect, PTL DEF KeepsPile

-------------------------------------------------------------------------------
(***************************************************************************)
(* The application launcher (Desktop).  The argument is about Do, which one *)
(* click may go through three times.                                       *)
(***************************************************************************)

DeskType == [visible : SUBSET Panels, apps : [Apps -> Nat \cup {NONE}], tasks : Seq(Apps)]

DeskOK(d) == d \in DeskType /\ StartedOnce(d)

\* What a launch does to the tasks of each application.
LEMMA AppendStarted ==
  ASSUME NEW d \in DeskType, NEW app \in Apps, NEW e \in DeskType, e.tasks = Append(d.tasks, app)
  PROVE  /\ Started(e, app) = Started(d, app) \cup {Len(d.tasks) + 1}
         /\ \A a \in Apps \ {app} : Started(e, a) = Started(d, a)
<1>1. /\ d.tasks \in Seq(Apps) /\ Len(d.tasks) \in Nat
      /\ DOMAIN d.tasks = 1 .. Len(d.tasks)
  BY DEF DeskType
<1>2. /\ DOMAIN e.tasks = 1 .. Len(d.tasks) + 1
      /\ e.tasks[Len(d.tasks) + 1] = app
      /\ \A k \in 1 .. Len(d.tasks) : e.tasks[k] = d.tasks[k]
  BY <1>1
<1> QED
  BY <1>1, <1>2 DEF Started

\* A handler keeps the record right, whatever it is asked to do.
LEMMA DoStep ==
  ASSUME NEW d, DeskOK(d), NEW what, NEW created \in BOOLEAN
  PROVE  DeskOK(Do(d, what, created))
<1> DEFINE e == Do(d, what, created)
<1>0. d \in DeskType /\ StartedOnce(d)
  BY Zenon DEF DeskOK
<1>1. CASE what \in Panels
  <2>1. e = [d EXCEPT !.visible = Toggle(d.visible, what)]
    BY <1>1, Zenon DEF Do
  <2>2. e \in DeskType /\ e.tasks = d.tasks /\ e.apps = d.apps
    BY <1>0, <1>1, <2>1 DEF DeskType, Toggle
  <2> QED
    BY <1>0, <2>2 DEF DeskOK, StartedOnce, Started
<1>2. CASE what \notin Panels /\ MayLaunch(d, what) /\ created
  <2>1. e = [d EXCEPT !.apps[what] = Len(d.tasks) + 1, !.tasks = Append(@, what)]
    BY <1>2, Zenon DEF Do
  <2>2. what \in Apps /\ d.apps[what] = NONE /\ Len(d.tasks) \in Nat
    BY <1>0, <1>2 DEF MayLaunch, DeskType
  <2>3. /\ e.tasks = Append(d.tasks, what)
        /\ e.apps = [d.apps EXCEPT ![what] = Len(d.tasks) + 1]
        /\ e.visible = d.visible
        /\ DOMAIN e = DOMAIN d
    BY <1>0, <2>1, Zenon DEF DeskType
  <2>4. e \in DeskType
    <3>1. Append(d.tasks, what) \in Seq(Apps)
      BY <1>0, <2>2 DEF DeskType
    <3>2. [d.apps EXCEPT ![what] = Len(d.tasks) + 1] \in [Apps -> Nat \cup {NONE}]
      BY <1>0, <2>2 DEF DeskType
    <3> QED
      BY <1>0, <2>1, <3>1, <3>2, Zenon DEF DeskType
  <2>5. /\ Started(e, what) = Started(d, what) \cup {Len(d.tasks) + 1}
        /\ \A a \in Apps \ {what} : Started(e, a) = Started(d, a)
    BY <1>0, <2>2, <2>3, <2>4, AppendStarted
  <2>6. Started(d, what) = {}
    <3>1. NONE \notin Started(d, what)
      BY <1>0 DEF Started, DeskType, NONE
    <3> QED
      BY <1>0, <2>2, <3>1, Zenon DEF StartedOnce
  <2>7. \A a \in Apps : e.apps[a] = IF a = what THEN Len(d.tasks) + 1 ELSE d.apps[a]
    BY <1>0, <2>3, Zenon DEF DeskType
  <2> QED
    BY <1>0, <2>2, <2>4, <2>5, <2>6, <2>7 DEF DeskOK, StartedOnce
<1>3. CASE what \notin Panels /\ ~(MayLaunch(d, what) /\ created)
  BY <1>0, <1>3, Zenon DEF Do, DeskOK
<1> QED
  BY <1>1, <1>2, <1>3, Zenon

LEMMA InitDeskOK == DesktopInit => DeskOK(desk)
BY DEF DesktopInit, DeskOK, DeskType, StartedOnce, Started

\* Each of the three handlers of a click is one Do.
LEMMA ClickStep == DeskOK(desk) /\ MouseClick => DeskOK(desk')
<1> SUFFICES ASSUME DeskOK(desk), MouseClick PROVE DeskOK(desk')
  BY Zenon
<1> DEFINE what == << IF clicked.left THEN LeftDoes(clicked.at) ELSE "nothing",
                      IF clicked.right THEN RightDoes(clicked.at) ELSE "nothing",
                      IF clicked.middle THEN "control" ELSE "nothing" >>
<1>1. PICK first \in BOOLEAN, second \in BOOLEAN :
        desk' = Do(Do(Do(desk, what[1], first), what[2], second), what[3], FALSE)
  BY Zenon DEF MouseClick
<1> HIDE DEF what
<1>2. DeskOK(Do(desk, what[1], first))
  BY DoStep, Zenon
<1>3. DeskOK(Do(Do(desk, what[1], first), what[2], second))
  BY <1>2, DoStep, Zenon
<1> QED
  BY <1>1, <1>3, DoStep, Zenon

LEMMA DesktopStep == DeskOK(desk) /\ [DesktopNext]_<<vars, desktopVars>> => DeskOK(desk')
<1> SUFFICES ASSUME DeskOK(desk), [DesktopNext]_<<vars, desktopVars>> PROVE DeskOK(desk')
  BY Zenon
<1>1. CASE MouseClick
  BY <1>1, ClickStep, Zenon
<1>2. CASE UNCHANGED desk
  BY <1>2, Zenon
<1>3. OpenGuiWindow \/ CreateManaged \/ GuiRender => UNCHANGED desk
  BY Zenon DEF OpenGuiWindow, CreateManaged, GuiRender
<1>4. ASSUME NEW p \in Points, NEW left \in BOOLEAN, NEW right \in BOOLEAN, NEW middle \in BOOLEAN,
             MouseEvent(p, left, right, middle)
      PROVE  UNCHANGED desk
  BY <1>4, Zenon DEF MouseEvent
<1>5. UNCHANGED <<vars, desktopVars>> => UNCHANGED desk
  BY Zenon DEF desktopVars
<1> QED
  BY <1>1, <1>2, <1>3, <1>4, <1>5, Zenon DEF DesktopNext

\* For every desktop and every sequence of clicks, with any of the three buttons
\* together, app_launch creates at most one task for an application, and the PID
\* in app_registry is that task's.
THEOREM LaunchCorrect == DesktopSpec => []LaunchedOnce
<1>1. DeskOK(desk) => LaunchedOnce
  BY Zenon DEF DeskOK, LaunchedOnce
<1>2. (DeskOK(desk))' <=> DeskOK(desk')
  BY Zenon DEF DeskOK, StartedOnce, Started
<1> QED
  BY <1>1, <1>2, InitDeskOK, DesktopStep, PTL DEF DesktopSpec

-------------------------------------------------------------------------------
(***************************************************************************)
(* Rendering.  The comparisons are a recursive function of how many there  *)
(* were; that it exists, and what it keeps, is by induction, in the form:  *)
(* what fails for some number fails for a least one.                       *)
(***************************************************************************)

LEMMA LeastNat ==
  ASSUME NEW T \in SUBSET Nat, T # {}
  PROVE  \E x \in T : \A y \in T : x <= y
<1> DEFINE R == {ss \in Nat \X Nat : ss[1] < ss[2]}
<1>1. IsWellFoundedOn(R, Nat)
  BY NatLessThanWellFounded, Zenon DEF OpToRel
<1>2. \A x, y \in Nat : x < y => <<x, y>> \in R
  BY Zenon
<1> HIDE DEF R
<1>3. PICK x \in T : \A y \in T : ~(<<y, x>> \in R)
  BY <1>1, WFMin, Zenon
<1>4. ASSUME NEW y \in T PROVE x <= y
  <2>1. x \in Nat /\ y \in Nat
    BY Zenon
  <2>2. ~(y < x)
    BY <1>2, <1>3, <2>1, Zenon
  <2> QED
    BY <2>1, <2>2
<1> QED
  BY <1>4, Zenon

\* What the comparisons do, as an equation.
Start == [i \in Windows |-> i]

IsSorting(f, m) == f = [k \in 0 .. m |-> IF k = 0 THEN Start ELSE Compare(f[k - 1], k - 1)]

\* For every number of comparisons there is the list of their results.
LEMMA SortingExists == \A m \in Nat : \E f : IsSorting(f, m)
<1> DEFINE T == {m \in Nat : ~ \E f : IsSorting(f, m)}
<1> SUFFICES ASSUME T # {} PROVE FALSE
  BY Zenon
<1>1. PICK m \in T : \A y \in T : m <= y
  <2> T \in SUBSET Nat
    BY Zenon
  <2> HIDE DEF T
  <2> QED
    BY LeastNat, Zenon
<1>2. m \in Nat /\ ~ \E f : IsSorting(f, m)
  BY Zenon
<1>3. CASE m = 0
  <2> DEFINE f == [k \in 0 .. 0 |-> Start]
  <2>1. f = [k \in 0 .. 0 |-> IF k = 0 THEN Start ELSE Compare(f[k - 1], k - 1)]
    <3>1. \A k \in 0 .. 0 : k = 0
      OBVIOUS
    <3> QED
      BY <3>1, Zenon
  <2> QED
    BY <1>2, <1>3, <2>1, Zenon DEF IsSorting
<1>4. CASE m # 0
  <2>1. m - 1 \in Nat /\ m - 1 \notin T
    BY <1>1, <1>2, <1>4
  <2>2. PICK f : IsSorting(f, m - 1)
    BY <2>1, Zenon
  <2> DEFINE g == [k \in 0 .. m |-> IF k = m THEN Compare(f[m - 1], m - 1) ELSE f[k]]
  <2>3. ASSUME NEW k \in 0 .. m
        PROVE  g[k] = IF k = 0 THEN Start ELSE Compare(g[k - 1], k - 1)
    <3>1. k = m \/ k \in 0 .. m - 1
      BY <1>2
    <3>2. k # 0 => k - 1 \in 0 .. m /\ k - 1 # m
      BY <1>2
    <3>3. k # 0 => g[k - 1] = f[k - 1]
      BY <3>2, Zenon
    <3>4. CASE k = m
      BY <1>4, <3>3, <3>4, Zenon
    <3>5. CASE k \in 0 .. m - 1 /\ k # m
      <4>1. f[k] = IF k = 0 THEN Start ELSE Compare(f[k - 1], k - 1)
        BY <2>2, <3>5, Zenon DEF IsSorting
      <4> QED
        BY <3>3, <3>5, <4>1, Zenon
    <3> QED
      BY <3>1, <3>4, <3>5, Zenon
  <2>4. g = [k \in 0 .. m |-> IF k = 0 THEN Start ELSE Compare(g[k - 1], k - 1)]
    <3> DEFINE h == [k \in 0 .. m |-> IF k = 0 THEN Start ELSE Compare(g[k - 1], k - 1)]
    <3>1. \A k \in 0 .. m : g[k] = h[k]
      BY <2>3, Zenon
    <3>2. DOMAIN g = 0 .. m /\ DOMAIN h = 0 .. m
      BY Zenon
    <3>3. g = [k \in 0 .. m |-> g[k]] /\ h = [k \in 0 .. m |-> h[k]]
      OBVIOUS
    <3> QED
      BY <3>1, <3>3, Zenon
  <2> QED
    BY <1>2, <2>4, Zenon DEF IsSorting
<1> QED
  BY <1>3, <1>4, Zenon

\* So the model's function is that list.
LEMMA SortingDef ==
  ASSUME window_count \in Nat
  PROVE  /\ Sorting[0] = Start
         /\ \A k \in 0 .. window_count * window_count - 1 : Sorting[k + 1] = Compare(Sorting[k], k)
<1> DEFINE m == window_count * window_count
<1>1. m \in Nat
  OBVIOUS
<1>2. Sorting = CHOOSE f : IsSorting(f, m)
  BY Zenon DEF Sorting, IsSorting, Start
<1>3. IsSorting(Sorting, m)
  BY <1>1, <1>2, SortingExists, Zenon
<1> HIDE DEF m
<1>4. \A k \in 0 .. m : Sorting[k] = IF k = 0 THEN Start ELSE Compare(Sorting[k - 1], k - 1)
  BY <1>3, Zenon DEF IsSorting
<1>5. ASSUME NEW k \in 0 .. m - 1 PROVE k + 1 \in 0 .. m /\ k + 1 # 0 /\ (k + 1) - 1 = k
  BY <1>1
<1>6. Sorting[0] = Start
  BY <1>1, <1>4
<1>7. ASSUME NEW k \in 0 .. m - 1 PROVE Sorting[k + 1] = Compare(Sorting[k], k)
  BY <1>4, <1>5, Zenon
<1> QED
  BY <1>6, <1>7, Zenon DEF m

\* A list with every window once.
Complete(s) == s \in [Windows -> Windows] /\ \A i \in Windows : \E k \in Windows : s[k] = i

\* Where in the two loops a pair of places is compared.
Turn(a, b) == (a - 1) * window_count + b - 1

\* The places whose turn was among the first k have come into order.
Ordered(s, k) ==
  \A a, b \in Windows : a < b /\ Turn(a, b) < k => z_order[s[a]] <= z_order[s[b]]

\* The outer loop's row comes first.
LEMMA TurnOrder ==
  ASSUME window_count \in Nat, NEW a \in Windows, NEW b \in Windows, NEW i \in Windows, NEW j \in Windows
  PROVE  /\ Turn(a, b) \in 0 .. window_count * window_count - 1
         /\ Turn(a, b) < Turn(i, j) + 1 <=> a < i \/ (a = i /\ b <= j)
         /\ Turn(a, b) < Turn(i, j) <=> a < i \/ (a = i /\ b < j)
<1> DEFINE n == window_count
<1>1. /\ n \in Nat /\ a \in Int /\ b \in Int /\ i \in Int /\ j \in Int
      /\ a >= 1 /\ a <= n /\ b >= 1 /\ b <= n /\ i >= 1 /\ i <= n /\ j >= 1 /\ j <= n
  BY DEF Windows
<1>2. Turn(a, b) = (a - 1) * n + b - 1 /\ Turn(i, j) = (i - 1) * n + j - 1
  BY Zenon DEF Turn
<1> HIDE DEF n
<1>3. \A x, y \in Int : x < y => x * n + n <= y * n
  <2> SUFFICES ASSUME NEW x \in Int, NEW y \in Int, x < y PROVE x * n + n <= y * n
    BY Zenon
  <2>1. (y - x - 1) * n >= 0
    BY <1>1
  <2>2. (y - x - 1) * n = y * n - x * n - n
    BY <1>1
  <2>3. x * n \in Int /\ y * n \in Int
    BY <1>1
  <2> QED
    BY <1>1, <2>1, <2>2, <2>3
<1> DEFINE p == (a - 1) * n
           q == (i - 1) * n
           r == n * n
<1>4. p \in Int /\ q \in Int /\ r \in Int /\ p >= 0
  BY <1>1
<1>5. a < i => p + n <= q
  BY <1>1, <1>3
<1>6. i < a => q + n <= p
  BY <1>1, <1>3
<1>7. a = i => p = q
  BY Zenon
<1>8. p + n <= r
  BY <1>1, <1>3
<1> HIDE DEF p, q, r
<1>9. Turn(a, b) = p + b - 1 /\ Turn(i, j) = q + j - 1 /\ r = window_count * window_count
  BY <1>2, Zenon DEF p, q, r, n
<1> QED
  BY <1>1, <1>4, <1>5, <1>6, <1>7, <1>8, <1>9

\* The comparison after the first k is that of the places whose turn k is.
LEMMA AtTurn ==
  ASSUME window_count \in Nat, NEW k \in 0 .. window_count * window_count - 1
  PROVE  LET i == (k \div window_count) + 1
             j == (k % window_count) + 1
         IN  i \in Windows /\ j \in Windows /\ Turn(i, j) = k
<1> DEFINE n == window_count
           d == k \div n
           m == k % n
<1>1. n \in Nat /\ n > 0 /\ k \in Nat /\ k < n * n
  <2>1. n = 0 => n * n = 0
    OBVIOUS
  <2>2. n * n \in Int
    OBVIOUS
  <2> QED
    BY <2>1, <2>2
<1>2. d \in Int /\ m \in 0 .. n - 1 /\ k = n * d + m
  BY <1>1
<1>3. d >= 0 /\ d < n
  <2>1. ASSUME d < 0 PROVE FALSE
    <3>1. n * (d + 1) <= 0
      BY <1>1, <1>2, <2>1
    <3>2. n * (d + 1) = n * d + n
      BY <1>1, <1>2
    <3> HIDE DEF d, m
    <3> QED
      BY <1>1, <1>2, <3>1, <3>2
  <2>2. ASSUME d >= n PROVE FALSE
    <3>1. n * (d - n) >= 0
      BY <1>1, <1>2, <2>2
    <3>2. n * (d - n) = n * d - n * n
      BY <1>1, <1>2
    <3> HIDE DEF d, m
    <3> QED
      BY <1>1, <1>2, <3>1, <3>2
  <2> QED
    BY <1>1, <1>2, <2>1, <2>2
<1>4. d + 1 \in Windows /\ m + 1 \in Windows
  <2> HIDE DEF d, m
  <2> QED
    BY <1>1, <1>2, <1>3 DEF Windows
<1>5. Turn(d + 1, m + 1) = k
  <2>1. Turn(d + 1, m + 1) = (d + 1 - 1) * n + (m + 1) - 1
    BY DEF Turn
  <2> HIDE DEF d, m, n
  <2>2. d + 1 - 1 = d /\ d * n = n * d /\ n * d \in Int
    BY <1>1, <1>2
  <2> QED
    BY <1>1, <1>2, <2>1, <2>2
<1> QED
  BY <1>4, <1>5, Zenon

\* A comparison keeps the list complete, and brings its own pair of places into
\* order without disturbing an earlier one.
LEMMA CompareStep ==
  ASSUME TypeOK, NEW k \in 0 .. window_count * window_count - 1,
         NEW s, Complete(s), Ordered(s, k)
  PROVE  Complete(Compare(s, k)) /\ Ordered(Compare(s, k), k + 1)
<1> DEFINE i == (k \div window_count) + 1
           j == (k % window_count) + 1
           t == Compare(s, k)
<1>1. window_count \in Nat /\ \A w \in Windows : z_order[w] \in Int
  BY DEF TypeOK, Windows
<1>2. i \in Windows /\ j \in Windows /\ Turn(i, j) = k
  BY <1>1, AtTurn, Zenon
<1>3. t = IF i < j /\ z_order[s[i]] > z_order[s[j]] THEN [s EXCEPT ![i] = s[j], ![j] = s[i]] ELSE s
  BY Zenon DEF Compare
<1>4. /\ s \in [Windows -> Windows]
      /\ \A w \in Windows : w \in Int /\ s[w] \in Windows /\ z_order[s[w]] \in Int
  <2>1. \A w \in Windows : w \in Int
    BY <1>1 DEF Windows
  <2> QED
    BY <1>1, <2>1, Zenon DEF Complete
<1> HIDE DEF i, j, t
<1>5. ASSUME NEW a \in Windows, NEW b \in Windows, a < b
      PROVE  Turn(a, b) < k <=> a < i \/ (a = i /\ b < j)
  BY <1>1, <1>2, TurnOrder, Zenon
<1>6. ASSUME NEW a \in Windows, NEW b \in Windows, a < b
      PROVE  Turn(a, b) < k + 1 <=> a < i \/ (a = i /\ b <= j)
  BY <1>1, <1>2, TurnOrder, Zenon
<1>7. ASSUME NEW a \in Windows, NEW b \in Windows, a < b, a < i \/ (a = i /\ b < j)
      PROVE  z_order[s[a]] <= z_order[s[b]]
  BY <1>5, <1>7, Zenon DEF Ordered
<1>8. CASE i < j /\ z_order[s[i]] > z_order[s[j]]
  <2>1. \A w \in Windows : t[w] = IF w = i THEN s[j] ELSE IF w = j THEN s[i] ELSE s[w]
    BY <1>2, <1>3, <1>4, <1>8, Zenon
  <2>2. t \in [Windows -> Windows]
    BY <1>2, <1>3, <1>4, <1>8, Zenon
  <2>3. ASSUME NEW w \in Windows PROVE \E l \in Windows : t[l] = w
    <3>1. PICK l \in Windows : s[l] = w
      BY Zenon DEF Complete
    <3> QED
      BY <1>2, <1>4, <1>8, <2>1, <3>1, Zenon
  <2>4. ASSUME NEW a \in Windows, NEW b \in Windows, a < b, Turn(a, b) < k + 1
        PROVE  z_order[t[a]] <= z_order[t[b]]
    <3>1. CASE a < i
      <4>1. \A c \in {b, i, j} : z_order[s[a]] <= z_order[s[c]]
        BY <1>2, <1>4, <1>7, <1>8, <2>4, <3>1
      <4>2. t[a] = s[a] /\ t[b] \in {s[b], s[i], s[j]}
        BY <1>2, <1>4, <1>8, <2>1, <2>4, <3>1
      <4> QED
        BY <4>1, <4>2, Zenon
    <3>2. CASE a = i /\ b < j
      <4>1. t[a] = s[j] /\ t[b] = s[b]
        BY <1>2, <1>4, <1>8, <2>1, <2>4, <3>2
      <4>2. z_order[s[i]] <= z_order[s[b]]
        BY <1>7, <2>4, <3>2, Zenon
      <4> QED
        BY <1>2, <1>4, <1>8, <4>1, <4>2
    <3>3. CASE a = i /\ b = j
      <4>1. t[a] = s[j] /\ t[b] = s[i]
        BY <1>2, <1>4, <2>1, <2>4, <3>3, Zenon
      <4> QED
        BY <1>2, <1>4, <1>8, <4>1
    <3>4. a < i \/ (a = i /\ b <= j)
      BY <1>6, <2>4, Zenon
    <3> QED
      BY <1>2, <1>4, <3>1, <3>2, <3>3, <3>4
  <2> QED
    BY <2>2, <2>3, <2>4, Zenon DEF Complete, Ordered, t
<1>9. CASE ~(i < j /\ z_order[s[i]] > z_order[s[j]])
  <2>1. t = s
    BY <1>3, <1>9, Zenon
  <2>2. ASSUME NEW a \in Windows, NEW b \in Windows, a < b, Turn(a, b) < k + 1
        PROVE  z_order[s[a]] <= z_order[s[b]]
    <3>1. a < i \/ (a = i /\ b < j) \/ (a = i /\ b = j)
      <4>1. a < i \/ (a = i /\ b <= j)
        BY <1>6, <2>2
      <4>2. b \in Int /\ j \in Int
        BY <1>2, <1>4, Zenon
      <4> QED
        BY <4>1, <4>2
    <3>2. CASE a = i /\ b = j
      BY <1>2, <1>4, <1>9, <2>2, <3>2
    <3> QED
      BY <1>7, <2>2, <3>1, <3>2, Zenon
  <2> QED
    BY <2>1, <2>2, Zenon DEF Complete, Ordered, t
<1> QED
  BY <1>8, <1>9, Zenon

\* So it is after any number of them.
LEMMA SortedAfter ==
  ASSUME TypeOK
  PROVE  \A k \in 0 .. window_count * window_count : Complete(Sorting[k]) /\ Ordered(Sorting[k], k)
<1> DEFINE m == window_count * window_count
           T == {k \in 0 .. m : ~(Complete(Sorting[k]) /\ Ordered(Sorting[k], k))}
<1>1. window_count \in Nat /\ m \in Nat
  BY DEF TypeOK
<1> HIDE DEF m
<1> SUFFICES ASSUME T # {} PROVE FALSE
  BY Zenon DEF m
<1>2. PICK k \in T : \A y \in T : k <= y
  <2> T \in SUBSET Nat
    BY <1>1
  <2> HIDE DEF T
  <2> QED
    BY LeastNat, Zenon
<1>3. k \in 0 .. m /\ ~(Complete(Sorting[k]) /\ Ordered(Sorting[k], k))
  BY Zenon
<1>4. CASE k = 0
  <2>1. Sorting[0] = [i \in Windows |-> i]
    BY <1>1, SortingDef, Zenon DEF Start
  <2>2. Complete(Sorting[0])
    BY <2>1, Zenon DEF Complete
  <2>3. ASSUME NEW a \in Windows, NEW b \in Windows PROVE ~(Turn(a, b) < 0)
    BY <1>1, TurnOrder
  <2> QED
    BY <1>3, <1>4, <2>2, <2>3, Zenon DEF Ordered
<1>5. CASE k # 0
  <2>1. k - 1 \in 0 .. m - 1 /\ k - 1 \in 0 .. m /\ (k - 1) + 1 = k /\ ~(k <= k - 1)
    BY <1>1, <1>3, <1>5
  <2>2. Complete(Sorting[k - 1]) /\ Ordered(Sorting[k - 1], k - 1)
    BY <1>2, <2>1, Zenon
  <2>3. Sorting[k] = Compare(Sorting[k - 1], k - 1)
    BY <1>1, <2>1, SortingDef, Zenon DEF m
  <2>4. Complete(Compare(Sorting[k - 1], k - 1)) /\ Ordered(Compare(Sorting[k - 1], k - 1), (k - 1) + 1)
    BY <2>1, <2>2, CompareStep, Zenon DEF m
  <2> QED
    BY <1>3, <2>1, <2>3, <2>4, Zenon
<1> QED
  BY <1>4, <1>5, Zenon

\* Whatever the z_orders are, ties included, the render loop's comparisons end
\* with the windows in their order, for every number of windows.
LEMMA RenderSorts == TypeOK => PaintsBottomUp
<1> SUFFICES ASSUME TypeOK PROVE PaintsBottomUp
  BY Zenon
<1> DEFINE m == window_count * window_count
<1>1. window_count \in Nat /\ m \in 0 .. m
  BY DEF TypeOK
<1>2. Complete(PaintList) /\ Ordered(PaintList, m)
  BY <1>1, SortedAfter, Zenon DEF PaintList
<1>3. ASSUME NEW a \in Windows, NEW b \in Windows PROVE Turn(a, b) < m
  BY <1>1, TurnOrder
<1> HIDE DEF m
<1>4. ASSUME NEW a \in Windows, NEW b \in Windows, a < b
      PROVE  z_order[PaintList[a]] <= z_order[PaintList[b]]
  BY <1>2, <1>3, <1>4, Zenon DEF Ordered
<1>5. DOMAIN PaintList = Windows /\ \A i \in Windows : \E k \in Windows : PaintList[k] = i
  BY <1>2, Zenon DEF Complete
<1> QED
  BY <1>4, <1>5, Zenon DEF PaintsBottomUp

\* A render draws every window once and in the order of the z_orders: for every
\* size of the table and after any calls, also those of set_focus.
THEOREM PaintCorrect == Spec => []PaintsBottomUp
BY TypeCorrect, RenderSorts, PTL

\* The desktop uses the window manager through its own operations: what is
\* proved of the table and of rendering holds in kernel_main's desktop.
THEOREM DesktopUsesManager == DesktopSpec => Spec /\ []PaintsBottomUp
<1>1. DesktopInit => Init
  BY Zenon DEF DesktopInit
<1>2. [DesktopNext]_<<vars, desktopVars>> => [Next]_vars
  <2> SUFFICES ASSUME [DesktopNext]_<<vars, desktopVars>> PROVE [Next]_vars
    BY Zenon
  <2>1. CASE OpenGuiWindow \/ MouseClick
    BY <2>1, Zenon DEF OpenGuiWindow, MouseClick
  <2>2. CASE CreateManaged
    BY <2>2, Zenon DEF CreateManaged, Next, StackNext
  <2>3. CASE GuiRender
    BY <2>3, Zenon DEF GuiRender, Next, StackNext
  <2>4. ASSUME NEW p \in Points, NEW left \in BOOLEAN, NEW right \in BOOLEAN, NEW middle \in BOOLEAN,
               MouseEvent(p, left, right, middle)
        PROVE  UNCHANGED vars
    BY <2>4, Zenon DEF MouseEvent
  <2>5. CASE UNCHANGED <<vars, desktopVars>>
    BY <2>5, Zenon
  <2> QED
    BY <2>1, <2>2, <2>3, <2>4, <2>5, Zenon DEF DesktopNext
<1>3. DesktopSpec => Spec
  BY <1>1, <1>2, PTL DEF DesktopSpec, Spec
<1> QED
  BY <1>3, PaintCorrect, PTL

-------------------------------------------------------------------------------
(***************************************************************************)
(* The file operations (FileOps)                                           *)
(***************************************************************************)

\* How many members each set of a family has, and what a member more or less does.
Counts(N) == [f \in DOMAIN N |-> Cardinality(N[f])]

LEMMA CountsRemove ==
  ASSUME NEW N, NEW e \in DOMAIN N, IsFiniteSet(N[e]), NEW i \in N[e]
  PROVE  Counts([N EXCEPT ![e] = N[e] \ {i}]) = [Counts(N) EXCEPT ![e] = @ - 1]
<1>1. Cardinality(N[e] \ {i}) = Cardinality(N[e]) - 1
  BY FS_RemoveElement, Zenon
<1> QED
  BY <1>1, Zenon DEF Counts

LEMMA CountsAdd ==
  ASSUME NEW N, NEW e \in DOMAIN N, IsFiniteSet(N[e]), NEW i, i \notin N[e]
  PROVE  Counts([N EXCEPT ![e] = N[e] \cup {i}]) = [Counts(N) EXCEPT ![e] = @ + 1]
<1>1. Cardinality(N[e] \cup {i}) = Cardinality(N[e]) + 1
  BY FS_AddElement, Zenon
<1> QED
  BY <1>1, Zenon DEF Counts

FileTypes ==
  /\ file_table \in Seq([path : Paths, is_directory : BOOLEAN, exists : BOOLEAN])
  /\ Len(file_table) <= MAX_FILES

\* The entries of each file, by path and kind; the bag counts them.
NamedEntries == [f \in Paths \X {"file", "directory"} |-> Named(f[1], f[2])]

LEMMA FilesCounts ==
  ASSUME FileTypes
  PROVE  /\ Files = Counts(NamedEntries)
         /\ DOMAIN NamedEntries = Paths \X {"file", "directory"}
         /\ \A f \in DOMAIN NamedEntries : IsFiniteSet(NamedEntries[f])
<1>1. Files = Counts(NamedEntries)
  BY Zenon DEF Files, Counts, NamedEntries
<1>2. DOMAIN file_table = 1 .. Len(file_table) /\ Len(file_table) \in Nat
  BY LenProperties, Zenon DEF FileTypes
<1>3. IsFiniteSet(1 .. Len(file_table))
  BY <1>2, FS_Interval
<1>4. \A f \in DOMAIN NamedEntries : NamedEntries[f] \subseteq 1 .. Len(file_table)
  BY <1>2, Zenon DEF NamedEntries, Named
<1>5. \A f \in DOMAIN NamedEntries : IsFiniteSet(NamedEntries[f])
  BY <1>3, <1>4, FS_Subset, Zenon
<1> QED
  BY <1>1, <1>5, Zenon DEF NamedEntries

\* The loops find an entry exactly if there is a file of that path.
LEMMA EntryFinds ==
  ASSUME FileTypes, NEW p \in Paths
  PROVE  /\ Entry(p) = {} => ~B!IsThere(p)
         /\ \A i \in Entry(p) : LET k == Kind(file_table[i])
                                IN  /\ i \in 1 .. Len(file_table) /\ k \in {"file", "directory"}
                                    /\ i \in Named(p, k) /\ Files[<<p, k>>] > 0
<1>1. DOMAIN file_table = 1 .. Len(file_table) /\ Len(file_table) \in Nat
  BY LenProperties, Zenon DEF FileTypes
<1>2. ASSUME NEW k \in {"file", "directory"}
      PROVE  Files[<<p, k>>] > 0 <=> Named(p, k) # {}
  <2>1. Files[<<p, k>>] = Cardinality(Named(p, k)) /\ IsFiniteSet(Named(p, k))
    <3>1. <<p, k>> \in Paths \X {"file", "directory"} /\ <<p, k>>[1] = p /\ <<p, k>>[2] = k
      OBVIOUS
    <3>2. Files[<<p, k>>] = Cardinality(Named(p, k)) /\ NamedEntries[<<p, k>>] = Named(p, k)
      BY <3>1, Zenon DEF Files, NamedEntries
    <3> QED
      BY <3>1, <3>2, FilesCounts, Zenon
  <2> QED
    BY <2>1, FS_CardinalityType, FS_EmptySet
<1>3. ASSUME Entry(p) = {}, NEW k \in {"file", "directory"} PROVE Named(p, k) = {}
  <2> DEFINE T == {i \in DOMAIN file_table : Has(file_table[i], p)}
  <2>1. T \in SUBSET Nat
    BY <1>1
  <2>2. T = {}
    <3> SUFFICES ASSUME T # {} PROVE FALSE
      BY Zenon
    <3>1. PICK i \in T : \A j \in T : i <= j
      BY <2>1, LeastNat, Zenon
    <3>2. \A j \in 1 .. i - 1 : ~Has(file_table[j], p)
      BY <1>1, <3>1
    <3> QED
      BY <1>3, <3>1, <3>2, Zenon DEF Entry
  <2> QED
    BY <2>2, Zenon DEF Named, Has
<1>4. ASSUME NEW i \in Entry(p)
      PROVE  LET k == Kind(file_table[i])
             IN  /\ i \in 1 .. Len(file_table) /\ k \in {"file", "directory"}
                 /\ i \in Named(p, k)
  BY <1>1, Zenon DEF Entry, Has, Named, Kind
<1> QED
  BY <1>2, <1>3, <1>4, Zenon DEF B!IsThere, B!Kinds

\* A call that fails leaves the files and the table alone.
LEMMA FailsMatch ==
  ASSUME FileTypes, UNCHANGED file_table, file_result' = -1
  PROVE  B!Fails
BY Zenon DEF B!Fails, Files, Named, Kind

\* The file of entry i goes: it was one of those with its path and kind.
LEMMA EntryGoes ==
  ASSUME FileTypes, NEW p \in Paths, NEW i \in Entry(p),
         file_table' = [file_table EXCEPT ![i].exists = FALSE]
  PROVE  /\ FileTypes' /\ Len(file_table') = Len(file_table)
         /\ LET k == Kind(file_table[i])
            IN  NamedEntries' = [NamedEntries EXCEPT ![<<p, k>>] = NamedEntries[<<p, k>>] \ {i}]
<1> DEFINE k == Kind(file_table[i])
           Entries == [path : Paths, is_directory : BOOLEAN, exists : BOOLEAN]
<1>1. /\ file_table \in Seq(Entries) /\ Len(file_table) \in Nat /\ Len(file_table) <= MAX_FILES
      /\ DOMAIN file_table = 1 .. Len(file_table)
  BY LenProperties, Zenon DEF FileTypes
<1>2. i \in 1 .. Len(file_table) /\ k \in {"file", "directory"} /\ i \in Named(p, k)
  BY EntryFinds, Zenon
<1>3. [file_table[i] EXCEPT !.exists = FALSE] \in Entries /\ file_table[i] \in Entries
  <2>1. file_table[i] \in Entries
    BY <1>1, <1>2, ElementOfSeq, Zenon
  <2> QED
    BY <2>1, Zenon
<1>4. /\ file_table' \in Seq(Entries) /\ Len(file_table') = Len(file_table)
      /\ \A j \in 1 .. Len(file_table) :
           file_table'[j] = IF j = i THEN [file_table[i] EXCEPT !.exists = FALSE] ELSE file_table[j]
  BY <1>1, <1>2, <1>3, ExceptSeq
<1>5. DOMAIN file_table' = 1 .. Len(file_table)
  BY <1>4, LenProperties, Zenon
<1>6. \A q \in Paths, l \in {"file", "directory"} :
        Named(q, l)' = IF <<q, l>> = <<p, k>> THEN Named(q, l) \ {i} ELSE Named(q, l)
  <2> TAKE q \in Paths, l \in {"file", "directory"}
  <2>1. ~file_table'[i].exists
    BY <1>2, <1>3, <1>4, Zenon
  <2>2. i \in Named(q, l) => q = p /\ l = k
    BY <1>2, Zenon DEF Named
  <2>3. \A j \in 1 .. Len(file_table) : j \in Named(q, l)' <=> j \in Named(q, l) /\ j # i
    BY <1>1, <1>4, <1>5, <2>1, Zenon DEF Named, Kind
  <2>4. Named(q, l)' \subseteq 1 .. Len(file_table) /\ Named(q, l) \subseteq 1 .. Len(file_table)
    BY <1>1, <1>5, Zenon DEF Named
  <2>5. Named(q, l)' = Named(q, l) \ {i}
    BY <2>3, <2>4, Zenon
  <2> QED
    BY <2>2, <2>5, Zenon
<1> HIDE DEF k
<1>7. NamedEntries' = [NamedEntries EXCEPT ![<<p, k>>] = NamedEntries[<<p, k>>] \ {i}]
  <2>1. \A f \in Paths \X {"file", "directory"} :
          Named(f[1], f[2])' = IF f = <<p, k>> THEN Named(p, k) \ {i} ELSE Named(f[1], f[2])
    BY <1>6
  <2>2. <<p, k>> \in Paths \X {"file", "directory"}
    BY <1>2, Zenon
  <2> QED
    BY <2>1, <2>2, Zenon DEF NamedEntries
<1> QED
  BY <1>1, <1>4, <1>7, Zenon DEF FileTypes, k

LEMMA DeleteMatches ==
  ASSUME FileTypes, NEW p \in Paths, Delete(p)
  PROVE  FileTypes' /\ B!Delete(p)
<1>1. CASE FileNotFound(p)
  <2>1. B!Fails /\ ~B!IsThere(p)
    BY <1>1, FailsMatch, EntryFinds, Zenon DEF FileNotFound, Returns
  <2> QED
    BY <1>1, <2>1, Zenon DEF B!Delete, FileNotFound, FileTypes
<1>2. ASSUME NEW i \in Entry(p), file_table' = [file_table EXCEPT ![i].exists = FALSE], Returns(0)
      PROVE  FileTypes' /\ B!Delete(p)
  <2> DEFINE k == Kind(file_table[i])
             N == NamedEntries
  <2>1. k \in {"file", "directory"} /\ i \in Named(p, k) /\ Files[<<p, k>>] > 0
    BY EntryFinds, Zenon
  <2>2. /\ FileTypes' /\ Len(file_table') = Len(file_table)
        /\ NamedEntries' = [N EXCEPT ![<<p, k>>] = N[<<p, k>>] \ {i}]
    BY <1>2, EntryGoes, Zenon
  <2>3. /\ Files = Counts(N) /\ <<p, k>> \in DOMAIN N /\ \A f \in DOMAIN N : IsFiniteSet(N[f])
    BY <2>1, FilesCounts, Zenon
  <2>4. Files' = Counts(NamedEntries')
    <3>1. FileTypes' => (Files = Counts(NamedEntries))'
      BY FilesCounts, PTL
    <3> QED
      BY <2>2, <3>1, Zenon DEF Counts
  <2>5. i \in N[<<p, k>>]
    BY <2>1, <2>3, Zenon DEF NamedEntries
  <2> HIDE DEF k, N
  <2>6. Files' = [Files EXCEPT ![<<p, k>>] = @ - 1]
    BY <2>2, <2>3, <2>4, <2>5, CountsRemove, Zenon
  <2> QED
    BY <1>2, <2>1, <2>2, <2>6, Zenon DEF B!Delete, B!Kinds, Returns
<1> QED
  BY <1>1, <1>2, Zenon DEF Delete

\* A new entry at the end of the table is a file more of its path and kind.
LEMMA EntryComes ==
  ASSUME FileTypes, ~Full, NEW e \in [path : Paths, is_directory : BOOLEAN, exists : BOOLEAN],
         e.exists, file_table' = Append(file_table, e)
  PROVE  FileTypes' /\ B!Add(e.path, Kind(e))
<1> DEFINE k == Kind(e)
           p == e.path
           i == Len(file_table) + 1
           N == NamedEntries
           Entries == [path : Paths, is_directory : BOOLEAN, exists : BOOLEAN]
<1>1. /\ file_table \in Seq(Entries) /\ Len(file_table) \in Nat
      /\ DOMAIN file_table = 1 .. Len(file_table)
  BY LenProperties, Zenon DEF FileTypes
<1>2. /\ file_table' \in Seq(Entries) /\ Len(file_table') = i
      /\ \A j \in 1 .. Len(file_table) : file_table'[j] = file_table[j]
      /\ file_table'[i] = e
  BY <1>1, AppendProperties
<1>3. DOMAIN file_table' = 1 .. i /\ FileTypes'
  <2>1. DOMAIN file_table' = 1 .. i
    BY <1>2, LenProperties, Zenon
  <2>2. i <= MAX_FILES
    BY <1>1, FileAssumption DEF Full
  <2> QED
    BY <1>2, <2>1, <2>2, Zenon DEF FileTypes
<1>4. p \in Paths /\ k \in {"file", "directory"}
  BY Zenon DEF Kind
<1>5. \A q \in Paths, l \in {"file", "directory"} :
        Named(q, l)' = IF q = p /\ l = k THEN Named(q, l) \cup {i} ELSE Named(q, l)
  <2> TAKE q \in Paths, l \in {"file", "directory"}
  <2>1. \A j \in 1 .. Len(file_table) : j \in Named(q, l)' <=> j \in Named(q, l)
    BY <1>1, <1>2, <1>3 DEF Named, Kind
  <2>2. i \in Named(q, l)' <=> q = p /\ l = k
    BY <1>1, <1>2, <1>3 DEF Named, Kind
  <2>3. Named(q, l)' \subseteq 1 .. i /\ Named(q, l) \subseteq 1 .. Len(file_table)
    BY <1>1, <1>3, Zenon DEF Named
  <2>4. \A j \in 1 .. i : j \in 1 .. Len(file_table) \/ j = i
    BY <1>1
  <2> HIDE DEF i, p, k
  <2>5. CASE q = p /\ l = k
    BY <2>1, <2>2, <2>3, <2>4, <2>5, Zenon
  <2>6. CASE ~(q = p /\ l = k)
    <3>1. \A j : j \in Named(q, l)' <=> j \in Named(q, l)
      BY <2>1, <2>2, <2>3, <2>4, <2>6, Zenon
    <3> QED
      BY <2>6, <3>1, Zenon
  <2> QED
    BY <2>5, <2>6, Zenon
<1>6. i \notin Named(p, k)
  BY <1>1 DEF Named
<1>7. N' = [N EXCEPT ![<<p, k>>] = N[<<p, k>>] \cup {i}]
  <2>1. \A f \in Paths \X {"file", "directory"} :
          Named(f[1], f[2])' = IF f = <<p, k>> THEN Named(p, k) \cup {i} ELSE Named(f[1], f[2])
    BY <1>5
  <2> HIDE DEF k, p, i
  <2> QED
    BY <1>4, <2>1, Zenon DEF NamedEntries
<1>8. /\ Files = Counts(N) /\ <<p, k>> \in DOMAIN N /\ i \notin N[<<p, k>>]
      /\ \A f \in DOMAIN N : IsFiniteSet(N[f])
  BY <1>4, <1>6, FilesCounts, Zenon DEF NamedEntries
<1>9. Files' = Counts(NamedEntries')
  <2>1. FileTypes' => (Files = Counts(NamedEntries))'
    BY FilesCounts, PTL
  <2> QED
    BY <1>3, <2>1, Zenon DEF Counts
<1> HIDE DEF k, p, i, N
<1>10. Files' = [Files EXCEPT ![<<p, k>>] = @ + 1]
  BY <1>7, <1>8, <1>9, CountsAdd, Zenon DEF N
<1> QED
  BY <1>2, <1>3, <1>10, Zenon DEF B!Add, k, p, i

LEMMA NoRoomMatches ==
  ASSUME FileTypes, NoRoom
  PROVE  FileTypes' /\ Len(file_table) = MAX_FILES /\ B!Fails
<1>1. Len(file_table) = MAX_FILES
  <2>1. Len(file_table) \in Nat
    BY LenProperties, Zenon DEF FileTypes
  <2> QED
    BY <2>1, FileAssumption DEF FileTypes, NoRoom, Full
<1> QED
  BY <1>1, FailsMatch, Zenon DEF NoRoom, Returns, FileTypes

LEMMA MkdirMatches ==
  ASSUME FileTypes, NEW p \in Paths, Mkdir(p)
  PROVE  FileTypes' /\ B!MakeDirectory(p)
<1>1. CASE NoRoom
  BY <1>1, NoRoomMatches, Zenon DEF B!MakeDirectory
<1>2. CASE /\ ~Full /\ Returns(0)
           /\ file_table' = Append(file_table, [path |-> p, is_directory |-> TRUE, exists |-> TRUE])
  <2> DEFINE e == [path |-> p, is_directory |-> TRUE, exists |-> TRUE]
  <2>1. /\ e \in [path : Paths, is_directory : BOOLEAN, exists : BOOLEAN]
        /\ e.exists /\ e.path = p /\ Kind(e) = "directory"
    BY Zenon DEF Kind
  <2>2. Len(file_table) < MAX_FILES
    <3>1. Len(file_table) \in Nat
      BY LenProperties, Zenon DEF FileTypes
    <3> QED
      BY <1>2, <3>1, FileAssumption DEF Full
  <2>3. file_table' = Append(file_table, e)
    BY <1>2, Zenon
  <2> HIDE DEF e
  <2>4. FileTypes' /\ B!Add(p, "directory")
    BY <1>2, <2>1, <2>3, EntryComes, Zenon
  <2> QED
    BY <1>2, <2>2, <2>4, Zenon DEF B!MakeDirectory, Returns
<1> QED
  BY <1>1, <1>2, Zenon DEF Mkdir

LEMMA CopyMatches ==
  ASSUME FileTypes, NEW p \in Paths, NEW q \in Paths, Copy(p, q)
  PROVE  FileTypes' /\ B!Copy(p, q)
<1>1. CASE FileNotFound(p)
  <2>1. B!Fails /\ ~B!IsThere(p)
    BY <1>1, FailsMatch, EntryFinds, Zenon DEF FileNotFound, Returns
  <2> QED
    BY <1>1, <2>1, Zenon DEF B!Copy, FileNotFound, FileTypes
<1>2. CASE NoRoom
  BY <1>2, NoRoomMatches, Zenon DEF B!Copy
<1>3. ASSUME NEW i \in Entry(p), ~Full, Returns(0),
             file_table' = Append(file_table, [file_table[i] EXCEPT !.path = q])
      PROVE  FileTypes' /\ B!Copy(p, q)
  <2> DEFINE e == [file_table[i] EXCEPT !.path = q]
             k == Kind(file_table[i])
  <2>1. /\ i \in 1 .. Len(file_table) /\ k \in {"file", "directory"}
        /\ i \in Named(p, k) /\ Files[<<p, k>>] > 0
    BY EntryFinds, Zenon
  <2>2. file_table[i] \in [path : Paths, is_directory : BOOLEAN, exists : BOOLEAN]
    BY <2>1, ElementOfSeq, Zenon DEF FileTypes
  <2>3. /\ e \in [path : Paths, is_directory : BOOLEAN, exists : BOOLEAN]
        /\ e.exists /\ e.path = q /\ Kind(e) = k
    BY <2>1, <2>2, Zenon DEF Named, Kind
  <2>4. Len(file_table) < MAX_FILES
    <3>1. Len(file_table) \in Nat
      BY LenProperties, Zenon DEF FileTypes
    <3> QED
      BY <1>3, <3>1, FileAssumption DEF Full
  <2>5. file_table' = Append(file_table, e)
    BY <1>3, Zenon
  <2> HIDE DEF e, k
  <2>6. FileTypes' /\ B!Add(q, k)
    BY <1>3, <2>3, <2>5, EntryComes, Zenon
  <2> QED
    BY <1>3, <2>1, <2>4, <2>6, Zenon DEF B!Copy, B!Kinds, Returns
<1> QED
  BY <1>1, <1>2, <1>3, Zenon DEF Copy

\* The file of entry i goes from one path to another, which may be the same.
LEMMA EntryMoves ==
  ASSUME FileTypes, NEW p \in Paths, NEW q \in Paths, NEW i \in Entry(p),
         file_table' = [file_table EXCEPT ![i].path = q]
  PROVE  /\ FileTypes' /\ Len(file_table') = Len(file_table)
         /\ LET k == Kind(file_table[i])
                without == [NamedEntries EXCEPT ![<<p, k>>] = NamedEntries[<<p, k>>] \ {i}]
            IN  /\ NamedEntries' = [without EXCEPT ![<<q, k>>] = without[<<q, k>>] \cup {i}]
                /\ i \notin without[<<q, k>>]
<1> DEFINE k == Kind(file_table[i])
           Entries == [path : Paths, is_directory : BOOLEAN, exists : BOOLEAN]
           moved == [file_table[i] EXCEPT !.path = q]
           without == [NamedEntries EXCEPT ![<<p, k>>] = NamedEntries[<<p, k>>] \ {i}]
<1>1. /\ file_table \in Seq(Entries) /\ Len(file_table) \in Nat /\ Len(file_table) <= MAX_FILES
      /\ DOMAIN file_table = 1 .. Len(file_table)
  BY LenProperties, Zenon DEF FileTypes
<1>2. i \in 1 .. Len(file_table) /\ k \in {"file", "directory"} /\ i \in Named(p, k)
  BY EntryFinds, Zenon
<1>3. /\ moved \in Entries /\ moved.path = q /\ Kind(moved) = k /\ moved.exists
  <2>1. file_table[i] \in Entries
    BY <1>1, <1>2, ElementOfSeq, Zenon
  <2> QED
    BY <1>2, <2>1, Zenon DEF Kind, Named
<1> HIDE DEF moved
<1>4. /\ file_table' \in Seq(Entries) /\ Len(file_table') = Len(file_table)
      /\ \A j \in 1 .. Len(file_table) :
           file_table'[j] = IF j = i THEN moved ELSE file_table[j]
  <2>1. file_table' = [file_table EXCEPT ![i] = moved]
    BY Zenon DEF moved
  <2>2. moved \in Entries
    BY <1>3, Zenon
  <2> HIDE DEF Entries
  <2> QED
    BY <1>1, <1>2, <2>1, <2>2, ExceptSeq
<1>5. DOMAIN file_table' = 1 .. Len(file_table)
  BY <1>4, LenProperties, Zenon
<1>6. \A r \in Paths, l \in {"file", "directory"} :
        /\ i \in Named(r, l) => r = p /\ l = k
        /\ Named(r, l)' = IF r = q /\ l = k THEN (Named(r, l) \ {i}) \cup {i} ELSE Named(r, l) \ {i}
  <2> TAKE r \in Paths, l \in {"file", "directory"}
  <2>1. i \in Named(r, l)' <=> r = q /\ l = k
    BY <1>2, <1>3, <1>4, <1>5, Zenon DEF Named, Kind
  <2>2. i \in Named(r, l) => r = p /\ l = k
    BY <1>2, Zenon DEF Named
  <2>3. \A j \in 1 .. Len(file_table) : j # i => (j \in Named(r, l)' <=> j \in Named(r, l))
    BY <1>1, <1>4, <1>5, Zenon DEF Named, Kind
  <2>4. Named(r, l)' \subseteq 1 .. Len(file_table) /\ Named(r, l) \subseteq 1 .. Len(file_table)
    BY <1>1, <1>5, Zenon DEF Named
  <2> QED
    BY <2>1, <2>2, <2>3, <2>4, Zenon
<1> HIDE DEF k
<1>7. /\ NamedEntries' = [without EXCEPT ![<<q, k>>] = without[<<q, k>>] \cup {i}]
      /\ i \notin without[<<q, k>>]
  <2> DEFINE PK == Paths \X {"file", "directory"}
  <2>1. <<p, k>> \in PK /\ <<q, k>> \in PK
    BY <1>2, Zenon
  <2>2. \A f \in PK : f = <<f[1], f[2]>> /\ f[1] \in Paths /\ f[2] \in {"file", "directory"}
    OBVIOUS
  <2>3. DOMAIN without = PK /\ \A f \in PK : without[f] = Named(f[1], f[2]) \ {i}
    <3>1. \A f \in PK : f # <<p, k>> => i \notin Named(f[1], f[2])
      BY <1>6, <2>2, Zenon
    <3> QED
      BY <2>1, <3>1, Zenon DEF NamedEntries
  <2> HIDE DEF without
  <2>4. \A f \in PK : Named(f[1], f[2])' = IF f = <<q, k>> THEN without[f] \cup {i} ELSE without[f]
    <3> TAKE f \in PK
    <3>1. f[1] = q /\ f[2] = k <=> f = <<q, k>>
      BY <2>2
    <3>2. without[f] = Named(f[1], f[2]) \ {i}
      BY <2>3, Zenon
    <3> HIDE DEF PK
    <3>3. f[1] \in Paths /\ f[2] \in {"file", "directory"}
      BY <2>2, Zenon
    <3> QED
      BY <1>6, <3>1, <3>2, <3>3, Zenon
  <2>5. NamedEntries' = [f \in PK |-> Named(f[1], f[2])']
    BY Zenon DEF NamedEntries
  <2> QED
    BY <2>1, <2>3, <2>4, <2>5, Zenon
<1> QED
  BY <1>1, <1>4, <1>7, Zenon DEF FileTypes, k

LEMMA MoveMatches ==
  ASSUME FileTypes, NEW p \in Paths, NEW q \in Paths, Move(p, q)
  PROVE  FileTypes' /\ B!Move(p, q)
<1>1. CASE FileNotFound(p)
  <2>1. B!Fails /\ ~B!IsThere(p)
    BY <1>1, FailsMatch, EntryFinds DEF FileNotFound, Returns
  <2> QED
    BY <1>1, <2>1, Zenon DEF B!Move, FileNotFound, FileTypes
<1>2. ASSUME NEW i \in Entry(p), file_table' = [file_table EXCEPT ![i].path = q], Returns(0)
      PROVE  FileTypes' /\ B!Move(p, q)
  <2> DEFINE k == Kind(file_table[i])
             N == NamedEntries
             Less == [N EXCEPT ![<<p, k>>] = N[<<p, k>>] \ {i}]
  <2>1. k \in {"file", "directory"} /\ i \in Named(p, k) /\ Files[<<p, k>>] > 0
    BY EntryFinds, Zenon
  <2>2. /\ FileTypes' /\ Len(file_table') = Len(file_table)
        /\ NamedEntries' = [Less EXCEPT ![<<q, k>>] = Less[<<q, k>>] \cup {i}]
        /\ i \notin Less[<<q, k>>]
    BY <1>2, EntryMoves, Zenon
  <2>3. /\ Files = Counts(N) /\ <<p, k>> \in DOMAIN N /\ <<q, k>> \in DOMAIN N
        /\ \A f \in DOMAIN N : IsFiniteSet(N[f])
    BY <2>1, FilesCounts, Zenon
  <2>4. Files' = Counts(NamedEntries')
    <3>1. FileTypes' => (Files = Counts(NamedEntries))'
      BY FilesCounts, PTL
    <3> QED
      BY <2>2, <3>1, Zenon DEF Counts
  <2>5. i \in N[<<p, k>>]
    BY <2>1, <2>3, Zenon DEF NamedEntries
  <2> HIDE DEF k, N
  <2>6. Counts(Less) = [Files EXCEPT ![<<p, k>>] = @ - 1]
    BY <2>3, <2>5, CountsRemove, Zenon
  <2>7. DOMAIN Less = DOMAIN N /\ \A f \in DOMAIN Less : IsFiniteSet(Less[f])
    BY <2>3, <2>5, FS_RemoveElement, Zenon
  <2> HIDE DEF Less
  <2>8. Counts(NamedEntries') = [Counts(Less) EXCEPT ![<<q, k>>] = @ + 1]
    BY <2>2, <2>3, <2>7, CountsAdd, Zenon
  <2>9. LET taken == [Files EXCEPT ![<<p, k>>] = @ - 1]
        IN  Files' = [taken EXCEPT ![<<q, k>>] = @ + 1]
    BY <2>4, <2>6, <2>8, Zenon
  <2> QED
    BY <1>2, <2>1, <2>2, <2>9, Zenon DEF B!Move, B!Kinds, Returns
<1> QED
  BY <1>1, <1>2, Zenon DEF Move

\* Whatever paths there are and however large the table is, delete_file,
\* copy_file, make_directory and move_file do to the bag of files what they
\* promise, also when a path is in the table several times.
THEOREM FileRefinement == FileSpec => ImplementsFileBag
<1>1. FileInit => FileTypes /\ B!Init
  <2> SUFFICES ASSUME FileInit PROVE FileTypes /\ B!Init
    BY Zenon
  <2>1. file_table = << >> /\ Len(file_table) = 0 /\ DOMAIN file_table = {}
    BY EmptySeq DEF FileInit
  <2>2. FileTypes
    BY <2>1, EmptySeq, FileAssumption DEF FileTypes
  <2>3. \A p, k : Named(p, k) = {}
    BY <2>1, Zenon DEF Named
  <2>4. Files = [f \in Paths \X B!Kinds |-> 0]
    BY <2>3, FS_EmptySet, Zenon DEF Files, B!Kinds
  <2> QED
    BY <2>1, <2>2, <2>4, Zenon DEF FileInit, B!Init
<1>2. FileTypes /\ [FileNext]_fileVars => FileTypes' /\ [B!Next]_(B!vars) /\ [FileCallMatches]_fileVars
  <2> SUFFICES ASSUME FileTypes, [FileNext]_fileVars
               PROVE  FileTypes' /\ [B!Next]_(B!vars) /\ FileCallMatches
    BY Zenon
  <2>1. FileCallMatches
    BY DeleteMatches, CopyMatches, MkdirMatches, MoveMatches, Zenon DEF FileCallMatches
  <2>2. CASE UNCHANGED fileVars
    BY <2>1, <2>2, Zenon DEF fileVars, FileTypes, B!vars, Files, Named, Kind
  <2>3. CASE FileNext
    BY <2>1, <2>3, DeleteMatches, CopyMatches, MkdirMatches, MoveMatches, Zenon DEF FileNext, B!Next
  <2> QED
    BY <2>2, <2>3, Zenon
<1> QED
  BY <1>1, <1>2, PTL DEF FileSpec, ImplementsFileBag, B!Spec

===============================================================================
