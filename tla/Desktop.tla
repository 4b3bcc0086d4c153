---------------------------------- MODULE Desktop ----------------------------------
(***************************************************************************)
(* The desktop: what gui_render draws, what a click does (gui.c), the two  *)
(* panels a click shows or hides (notifications.c, control_center.c) and   *)
(* the application launcher (app_launcher.c), with the window manager      *)
(* beneath.  Everything is drawn once, at the end of kernel_main's         *)
(* preparations; afterwards only clicks come, from the shell.              *)
(***************************************************************************)
EXTENDS WindowManager

CONSTANTS
  screen_width, screen_height,   \* gui_set_resolution
  GUI_MAX_WINDOWS, GUI_MAX_TASKBAR,
  GuiWindows,           \* the windows kernel_main opens, <<x, y, width, height>>
  ManagedWindows,       \* those it creates with the window manager
  Points                \* where clicks fall, <<x, y>>

Apps == {"Files", "Terminal", "Settings"}     \* app_registry
Panels == {"notifications", "control"}

VARIABLES
  stage,       \* how far kernel_main has come with the desktop
  gui,         \* [count, taskbar, active]: gui_window_count, taskbar_count, active_window
  desk,        \* [visible, apps, tasks]: visible panels, per application the PID
               \* or NONE while it does not run, and the tasks that were created
  drawn,       \* [visible, windows, menu]: the panels and the windows' rectangles
               \* gui_render drew, and whether a context menu came over them since
  clicked      \* the event the shell is at

NO_CLICK == [at |-> <<0, 0>>, left |-> FALSE, right |-> FALSE, middle |-> FALSE]

desktopVars == <<stage, gui, desk, drawn, clicked>>

DesktopInit ==
  /\ Init
  /\ stage = 0
  /\ gui = [count |-> 0, taskbar |-> 0, active |-> NONE]
  /\ desk = [visible |-> {}, apps |-> [a \in Apps |-> NONE], tasks |-> << >>]
  /\ drawn = [visible |-> {}, windows |-> {}, menu |-> FALSE]
  /\ clicked = NO_CLICK

-------------------------------------------------------------------------------
(***************************************************************************)
(* Drawing                                                                 *)
(***************************************************************************)
In(p, r) == p[1] >= r[1] /\ p[1] < r[1] + r[3] /\ p[2] >= r[2] /\ p[2] < r[2] + r[4]
Inner(r) == <<r[1] + 1, r[2] + 1, r[3] - 2, r[4] - 2>>
OnFrame(p, r) == In(p, r) /\ ~In(p, Inner(r))
Text(x, y, n) == <<x, y, n, 1>>

Label(does, at) == [does |-> does, at |-> at]

StatusLabels == {Label("notifications", Text(screen_width - 18, 0, 3)), Label("control", Text(screen_width - 10, 0, 3))}

IconLabels ==
  {Label("Files", Text(2, 2, 7)), Label("Terminal", Text(2, 4, 7)), Label("Settings", Text(2, 6, 7)),
   Label("Web", Text(14, 2, 7)), Label("Edit", Text(14, 4, 7))}

\* Mutant: the labels stand one row lower than the clicks are looked for.
TaskbarRowLow == screen_height - 4

TaskbarRow == screen_height - 6 + 1

\* One text of five labels, and two more at the right.
TaskbarLabels ==
  {Label("Files", Text(6, TaskbarRow, 7)), Label("Terminal", Text(14, TaskbarRow, 6)),
   Label("Settings", Text(21, TaskbarRow, 6)), Label("Web", Text(28, TaskbarRow, 5)),
   Label("Edit", Text(34, TaskbarRow, 6)),
   Label("notifications", Text(screen_width - 18, TaskbarRow, 7)), Label("control", Text(screen_width - 10, TaskbarRow, 6))}

Taskbar == <<4, screen_height - 6, screen_width - 8, 4>>

\* The launcher draws a frame and the three names, and leaves the rest.
Launcher == <<4, 16, 28, 8>>
OnLauncher(p) ==
  OnFrame(p, Launcher) \/ \E t \in {Text(6, 17, 5), Text(6, 18, 8), Text(6, 19, 8)} : In(p, t)

\* So do the two panels: a frame with six lines; a column of small cards, of
\* which only the welcome is posted when they are drawn.
ControlCenter == <<50, 2, 28, 14>>
NotificationCards == <<75, 2, 4, 3>>
OnPanels(p) ==
  \/ "control" \in drawn.visible /\ (OnFrame(p, ControlCenter) \/ In(p, <<52, 4, 15, 6>>))
  \/ "notifications" \in drawn.visible /\ In(p, NotificationCards)

LabelsAt(p, labels) == {l \in labels : In(p, l.at)}

\* What can be read at a point: gui_render draws the background, the status bar,
\* the icons, the windows, the taskbar, the panels and the launcher, each over
\* what was there before.
Seen(p) ==
  IF OnLauncher(p) \/ OnPanels(p) THEN {}
  ELSE IF In(p, Taskbar) THEN LabelsAt(p, TaskbarLabels)
  ELSE IF \E r \in drawn.windows : In(p, r) THEN {}
  ELSE LabelsAt(p, IconLabels \cup StatusLabels)

-------------------------------------------------------------------------------
(***************************************************************************)
(* kernel_main's preparations                                              *)
(***************************************************************************)
MinOf(a, b) == IF a < b THEN a ELSE b

\* gui_open_window.
OpenGuiWindow ==
  /\ stage \in 0 .. Len(GuiWindows) - 1
  /\ stage' = stage + 1
  /\ gui' = IF gui.count >= GUI_MAX_WINDOWS THEN gui
            ELSE [count |-> gui.count + 1, taskbar |-> MinOf(gui.taskbar + 1, GUI_MAX_TASKBAR),
                  active |-> IF gui.active = NONE THEN gui.count ELSE gui.active]
  /\ UNCHANGED <<vars, desk, drawn, clicked>>

CreateManaged ==
  /\ stage \in Len(GuiWindows) .. Len(GuiWindows) + Len(ManagedWindows) - 1
  /\ stage' = stage + 1
  /\ CreateWindow
  /\ UNCHANGED <<gui, desk, drawn, clicked>>

GuiRender ==
  /\ stage = Len(GuiWindows) + Len(ManagedWindows)
  /\ stage' = stage + 1
  /\ Render
  /\ drawn' = [visible |-> desk.visible, menu |-> FALSE,
               windows |-> {GuiWindows[k] : k \in 1 .. gui.count} \cup {ManagedWindows[k] : k \in Windows}]
  /\ UNCHANGED <<gui, desk, clicked>>

-------------------------------------------------------------------------------
(***************************************************************************)
(* Clicks                                                                  *)
(***************************************************************************)
Running == stage > Len(GuiWindows) + Len(ManagedWindows)

\* What the first of some areas around a point does.
FirstHit(p, areas, otherwise) ==
  LET hit == {k \in DOMAIN areas : In(p, areas[k].at)}
  IN  IF hit = {} THEN otherwise ELSE areas[CHOOSE k \in hit : \A j \in hit : k <= j].does

StatusAreas == << Label("notifications", <<screen_width - 18, 0, 3, 1>>),
                  Label("control", <<screen_width - 10, 0, 3, 1>>) >>
PanelAreas == << Label("notifications", <<screen_width - 18, screen_height - 5, 7, 1>>),
                 Label("control", <<screen_width - 10, screen_height - 5, 6, 1>>) >>
AppAreas == << Label("Files", <<6, screen_height - 5, 7, 1>>), Label("Terminal", <<14, screen_height - 5, 6, 1>>),
               Label("Settings", <<21, screen_height - 5, 6, 1>>), Label("Web", <<28, screen_height - 5, 5, 1>>),
               Label("Edit", <<34, screen_height - 5, 6, 1>>) >>
IconAreas == << Label("Files", <<2, 2, 7, 1>>), Label("Terminal", <<2, 4, 7, 1>>), Label("Settings", <<2, 6, 7, 1>>) >>

\* gui_handle_left_click; the icons for Web and Edit have no area.
LeftDoes(p) == FirstHit(p, StatusAreas \o PanelAreas \o AppAreas \o IconAreas, "nothing")

\* gui_handle_right_click: the taskbar's applications have none either, and
\* anywhere else a menu is drawn.
RightDoes(p) == FirstHit(p, StatusAreas \o IconAreas \o PanelAreas, "menu")

\* Mutant: an application is started whether it runs or not.
MayLaunchAgain(d, app) == app \in Apps

\* app_launch finds the application, and it is not running.
MayLaunch(d, app) == app \in Apps /\ d.apps[app] = NONE

\* notification_center_toggle, control_center_toggle.
Toggle(visible, panel) == IF panel \in visible THEN visible \ {panel} ELSE visible \cup {panel}

\* One of the handlers.  create_task may fail, when the task table is full.
Do(d, what, created) ==
  IF what \in Panels
  THEN [d EXCEPT !.visible = Toggle(@, what)]
  ELSE IF MayLaunch(d, what) /\ created
  THEN [d EXCEPT !.apps[what] = Len(d.tasks) + 1, !.tasks = Append(@, what)]
  ELSE d

\* The shell gets an event with a button pressed.
MouseEvent(p, left, right, middle) ==
  /\ Running /\ clicked = NO_CLICK
  /\ left \/ right \/ middle
  /\ clicked' = [at |-> p, left |-> left, right |-> right, middle |-> middle]
  /\ UNCHANGED <<vars, stage, gui, desk, drawn>>

\* draw_context_menu: where it is on the screen is not told apart.
DrawContextMenu(d) == [d EXCEPT !.menu = TRUE]

\* gui_handle_mouse_click.
MouseClick ==
  LET what == << IF clicked.left THEN LeftDoes(clicked.at) ELSE "nothing",
                 IF clicked.right THEN RightDoes(clicked.at) ELSE "nothing",
                 IF clicked.middle THEN "control" ELSE "nothing" >>
  IN  /\ clicked # NO_CLICK
      /\ \E first, second \in BOOLEAN :
           desk' = Do(Do(Do(desk, what[1], first), what[2], second), what[3], FALSE)
      /\ drawn' = IF what[2] = "menu" THEN DrawContextMenu(drawn) ELSE drawn
      /\ clicked' = NO_CLICK
      /\ UNCHANGED <<vars, stage, gui>>

DesktopNext ==
  \/ OpenGuiWindow \/ CreateManaged \/ GuiRender
  \/ \E p \in Points, left, right, middle \in BOOLEAN : MouseEvent(p, left, right, middle)
  \/ MouseClick

DesktopSpec == DesktopInit /\ [][DesktopNext]_<<vars, desktopVars>>

-------------------------------------------------------------------------------
(***************************************************************************)
(* Properties                                                              *)
(***************************************************************************)

\* The names of the labels that were drawn at a point, covered since or not.
Placed(p) == {l.does : l \in LabelsAt(p, StatusLabels \cup IconLabels \cup TaskbarLabels)}

\* A left click shows or hides exactly the panel whose label can be read where it
\* falls (as long as no context menu has been drawn over labels), and starts an
\* application only where a label of that application was drawn.  It may be
\* covered by now: a click goes through windows to the icons beneath, and through
\* the launcher's list, of which the word Settings lies on the taskbar's [Files].
\* Web and Edit have labels and are no applications.
LabelsAct ==
  [][clicked.left /\ ~clicked.right /\ ~clicked.middle =>
       LET read == {l.does : l \in Seen(clicked.at)}
           toggled == {p \in Panels : (p \in desk.visible) # (p \in desk'.visible)}
           started == {desk'.tasks[k] : k \in DOMAIN desk'.tasks \ DOMAIN desk.tasks}
       IN  /\ ~drawn.menu => toggled = read \cap Panels
           /\ started \subseteq Placed(clicked.at)]_<<vars, desktopVars>>

Started(d, app) == {k \in DOMAIN d.tasks : d.tasks[k] = app}

StartedOnce(d) ==
  \A a \in Apps : /\ \A j, k \in Started(d, a) : j = k
                  /\ IF Started(d, a) = {} THEN d.apps[a] = NONE ELSE d.apps[a] \in Started(d, a)

\* However clicks with one or more buttons follow each other, an application is
\* started at most once, and the launcher keeps the PID of the task it started.
LaunchedOnce == StartedOnce(desk)

===============================================================================
