SPECIFICATION MCSpec
CONSTANTS
  MAX_WINDOWS = 4
  screen_width = 80
  screen_height = 24
  GUI_MAX_WINDOWS = 6
  GUI_MAX_TASKBAR = 8
  GuiWindows <- MCGuiWindows
  ManagedWindows <- MCManagedWindows
  Points <- MCPoints
INVARIANTS PaintsBottomUp LaunchedOnce
PROPERTY LabelsAct
