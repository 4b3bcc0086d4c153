SPECIFICATION MCSpec
CONSTANTS
  Lines = {0, 1, 8, 15}
  Ids = {5}
  Args = {5, 60, 99, 1000}
  PID = 4
  KERNEL_SPACE_START = 1000
  RIP = 100
  USER_STACK = 300
  KERNEL_STACK = 400
  NULL = null
  JUNK = junk
  KEY_SLOTS = 1
  EVENT_SLOTS = 1
  LINE = 2
  MAX_X = 1
  MAX_Y = 1
  START_X = 0
  START_Y = 0
  Moves <- MCMoves
INVARIANTS NothingLeftInService StackRestored TypeOK EventsWhole ShiftInStep
PROPERTIES TimerServed PortDrains
