SPECIFICATION TrapsSpec
CONSTANTS
  Lines = {0, 1, 8, 15}
  Ids = {5}
  Args = {5, 60, 99, 1000}
  PID = 4
  KERNEL_SPACE_START = 1000
  RIP = 100
  USER_STACK = 300
  KERNEL_STACK = 400
  NULL = null
  JUNK = junk
INVARIANT NumberFromRax
