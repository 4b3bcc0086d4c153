SPECIFICATION MCSpec
CONSTANTS
  SIZE = 4
  Values = {v1, v2}
  NONE = NONE
  MAX_FILES = 4
  Paths = {"a", "b"}
  BUSES <- MCBuses
  DEVICES = 2
  FUNCTIONS = 3
  Boards <- MCBoards
  PIT_FREQUENCY = 1193180
  DIVISOR_LIMIT = 65536
  Tones <- MCTones
INVARIANT TakesFirst
PROPERTIES ImplementsQueue ImplementsFileBag
