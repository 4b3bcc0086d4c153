SPECIFICATION Spec
CONSTANTS
  MAX_TASKS = 1
  SERVICE_COUNT = 30
  Apps = {}
INVARIANT StatesAgree
