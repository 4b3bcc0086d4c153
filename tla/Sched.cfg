SPECIFICATION FairSpec
CONSTANTS
  MAX_TASKS = 6
  SERVICE_COUNT = 3
  Apps = {a1, a2}
INVARIANTS StacksExclusive StatesAgree
PROPERTIES ImplementsRoundRobin TurnsComeRound RequestServed
