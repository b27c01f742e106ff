SPECIFICATION Spec
CONSTANTS
  MaxCalls = 2
  Scenarios <- LateScenarios
  WorkCap = 1
  InboxCap = 2
INVARIANTS ConnectionIsItsOwn
CHECK_DEADLOCK FALSE
