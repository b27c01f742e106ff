SPECIFICATION FairSpec
CONSTANTS
  MaxCalls = 2
  Scenarios <- CallScenarios
  WorkCap = 1
  InboxCap = 2
INVARIANTS TypeOK NoConnectionLeft AudioWithItsCall PendingIsServed
PROPERTIES WaitsEnd BecomesReady
CHECK_DEADLOCK FALSE
