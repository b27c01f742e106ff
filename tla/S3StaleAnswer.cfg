SPECIFICATION Spec
CONSTANTS
  MaxCalls = 2
  Scenarios <- StaleScenarios
  WorkCap = 1
  InboxCap = 2
PROPERTIES AnsweredAsAsked
CHECK_DEADLOCK FALSE
