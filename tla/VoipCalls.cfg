SPECIFICATION Spec
CONSTANTS
  r1 = r1
  r2 = r2
  k1 = k1
  None = None
  Rooms <- MCRooms
  CallIds <- MCCallIds
  Scenarios <- CallScenarios
  GenMod = 3
  ClosedSlots = 1
  QueueCap = 1
  RtcCap = 2
INVARIANTS TypeOK AudioOnlyActive WaitHasDeadline HangupTold
PROPERTIES LifeSpec
