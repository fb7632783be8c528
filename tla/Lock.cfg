SPECIFICATION Spec
CONSTANTS
  Process = {p1, p2, p3}
  NoOwner = NoOwner
  NoDir = NoDir
  MaxFaults = 2
INVARIANTS
  ExclusiveUnlessStolen
  LiveOwnerIsInside
PROPERTY DeadGiveWay
CHECK_DEADLOCK FALSE
