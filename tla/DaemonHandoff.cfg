SPECIFICATION Spec
CONSTANTS
  Message = {m1}
  Inject = {}
  Proc = {p1, p2}
  None = None
  AutoSteer = {TRUE}
  MaxSpawnAttempts = 2
  MaxOps = 1
  MaxFaults = 0
INVARIANT HandoffHolds
CHECK_DEADLOCK FALSE
