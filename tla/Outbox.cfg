SPECIFICATION FairSpec
CONSTANTS
  Message = {m1, m2}
  Modes = {"shadow", "enforced"}
  MaxAttempts = 2
  MaxPending = 1
  MaxCompleted = 1
  MaxDead = 1
  MaxCalls = 2
  MaxFaults = 2
INVARIANTS
  TypeOK
  ShownAtMostOnce
  LimitsKept
PROPERTIES
  ResolvedForGood
  EventuallyResolved
CHECK_DEADLOCK FALSE
