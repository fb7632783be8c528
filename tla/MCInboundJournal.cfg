SPECIFICATION Spec
CONSTANTS
  Message = {m1, m2, m3}
  Owner = {o1, o2}
  MaxRecords = 2
  MaxReplayBatch = 1
  MaxQuarantine = 1
  NoIndex = NoIndex
  MaxClaims = 3
  MaxFaults = 2
SYMMETRY Interchangeable
INVARIANTS
  DispatchedOnce
  ClaimFenced
  NoSilentLoss
  RecoveryNeverRefused
  RecentCompletionsRemembered
CHECK_DEADLOCK FALSE
