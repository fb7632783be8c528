SPECIFICATION Spec
CONSTANTS
  Cli = {c1}
  Poller = poller
  Child = child
  Topic = {"t1"}
  Dir = {"d1", "d2"}
  Cwd = "d1"
  CliCall <- MCCliCall
  NoLock = NoLock
  NoCard = NoCard
  MaxCalls = 2
  MaxInputs = 1
  MaxTries = 2
  MaxFaults = 1
INVARIANTS
  TypeOK
  HolderOwnsLock
  NoLostChange
  OwnWritesTurnNoneAway
PROPERTIES
  HandlerReturns
  CacheCatchesUp
CHECK_DEADLOCK FALSE
