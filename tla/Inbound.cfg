SPECIFICATION FairDeliverySpec
CONSTANTS
  Message <- ThreeUpdates
  Owner <- OnePoller
  MaxRecords = 2
  MaxReplayBatch = 2
  MaxQuarantine = 1
  NoIndex = NoIndex
  MaxClaims = 6
  MaxFaults = 3
  Modes = {"shadow", "enforced"}
  Malformed = {2}
  Poller = "poller"
  MaxBatch = 2
INVARIANTS
  ConfirmedIsDurable
  StartedInOrderOnce
  LegacyDrained
PROPERTY EventuallySettled
