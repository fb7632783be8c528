SPECIFICATION FairDeliverySpec
CONSTANTS
  Message <- TwoUpdates
  Owner <- OnePoller
  MaxRecords = 2
  MaxReplayBatch = 2
  MaxQuarantine = 1
  NoIndex = NoIndex
  MaxClaims = 6
  MaxFaults = 3
  Modes = {"shadow"}
  Malformed = {}
  Poller = "poller"
  MaxBatch = 2
PROPERTY ShadowNeverBlocks
