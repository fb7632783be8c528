SPECIFICATION Spec
CONSTANTS
  Message = {m1, m2}
  Inject = {i1}
  Proc = {p1, p2}
  None = None
  AutoSteer = {TRUE, FALSE}
  MaxSpawnAttempts = 2
  MaxOps = 2
  MaxFaults = 2
SYMMETRY Interchangeable
INVARIANTS
  ReceiptsSound
  SentOnceInOrder
  SessionExclusive
  SteerFitsTurn
  NothingWaitsAtRest
PROPERTY AckMeansQuiet
CHECK_DEADLOCK FALSE
