SPECIFICATION Spec
CONSTANTS
  b1 = b1
  b2 = b2
  Bundles <- OneBundle
  MaxSlot = 4
  TimeoutSlots = 2
  BlockhashLife = 1
  StreamLag = 0
  Verdicts = {}
  AwaitWrites = FALSE
  LandsEarly = FALSE
  FaultKinds = {}
  MaxFaults = 0
PROPERTIES RowsFollowCommitment
