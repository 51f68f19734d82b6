SPECIFICATION Spec
CONSTANTS
  b1 = b1
  b2 = b2
  Bundles <- OneBundle
  MaxSlot = 3
  TimeoutSlots = 1
  BlockhashLife = 1
  StreamLag = 0
  Verdicts = {}
  AwaitWrites = FALSE
  LandsEarly = FALSE
  FaultKinds = {"gap"}
  MaxFaults = 1
INVARIANTS RetriedNeverLanded
