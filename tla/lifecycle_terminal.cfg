SPECIFICATION FairSpec
CONSTANTS
  b1 = b1
  b2 = b2
  Bundles <- TwoBundles
  MaxSlot = 4
  TimeoutSlots = 2
  BlockhashLife = 1
  StreamLag = 1
  Verdicts = {}
  AwaitWrites = TRUE
  LandsEarly = FALSE
  FaultKinds = {}
  MaxFaults = 0
INVARIANTS TrackedRowsAreOpen RetriedNeverLanded
PROPERTIES RowsFollowCommitment RowsReachTerminal
