SPECIFICATION Spec
CONSTANTS
  b1 = b1
  b2 = b2
  Bundles <- OneBundle
  MaxSlot = 3
  TimeoutSlots = 1
  BlockhashLife = 1
  StreamLag = 3
  Verdicts = {"Invalid"}
  AwaitWrites = FALSE
  LandsEarly = TRUE
  FaultKinds = {"gap","write","rpc","crash"}
  MaxFaults = 3
INVARIANTS TypeOK IndicesConsistent ClaimsAreTrue VerdictsReachMemory HandedOverOnce
PROPERTIES StagesOnlyAdvance
