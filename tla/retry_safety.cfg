SPECIFICATION Spec
CONSTANTS
  Count = 2
  MaxAttempts = 3
  MaxTimeouts = 1
  Feeds = {"stale"}
  Rejections <- SomeRejections
  LlmReplies <- SomeReplies
  FaultKinds = {"db","crash","query"}
  MaxFaults = 1
  MaxTip = 5
  P50 = 2
  P75 = 3
  Fallback = 1
INVARIANTS TypeOK AtMostOnce RetriesAreDecided TipsAreCapped
PROPERTIES BaselineRaisesOnlyWhenOutbid DriverGoesOn
CHECK_DEADLOCK FALSE
