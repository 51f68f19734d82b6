SPECIFICATION FairSpec
CONSTANTS
  Count = 2
  MaxAttempts = 2
  MaxTimeouts = 2
  Feeds = {"live"}
  Rejections <- SomeRejections
  LlmReplies <- SomeReplies
  FaultKinds = {"reply"}
  MaxFaults = 1
  MaxTip = 5
  P50 = 2
  P75 = 3
  Fallback = 1
INVARIANTS FailuresAreDecided KnownAtMostOnce
PROPERTIES RunEnds BaselineRaisesOnlyWhenOutbid
CHECK_DEADLOCK FALSE
