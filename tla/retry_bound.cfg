SPECIFICATION Spec
CONSTANTS
  Count = 1
  MaxAttempts = 2
  MaxTimeouts = 2
  Feeds = {"live"}
  Rejections <- SomeRejections
  LlmReplies <- SomeReplies
  FaultKinds = {}
  MaxFaults = 0
  MaxTip = 5
  P50 = 2
  P75 = 3
  Fallback = 1
INVARIANTS RetriesAreBounded
CHECK_DEADLOCK FALSE
