SPECIFICATION FairSpec
CONSTANTS
  jitoOnly = jitoOnly
  bam = bam
  plain = plain
  sometimes = sometimes
  LeaderOf <- TheSchedule
  Responses <- TheResponses
  SwapMode = TRUE
  Count = 2
  FirstSlot = 3
  MaxSlot = 6
  Lookahead = 5
  Threshold = 2
  Interval = 1
  MaxLag = 1
  PrefetchAhead = 1
  RefreshAge = 0
  MaxAge = 1
INVARIANTS PathTypeOK SwapsAreYoung WindowsAreTrue
PROPERTIES WaitersAreAnswered
CHECK_DEADLOCK FALSE
