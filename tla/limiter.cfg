SPECIFICATION FairCallsSpec
CONSTANTS
  driver = driver
  sweeper = sweeper
  warmer = warmer
  p1 = p1
  Callers <- AllCallers
  Interval = 3
  Senders <- BothSenders
  Driver = driver
  Warmer = warmer
  Pollers <- OnePoller
  MaxSubmissions = 1
  PollBudget = 2
INVARIANTS CallsTypeOK Paced WaitIsBounded
PROPERTIES LowsYield SubmissionsAreAnswered
