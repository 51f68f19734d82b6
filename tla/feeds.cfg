SPECIFICATION Spec
CONSTANTS
  t1 = t1
  t2 = t2
  Txs <- TwoTxs
  TxUpdates = {"transaction", "status"}
  EventCap = 2
  SignalCap = 2
INVARIANTS FeedsTypeOK StatusesAreKept MissedAreSignalled
PROPERTIES LandingsAreLearned TipsRecover
