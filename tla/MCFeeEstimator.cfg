SPECIFICATION Spec
CONSTANTS
  N = 4
  Tx <- MCTx
  Rate <- MCRate
  Depth = 2
  BinSize = 3
  MaxReplacements = 2
  MaxRollback = 2
  MinRegistered = 1
  Stored = 3
  MaxHeight = 5
  MaxRollbacks = 1
CHECK_DEADLOCK FALSE
INVARIANTS BinsSound NoFailure
PROPERTIES RollbackRestores RestoredAsSaved
