SPECIFICATION FairSpec
CONSTANTS
  c1 = c1
  Chain = {c1}
  Outcomes = {TRUE, FALSE}
  MaxHeight = 3
  MaxSigs = 1
  MaxStarting = 2
  StreamsEnd = TRUE
INVARIANT PanicNeedsTwoTurns
PROPERTIES DeadlockIsPermanent ProcessedUnlessHeldUp
CHECK_DEADLOCK FALSE
