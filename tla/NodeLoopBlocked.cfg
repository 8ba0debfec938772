SPECIFICATION FairSpec
CONSTANTS
  c1 = c1
  Chain = {c1}
  Outcomes = {FALSE}
  MaxHeight = 3
  MaxSigs = 1
  MaxStarting = 2
  StreamsEnd = FALSE
PROPERTIES BlocksProcessed
CHECK_DEADLOCK FALSE
