SPECIFICATION Spec
CONSTANTS
  n1 = n1
  n2 = n2
  e = e
  t = t
  Tx <- MCTx
  Token = {t}
  Nulls <- MCNulls
  NoTx = NoTx
  Depth = 2
  MaxInBlock = 2
  MaxHeight = 4
  MaxStarts = 2
  Owns = {TRUE, FALSE}
CHECK_DEADLOCK FALSE
INVARIANTS MinedOnce RegisterSound StallNeedsRepeat
PROPERTY KeptUntilStored
