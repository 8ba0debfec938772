CONSTANTS
  MaxHeight = 2
  Branch = {a}
  Root = root
  Owns = {FALSE}
  Modes = {"full"}
  MaxLives = 2
  MaxFaults <- MCNoFaults
SPECIFICATION FairSpec
PROPERTY CatchesUp
CHECK_DEADLOCK FALSE
