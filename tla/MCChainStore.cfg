CONSTANTS
  MaxHeight = 3
  Branch = {a, b}
  Root = root
  Owns = {TRUE, FALSE}
  Modes = {"fast", "full"}
  MaxLives = 3
  MaxFaults <- MCFaults
SPECIFICATION Spec
INVARIANTS TypeOK RecoverableChain StoredTop HeightsAgree ViewExact
PROPERTY StoredChainGrows
CHECK_DEADLOCK FALSE
