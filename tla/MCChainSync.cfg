SPECIFICATION Spec
CONSTANTS
  v1 = v1
  v2 = v2
  v3 = v3
  c1 = c1
  c2 = c2
  Node = {v1, v2, v3}
  Chain = {c1, c2}
  Leader <- MCLeader
  Quorum = 2
  Accepting = 2
  MaxHeight = 3
  None = None
  Builds <- MCBuilds
  Fallible = {c1}
CHECK_DEADLOCK FALSE
INVARIANTS CausallyClosed KnownExists NoCircularWait NoFork PrefixReplicated
