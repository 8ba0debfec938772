SPECIFICATION FairSpec
CONSTANTS
  p1 = p1
  p2 = p2
  k1 = k1
  k2 = k2
  Peer = {p1, p2}
  Conn = {k1, k2}
  None = None
  MaxOutbound = 1
  MaxInbound = 1
  MaxRetryConn = 2
INVARIANT LimitsKept
PROPERTIES NeverReplaced WrongByGivingUp ClosedIfWrong LostPeerKept RetriesEnd
