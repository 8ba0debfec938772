CONSTANTS
  Validator = {v1, v2}
  Quorum = 2
  MaxRetry = 1
  MaxCalls = 2
  Builds = {TRUE, FALSE}
SPECIFICATION FairSpec
INVARIANTS TypeOK QuorumBacked OneCollector NoPanic
PROPERTIES SignedHeaderStable OneNodeReturns
CHECK_DEADLOCK FALSE
