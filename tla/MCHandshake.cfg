SPECIFICATION FairHandshakeSpec
CONSTANTS
  MaxInFlight = 3
INVARIANT OneVersion
PROPERTIES BegunIsDone VersionsStop
CHECK_DEADLOCK FALSE
