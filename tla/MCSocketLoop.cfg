CONSTANTS
  QueueCap = 1
  MaxEvents = 3
  ReconnectLimit = 1
  RefusalCodes <- OneCodePerClass
SPECIFICATION FairSpec
INVARIANTS NoStaleReady RefusalReported BadLoginsBounded
CHECK_DEADLOCK FALSE
PROPERTIES StopsUnlessStuck
