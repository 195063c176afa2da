CONSTANTS
  MaxRounds = 2
  MaxMessages = 2
  MaxPings = 1
SPECIFICATION FairSpec
INVARIANTS FirstErrorReturned ErrorIsStored
PROPERTIES EndsUnlessStuck
CHECK_DEADLOCK FALSE
