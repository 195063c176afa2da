CONSTANTS
  MaxRounds = 1
  MaxMessages = 0
  MaxPings = 0
SPECIFICATION FairSpec
PROPERTIES ErrorIsReturned
CHECK_DEADLOCK FALSE
