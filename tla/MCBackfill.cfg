CONSTANTS
  Fetches = {f1, f2}
  NoFetch = NoFetch
  Last = 3
  Count = 2
  PageSize = 2
  TimeoutTicks = 2
  MaxReRequests = 1
  MaxWire = 1
SPECIFICATION FairSpec
INVARIANTS TypeOK GapFree WaitingIsRegistered NoFalseEnd
PROPERTIES FetchReturns
CHECK_DEADLOCK FALSE
