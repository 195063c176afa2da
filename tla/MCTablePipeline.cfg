CONSTANTS
  MaxUpdates = 2
  TableCap = 1
  MaxStops = 2
  MayRefuse = TRUE
SPECIFICATION Spec
INVARIANTS NoSilentLoss PushedUpdatesSafe
PROPERTIES KeepsCursor
CHECK_DEADLOCK FALSE
