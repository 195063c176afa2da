CONSTANTS
  Procs = {p1, p2}
  EProcs = {e1}
  None = None
  Clients = {1, 2}
  Loops = {1, 2}
  MaxCalls = 3
  MaxRetries = 1
  Messenger = TRUE
SPECIFICATION Spec
SYMMETRY Symmetry
INVARIANTS OrphanNeedsOverlap PanicNeedsRace RefreshArmed
CHECK_DEADLOCK FALSE
