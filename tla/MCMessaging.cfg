CONSTANTS
  Sends = {s1}
  Edits = {e1, e2}
  None = None
  MaxTries = 2
  EditCap = 1
  MaxFlaps = 1
  MaxOther = 1
SPECIFICATION FairSpec
INVARIANTS ExactlyOnce EditReportIsTrue
PROPERTIES HandlersReturn
