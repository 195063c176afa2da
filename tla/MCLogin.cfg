CONSTANTS
  MaxWrong = 2
  MaxPolls = 2
  Methods <- MCMethods
SPECIFICATION FairSpec
INVARIANTS NoResubmit AcceptedIsSuccess
PROPERTIES CallsReturn
CHECK_DEADLOCK FALSE
