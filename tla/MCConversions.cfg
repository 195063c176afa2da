SPECIFICATION Spec
INVARIANTS
  MessageComplete
  EncryptedArrives
  SentAsWritten
  MediaFound
  TableEvents
  ChatKept
  RequestsExact
  CodecsInvert
CHECK_DEADLOCK FALSE
