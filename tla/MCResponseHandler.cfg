CONSTANTS
  Calls = {c1, c2}
  NoCall = NoCall
  MaxPacketID = 2
  MaxDup = 1
  CallKinds = {"publish", "ackOnly", "subscribe"}
  StartIDs = {0, 1, 2}
SPECIFICATION Spec
SYMMETRY Symmetry
INVARIANTS ResponseMatches NoDoubleClose PanicNeedsCause NothingLeftBehind
PROPERTIES KeepsPromise
CHECK_DEADLOCK FALSE
