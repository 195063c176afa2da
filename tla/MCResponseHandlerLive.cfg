CONSTANTS
  Calls = {c1, c2}
  NoCall = NoCall
  MaxPacketID = 2
  MaxDup = 1
  CallKinds = {"publish"}
  StartIDs = {0}
SPECIFICATION FairSpec
PROPERTIES CallsReturn ReaderUnblocks
CHECK_DEADLOCK FALSE
