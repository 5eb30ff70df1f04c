SPECIFICATION FairSpec
CONSTANTS
  Caller = {a, b, c}
  MaxBatch = 2
  ChanCap = 1
INVARIANTS
  TypeOK
  NoSendOnClosedChannel
  SinglesSeeTheBatch
  NothingLeftBehind
PROPERTIES
  WritesInOrder
  CallsReturn
  CloseFinishes
