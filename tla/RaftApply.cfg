SPECIFICATION Spec
CONSTANTS
  cmd = cmd
  Command <- OneCommand
  Threshold = 1
  MaxTerm = 2
  MaxLog = 2
  MaxProposals = 1
  Data <- SomeData
  WrongTerm <- UnknownTerm
  MaxEvents = 2
INVARIANTS
  TypeOK
  IndexesInOrder
  ReplayConverges
  CommittedIsChosen
  AppliedOnceInOrder
  BaseIsBacked
  OwnValueWhenChosen
  ShippedCoversIndex
CHECK_DEADLOCK FALSE
