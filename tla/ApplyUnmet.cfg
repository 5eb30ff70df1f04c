SPECIFICATION Spec
CONSTANTS
  cmd = cmd
  Command <- OneCommand
  Threshold = 1
  MaxTerm = 2
  MaxLog = 2
  MaxProposals = 1
  Data <- SomeData
  WrongTerm <- UnknownTerm
  MaxEvents = 2
\* The code keeps none of these.  One is checked at a time.
INVARIANTS
  AppliedOnce
\* RestoreKeepsApplied
\* BaseSavedAfterData
\* OwnResult
\* ResultHasValue
\* SentByLeader
\* SnapshotIsAtIndex
\* SnapshotHasTerm
\* InstalledLogAscends
\* SkippedIsCompacted
\* SkippedIsCompacted
CHECK_DEADLOCK FALSE
