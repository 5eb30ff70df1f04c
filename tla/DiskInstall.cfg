SPECIFICATION Spec
CONSTANTS
  k1 = k1
  k2 = k2
  Absent = Absent
  Key <- TwoKeys
  Command <- Counts
  Installable <- Shipped
  Encrypted = FALSE
  MaxInt64 = 2
  MaxBatch = 2
  MaxNow = 2
  MaxOps = 3
  MaxFaults = 1
  MaxCrashes = 1
  MaxCompactions = 1
  MaxInstalls = 1
CHECK_DEADLOCK FALSE
INVARIANTS
  TypeOK
  LogStaysReadable
  RecoversWhatWasServed
