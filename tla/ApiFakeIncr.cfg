SPECIFICATION Spec
CONSTANTS
  a1 = a1
  a2 = a2
  c1 = c1
  Absent = Absent
  Star = Star
  None = None
  Key <- Keys
  Pattern <- Patterns
  Command <- Commands
  Request <- Requests
  Initial <- Filled
  Server = {a1, a2}
  Client = {c1}
  Count = {1}
  MaxInt64 = 2
  MaxNow = 2
  MaxHops = 2
  MaxCalls = 2
INVARIANT
  FakeIsMemStore
CHECK_DEADLOCK FALSE
