SPECIFICATION Spec
CONSTANTS
  n0 = n0
  n1 = n1
  n2 = n2
  Whole = Whole
  Ids <- ThreeIds
  Delays = {2}
  Jitter = 2
  Plans <- Planned
  Total = 2
\* The code keeps none of these.  One is checked at a time.
INVARIANT
  PromptInTheEnd
\* OverlapsStayInForce
\* HistoryAlwaysPasses
CHECK_DEADLOCK FALSE
