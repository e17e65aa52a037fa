\* The clock may be set back; the trace is used once or again and again.
CONSTANTS
  PacketSize = 2
  Target = 1
  Interval = 1
  Schedule <- MCSchedule
  Links <- MCLinks
  Repeats = {TRUE, FALSE}
  ClockSteps = TRUE
  MaxTime = 4
SPECIFICATION Spec
\* With --once the process exits.
CHECK_DEADLOCK FALSE
INVARIANTS
  AssertionsHold
  InOrder
  NewestKept
  FollowsTrace
  WorkConserving
  ExitDrained
PROPERTIES
  KeepsAccepted
  LastNotDropped
