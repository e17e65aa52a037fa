\* The clock may be set back; the trace is used once or again and again.
CONSTANTS
  PacketSize = 2
  Target = 1
  Interval = 1
  Schedule <- MCSchedule
  Links <- DropHeadBytes
  Repeats = {TRUE, FALSE}
  ClockSteps = TRUE
  MaxTime = 4
SPECIFICATION Spec
\* With --once the process exits.
CHECK_DEADLOCK FALSE
INVARIANTS
  NeverAborts
