\* The tools, with up to one thing that goes wrong.
CONSTANTS
  Tools = {"recordshell", "replayshell", "linkshell", "delayshell"}
  MaxFaults = 1
SPECIFICATION FairSpec
\* The tool ends.
CHECK_DEADLOCK FALSE
INVARIANTS
  UserCodeUnprivileged
  InPlaceWhileUsed
  LeavesNothing
  StartsUp
PROPERTY
  ToolEnds
