\* Any of the children special; stops and continues of children and process.
CONSTANTS
  N = 2
  MaxStops = 2
  MaxConts = 2
SPECIFICATION FairSpec
\* The process ends.
CHECK_DEADLOCK FALSE
INVARIANTS
  LeavesNoneBehind
  EndsForAReason
  NoChildOutlives
PROPERTIES
  OrdinaryExitEnds
  DestructorsEnd
