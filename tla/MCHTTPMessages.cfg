\* Messages of every kind, read in pieces of any length.
CONSTANTS
  Scripts <- MCScripts
  Word = 8
SPECIFICATION Spec
\* The connection ends.
CHECK_DEADLOCK FALSE
INVARIANTS
  FramedAsSent
  EndedAsSent
  AssertionsHold
