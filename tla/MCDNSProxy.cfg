\* A ring of three bytes and a kernel buffer of one.
CONSTANTS
  Byte = {0, 1, 2, 3, 4}
  Zero = 0
  Size = 3
  ClientBytes = 4
  ServerBytes = 1
  Room = 1
  Queries = {q1, q2}
  MaxReplies = 2
SPECIFICATION FairSpec
\* The threads end.
CHECK_DEADLOCK FALSE
INVARIANTS
  StillInterested
  DrainedAtExit
PROPERTIES
  RelayIsPipe
  ThreadsEnd
