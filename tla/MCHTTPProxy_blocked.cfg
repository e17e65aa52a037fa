\* A client that pipelines an invocation.
CONSTANTS
  Script <- KeyAfterPlain
  Replies <- TwoReplies
  Faults = 0
  Window = 2
  Limit = 0
SPECIFICATION Spec
\* The connection ends.
CHECK_DEADLOCK FALSE
INVARIANTS
  BlockedNotForwarded
