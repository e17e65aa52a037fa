\* A client that sends an invocation in two parts.
CONSTANTS
  Script <- HeadAndBody
  Replies <- OneReply
  Faults = 0
  Window = 2
  Limit = 0
SPECIFICATION Spec
\* The connection ends.
CHECK_DEADLOCK FALSE
INVARIANTS
  NeverLost
