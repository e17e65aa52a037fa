\* Resets, early closes, failing saves; peers that play their part otherwise.
CONSTANTS
  Script <- MCScript
  Replies <- MCReplies
  Faults = 1
  Window = 2
  Limit = 2
SPECIFICATION FairSpec
\* The connection ends.
CHECK_DEADLOCK FALSE
INVARIANTS
  TypeOK
  PipelineInOrder
  AnswersMatch
  BlockedAloneNotForwarded
  SavedAsSent
  CrashesOnlyUncompleted
PROPERTIES
  AllAnswered
  LoopEnds
