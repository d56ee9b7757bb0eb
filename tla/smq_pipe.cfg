SPECIFICATION ConnFairSpec
CONSTANTS
  Size = {1, 2, 4}
  Room = 3
  MaxMessages = 3
  BufSize = 3
  NULL = NULL
CHECK_DEADLOCK FALSE
INVARIANTS
  TypeOK
  EmptyIsSent
  LinesArrive
PROPERTIES
  PipeRefined
  Flushed
  Heard
