SPECIFICATION Spec
CONSTANTS
  Client = {c1, c2}
  Listener = {tcp}
  NULL = NULL
  Root = Root
  MayStop = FALSE
CHECK_DEADLOCK FALSE
PROPERTY
  FlushedBeforeDeath
