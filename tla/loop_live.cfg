SPECIFICATION FairSpec
CONSTANTS
  Client = {c1, c2}
  Listener = {tcp}
  NULL = NULL
  Root = Root
  MayStop = TRUE
CHECK_DEADLOCK FALSE
PROPERTIES
  GoneIsReported
  StopHeeded
