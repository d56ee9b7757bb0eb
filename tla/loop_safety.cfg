SPECIFICATION Spec
CONSTANTS
  Client = {c1, c2, c3}
  Listener = {tcp, unix}
  NULL = NULL
  Root = Root
  MayStop = TRUE
CHECK_DEADLOCK FALSE
SYMMETRY Symmetry
INVARIANTS
  TypeOK
  ListIntact
  NeverFatal
PROPERTIES
  DeadAreDeleted
