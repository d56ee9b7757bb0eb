SPECIFICATION Spec
CONSTANTS
  Plain = {"a"}
  BufBase = 2
  MaxTyped = 6
  Words <- MCWords
  NULL = NULL
CHECK_DEADLOCK FALSE
INVARIANTS
  TokensByGrammar
  WithinMemory
  WordsArrive
  ParsersAgree
