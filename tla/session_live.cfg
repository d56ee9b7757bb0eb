SPECIFICATION SessionFairSpec
CONSTANTS
  Client = {super, p1, p2}
  Supervisor = super
  Name <- MCName
  NoName = NoName
  UIntMod = 8
  Garbage = {0}
  MayAbort = FALSE
  MaxRounds = 3
  NoRound = NoRound
CHECK_DEADLOCK FALSE
PROPERTIES
  LoginEnds
  WaitsEnd
  EndIsLearnt
