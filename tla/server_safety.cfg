SPECIFICATION Spec
CONSTANTS
  Client = {c1, c2, c3, c4}
  Name = {n1, n2, n3, n4}
  NoName = NoName
  UIntMod = 8
  Garbage = {0, 1, 7}
  MayAbort = TRUE
SYMMETRY Symmetry
CHECK_DEADLOCK FALSE
INVARIANTS
  TypeOK
  PlayersCounted
  EndAnnounced
  OffersFit
  NoRestInContinuousGame
  PlayersLag
  TurnsAwaited
  WinnerExists
