SPECIFICATION Spec
CONSTANTS
  Client = {c1, c2, c3}
  MarketStates = {1, 2, 3}
  Counts = {2}
  Sites = {1}
  Margins = {0, 100}
  MaxRounds = 5
  MaxRequests = 3
SYMMETRY Symmetry
CHECK_DEADLOCK FALSE
INVARIANTS
  TypeOK
  RequestsCovered
  FactoriesOnTime
  MarketServesAll
PROPERTY
  AuctionsFair
