SPECIFICATION Spec
CONSTANTS
  Pool = {q1, q2}
  Position = {p1, p2}
  Closer = {c1, c2}
  MaxPositionCount = 2
  MaxPositionsPerPool = 1
  MaxSinglePosition = 10
  MaxTotalExposure = 20
  MaxTxPerMinute = 3
  PositionSize = 5
  MinPosition = 4
  MaxPosition = 10
  Reserve = 4
  InitialBalance = 16
  PnlSet <- MCTotalLoss
  MarketFails = FALSE
  NoPool = NoPool
  NoPosition = NoPosition
SYMMETRY Symmetry
INVARIANTS
  TypeOK
  BreakerCoversActive
  ExposureCoversActive
  OnlyReclosingMiscounts
PROPERTIES
  SettledForGood
CHECK_DEADLOCK FALSE
