SPECIFICATION Spec
CONSTANTS
  Pool = {q1, q2, q3}
  Position = {p1, p2, p3}
  Closer = {c1}
  MaxPositionCount = 2
  MaxPositionsPerPool = 1
  MaxSinglePosition = 10
  MaxTotalExposure = 20
  MaxTxPerMinute = 3
  PositionSize = 5
  MinPosition = 4
  MaxPosition = 10
  Reserve = 4
  InitialBalance = 20
  PnlSet <- MCLosses
  MarketFails = TRUE
  NoPool = NoPool
  NoPosition = NoPosition
SYMMETRY Symmetry
INVARIANTS
  WithinMaxPositions
  OnePositionPerPool
  LateEntryBound
  FeesCovered
CHECK_DEADLOCK FALSE
