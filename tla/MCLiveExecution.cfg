SPECIFICATION Spec
CONSTANTS
  Pool = {q1, q2}
  Position = {p1, p2}
  Closer = {c1, c2}
  MaxPositionCount = 4
  MaxPositionsPerPool = 1
  MaxSinglePosition = 10
  MaxTotalExposure = 20
  MaxTxPerMinute = 1
  PositionSize = 2
  MinPosition = 1
  Reserve = 1
  Rent = 1
  MinWalletRent = 1
  InitialWallet = 6
  Parts = 2
  MaxTxFailures = 1
  MaxConsecutiveLosses = 1
  Scenarios = {{"second", "overlap"}, {"second", "emergency", "outside"}, {"overlap", "emergency", "outside"}}
  NoPool = NoPool
  NoPosition = NoPosition
  NoCloser = NoCloser
SYMMETRY Symmetry
INVARIANTS
  LiquidityIsTracked
  ClosedIsGone
  CountedTwice
  ExposureKept
  ResultRecorded
  CreateIsCovered
CHECK_DEADLOCK FALSE
