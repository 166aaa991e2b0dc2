SPECIFICATION TimerSpec
CONSTANTS
  Pool = {q1, q2}
  Position = {p1, p2}
  Closer = {c1}
  MaxPositionCount = 1
  MaxPositionsPerPool = 1
  MaxSinglePosition = 10
  MaxTotalExposure = 20
  MaxTxPerMinute = 3
  PositionSize = 5
  MinPosition = 4
  MaxPosition = 10
  Reserve = 4
  InitialBalance = 12
  PnlSet <- MCLossOrGain
  MarketFails = TRUE
  NoPool = NoPool
  NoPosition = NoPosition
PROPERTIES
  ScanReleased
  StopDrains
  LossLimitHalts
CHECK_DEADLOCK FALSE
