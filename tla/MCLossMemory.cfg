SPECIFICATION Spec
CONSTANTS
  MaxDailyLoss = 2
  MaxTotalLoss = 3
  MaxConsecutiveLosses = 2
  MaxApiErrorsPerHour = 1
  Save = {s1, s2}
  Pnl <- WinOrLose
  NoState = NoState
  MaxDay = 1
  MaxResults = 2
  MaxCrashes = 1
SYMMETRY Symmetry
INVARIANTS
  LossesRemembered
  SavedIsTrue
CHECK_DEADLOCK FALSE
