SPECIFICATION Spec
CONSTANTS
  Position = {p1, p2}
  Result <- Loss
  NoResult = NoResult
  NoPosition = NoPosition
  NoSave = NoSave
  Handler = {h1}
  Save = {s1}
  MaxSessions = 2
  Modes = {"simulation"}
  Scenarios = {{"stop", "restart"}, {"stop", "config"}}
SYMMETRY PositionSymmetry
INVARIANTS
  ResultsReachRows
  TotalsExact
  
  NoPhantoms
CHECK_DEADLOCK FALSE
