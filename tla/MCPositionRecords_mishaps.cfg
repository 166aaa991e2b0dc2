SPECIFICATION Spec
CONSTANTS
  Position = {p1, p2}
  Result <- Loss
  NoResult = NoResult
  NoPosition = NoPosition
  NoSave = NoSave
  Handler = {h1, h2}
  Save = {s1}
  MaxSessions = 2
  Modes = {"live"}
  Scenarios = {{"emergency"}, {"reconcile", "outside", "fail"}, {"crash", "fail", "restart"},
               {"stop", "fail"}}
SYMMETRY Symmetry
INVARIANTS
  NeverOvercounted
  ReconcileSparesTracked
PROPERTIES
  BookKept
CHECK_DEADLOCK FALSE
