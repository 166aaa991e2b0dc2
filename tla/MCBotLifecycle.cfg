SPECIFICATION Spec
CONSTANTS
  Request = {r1, r2}
  Recovery = Recovery
  Ops = {"start", "stop", "emergency", "delete", "shutdown"}
  MaxEngine = 2
  MaxCrashes = 1
SYMMETRY Symmetry
INVARIANTS
  LockHeldByOne
  NoEngineLeaks
  StatusAgrees
CHECK_DEADLOCK FALSE
