SPECIFICATION Spec
CONSTANTS
  Request = {r1}
  Recovery = Recovery
  Ops = {"start", "stop"}
  MaxEngine = 2
  MaxCrashes = 0
PROPERTIES
  StartedIsRunning
CHECK_DEADLOCK FALSE
