SPECIFICATION FairSpec
CONSTANTS
  Request = {r1}
  Recovery = Recovery
  Ops = {"start", "stop", "emergency"}
  MaxEngine = 2
  MaxCrashes = 1
PROPERTIES
  RequestsAnswered
  TriggerHalts
CHECK_DEADLOCK FALSE
