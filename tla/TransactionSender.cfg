SPECIFICATION FairSpec
CONSTANT
  MaxRetries = 2
INVARIANTS
  RetriesSafely
  FailureIsFinal
PROPERTIES
  PromiseKept
  Answered
CHECK_DEADLOCK FALSE
