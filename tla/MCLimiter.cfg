SPECIFICATION Spec
CONSTANTS
  IPs = {i1}
  Burst = 4
  Cost = 2
  RateOn = TRUE
  MaxConcurrent = 2
  NoState = NoState
  MaxTime = 6
  MaxOpen = 4
INVARIANTS CapHolds WindowBound
PROPERTIES RefusedOnlyAtCap ImplementsBucket
CHECK_DEADLOCK FALSE
