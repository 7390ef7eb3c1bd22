SPECIFICATION FairSpec
CONSTANTS
  InitMayFail = TRUE
  MaxEvents = 2
INVARIANTS TypeOK CollectorsTold
CHECK_DEADLOCK FALSE
PROPERTIES DeinitEnds QueueThreadReturns
