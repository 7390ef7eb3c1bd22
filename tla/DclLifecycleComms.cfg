SPECIFICATION FairSpec
CONSTANTS
  InitMayFail = FALSE
  MaxEvents = 2
PROPERTY CommsThreadReturns
CHECK_DEADLOCK FALSE
