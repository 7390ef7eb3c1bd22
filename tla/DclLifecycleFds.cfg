SPECIFICATION Spec
CONSTANTS
  InitMayFail = TRUE
  MaxEvents = 2
INVARIANT OnlyOwnDescriptors
CHECK_DEADLOCK FALSE
