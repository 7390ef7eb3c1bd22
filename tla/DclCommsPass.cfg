SPECIFICATION FairSpec
CONSTANTS
  Events <- StationAndTemperature
  Disconnects <- StationUpdate
  MaxEvents = 3
  MaxHellos = 2
  MaxCollections = 1
INVARIANTS TypeOK EmitContract NoFreedAccess CommsLoopSurvives EmitsOnlyWhenReady
PROPERTIES ImplementsTlvChannel ReadyFlipsOutsideEmit EmitTerminates QueueDrains HelloRestoresComms
CHECK_DEADLOCK FALSE
