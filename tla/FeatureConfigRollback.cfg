SPECIFICATION Spec
CONSTANTS
  Rfcs <- OneRfc
  Stores <- FactoryOrRunning
  Docs <- TwoDocs
  MaxRequests = 1
  MaxFaults = 1
  MaxRestarts = 0
  MaxWifi = 0
  Serialised = TRUE
PROPERTY RollbackRestores
CHECK_DEADLOCK FALSE
