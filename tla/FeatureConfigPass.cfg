SPECIFICATION Spec
CONSTANTS
  Rfcs <- OneRfc
  Stores <- FactoryOrRunning
  Docs <- TwoDocs
  MaxRequests = 2
  MaxFaults = 1
  MaxRestarts = 1
  MaxWifi = 1
  Serialised = TRUE
INVARIANTS TypeOK Durable Agreement CollectionRuns
CHECK_DEADLOCK FALSE
