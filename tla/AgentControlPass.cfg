SPECIFICATION FairSpec
CONSTANTS
  Pids <- Two
  Switches <- SateIcmp
  Modes <- RouterAndBridge
  Stores <- StoredConfigs
  MaxInputs = 2
  MaxFaults = 1
INVARIANTS TypeOK FeaturesFollow NotInBridgeMode RfcMarkersFollow NoStaleLock
PROPERTY LockRemoved
CHECK_DEADLOCK FALSE
