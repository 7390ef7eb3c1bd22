SPECIFICATION FairSpec
CONSTANTS
  MinTimeout = 2
  MaxTimeout = 5
  UlongRange = 16
  Values <- AskedValues
  Stored <- StoredValues
  MaxSets = 2
  MaxRestarts = 1
INVARIANTS TypeOK CountIsExact PeriodInForce ScriptsEveryHour
PROPERTIES ScriptsKeepRunning
CHECK_DEADLOCK FALSE
