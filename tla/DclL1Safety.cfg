SPECIFICATION Spec
CONSTANTS
  a = a
  b = b
  MaxClients = 1
  NumRadios = 2
  Macs <- BothMacs
  MaxRequests = 2
  MaxStations = 2
  MaxReadings = 2
  CreateMayFail = FALSE
INVARIANTS TypeOK OneSubscriberPerSlot NoFreedCollectorUse EveryCollectionReported TemperaturesComplete
CHECK_DEADLOCK FALSE
