SPECIFICATION FairSpec
CONSTANTS
  a = a
  b = b
  MaxClients = 1
  NumRadios = 2
  Macs <- OneMac
  MaxRequests = 2
  MaxStations = 2
  MaxReadings = 0
  CreateMayFail = TRUE
PROPERTIES CollectionsEnd
CHECK_DEADLOCK FALSE
