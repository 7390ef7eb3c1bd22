SPECIFICATION Spec
CONSTANTS
  a = a
  b = b
  MaxClients = 1
  NumRadios = 2
  Macs <- OneMac
  MaxRequests = 1
  MaxStations = 1
  MaxReadings = 0
  CreateMayFail = FALSE
PROPERTY DoneLeadsUpdate
CHECK_DEADLOCK FALSE
