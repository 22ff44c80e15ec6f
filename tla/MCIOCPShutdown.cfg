SPECIFICATION Spec
CONSTANTS
  w1 = w1
  w2 = w2
  App = App
  Workers <- TwoWorkers
  Clients <- TwoClients
  Listen <- ListenKey
  Servers <- DestroyedOnly
  MaxSends = 1
  MaxFailures = 1
PROPERTIES ShutdownStopsWorkers
CHECK_DEADLOCK FALSE
