SPECIFICATION SafetySpec
CONSTANTS
  w1 = w1
  w2 = w2
  App = App
  Workers <- TwoWorkers
  Clients <- TwoClients
  Listen <- ListenKey
  Servers <- DestroyedOnly
  MaxSends = 1
  MaxFailures = 0
INVARIANTS ShutdownReleasesAll
CHECK_DEADLOCK FALSE
