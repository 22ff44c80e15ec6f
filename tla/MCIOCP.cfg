SPECIFICATION SafetySpec
CONSTANTS
  w1 = w1
  w2 = w2
  App = App
  Workers <- TwoWorkers
  Clients <- TwoClients
  Listen <- ListenKey
  Servers <- SmallServers
  MaxSends = 1
  MaxFailures = 1
INVARIANTS AcceptsKept SingleReceive ReceivesNeverDangle IOAccounting ConnectionsAsTold
SYMMETRY Symmetry
CHECK_DEADLOCK FALSE
