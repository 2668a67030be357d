SPECIFICATION Spec
CONSTANTS
  Calls = {c1, c2}
  PreStop = 1
  Poll = 2
  Drain = 1
  MonitorLimit = 3
  HostTimeout = 4
  Graces = {4, 11}
INVARIANTS TypeOK NeverUndercounts StopBudget
PROPERTIES OnlyStalledClientsDelayStop EndsByItself StopsGracefully
CHECK_DEADLOCK FALSE
