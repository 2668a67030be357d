SPECIFICATION Spec
CONSTANTS
  Calls = {c1, c2}
  PreStop = 1
  Poll = 1
  Drain = 1
  MonitorLimit = 6
  HostTimeout = 7
  Graces = {5}
INVARIANTS WaitsForConnections
CHECK_DEADLOCK FALSE
