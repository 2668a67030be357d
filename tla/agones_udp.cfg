SPECIFICATION Spec
CONSTANTS
  Values = {v1, v2}
  MaxPackets = 3
INVARIANTS TypeOK BodyMissedOnce AtMostOneLatePing
PROPERTIES PingsEnd ExitIsAcked IsGameServer
CHECK_DEADLOCK FALSE
