SPECIFICATION Spec
CONSTANTS
  MaxPackets = 4
  Window = 4
INVARIANTS TypeOK ExitIsAnnounced EveryPacketAnswered LatePingsNeedTicks PanicNeedsTwo
PROPERTIES PingsEnd ExitEnds IsGameServer
CHECK_DEADLOCK FALSE
