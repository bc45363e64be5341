SPECIFICATION LiveSpec
CONSTANTS
  Streams = 2
  MaxPackets = 2
  PacketSize = 2
  Prefill = 1
  PulseBuffer = 3
  Prebuf = 2
CHECK_DEADLOCK FALSE
INVARIANTS
  NothingLeftBehind
  AnnouncedOnce
  RightTrackEnds
PROPERTY EndOfTrackDetected
