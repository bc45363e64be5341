\* A second stream is connected while the first one plays.
SPECIFICATION Spec
CONSTANTS
  Streams = 2
  Tracks <- TwoTracks
  Limit = 1
  Queued = 1
  MaxSkip = 0
  MaxClock = 1
  QueueCap = 1
CHECK_DEADLOCK FALSE
PROPERTY AnchoredAtTrackStart
