SPECIFICATION LiveSpec
CONSTANTS
  Streams = 2
  Tracks <- TwoTracks
  Limit = 1
  Queued = 1
  MaxSkip = 1
  MaxClock = 1
  QueueCap = 1
CHECK_DEADLOCK FALSE
INVARIANTS
  OneAtATime
  EndsComplete
  PauseGapNotCounted
PROPERTIES
  FallsOnlyOnConnect
  ImplementsAudioOutput
  PlaybackEnds
