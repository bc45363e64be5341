SPECIFICATION LiveSpec
CONSTANTS
  Streams = 2
  Tracks <- ThreeTracks
  Min = 2
  MaxSkip = 2
  QueueCap = 2
CHECK_DEADLOCK FALSE
INVARIANTS
  EndsComplete
PROPERTIES
  ImplementsAudioOutput
  MainReturns
  PlaybackEnds
