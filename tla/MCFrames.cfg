SPECIFICATION FramesSpec
CONSTANTS
  Catalog <- GoodAndBad
  MaxFrames = 3
  MaxRead = 8
  MaxSends = 2
  SendSize = 2
CHECK_DEADLOCK FALSE
INVARIANTS
  FramesIntact
  NothingWaits
  SentInOrder
