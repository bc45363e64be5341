\* A queue of three, so that every poster meets it full.
SPECIFICATION LiveSpec
CONSTANTS
  Streams = 2
  QueueCap = 3
  MaxTimers = 1
  MaxAgain = 1
  Commands = {"stop", "pause", "unpause", "disable"}
  Autostart <- FirstEither
  Outcomes = {TRUE, FALSE}
INVARIANTS
  SlotsInOrder
  WordHolds
PROPERTY LoopExits
CHECK_DEADLOCK FALSE
