SPECIFICATION LiveSpec
CONSTANTS
  InitialDelay = 1
  MaxDelay = 5
  MaxLookup = 2
  Budget = 6
  RecvTimeout = 6
  ProbeInterval = 2
  ConnectPause = 5
  MaxTrouble = 2
CHECK_DEADLOCK FALSE
INVARIANTS
  BudgetKept
  NoticesInTime
  ProbersStop
PROPERTIES
  Found
