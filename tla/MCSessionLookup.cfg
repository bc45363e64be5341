\* A lookup or a connect fails once too late.
CONSTANTS
  Servers = {s1, s2}
  NoServer = NoServer
  Configured = NoServer
  MaxMessages = 0
  MaxLosses = 1
  MaxSwitches = 0
  LookupMayFail = TRUE
  WriteMayFail = FALSE
SPECIFICATION LiveSpec
PROPERTY Reconnects
CHECK_DEADLOCK FALSE
