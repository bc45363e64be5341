\* The server hands the player over to another one.
CONSTANTS
  Servers = {s1, s2}
  NoServer = NoServer
  Configured = s1
  MaxMessages = 0
  MaxLosses = 0
  MaxSwitches = 1
  LookupMayFail = FALSE
  WriteMayFail = FALSE
SPECIFICATION Spec
INVARIANT SwitchFollowed
