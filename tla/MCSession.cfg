\* Everything may go wrong: lookups fail, the connection breaks, a write
\* notices it first, the server hands the player over.  The main loop may be
\* stuck for good, which ReconnectsUnlessStuck describes.
CONSTANTS
  Servers = {s1}
  NoServer = NoServer
  Configured = NoServer
  MaxMessages = 2
  MaxLosses = 1
  MaxSwitches = 1
  LookupMayFail = TRUE
  WriteMayFail = TRUE
SPECIFICATION LiveSpec
INVARIANTS NeverOrphaned HeloHonest MainHearsOneConnection
PROPERTIES ReconnectsUnlessStuck WritersRetire
CHECK_DEADLOCK FALSE
