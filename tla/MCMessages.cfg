SPECIFICATION Spec
CONSTANTS
  Base = 3
  Second = 4
  KnownFlags = {0, 1}
  Texts <- TwoTexts
  Times <- SomeTimes
  Counts <- SomeCounts
  Fills <- SomeFills
  ServerFrames <- SomeFrames
  MaxCrlfs = 4
  MaxBytes = 1
  MaxOnWire = 2
INVARIANTS
  ServerUnderstands
  ParsedAsLaidOut
  LengthChecksSuffice
