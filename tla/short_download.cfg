SPECIFICATION Spec
CONSTANTS
  MaxCommands = 1
  MaxTime = 0
  MaxCrashes = 0
INVARIANT CompletedNeverCorrupted
CHECK_DEADLOCK FALSE
