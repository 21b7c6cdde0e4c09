SPECIFICATION Spec
CONSTANTS
  MaxCommands = 3
  MaxTime = 1
  MaxCrashes = 1
INVARIANTS
  NothingLeftInTmp
  NoErrorMeansDownloaded
PROPERTIES
  DownloadsAreWhole
  NothingOverwritten
CHECK_DEADLOCK FALSE
