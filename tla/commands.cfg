SPECIFICATION FairSpec
CONSTANTS
  party = party
  garden = garden
  Presets <- MCPresets
  Customs <- MCCustoms
  Kinds <- MCAllKinds
  MaxCommands = 2
  MaxLosses = 1
  MaxCrashes = 1
INVARIANTS
  FileNamesApplied
  DoorbellIsRecorded
  ShownIsRecorded
  MostRecentError
  StatusEndsIdle
PROPERTIES
  ShownSettles
CHECK_DEADLOCK FALSE
