SPECIFICATION Spec
CONSTANTS
  party = party
  garden = garden
  Presets <- MCPresets
  Customs <- MCCustoms
  Kinds <- MCRecordedKinds
  MaxCommands = 2
  MaxLosses = 1
  MaxCrashes = 0
INVARIANTS
  RestoredStateIsCorrect
CHECK_DEADLOCK FALSE
