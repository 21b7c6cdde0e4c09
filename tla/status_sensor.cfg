SPECIFICATION Spec
CONSTANTS
  party = party
  garden = garden
  Presets <- MCPresets
  Customs <- MCCustoms
  Kinds <- MCTest
  MaxCommands = 1
  MaxLosses = 0
  MaxCrashes = 0
INVARIANTS
  StatusShowsState
CHECK_DEADLOCK FALSE
