SPECIFICATION Spec
CONSTANTS
  Files <- MCFiles
  Envs <- MCEnvs
  Instances <- MCInstances
  Room = 2
  MaxEdits = 1
  MaxLosses = 1
INVARIANTS
  ChosenIsConfigured
  OfferIsCurrent
PROPERTIES
  LoadsOrDiscards
CHECK_DEADLOCK FALSE
