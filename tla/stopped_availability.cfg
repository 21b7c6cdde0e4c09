SPECIFICATION Spec
CONSTANTS
  preset = preset
  custom = custom
  Topics <- MCTopics
  CleanSession = TRUE
  RetainedOnline = TRUE
  Delay = 2
  MaxSetBack = 1
  MaxLosses = 2
  MaxStarts = 2
INVARIANTS
  StoppedIsShown
CHECK_DEADLOCK FALSE
