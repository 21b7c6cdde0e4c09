SPECIFICATION FairSpec
CONSTANTS
  preset = preset
  custom = custom
  Topics <- MCTopics
  CleanSession = TRUE
  RetainedOnline = TRUE
  Delay = 2
  MaxSetBack = 1
  MaxLosses = 2
  MaxStarts = 2
PROPERTIES
  ComesBackOnline
CHECK_DEADLOCK FALSE
