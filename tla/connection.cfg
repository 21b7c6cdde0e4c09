SPECIFICATION FairSpec
CONSTANTS
  preset = preset
  custom = custom
  Topics <- MCTopics
  CleanSession = TRUE
  RetainedOnline = TRUE
  Delay = 2
  MaxSetBack = 1
  MaxLosses = 2
  MaxStarts = 2
INVARIANTS
  TypeOK
  ConnectsWhenDown
  AnnouncedWhenUp
  RestartIsTruthful
PROPERTIES
  OnlineIsGuarded
  StaleOnlyInWindow
  Reconnects
CHECK_DEADLOCK FALSE
