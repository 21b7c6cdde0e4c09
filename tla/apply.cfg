SPECIFICATION Spec
CONSTANTS
  both = both
  picture = picture
  chime = chime
  Profiles <- MCProfiles
  Welcome <- MCWelcome
  Ring <- MCRing
  MaxCommands = 3
  MaxFaults = 1
INVARIANTS
  TypeOK
  SuccessMatches
PROPERTIES
  NothingTorn
  AssetsBeforeConf
  SoundLeftAlone
  ImplementsApply
CHECK_DEADLOCK FALSE
