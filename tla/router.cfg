SPECIFICATION FairSpec
CONSTANTS
  presetSet = presetSet
  other = other
  Commands <- MCCommands
  Topics <- MCTopics
  Cap = 3
  MaxRoutes = 16
  MaxArrivals = 4
  NoMsg = NoMsg
INVARIANTS
  TypeOK
  HandledInOrder
  NoLostWakeup
  StopDrains
  CommandsAreRouted
PROPERTIES
  DropOnlyWhenFull
  ImplementsQueue
  EveryCommandHandled
  StopCompletes
