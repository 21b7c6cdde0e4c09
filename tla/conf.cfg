SPECIFICATION Spec
CONSTANTS
  FileNames = {"f"}
  Numbers = {2}
  MaxEntries = 2
INVARIANTS
  AppliedIsRead
  AnimationIsRemoved
  FirmwareIsKept
PROPERTIES
  ReapplyIsIdle
  DownloadIsFaithful
CHECK_DEADLOCK FALSE
