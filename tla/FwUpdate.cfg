SPECIFICATION FairSpec
CONSTANTS
  FWUPD = FWUPD
  EOL = EOL
  READY = READY
  Images <- MCImages
  Cell <- ClearBits
  FLASH_HALF = 264
  Garbage = {0, 1}
  MaxFaults = 2
  MaxCycles = 1
INVARIANTS
  TypeOK
  AcceptedIsStaged
  InstalledIsSent
  CopyOnlyAtEnd
PROPERTIES
  Delivered
CHECK_DEADLOCK FALSE
