CONSTANTS
  c1 = c1
  c2 = c2
  Cmbs = {c1, c2}
  NodesNum = 2
  MaxClients = 3
  MAX_ADDR = 19
  MaxAttempts = 2
  MaxReboots = 1
  MaxLosses = 1
  SendMayFail = TRUE
SPECIFICATION FairSpec
INVARIANTS
  TypeOK
  SlotIsAddress
  AddressesUnique
  FormedMeansFull
  CycleMeansAllReported
PROPERTY JoinCompletes
CHECK_DEADLOCK FALSE
