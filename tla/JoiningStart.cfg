CONSTANTS
  c1 = c1
  c2 = c2
  Cmbs = {c1, c2}
  NodesNum = 2
  MaxClients = 2
  MAX_ADDR = 221
  MaxAttempts = 1
  MaxReboots = 0
  MaxLosses = 0
  SendMayFail = FALSE
SPECIFICATION FairSpec
PROPERTY StartReachesAll
CHECK_DEADLOCK FALSE
