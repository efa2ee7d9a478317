CONSTANTS
  n1 = n1
  n2 = n2
  Nodes = {n1, n2}
  MaxLosses = 1
  Preempt = FALSE
  Timely = TRUE
  SendMayFail = FALSE
SPECIFICATION FairSpec
PROPERTY RestartCompletes
CHECK_DEADLOCK FALSE
