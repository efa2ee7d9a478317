CONSTANTS
  n1 = n1
  Nodes = {n1}
  MaxLosses = 1
  Preempt = TRUE
  Timely = TRUE
  SendMayFail = FALSE
SPECIFICATION FairSpec
PROPERTY Recovers
CHECK_DEADLOCK FALSE
