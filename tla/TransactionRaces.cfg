CONSTANTS
  n1 = n1
  n2 = n2
  Nodes = {n1, n2}
  MaxLosses = 1
  MaxFaults = 2
  Preempt = TRUE
  Timely = FALSE
  SendMayFail = FALSE
SPECIFICATION RacesSpec
INVARIANT CntBound
PROPERTY ScansUndisturbed
CHECK_DEADLOCK FALSE
