CONSTANTS
  n1 = n1
  n2 = n2
  Nodes = {n1, n2}
  MaxLosses = 0
  Preempt = TRUE
  Timely = FALSE
  SendMayFail = FALSE
SPECIFICATION Spec
INVARIANT TokenAfterAllOks
CHECK_DEADLOCK FALSE
