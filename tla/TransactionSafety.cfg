CONSTANTS
  n1 = n1
  n2 = n2
  Nodes = {n1, n2}
  MaxLosses = 1
  Preempt = FALSE
  Timely = FALSE
  SendMayFail = TRUE
SPECIFICATION Spec
SYMMETRY NodeSymmetry
INVARIANTS
  TypeOK
  PollBarrier
  AckBarrier
  QueuesAgree
  Watched
  LostMeansUnpolled
  IInv
PROPERTY ScanSpec
CHECK_DEADLOCK FALSE
