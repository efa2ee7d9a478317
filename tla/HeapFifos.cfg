CONSTANTS
  n1 = n1
  n2 = n2
  n3 = n3
  Nodes = {n1, n2, n3}
  HeapSize = 56
  AddrSize = 2
  LatSize = 5
SPECIFICATION Spec
INVARIANTS
  HeapBalanced
  OneElement
  NullMeansBacklog
  RecordsWhole
PROPERTY ScanSpec
CHECK_DEADLOCK FALSE
