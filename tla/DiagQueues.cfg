CONSTANTS
  n1 = n1
  n2 = n2
  Nodes = {n1, n2}
  SIZE_OF_RXQUEUE = 2
  SIZE_OF_TXQUEUE = 3
  MaxTokens = 4
  MaxTimeouts = 1
SPECIFICATION Spec
INVARIANTS
  TokensMatch
  InOrder
  DataAccounted
  RejectedIsCombined
  PacketsFollow
CHECK_DEADLOCK FALSE
