CONSTANT Blocks <- MCBlocks
SPECIFICATION CodesSpec
INVARIANTS
  TableIsCrc15
  WrittenPecs
  ReadBackChecked
  HashIsFnv1a
  TokensDistinct
CHECK_DEADLOCK FALSE
