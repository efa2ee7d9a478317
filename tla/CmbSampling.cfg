SPECIFICATION FairSpec
CONSTANTS
  LTC_NCELLS = 16
  RAND_BYTES = 8
  Readings = 3
  MaxTokens = 2
  NoCrc = NoCrc
INVARIANTS
  DataWhole
PROPERTIES
  TokenServed
  Sampling
