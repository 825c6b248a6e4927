SPECIFICATION FairSpec
CONSTANTS
  NTests = 3
  Retries = 2
  MaxCalls = 2
INVARIANTS TypeOK LateSamplesBounded
PROPERTY SessionEnds
CHECK_DEADLOCK FALSE
