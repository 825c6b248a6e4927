SPECIFICATION Spec
CONSTANTS
  t1 = t1
  t2 = t2
  Tests <- TwoTests
  ReportLimit = 1
  MaxRuns = 2
  MaxFaults = 2
SYMMETRY TestSymmetry
INVARIANT SuccessMeansReported
CHECK_DEADLOCK FALSE
