SPECIFICATION Spec
CONSTANTS
  t1 = t1
  t2 = t2
  Tests <- TwoTests
  ReportLimit = 1
  MaxRuns = 2
  MaxFaults = 2
SYMMETRY TestSymmetry
INVARIANTS TypeOK ResultsWithinRun ReportsDescribeStoredRuns CleanSuccessIsFresh PipelineVerdictsSound MetricsCoverResults UndisturbedHistory
CHECK_DEADLOCK FALSE
