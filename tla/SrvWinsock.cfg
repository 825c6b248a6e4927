SPECIFICATION FairSpec
CONSTANTS
  c1 = c1
  c2 = c2
  NoConn = NoConn
  Conns <- TwoConns
  MaxFd = 1
  MaxLines = 1
  MaxLogs = 1
  MaxStalls = 1
  PipeCap = 1
  CloseWakes = TRUE
INVARIANTS TypeOK FdsAccounted
PROPERTY StopReturns
CHECK_DEADLOCK FALSE
