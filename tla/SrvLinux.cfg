SPECIFICATION FairSpec
CONSTANTS
  c1 = c1
  c2 = c2
  NoConn = NoConn
  Conns <- TwoConns
  MaxFd = 2
  MaxLines = 1
  MaxLogs = 0
  MaxStalls = 1
  PipeCap = 1
  CloseWakes = FALSE
INVARIANT OneAnswerPerLine
PROPERTIES DeadClientsClosed LinesAnswered StopReturns
CHECK_DEADLOCK FALSE
