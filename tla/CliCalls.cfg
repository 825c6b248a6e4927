SPECIFICATION FairSpec
CONSTANTS
  test = test
  collector = collector
  NoCaller = NoCaller
  Callers <- Threads
  Owner = test
  Commands <- Mixed
  MaxCalls = 2
  Retries = 2
  MaxQueue = 1
INVARIANTS TypeOK
PROPERTIES ImplementsConsoleCalls LosesNoAnswer CallsReturn ListenerEnds
CHECK_DEADLOCK FALSE
