SPECIFICATION FairSpec
CONSTANTS
  c1 = c1
  c2 = c2
  b1 = b1
  b2 = b2
  b3 = b3
  Clients <- TwoClients
  Unsteady = {c2}
  MayAsk <- WithUnsteady
  BootThreads = {b1, b2, b3}
  FirstBoot = b1
  Tel = Tel
  NoThread = NoThread
  PipeCap = 1
  Interrupted = FALSE
PROPERTIES  StatusAnswered 
CHECK_DEADLOCK FALSE
