SPECIFICATION Spec
CONSTANTS
  c1 = c1
  c2 = c2
  b1 = b1
  b2 = b2
  b3 = b3
  Clients <- TwoClients
  Unsteady = {c2}
  MayAsk <- RebootOrInject
  BootThreads = {b1, b2, b3}
  FirstBoot = b1
  Tel = Tel
  NoThread = NoThread
  PipeCap = 1
  Interrupted = TRUE
SYMMETRY BootSymmetry
INVARIANTS TypeOK BootsMatchResets NoSilentFailure
PROPERTY StagesInOrder
CHECK_DEADLOCK FALSE
