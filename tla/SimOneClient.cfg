SPECIFICATION FairSpec
CONSTANTS
  h1 = h1
  h2 = h2
  Handlers <- OneClient
  Commands <- AllCommands
  MaxCommands = 2
  InitMem <- NearInitMem
  NominalMem <- NearNominalMem
  LeakStep <- NearLeakStep
  OomThreshold <- NearOomThreshold
INVARIANTS TypeOK NoSilentFailure SerialRebootsNeverTerminate OomBounded
PROPERTIES ShutdownEnds SensorConverges LeakSubsides BootSettles
