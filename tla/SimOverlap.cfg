SPECIFICATION Spec
CONSTANTS
  h1 = h1
  h2 = h2
  Handlers <- TwoClients
  Commands <- SensorReboots
  MaxCommands = 2
  InitMem <- NearInitMem
  NominalMem <- NearNominalMem
  LeakStep <- NearLeakStep
  OomThreshold <- NearOomThreshold
SYMMETRY ClientSymmetry
INVARIANTS UniqueBootIds AtMostOneLateStore
PROPERTY StagesInOrder
