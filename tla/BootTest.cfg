SPECIFICATION Spec
CONSTANTS
  SleepIn <- SleepsOfTheCode
  Timeout = 10
  Window = 12
  TooLong = 16
  Retries = 2
  Jitter = 1
INVARIANT BootTestPasses
