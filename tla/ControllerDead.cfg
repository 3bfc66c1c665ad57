CONSTANTS
  Joints = {1}
  LastWord = 1
  Top = 0
  Radix = 2
  Commands <- OnlyHold
  HostHeaders = {"writ"}
  MaxCount = 1
  LockOutcomes = {"reload"}
  ResetInOrder = TRUE
  HostCycle = FALSE
  ShortTicks = TRUE
  DataErrMax = 1
  CountMax = 2
SPECIFICATION ControllerFairSpec
PROPERTY DeadHostMeansRest
VIEW LiveController
