CONSTANTS
  Joints = {1}
  LastWord = 1
  Top = 0
  Radix = 2
  Commands <- OnlyHold
  HostHeaders = {"writ"}
  MaxCount = 1
  LockOutcomes = {"reload"}
  ResetInOrder = FALSE
  HostCycle = FALSE
  ShortTicks = TRUE
  DataErrMax = 1
  CountMax = 2
SPECIFICATION ControllerFairSpec
PROPERTY RunningComesToRest
PROPERTY CallbackEnds
PROPERTY TickEnds
INVARIANT ControllerTypeOK
VIEW LiveController
