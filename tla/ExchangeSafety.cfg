CONSTANTS
  Joints = {1, 2}
  LastWord = 2
  Top = 1
  Radix = 2
  Commands <- BackwardOrDisabled
  HostHeaders = {"read", "writ", "othr"}
  MaxCount = 1
  LockOutcomes = {"reload", "deleted", "elided", "hoisted"}
  ResetInOrder = TRUE
  HostCycle = FALSE
  ShortTicks = TRUE
SPECIFICATION Spec
INVARIANT TypeOK
INVARIANT NoForeignCommand
INVARIANT FeedbackHeld
INVARIANT SemaphoreOwned
PROPERTY StepObeysOneCommand
VIEW LiveState
PROPERTY KeepsPromise
