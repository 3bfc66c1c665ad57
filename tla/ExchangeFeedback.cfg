CONSTANTS
  Joints = {1}
  LastWord = 1
  Top = 1
  Radix = 2
  Commands <- OnlyForward
  HostHeaders = {"read", "writ"}
  MaxCount = 1
  LockOutcomes = {"reload"}
  ResetInOrder = TRUE
  HostCycle = TRUE
  ShortTicks = TRUE
SPECIFICATION Spec
PROPERTY SentFeedbackIsPosition
