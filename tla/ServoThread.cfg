CONSTANTS
  o1 = o1
  i1 = i1
  Outputs <- OneOutput
  Inputs <- OneInput
  Inverted <- OneOutput
  DataErrMax = 1
  CountMax = 2
VIEW LiveServo
SPECIFICATION FairServoSpec
INVARIANT ServoTypeOK
INVARIANT TripsInTime
INVARIANT InputsReported
PROPERTY OutputsObey
PROPERTY OutputsComeToRest
