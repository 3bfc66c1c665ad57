CONSTANTS
  j1 = j1
  j2 = j2
  Joints = {j1, j2}
  Unit = 4
  Half = 8
  ThreadFreq = 5
  Freqs <- MCFreqs
  Pins <- MCPins
  StepPin <- BoardStepPin
  DirectionPin <- BoardDirectionPin
  DebugPin = 6
  MaxTravel = 11
SPECIFICATION Spec
INVARIANT MotorIsAtCount
