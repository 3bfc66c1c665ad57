CONSTANTS
  DataErrMax = 40
  CountMax = 255
SPECIFICATION TimingSpec
INVARIANT RunningNeedsData
