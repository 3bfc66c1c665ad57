CONSTANTS
  Frames <- TwoLengths
  Radix = 4
  RxMax = 13
  PackSize = 4
  PoolSize = 2
  TransferPcbs = 1
  MaxFrames = 4
SPECIFICATION PortFairSpec
INVARIANT PortTypeOK
INVARIANT InStep
INVARIANT NoneIgnored
INVARIANT PbufsAccounted
PROPERTY RingDrains
