SPECIFICATION FairSpec
CONSTANTS
  f1 = f1
  f2 = f2
  f3 = f3
  lan = lan
  wan0 = wan0
  Frames <- Frames2
  Locals <- OneLan
  Wans <- OneWan
  FirstWan = wan0
  Removable <- NoWan
  NumWorkers = 1
  XskCap = 2
  RingCap = 4
  Batch = 2
  None = None
  Layout <- Lent1Pool1
INVARIANT
  ReserveNeverFails
PROPERTY
  FramesReturn
