SPECIFICATION Spec
CONSTANTS
  f1 = f1
  f2 = f2
  f3 = f3
  lan = lan
  wan0 = wan0
  Frames <- Frames3
  Locals <- OneLan
  Wans <- OneWan
  FirstWan = wan0
  Removable <- OneWan
  NumWorkers = 2
  XskCap = 1
  RingCap = 2
  Batch = 1
  None = None
  Layout <- Pool3
SYMMETRY FrameSymmetry
INVARIANTS
  SingleOwner
  NoFrameLost
  RoomLasts
