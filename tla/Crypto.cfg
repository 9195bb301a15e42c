SPECIFICATION Spec
CONSTANTS
  kA = kA
  kB = kB
  kC = kC
  h = h
  i1 = i1
  i2 = i2
  ZeroKey = ZeroKey
  None = None
  Mixed = Mixed
  MaxWireId = 3
  MaxPolicies = 3
  MaxInterfaces = 2
  MaxProfiles = 2
  Configs <- Loaded
  Sizes <- SmallSizes
  Flows <- SmallFlows
  Grace = 1
  MaxReloads = 2
INVARIANTS
  SentUnderItsPolicy
  Served
  KeysInForce
  IdsNameKeys
  FramesFit
  Restored
CHECK_DEADLOCK FALSE
