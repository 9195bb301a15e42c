SPECIFICATION FlowSpec
CONSTANTS
  f1 = f1
  f2 = f2
  a = a
  b = b
  c = c
  Flows = {f1}
  Hash <- HashOf
  Names = {a, b, c}
  Configs <- Loaded
  Weights = {1, 2}
  Window = 6
  Sizes = {1, 3}
  Word = 16
  Timeout = 1
  BlendTicks = 2
  MaxLag = 1
  MaxFlowReloads = 2
  MaxSeq = 4
INVARIANTS
  PickIsOffered
PROPERTIES
  StaysAreShares
  FreshFlowKept
CHECK_DEADLOCK FALSE
