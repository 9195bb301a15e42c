SPECIFICATION PickSpec
CONSTANTS
  a = a
  b = b
  c = c
  p1 = p1
  p2 = p2
  None = None
  Wans = {a, b, c}
  Profiles = {p1, p2}
  Optional = {c}
  MaxSlots = 3
  DrainTicks = 1
  MaxReloads = 2
SYMMETRY WanSymmetry
INVARIANT
  AppliedIsReachable
