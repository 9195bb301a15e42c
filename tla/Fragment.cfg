SPECIFICATION Spec
CONSTANTS
  a = a
  b = b
  c = c
  None = None
  Packets = {a, b, c}
  Ids = {0, 1, 2}
  TableSize = 2
  Timeout = 1
  Modulus = 16
  MaxTime = 4
  MaxDups = 1
SYMMETRY PacketSymmetry
INVARIANTS
  JoinsMatch
  HalvesMeet
PROPERTY
  YoungOnlyByRace
