SPECIFICATION FairSpec
CONSTANTS
  l1 = l1
  l2 = l2
  w1 = w1
  w2 = w2
  pol = pol
  b1 = b1
  b2 = b2
  Profiles = {p1, p2}
  MaxEdits = 2
  MaxNotes = 1
INVARIANTS
  ActiveIdsMatch
  PlugAndUnplugNeverRestarts
  FailedIncrementalIsKept
PROPERTIES
  OneForwarder
  HandlerReturns
  StopHonoured
