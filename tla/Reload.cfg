SPECIFICATION FairSpec
CONSTANT MaxVersion = 3
INVARIANTS
  AppliedIsApplied
  IdleAgrees
PROPERTIES
  RewritesFreeSlot
  RequestAnswered
  IsAtomic
