SPECIFICATION FairSpec
CONSTANTS
  Higher = Higher
  Lower = Lower
  Nobody = Nobody
  Tap = TRUE
  Modes = {"dynamic", "initiator", "responder"}
  MaxRestarts = 1
  QueueSize = 1
INVARIANTS
  KeysAgree
  RolesComplement
  KeyWasAnswered
PROPERTIES
  ExchangeCompletes
CHECK_DEADLOCK FALSE
