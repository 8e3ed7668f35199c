SPECIFICATION ContextSpec
CONSTANTS
  Names <- mcNames
  Nodes <- mcNodes
  KeyOnly <- mcKeyOnly
  ModeOf <- mcModeOf
  Values = {blank, v1}
  Blank = blank
  Absent = absent
  NULL = null
  Freed = freed
  SysrepoFaults = {"read", "discard"}
  ExternalClients = TRUE
  MaxHeld = 3
INVARIANT FailedDiscardContained
INVARIANT SnapshotsHold
