SPECIFICATION FairSpec
CONSTANTS
  Names <- MCNames
  Nodes <- MCNodes
  KeyOnly <- MCKeyOnly
  ModeOf <- MCModeOf
  Values = {blank}
  Blank = blank
  Absent = absent
  NULL = null
  Freed = freed
  SysrepoFaults = {}
  ExternalClients = TRUE
INVARIANT TypeOK
INVARIANT SubmodeSync
INVARIANT SubmodeTreesLive
INVARIANT PointerExact
INVARIANT FaultOnlyAtTop
PROPERTY NavigationSpec
PROPERTY WalksEnd
