SPECIFICATION Spec
CONSTANTS
  Names <- MCNames
  Nodes <- MCNodes
  KeyOnly <- MCKeyOnly
  ModeOf <- MCModeOf
  Values = {blank, v1}
  Blank = blank
  Absent = absent
  NULL = null
  Freed = freed
  SysrepoFaults = {}
  ExternalClients = FALSE
PROPERTY ExitReturns
