SPECIFICATION ScopeSpec
CONSTANTS
  Names <- mcNames
  Nodes <- mcNodes
  KeyOnly <- mcKeyOnly
  ModeOf <- mcModeOf
  Values = {blank, v1}
  Blank = blank
  Absent = absent
  NULL = null
  Freed = freed
  SysrepoFaults = {}
  ExternalClients = TRUE
PROPERTY CommitsOnlyNamed
PROPERTY CommitEffective
PROPERTY UncommittedSurvives
