SPECIFICATION Spec
CONSTANTS
  Modules <- MCModules
  Data <- MCData
  Kind <- MCKind
  ReadOnly <- MCReadOnly
  UserOrdered <- MCUserOrdered
  Org <- MCOrg
  LibNames <- MCLibNames
  NoHash = nohash
  NULL = null
  Freed = freed
  MaxLoads = 2
INVARIANT TypeOK
INVARIANT TopFresh
INVARIANT ConfigReachable
INVARIANT NoReachable
INVARIANT FirstLoadClean
PROPERTY ForeignKept
