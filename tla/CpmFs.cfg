SPECIFICATION Spec
CONSTANTS
  DRM = 3
  DSM = 6
  PerBlock = 2
  AL = {0, 1}
  DBL = 2
  BLKNR = 2
  RPB = 2
  Bad = {4}
  RootSize = 4
  ExtSize = 1
  MaxCalls = 4
  Code <- MCCode
  Keys <- MCKeys
  Sources <- MCSources
  Names <- MCNames
  Patterns <- MCPatterns
  Transfers <- MCTransfers
  Disks <- MCDisks
CHECK_DEADLOCK FALSE
INVARIANTS
  BlocksHaveOneOwner
  GetDeliversBehind
  PutStores
PROPERTIES
  EraseExact
  RenMoves
  StoreSpec
