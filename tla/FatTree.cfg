SPECIFICATION Spec
CONSTANTS
  Clusters <- MCClusters
  LAST = 999
  Root = 2
  Fat <- MCFat
  SectorsPerCluster = 2
  EntriesPerSector = 2
  CacheEntries = 2
  FatPerSector = 4
  Names <- MCNames
  Card <- MCCard
  ConfigName = "cfg"
  MaxChain = 2
  Depth = 2
  Chain <- MCChain
INVARIANTS
  OpendirAgreesWithTree
PROPERTIES
  ImplementsDirList
CHECK_DEADLOCK FALSE
