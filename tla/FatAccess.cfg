SPECIFICATION FairSpec
CONSTANTS
  Clusters <- MCClusters
  LAST = 999
  Root = 2
  Fat <- MCFat
  SectorsPerCluster = 2
  EntriesPerSector = 2
  CacheEntries = 2
  FatPerSector = 4
  Names <- MCNames
  Card <- MCCard
  ConfigName = "cfg"
  MaxChain = 4
  Chain <- MCChain
INVARIANTS
  ListReadsOwnSectors
  ListStaysInChain
  ReaddirReturnsNext
PROPERTIES
  ReaddirReturns
CHECK_DEADLOCK FALSE
