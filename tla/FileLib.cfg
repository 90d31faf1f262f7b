SPECIFICATION FileSpec
CONSTANTS
  Clusters <- MCClusters
  LAST = 99
  Start = 2
  FileLength = 9
  Cluster <- Scattered
  SectorsPerCluster = 2
  BytesPerSector = 2
  WORD_MOD = 100
  Bytes = {0, 1}
  Counts = {1, 2, 5}
  Offsets <- MCOffsets
  WriteSectors = {0, 3}
  InitCard <- MCCard
PROPERTIES
  FreadDeliversFile
  FswriteChangesSector
