SPECIFICATION Spec
CONSTANTS
  Images = {"old", "new"}
  Empty = "empty"
  Blank = "blank"
  Values = {"on", "off"}
  NUMBER_OF_SLOT = 4
  PerSector = 2
  InitNumber = 2
  InitSectors <- OldSectors
  InitSettings = "on"
INVARIANTS
  EachSlotOldOrNew
  SaveStoresSlots
PROPERTIES
  LoadReadsCard
