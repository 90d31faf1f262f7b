SPECIFICATION Spec
CONSTANTS
  SECTORS = 4
  WINDOW = 2
  WORD_MOD = 16
  NO_LBABASE = 12
  EmulatorDrive = 1
  UINT32_MOD = 64
  FAT_SECTOR_SIZE = 1
  FatEntries = 2
  Data = {"x", "y"}
  SetlbabaseMayFail = FALSE
INVARIANTS
  AccessesSectorAsked
PROPERTIES
  ImplementsBlockStore
