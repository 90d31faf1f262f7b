SPECIFICATION Spec
CONSTANTS
  Dirs <- TreeDirs
  Files <- TreeFiles
  Root = "root"
  Invalid = "invalid"
  Names <- MCNames
  NoName = "noname"
  Slash = "/"
  Listing <- FrontListing
  NUMBER_OF_FILE_ON_DISPLAY = 2
  FL_STATUSTABLEN = 4
  NUMBER_OF_SLOT = 2
  UCHAR_MOD = 8
  InitSlots <- NoSlots
  InitSettings <- SoundOn
PROPERTIES
  ImplementsPager
CHECK_DEADLOCK FALSE
