SPECIFICATION RingSpec
CONSTANTS
  Dirs <- TreeDirs
  Files <- TreeFiles
  Root = "root"
  Invalid = "invalid"
  Names <- MCNames
  NoName = "noname"
  Slash = "/"
  Listing <- TreeListing
  NUMBER_OF_FILE_ON_DISPLAY = 2
  FL_STATUSTABLEN = 4
  NUMBER_OF_SLOT = 3
  UCHAR_MOD = 8
  InitSlots <- NoSlots
  InitSettings <- SoundOn
INVARIANTS
  TypeOK
  SelectorInBounds
  PageAnchored
  RingWindow
PROPERTIES
  ForwardIsContiguous
  EnterOpensSelected
  SlotsChangeOnlyByKey
CHECK_DEADLOCK FALSE
