SPECIFICATION Spec
CONSTANTS
  Dpb <- MCDpb
  Header <- MCHeader
  TrackHeader <- MCTrackHeader
  Blocks = {0, 1, 2, 3, 4}
  Data = {"a", "b"}
  Labels <- MCLabels
  Filler = "a"
  MaxWrites = 2
  None = None
INVARIANTS
  TypeOK
  TrackCoherent
  WriteReachesImage
  ReadDelivers
PROPERTIES
  OnlyAskedChanges
  CallsReturn
