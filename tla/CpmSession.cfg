SPECIFICATION Spec
CONSTANTS
  Images = {img}
  NoImage = NoImage
  Defs <- MCDefs
  BuiltIn <- MCBuiltIn
  Answers = {TRUE, FALSE}
INVARIANTS
  TypeOK
  FormatsListedOnce
  DetectedAsMade
  BlocksHavePlaces
  SectorsApart
  TracksWhereWritten
  LengthsSurvive
CHECK_DEADLOCK FALSE
