CONSTANTS
  Last = 2
  Keys = {0, 2}
  EndTime = 3
  Limit = 2
  PictqSize = 3
  CodecDelay = 1
  MaxSeek = 1
  MaxToggle = 0
  FailSeeks = TRUE
  MayClose = FALSE
SPECIFICATION Spec
INVARIANTS SlotsDisjoint PicturesOfTheirSerial CompletedMeansShown
PROPERTIES ShownInOrder
CHECK_DEADLOCK FALSE
