CONSTANTS
  Last = 3
  Keys = {0}
  EndTime = 4
  Limit = 2
  PictqSize = 3
  CodecDelay = 1
  MaxSeek = 0
  MaxToggle = 1
  FailSeeks = FALSE
  MayClose = TRUE
SPECIFICATION FairSpec
INVARIANTS ClosedIsUnused
PROPERTIES PlaysOut Closes
CHECK_DEADLOCK FALSE
