SPECIFICATION Spec
CONSTANTS
  FileSize = 4
  MaxFaults = 2
  Forwards = 2
  Backwards = 1
  Chunk = 2
  ShortSeek = 1
  MaxRead = 2
INVARIANTS RingInPlace EofIsTheEnd
PROPERTIES IsAFile CallsReturn
CHECK_DEADLOCK FALSE
