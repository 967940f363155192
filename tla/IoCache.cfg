SPECIFICATION Spec
CONSTANTS
  Ctx = {f1, f2}
  FileSize = 2
  Capacity = 3
  Forwards = {0, 1}
  MaxTroubles = 2
  MaxRestarts = 1
  MaxCalls = 4
INVARIANTS CacheHoldsFile ReadsTheFile WindowCached EofIsTheEnd
PROPERTIES CallsReturn
CHECK_DEADLOCK FALSE
