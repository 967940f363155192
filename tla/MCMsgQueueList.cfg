CONSTANTS
  Getters = {t1, t2}
  Whats = {a, b}
  FLUSH = FLUSH
  MaxId = 4
  MaxNode = 4
SYMMETRY GetterSymmetry
SPECIFICATION Spec
INVARIANTS ListOK ObjectsOwned
PROPERTY ImplementsMsgQueue
CHECK_DEADLOCK FALSE
