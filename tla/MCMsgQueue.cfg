CONSTANTS
  Getters = {t1}
  Whats = {a, b}
  FLUSH = FLUSH
  MaxId = 5
SPECIFICATION FairSpec
INVARIANTS TypeOK NoLostWakeup Fifo
PROPERTIES AbortUnblocks Consumed
