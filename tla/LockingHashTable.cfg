SPECIFICATION TableSpec
CONSTANTS
  Threads = {t1, t2, t3}
  nthread = 3
  Garbage = {0}
  Elems = {e1, e2, e3}
  NULL = NULL
  nhash = 2
  max_size = 256
  evictalgo = "EVICT_LRU"
  Keys = {0, 1, 2}
SYMMETRY Symmetry
INVARIANTS CountsExact HeldIntact EvictAssertHolds
