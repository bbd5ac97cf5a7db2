SPECIFICATION FairSpec
CONSTANTS
  Elems = {e1, e2}
  NULL = NULL
  nhash = 2
  max_size = 256
  evictalgo = "EVICT_RANDOM"
  Clients = {c1, c2}
  Keys = {0, 1, 2}
  Sizes = {1}
  MaxRequests = 2
INVARIANTS TypeOK RefCountExact HeldAlive HeldWritten DestroyFreesAll
PROPERTY EvictedFreed
