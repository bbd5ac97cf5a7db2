SPECIFICATION Spec
CONSTANTS
  Elems = {e1, e2, e3}
  NULL = NULL
  nhash = 2
  max_size = 400
  evictalgo = "EVICT_LRU"
  Keys = {0, 1, 2}
  Sizes = {1, 65, 257, 400}
INVARIANTS TypeOK TableConsistent SizeExact CapacityKept AbortOnlyEmpty
PROPERTY ImplementsLruCache
