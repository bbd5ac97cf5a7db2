SPECIFICATION Spec
CONSTANTS
  Elems = {e1, e2, e3, e4}
  NULL = NULL
  nhash = 2
  max_size = 400
  evictalgo = "EVICT_LRU"
  Keys = {0, 1, 2}
  Sizes = {1, 65, 400}
INVARIANT ValueFits
