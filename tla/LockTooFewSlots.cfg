SPECIFICATION Spec
CONSTANTS
  Threads = {t1, t2}
  nthread = 1
  Garbage = {0}
INVARIANT MutualExclusion
