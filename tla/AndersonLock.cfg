SPECIFICATION FairSpec
CONSTANTS
  Threads = {t1, t2, t3, t4}
  nthread = 4
  Garbage = {0}
INVARIANTS TypeOK MutualExclusion FirstComeFirstServed
PROPERTY EveryoneEnters
