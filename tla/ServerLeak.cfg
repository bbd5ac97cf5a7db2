SPECIFICATION Spec
CONSTANTS
  nclients = 2
  MAX_SOCKETS = 1
  batch_size = 2
  MAX_VALUE_SIZE = 2
  VALUE_BUFFER_SIZE = 4
  reader = c1
  Conns = {c1, c2}
  k1 = k1
  Keys = {k1, k2}
  NULL = NULL
  Requests <- ReaderAndWriter
  MaxRequests = 2
  SOCKBUF = 1
INVARIANT NoLeak
