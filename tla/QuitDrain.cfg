SPECIFICATION Spec
CONSTANTS
  NSERVERS = 1
  MAX_SERVERS = 1
  NCLIENTS = 1
  INPB_COUNT = 2
  INPB_SIZE = 2
  OUTB_SIZE = 4
  DoAllClients = {}
  Ops = {"lookup"}
  MaxRequests = 4
  MaxReleases = 3
INVARIANTS QuitCompletesAll
