SPECIFICATION FairSpec
CONSTANTS
  NSERVERS = 1
  MAX_SERVERS = 1
  NCLIENTS = 2
  INPB_COUNT = 1
  INPB_SIZE = 2
  OUTB_SIZE = 3
  DoAllClients = {1}
  Ops = {"insert"}
  MaxRequests = 5
  MaxReleases = 1
INVARIANTS TypeOK AnswersConserved LastPassServes
PROPERTIES CallReturns StopReturns
