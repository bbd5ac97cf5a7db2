SPECIFICATION Spec
CONSTANTS
  NSERVERS = 2
  MAX_SERVERS = 2
  NCLIENTS = 2
  INPB_COUNT = 1
  INPB_SIZE = 2
  OUTB_SIZE = 3
  DoAllClients = {1}
  Ops = {"lookup"}
  MaxRequests = 3
  MaxReleases = 0
INVARIANTS AnswersConserved AnswersInOrder PendingCountExact
