SPECIFICATION FairSpec
CONSTANTS
  INPB_COUNT = 2
  INPB_SIZE = 3
  Messages <- TwoKinds
INVARIANTS TypeOK LineExclusion NoOverrun BatchIntact IInv
PROPERTIES ImplementsBatchQueue LinesReturned
