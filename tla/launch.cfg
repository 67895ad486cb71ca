CONSTANTS
  MaxAsks = 3
SPECIFICATION FairSpec
INVARIANTS TypeOK Promise StartPending
PROPERTIES ByHand Autostarts NeverRests
