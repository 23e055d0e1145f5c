SPECIFICATION FairSpec
CONSTANTS
  Callers = {c1}
  Asked <- FromMinus2To3
  Offers = {0, 1, 2}
  MaxRequests = 3
  MaxBoots = 3
INVARIANTS TypeOK ReadyIsServable
PROPERTY ReinstallEnds
CHECK_DEADLOCK FALSE
