SPECIFICATION Spec
CONSTANTS
  Callers = {c1, c2}
  Asked <- FromMinus1To1
  Offers = {2}
  MaxRequests = 2
  MaxBoots = 2
INVARIANT OneReinstall
CHECK_DEADLOCK FALSE
