SPECIFICATION Spec
CONSTANTS
  Hosts = {}
  Guests = {g1, g2}
  Viewers = {v1}
  WaitCount = 1
  Proxy = FALSE
  LinkFails = FALSE
  Nil = Nil
SYMMETRY GuestSymmetry
INVARIANT OneVisit
CHECK_DEADLOCK FALSE
