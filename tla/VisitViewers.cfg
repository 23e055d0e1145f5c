SPECIFICATION FairSpec
CONSTANTS
  Hosts = {}
  Guests = {g1}
  Viewers = {v1, v2}
  WaitCount = 1
  Proxy = TRUE
  LinkFails = FALSE
  Nil = Nil
PROPERTIES ViewerServed Teardown
CHECK_DEADLOCK FALSE
