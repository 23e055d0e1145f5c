SPECIFICATION Spec
CONSTANTS
  Hosts = {h1}
  Guests = {g1}
  Viewers = {v1}
  WaitCount = 1
  Proxy = FALSE
  LinkFails = TRUE
  Nil = Nil
INVARIANTS TypeOK CountsVisits OneReason NoPanic TornDown
PROPERTY PanelsSpec
CHECK_DEADLOCK FALSE
