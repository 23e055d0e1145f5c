SPECIFICATION FairSpec
CONSTANTS
  Handlers = {h1}
  Kinds = {"deauth", "proxy", "reload"}
  Proxies = {"good", "unknown"}
  Starts = {TRUE, FALSE}
  Errors = TRUE
  QLimit = 1
  MaxTries = 2
INVARIANTS TypeOK NoOrphan MainClientLives GivesUpLate
PROPERTIES Reconnects ReloadEnds
CHECK_DEADLOCK FALSE
