SPECIFICATION Spec
CONSTANTS
  Handlers = {h1}
  Kinds = {"proxy"}
  Proxies = {"unparsed"}
  Starts = {TRUE}
  Errors = FALSE
  QLimit = 1
  MaxTries = 2
INVARIANT MainClientLives
CHECK_DEADLOCK FALSE
