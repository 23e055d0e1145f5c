SPECIFICATION Spec
CONSTANTS
  Updaters = {u1}
  MaxUpdates = 3
  MaxCrashes = 2
INVARIANTS TypeOK KeepsPrograms ReloadsNew
CHECK_DEADLOCK FALSE
