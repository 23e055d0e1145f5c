SPECIFICATION FairSpec
CONSTANTS
  Second = 4
  Late = 12
  MaxAge = 13
  Alerts = {a1, a2}
INVARIANTS TypeOK OpenStaysUp Heard
PROPERTY ClosedIsNoticed
CHECK_DEADLOCK FALSE
