SPECIFICATION Spec
CONSTANTS
  Panels = {p1, p2}
  Visits = {s1}
  Answers = {a1}
  Root = Root
  Nil = Nil
INVARIANTS TypeOK AllStored CrashIsRace Recovered Covered NoLoop
SYMMETRY PanelSymmetry
CHECK_DEADLOCK FALSE
