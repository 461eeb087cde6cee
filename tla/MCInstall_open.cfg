CONSTANTS
  p1 = p1
  p2 = p2
  Procs = {p1, p2}
  Nobody = Nobody
  Scenarios <- MCFirst
SPECIFICATION Spec
CHECK_DEADLOCK FALSE
INVARIANTS CreationSurvivesCrash
