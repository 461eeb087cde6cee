CONSTANTS
  Attempts = {a1, a2}
  Accounts = {x1}
  Procs = {p1, p2}
  Nobody = Nobody
  Leftover = {}
  Events = {"crash", "unlink", "forget", "route"}
  MaxEvents = 0
SPECIFICATION Spec
SYMMETRY Symmetry
CHECK_DEADLOCK FALSE
PROPERTIES SwitchUnderLease
