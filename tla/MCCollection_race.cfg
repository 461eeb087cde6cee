CONSTANTS
  Attempts = {a1, a2}
  Accounts = {x1, x2}
  Procs = {p1, p2}
  Nobody = Nobody
  Leftover = {x1}
  Events = {"forget", "route"}
  MaxEvents = 1
SPECIFICATION Spec
SYMMETRY Symmetry
CHECK_DEADLOCK FALSE
INVARIANTS TypeOK LiveOnlySettled OneLiveLink ContainedIsUnbound
PROPERTIES NoRollback ReplacedBeforeWithdrawn KeepsPromise
