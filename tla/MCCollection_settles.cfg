CONSTANTS
  Attempts = {a1, a2}
  Accounts = {x1}
  Procs = {p1}
  Nobody = Nobody
  Leftover = {}
  Events = {"crash", "unlink", "forget", "route"}
  MaxEvents = 1
SPECIFICATION FairSpec
CHECK_DEADLOCK FALSE
INVARIANTS ConsentVisible
PROPERTIES DecidedEventually
