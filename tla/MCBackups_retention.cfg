CONSTANTS
  Procs = {p1}
  NoProc = NoProc
  Workflows = {w1}
  OperatorReasons = {"manual"}
  Tools = {"list", "backup"}
  MaxOps = 3
  MaxFaults = 1
  KeepEach = 1
  Keep <- MCKeep
SPECIFICATION Spec
INVARIANTS RetentionBounded
