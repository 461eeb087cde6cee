CONSTANTS
  Procs = {p1, p2}
  NoProc = NoProc
  Workflows = {w1}
  OperatorReasons = {"manual"}
  Tools = {"list", "backup", "write", "restore", "erase"}
  MaxOps = 2
  MaxFaults = 1
  KeepEach = 1
  Keep <- MCKeep
SPECIFICATION FairSpec
PROPERTIES OpenOperationsSettle
