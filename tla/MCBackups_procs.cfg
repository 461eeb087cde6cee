CONSTANTS
  Procs = {p1, p2}
  NoProc = NoProc
  Workflows = {w1, w2}
  OperatorReasons = {"manual"}
  Tools = {"list", "write", "restore", "erase"}
  MaxOps = 3
  MaxFaults = 2
  KeepEach = 1
  Keep <- MCKeep
SPECIFICATION Spec
SYMMETRY Symmetry
INVARIANTS OneOpen FenceHolds RestorePointPrecedes GenerationIsExact ErasedCopiesGone RegisteredCopyStands

