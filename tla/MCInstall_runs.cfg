CONSTANTS
  p1 = p1
  p2 = p2
  Procs = {p1, p2}
  Nobody = Nobody
  Scenarios <- MCScenarios
SPECIFICATION Spec
CHECK_DEADLOCK FALSE
INVARIANTS TypeOK OneWorld SchemaWhole RecordedUntilGone
PROPERTIES NothingRefills CompleteIsClean RegisteredKeyIsReadable OneApplication
