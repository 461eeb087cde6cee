CONSTANTS
  p1 = p1
  p2 = p2
  Procs = {p1, p2}
  Nobody = Nobody
  Contents <- MCContents
  Namespace <- MCNamespace
  Scenarios <- MCReingest
  MatchWindow = 2
  DriftBound = 1
  MaxExactCluster = 2
  Margin = 2
  DefaultWindow = 6
  DeepWindow = 20
  MinSample = 2
  MinSpan = 2
  RefusalsBeforeCheck = 2
  MaxTagsPerRule = 2
  MaxTagsPerRow = 2
  MaxTagsPerNamespace = 1
  MaxNamespacedPerRow = 1
  RulebookCap = 2
  MonthLength = 5
SPECIFICATION Spec
CHECK_DEADLOCK FALSE
PROPERTIES ReingestInsertsNothing
