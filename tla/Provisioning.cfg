SPECIFICATION FairSpec
CONSTANTS
  None = None
  Interruptions = 2
  Reruns = 1
  Edits = 2
  LegacyReports = 2
  LegacyRows = 2
INVARIANTS
  DemoRunsAreWhole
  LoadIsWhole
PROPERTIES
  RerunRepairs
  NothingIsOverwritten
CHECK_DEADLOCK FALSE
