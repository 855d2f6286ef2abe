SPECIFICATION Spec
CONSTANTS
  None = None
  Bins = 4
  Threshold <- MCThreshold
  SlopeFraction <- MCSlopeFraction
  Metrics = {"wob", "rop"}
  MaxPoints = 3
  MaxReports = 1
  MaxWob = 3
  MaxRpm = 3
  FtPerM = 3
  Sweeps = 5
  Runs = 4
  WobBins = 2
  RpmBins = 2
  Lines = 5
  MaxValue = 3
  Rops = {0, 1, 3, 4}
  Items = 4
  PrintedLines = 2
  Columns = {0, 2, 4}
  MaxLen = 3
  Exchanges = 3
INVARIANTS
  FounderIsSound
  StatisticsAreFair
  FiguresAreFinite
  MissingIsFlagged
  DashboardAgrees
  TextIsReadInFull
  PageIsReadAsPrinted
  ExchangeIsSafe
CHECK_DEADLOCK FALSE
