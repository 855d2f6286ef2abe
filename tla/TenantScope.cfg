SPECIFICATION FairSpec
CONSTANTS
  Req = {1, 2, 3}
  Conn = {c1, c2}
  Tenant = {a, b}
  None = None
  MAX_POINTS = 2
  MAX_REPORTS = 1
  MaxReaders = 1
INVARIANTS
  OnlyOwnRows
  ScopeEndsWithTransaction
  ExportIsAudited
  AnsweredIsVisible
PROPERTIES
  EveryRequestAnswered
  DatabasesSpec
CHECK_DEADLOCK FALSE
