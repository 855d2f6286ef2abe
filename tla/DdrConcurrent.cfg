SPECIFICATION FairSpec
CONSTANTS
  Name = {w1, w2}
  Date = {d1, d2}
  Bit = {b1}
  Req = {r1, r2, r3}
  Seeded = {w1}
  None = None
  Overlap = TRUE
INVARIANTS
  OneReportPerDay
  FiledAsAWhole
  ConflictIsReal
PROPERTIES
  EveryRequestAnswered
CHECK_DEADLOCK FALSE
