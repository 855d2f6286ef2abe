SPECIFICATION FairSpec
CONSTANTS
  Plan = {p1}
  Req = {r1, r2, r3, r4}
  None = None
  Overlap = TRUE
INVARIANTS
  ProposedHasOpenApproval
  AuditIsExact
  DecisionIsAccountable
PROPERTIES
  EveryRequestAnswered
CHECK_DEADLOCK FALSE
