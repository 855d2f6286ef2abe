SPECIFICATION Spec
CONSTANTS
  Plan = {p1, p2}
  Req = {r1, r2, r3, r4, r5}
  None = None
  Overlap = FALSE
SYMMETRY RequestSymmetry
INVARIANTS
  OneOpenApproval
  DecisionIsRecorded
PROPERTIES
  LifecycleSpec
CHECK_DEADLOCK FALSE
