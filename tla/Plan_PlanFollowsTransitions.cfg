SPECIFICATION Spec
CONSTANTS
  Plan = {p1}
  Req = {r1, r2, r3, r4}
  None = None
  Overlap = TRUE
PROPERTIES
  PlanFollowsTransitions
CHECK_DEADLOCK FALSE
