SPECIFICATION Spec
CONSTANTS
  User = {u1, u2}
  Req = {r1, r2, r3, r4}
  None = None
  Overlap = FALSE
SYMMETRY RequestSymmetry
INVARIANTS
  RefreshTokenUsedOnce
  SessionsStayEnded
PROPERTIES
  LifecycleSpec
CHECK_DEADLOCK FALSE
