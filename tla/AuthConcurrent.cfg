SPECIFICATION Spec
CONSTANTS
  User = {u1}
  Req = {r1, r2, r3, r4}
  None = None
  Overlap = TRUE
PROPERTIES
  RetiredStaysRetired
  DeactivatedGetsNoToken
  AccessOnlyRunsOut
CHECK_DEADLOCK FALSE
