SPECIFICATION Spec
CONSTANTS
  Name = {w1, w2}
  Date = {d1, d2}
  Bit = {b1}
  Req = {r1, r2, r3, r4}
  Seeded = {w1}
  None = None
  Overlap = FALSE
SYMMETRY RequestSymmetry
INVARIANTS
  ImportNeverErrors
  OneMasterPerBit
CHECK_DEADLOCK FALSE
