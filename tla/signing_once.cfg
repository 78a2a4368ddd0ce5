CONSTANTS
  Workers = {w1, w2}
  Signers = {a, b}
  MaxDocs = 2
  MaxFaults = 0
  NONE = NONE
SPECIFICATION Spec
INVARIANT ExecutesOnce
SYMMETRY Symmetry
CHECK_DEADLOCK FALSE
