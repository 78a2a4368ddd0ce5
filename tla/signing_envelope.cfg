CONSTANTS
  Workers = {w1, w2}
  Signers = {a, b}
  MaxDocs = 2
  MaxFaults = 1
  NONE = NONE
SPECIFICATION Spec
INVARIANTS TypeOK Unanimous SealedAsSigned  LastSignerCloses
PROPERTY ClosedForGood
SYMMETRY Symmetry
CHECK_DEADLOCK FALSE
