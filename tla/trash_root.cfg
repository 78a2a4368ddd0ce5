CONSTANTS
  Folders = {d1, d2}
  Files = {f1}
  Workers = {w1}
  janitor = janitor
  MaxBatches = 2
  MaxExpired = 0
  MaxFaults = 0
  NONE = NONE
SPECIFICATION Spec
INVARIANT Restorable
CHECK_DEADLOCK FALSE
