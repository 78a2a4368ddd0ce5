CONSTANTS
  Folders = {d1, d2}
  Files = {f1}
  Workers = {w1}
  janitor = janitor
  MaxBatches = 2
  MaxExpired = 2
  MaxFaults = 1
  NONE = NONE
SPECIFICATION FairSpec
INVARIANTS BytesFreed
PROPERTY TrashEmptied
CHECK_DEADLOCK FALSE
