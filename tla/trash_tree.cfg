CONSTANTS
  Folders = {d1, d2}
  Files = {f1}
  Workers = {w1, w2}
  janitor = janitor
  MaxBatches = 2
  MaxExpired = 0
  MaxFaults = 1
  NONE = NONE
SPECIFICATION Spec
INVARIANTS TypeOK BlobKept UsageExact BytesFreed ActiveUnderActive Acyclic
PROPERTY ActiveNeverPurged
SYMMETRY Symmetry
CHECK_DEADLOCK FALSE
