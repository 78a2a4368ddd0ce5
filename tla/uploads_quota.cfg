CONSTANTS
  Workers = {w1, w2}
  Paths = {p1, p2}
  Workspaces = {main}
  Chunks = {c1}
  PostSizes = {1, 2}
  MaxFileSize = 1
  MaxStorage = 2
  Allocation <- MCAllocation
  TransferCap = 2
  MaxCopies = 1
  MaxFaults = 0
  NONE = NONE
SPECIFICATION Spec
INVARIANTS TypeOK QuotaRespected NamesDistinct UsageExact OrphanNeedsFault
PROPERTY ImplementsLedger
SYMMETRY Symmetry
CHECK_DEADLOCK FALSE
