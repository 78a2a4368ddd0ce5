CONSTANTS
  Workers = {w1, w2}
  Paths = {p1}
  Workspaces = {main}
  Chunks = {c1, c2}
  PostSizes = {1, 3}
  MaxFileSize = 2
  MaxStorage = 4
  Allocation <- MCAllocation
  TransferCap = 3
  MaxCopies = 1
  MaxFaults = 1
  NONE = NONE
SPECIFICATION FairSpec
INVARIANTS FileIntact OrphanNeedsFault
PROPERTY ExpiredSwept
CHECK_DEADLOCK FALSE
