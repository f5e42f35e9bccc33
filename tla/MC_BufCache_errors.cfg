\* A disk that reports errors, and iomove that fails half way.
\* The kernel may stop (panic), so a state without successor is no deadlock.
SPECIFICATION Spec
CONSTANTS
  Procs = {p1, p2}
  Bufs = {b1, b2, b3}
  Blocks = {sb, x}
  Super = sb
  Values = {v1, v2}
  NoBlock = NoBlock
  NoBuf = NoBuf
  NoChan = NoChan
  NoValue = NoValue
  FreeList = FreeList
  Ops = {"readahead", "update", "overwrite"}
  MaxOps = 3
  IOErrors = TRUE
  Faults = TRUE
SYMMETRY Symmetry
CHECK_DEADLOCK FALSE
INVARIANTS
  SyncWriteDurable
