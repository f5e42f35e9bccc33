\* Two processes, three buffers, a disk without errors.
SPECIFICATION Spec
CONSTANTS
  Procs = {p1, p2}
  Bufs = {b1, b2, b3}
  Blocks = {sb, x}
  Super = sb
  Values = {v1, v2}
  NoBlock = NoBlock
  NoBuf = NoBuf
  NoChan = NoChan
  NoValue = NoValue
  FreeList = FreeList
  Ops = {"read", "readahead", "update", "overwrite", "empty", "sync", "mount", "umount"}
  MaxOps = 3
  IOErrors = FALSE
  Faults = FALSE
SYMMETRY Symmetry
INVARIANTS
  TypeOK
  OneBufferPerBlock
  Exclusive
  CleanMatchesDisk
PROPERTIES
  ImplementsBlockStore
