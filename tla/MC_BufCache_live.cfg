\* Delayed writes, closes, mounts and unmounts; every operation ends.
\* Contents do not matter, so there is one value; one block, so that they meet.
SPECIFICATION FairSpec
CONSTANTS
  Procs = {p1, p2}
  Bufs = {b1, b2, b3}
  Blocks = {sb}
  Super = sb
  Values = {v1}
  NoBlock = NoBlock
  NoBuf = NoBuf
  NoChan = NoChan
  NoValue = NoValue
  FreeList = FreeList
  Ops = {"update", "empty", "close", "mount", "umount"}
  MaxOps = 5
  IOErrors = FALSE
  Faults = FALSE
INVARIANTS
  NoLostWakeup
  NoPanic
PROPERTIES
  OperationsEnd
