\* Files, mounts, sync and shared text: every scenario that is to go well.
\* Programs stop calling, and the kernel may panic: a state without successor is no deadlock.
CONSTANTS
  p1 = p1
  p2 = p2
  p3 = p3
  sw = sw
  Proc = {p1, p2, p3, sw}
  Swapper = sw
  NInode = 4
  File <- Files
  Name <- Names
  NICINOD = 1
  NText = 2
  Scenarios <- AllScenarios
SPECIFICATION TextSpec
CHECK_DEADLOCK FALSE
INVARIANTS
  TextTypeOK
  OneSlotPerInode
  CountsExact
  LocksHaveOneOwner
  NoInodeSleeperForgotten
  SomeoneMoves
  NamedFilesLive
  UnmountedIsGone
  UseKeepsInode
  RunningTextIsNotWritten
