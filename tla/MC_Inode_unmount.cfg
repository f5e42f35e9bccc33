\* unmount meets the exit of the last process that runs a text.
\* Programs stop calling, and the kernel may panic: a state without successor is no deadlock.
CONSTANTS
  p1 = p1
  p2 = p2
  p3 = p3
  sw = sw
  Proc = {p1, p2, p3, sw}
  Swapper = sw
  NInode = 4
  File <- Files
  Name <- Names
  NICINOD = 1
  NText = 2
  Scenarios <- UnmountText
SPECIFICATION TextSpec
CHECK_DEADLOCK FALSE
INVARIANTS
  NoTextSleeperForgotten
