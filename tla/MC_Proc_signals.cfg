SPECIFICATION Spec
CONSTANTS
  Procs = {init, p1, p2}
  InitP = init
  First = p1
  Streams = {tty}
  init = init
  p1 = p1
  p2 = p2
  tty = tty
  SelWait = SelWait
  Drain = Drain
  NoChan = NoChan
  NoProc = NoProc
  NoSig = NoSig
  Sigs = {"KILL", "TSTP", "CONT", "HUP"}
  Calls = {"ioctl"}
  Caught = {"HUP", "TSTP", "CONT"}
  Held = {"HUP"}
  Settable <- MCSettable
  MaxCalls = 1
  MaxKills = 2
  MaxTty = 0
  MaxForks = 1
  MaxSets = 1
  MaxSecs = 1
INVARIANTS
  TypeOK
  StopsDontKill
  TimedSleepEnds
PROPERTIES
  StoppedUntilContinued
  TakenSignalKept
  HeldKept
CHECK_DEADLOCK FALSE
