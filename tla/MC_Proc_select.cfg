SPECIFICATION Spec
CONSTANTS
  Procs = {init, p1, p2}
  InitP = init
  First = p1
  Streams = {tty}
  init = init
  p1 = p1
  p2 = p2
  tty = tty
  SelWait = SelWait
  Drain = Drain
  NoChan = NoChan
  NoProc = NoProc
  NoSig = NoSig
  Sigs = {"HUP"}
  Calls = {"select", "accept", "ioctl"}
  Caught = {}
  Held = {}
  Settable <- MCSettable
  MaxCalls = 3
  MaxKills = 0
  MaxTty = 1
  MaxForks = 1
  MaxSets = 0
  MaxSecs = 1
INVARIANTS
  NoLostEvent
CHECK_DEADLOCK FALSE
