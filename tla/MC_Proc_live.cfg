SPECIFICATION FairSpec
CONSTANTS
  Procs = {init, p1, p2}
  InitP = init
  First = p1
  Streams = {tty}
  init = init
  p1 = p1
  p2 = p2
  tty = tty
  SelWait = SelWait
  Drain = Drain
  NoChan = NoChan
  NoProc = NoProc
  NoSig = NoSig
  Sigs = {"KILL", "STOP", "CONT"}
  Calls = {"wait", "io"}
  Caught = {}
  Held = {}
  Settable <- MCSettable
  MaxCalls = 1
  MaxKills = 2
  MaxTty = 0
  MaxForks = 1
  MaxSets = 0
  MaxSecs = 1
INVARIANTS
  WaitsForSomething
  ParentLives
PROPERTIES
  KilledDies
  OrphansReaped
CHECK_DEADLOCK FALSE
