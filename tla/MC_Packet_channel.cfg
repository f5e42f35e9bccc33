SPECIFICATION FairPacketSpec
CONSTANTS
  NChannels = 1
  Pxtimeout = 1
  Prtimeout = 1
  CData = {0}
  HostMsgs = 6
  TermMsgs = 0
  MaxMsgs <- MCMaxMsgs
  MaxFlight = 3
INVARIANTS
  FreeExact
PROPERTIES
  IsChannel
CHECK_DEADLOCK FALSE
