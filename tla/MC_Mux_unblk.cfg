SPECIFICATION MuxSpec
CONSTANTS
  NChannels = 1
  Pxtimeout = 1
  Prtimeout = 1
  CData = {0, 1}
  HostMsgs = 2
  Big = {1, 2}
  MaxMsgs <- MCMaxMsgs
  PacketSize <- MCPacketSize
  MaxFlight = 2
INVARIANTS
  IdleLayerIsRead
CHECK_DEADLOCK FALSE
