\* Programs stop calling: a state without successor is no deadlock.
CONSTANTS
  p1 = p1
  p2 = p2
  p3 = p3
  Proc = {p1, p2, p3}
  None = None
  ReadSizes = {1, 4}
  WriteSizes = {1, 3}
  MaxChars = 6
  MaxIoctls = 2
  Scenarios <- AllScenarios
SPECIFICATION FairStreamSpec
CHECK_DEADLOCK FALSE
INVARIANTS
  StreamTypeOK
  PathInOrder
  NoStreamSleeperForgotten
  HangupArrives
PROPERTIES
  FlowGoesOn
