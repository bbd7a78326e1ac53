SPECIFICATION Spec
CONSTANTS
  p1 = p1
  p2 = p2
  Player = {p1, p2}
  PacketRouter = p1
  MayLeave = {}
  MAX_FRAMES_AHEAD = 6
  MIN_RUNAHEAD = 1
  InitialRunAhead = 3
  MaxFrame = 5
  MaxCommands <- MCMaxCommands
  RouterCommands = 2
  Talkers = {}
  TalkerCommands = 1
INVARIANTS
  TypeOK
  CountIsFinal
  RunAheadAgreement
PROPERTIES
  ImplementsFrameSync
CHECK_DEADLOCK FALSE
