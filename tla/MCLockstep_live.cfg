SPECIFICATION FairSpec
CONSTANTS
  p1 = p1
  p2 = p2
  p3 = p3
  Player = {p1, p2, p3}
  PacketRouter = p1
  MayLeave = {p2}
  MAX_FRAMES_AHEAD = 2
  MIN_RUNAHEAD = 1
  InitialRunAhead = 1
  MaxFrame = 3
  MaxCommands <- MCMaxCommands
  RouterCommands = 0
  Talkers = {}
  TalkerCommands = 0
INVARIANTS
  BoundedSkew
PROPERTIES
  Advances
  LeaverLeaves
CHECK_DEADLOCK FALSE
