SPECIFICATION Spec
CONSTANTS
  p1 = p1
  p2 = p2
  Player = {p1, p2}
  PacketRouter = p1
  MayLeave = {p2}
  MAX_FRAMES_AHEAD = 2
  MIN_RUNAHEAD = 1
  InitialRunAhead = 1
  MaxFrame = 8
  MaxCommands <- MCMaxCommands
  RouterCommands = 0
  Talkers = {p2}
  TalkerCommands = 2
INVARIANTS
  LockstepAgreement
  NoAliasing
  NeverResend
  NothingLost
PROPERTIES
  ReadyIsStable
CHECK_DEADLOCK FALSE
