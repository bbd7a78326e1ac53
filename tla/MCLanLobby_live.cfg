SPECIFICATION FairSpec
CONSTANTS
  ann = ann
  bob = bob
  Open = Open
  Closed = Closed
  NoGame = NoGame
  Joiner <- One
  Slot <- OneSlot
  Lossy = TRUE
  Edits <- OpenOrClosed
  Kicks <- Nothing
  Leavers <- One
  Asks <- AllAsks
  MaxRules = 1
  MaxLooks = 1
  MaxQueue = 1
PROPERTIES GhostsLeave NobodyStranded
CHECK_DEADLOCK FALSE
