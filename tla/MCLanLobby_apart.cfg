SPECIFICATION Spec
CONSTANTS
  ann = ann
  bob = bob
  Open = Open
  Closed = Closed
  NoGame = NoGame
  Joiner <- Two
  Slot <- TwoSlots
  Lossy = FALSE
  Edits <- Nothing
  Kicks <- Nothing
  Leavers <- One
  Asks <- Accepts
  MaxRules = 0
  MaxLooks = 0
  MaxQueue = 1
INVARIANT SameGame
CHECK_DEADLOCK FALSE
