SPECIFICATION Spec
CONSTANTS
  ann = ann
  bob = bob
  Open = Open
  Closed = Closed
  NoGame = NoGame
  Joiner <- One
  Slot <- OneSlot
  Lossy = FALSE
  Edits <- Nothing
  Kicks <- Nothing
  Leavers <- Nobody
  Asks <- Accepts
  MaxRules = 1
  MaxLooks = 0
  MaxQueue = 2
INVARIANT StartsAsAgreed
CHECK_DEADLOCK FALSE
