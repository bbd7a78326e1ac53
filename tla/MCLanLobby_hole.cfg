SPECIFICATION Spec
CONSTANTS
  ann = ann
  bob = bob
  Open = Open
  Closed = Closed
  NoGame = NoGame
  Joiner <- One
  Slot <- OneSlot
  Lossy = FALSE
  Edits <- Nothing
  Kicks <- OpenOnly
  Leavers <- Nobody
  Asks <- Accepts
  MaxRules = 0
  MaxLooks = 0
  MaxQueue = 5
INVARIANT StayersAgree
CHECK_DEADLOCK FALSE
