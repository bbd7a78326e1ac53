SPECIFICATION Spec
CONSTANTS
  ann = ann
  bob = bob
  Open = Open
  Closed = Closed
  NoGame = NoGame
  Joiner <- Two
  Slot <- TwoSlots
  Lossy = FALSE
  Edits <- Nothing
  Kicks <- OpenOnly
  Leavers <- One
  Asks <- AcceptsAndLooks
  MaxRules = 0
  MaxLooks = 1
  MaxQueue = 1
INVARIANTS StayersAgree CountdownMeansAccepted
CHECK_DEADLOCK FALSE
