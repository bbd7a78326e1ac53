SPECIFICATION Spec
CONSTANTS
  ann = ann
  bob = bob
  Open = Open
  Closed = Closed
  NoGame = NoGame
  Joiner <- One
  Slot <- OneSlot
  Lossy = TRUE
  Edits <- Nothing
  Kicks <- Nothing
  Leavers <- One
  Asks <- AllAsks
  MaxRules = 1
  MaxLooks = 0
  MaxQueue = 2
INVARIANTS CountdownMeansAccepted TypeOK
PROPERTY EntersOnlyIfListed
CHECK_DEADLOCK FALSE
