SPECIFICATION TalkingSpec
CONSTANTS
  ann = ann
  bob = bob
  Open = Open
  Closed = Closed
  NoGame = NoGame
  Joiner <- Two
  Slot <- TwoSlots
  Lossy = FALSE
  Edits <- Nothing
  Kicks <- OpenOrClosed
  Leavers <- Nobody
  Asks <- Nothing
  MaxRules = 0
  MaxLooks = 0
  MaxQueue = 1
PROPERTY KickedLeave
CHECK_DEADLOCK FALSE
