SPECIFICATION Spec
CONSTANTS
  Player <- MCPlayer
  Endpoint <- MCEndpoint
  Peer <- MCPeer
  Sends <- FirstIDs
  RetryTime = 0
  FrameGrouping = 1
  MaxQuitFlushTime = 1
  Leavers <- MCEndpoint
  PacketCommands = 1
PROPERTIES
  AckTakesItsCommand
CHECK_DEADLOCK FALSE
