SPECIFICATION FairSpec
CONSTANTS
  Player <- MCPlayer
  Endpoint <- MCEndpoint
  Peer <- MCPeer
  Sends <- RelayedSends
  RetryTime = 0
  FrameGrouping = 1
  MaxQuitFlushTime = 0
  Leavers <- First
  PacketCommands = 1
INVARIANTS
  NothingForgotten
  TypeOK
PROPERTIES
  Arrives
  Drains
  QuittingEnds
  ImplementsReliableDelivery
CHECK_DEADLOCK FALSE
