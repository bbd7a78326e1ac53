SPECIFICATION Spec
CONSTANTS
  r = r  a = a  b = b  big = big  huge = huge
  Player <- MCPlayer
  Router <- MCRouter
  Large  <- MCLarge
  Origin <- MCOrigin
  Id     <- SameIds
  Chunks <- MCChunks
  Relay  <- MCRelay
INVARIANT PresentIsThisChunk
