SPECIFICATION Spec
CONSTANTS
  r = r  a = a  b = b  big = big  huge = huge
  Player <- MCPlayer
  Router <- MCRouter
  Large  <- MCLarge
  Origin <- MCOrigin
  Id     <- Ids
  Chunks <- MCChunks
  Relay  <- MCRelay
INVARIANTS RebuiltWhole TypeOK
