SPECIFICATION FairSpec
CONSTANTS
  r = r  a = a  b = b  big = big  huge = huge
  Player <- MCPlayer
  Router <- MCRouter
  Large  <- OneLarge
  Origin <- OneOrigin
  Id     <- OneId
  Chunks <- OneChunks
  Relay  <- OneRelay
INVARIANT RebuiltWhole
PROPERTIES EveryoneGetsIt ResendingEnds
