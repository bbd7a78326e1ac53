SPECIFICATION Spec
CONSTANTS
  order = order  leave = leave
  Plan     <- Four
  Command  <- OneCommand
  Owner    <- COwner
  Frame    <- EFrame
  Leaving  <- TheLeave
  Crashers <- Nobody
  RunAhead = 1
  MaxFrame = 3
INVARIANT SettledEverywhere
CHECK_DEADLOCK FALSE
