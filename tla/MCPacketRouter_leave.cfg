SPECIFICATION FairSpec
CONSTANTS
  order = order  leave = leave
  Plan     <- Three
  Command  <- OneCommand
  Owner    <- COwner
  Frame    <- CFrame
  Leaving  <- TheLeave
  Crashers <- First
  RunAhead = 2
  MaxFrame = 4
INVARIANTS NothingStranded RouterInPlan TypeOK
PROPERTY Advances
CHECK_DEADLOCK FALSE
