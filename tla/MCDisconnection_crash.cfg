SPECIFICATION FairSpec
CONSTANTS
  Player   <- Three
  Troubled <- Router
  Crashers <- Router
  Votable  <- Router
  Prompt = TRUE
  RunAhead = 2
  FRAMES_TO_KEEP = 3
  Word = 64
  MaxFrame = 4
INVARIANTS RemovedTogether RemovedByOne TypeOK
PROPERTY Recovers
CHECK_DEADLOCK FALSE
