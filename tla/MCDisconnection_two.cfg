SPECIFICATION FairSpec
CONSTANTS
  Player   <- Three
  Troubled <- FirstTwo
  Crashers <- FirstTwo
  Votable  <- Nobody
  Prompt = TRUE
  RunAhead = 1
  FRAMES_TO_KEEP = 2
  Word = 64
  MaxFrame = 3
INVARIANTS RemovedTogether RemovedByOne
PROPERTY Recovers
CHECK_DEADLOCK FALSE
