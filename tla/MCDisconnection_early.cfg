SPECIFICATION FairSpec
CONSTANTS
  Player   <- Three
  Troubled <- Router
  Crashers <- Router
  Votable  <- Nobody
  Prompt = TRUE
  RunAhead = 2
  FRAMES_TO_KEEP = 6
  Word = 64
  MaxFrame = 4
PROPERTY Recovers
CHECK_DEADLOCK FALSE
