SPECIFICATION Spec
CONSTANTS
  Player   <- Four
  Troubled <- FirstTwo
  Crashers <- FirstTwo
  Votable  <- Nobody
  Prompt = TRUE
  RunAhead = 1
  FRAMES_TO_KEEP = 2
  Word = 64
  MaxFrame = 2
INVARIANT BehindCatchUp
CHECK_DEADLOCK FALSE
