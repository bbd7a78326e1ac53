SPECIFICATION Spec
CONSTANTS
  Player   <- Three
  Troubled <- Router
  Crashers <- Nobody
  Votable  <- Router
  Prompt = FALSE
  RunAhead = 1
  FRAMES_TO_KEEP = 2
  Word = 64
  MaxFrame = 2
INVARIANT NoStaleVotes
CHECK_DEADLOCK FALSE
