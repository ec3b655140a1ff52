SPECIFICATION FairSpec
CONSTANTS
  NPages = 2
  NFrames = 1
  MaxRuns = 2
  MaxUsers = 2
INVARIANTS StartedPriorIsEnough RestartForgets CleanExitLeavesNothing
PROPERTIES LivingManagerAnswers
CHECK_DEADLOCK FALSE
