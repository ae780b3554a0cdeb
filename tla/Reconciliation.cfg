SPECIFICATION FairSpec
CONSTANTS
  Loops = {l1, l2}
  Triggers = {t1}
  NoThread = NoThread
  Jobs = 2
  Limit = 1
  MaxApplied = 3
  MaxTears = 2
  MaxLives = 2
INVARIANTS TypeOK OneLoop LoopSurvives CountMatchesLog CorrectionsCounted
PROPERTY StopEnds
