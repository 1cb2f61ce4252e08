\* Two runs with two edits between or during them, the second may undo the first, every answer of the models.
CONSTANTS
  f1 = f1
  f2 = f2
  f3 = f3
  f4 = f4
  f5 = f5
  original = original
  reworded = reworded
  restructured = restructured
  None = None
  Torn = Torn
  Files = {f1, f2, f3, f4, f5}
  Edited = {f1}
  Shape <- MCShape
  Original = original
  Plan <- MCPlan
  Chunks <- MCChunks
  Configs <- MCConfigs
  Concurrency = 2
  MaxRevisionRounds = 1
  MaxExtras = 1
  MaxRuns = 2
  MaxEdits = 2
SPECIFICATION FairSpec
INVARIANTS
  ReusedIsCurrent
  NothingDropped
  CompletedIsReviewed
PROPERTIES
  RunEnds
CONSTRAINT
  SecondRunReuses
CHECK_DEADLOCK FALSE
