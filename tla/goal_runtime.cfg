\* Two runs of a goal of two slices, three edits, a ceiling of three iterations.
SPECIFICATION FairSpec
CONSTANTS
  Slices <- MCSlices
  Ceiling = 3
  StallLimit <- MCThreshold
  RejectLimit <- MCThreshold
  AutoRollback = TRUE
  None = None
  MaxRuns = 2
  MaxEdits = 3
PROPERTIES
  CompletionIsVerified
  RollbackCovers
  RunEnds
CHECK_DEADLOCK FALSE
