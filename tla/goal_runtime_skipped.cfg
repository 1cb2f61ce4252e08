\* The same, for the reason the runtime gives when it skips a verification.
SPECIFICATION Spec
CONSTANTS
  Slices <- MCSlices
  Ceiling = 3
  StallLimit <- MCThreshold
  RejectLimit <- MCThreshold
  AutoRollback = TRUE
  None = None
  MaxRuns = 2
  MaxEdits = 3
PROPERTIES
  SkippedIsUnchanged
CHECK_DEADLOCK FALSE
