\* Two identifiers, which clients may bring, an interval and a cron schedule, two
\* restarts; writes succeed, fail or are cut short; a time that was read may be
\* one tick old.
CONSTANTS
  j1 = j1
  j2 = j2
  n1 = n1
  n2 = n2
  Ids <- TwoIds
  Names <- TwoNames
  Schedules <- Mixed
  ClientIds <- TwoIds
  MaxJobs = 2
  Horizon = 2
  Writes <- AnyWrites
  MaxLag = 1
  MaxTime = 5
  MaxRestarts = 2
SYMMETRY JobSymmetry
SPECIFICATION RegistrySpec
INVARIANTS
  SlotsFollowRuns
  SlotsRespected
  AcknowledgedSurvive
CHECK_DEADLOCK FALSE
