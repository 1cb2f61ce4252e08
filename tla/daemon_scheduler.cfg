\* Two jobs and one or two slots, an identifier a client may bring itself, a client
\* that runs jobs, a restart.
CONSTANTS
  j1 = j1
  j2 = j2
  n1 = n1
  n2 = n2
  c1 = c1
  NoJob = NoJob
  Ids <- TwoIds
  Names <- TwoNames
  Schedules <- EveryTick
  ClientIds <- ClientId
  Callers <- OneCaller
  MaxJobs = 2
  Horizon = 1
  Writes <- GoodWrites
  MaxLag = 0
  MaxTime = 2
  MaxRestarts = 1
  Caps <- OneOrTwo
SPECIFICATION FairSpec
INVARIANTS
  GuardExact
PROPERTIES
  DueJobsFire
  StopEnds
CHECK_DEADLOCK FALSE
