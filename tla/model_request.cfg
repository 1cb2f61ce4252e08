\* Two attempts of one turn, or one each of two turns, the second without a
\* tracker, limits that come and go; the provider owes nothing.
CONSTANTS
  r1 = r1
  r2 = r2
  r3 = r3
  t1 = t1
  t2 = t2
  Turns <- MCTurns
  Plans <- MCPlans
  Fallbacks <- MCFallbacks
  Requests <- MCRequests
  Tracked <- MCTracked
  Limits <- MixedLimits
SPECIFICATION FairRetrySpec
INVARIANTS
  LiveCallsHoldPermits
  PermitsHaveOwners
PROPERTIES
  TurnsReturn
  PermitsReturn
\* Turns end, and a provider may hang for ever.
CHECK_DEADLOCK FALSE
