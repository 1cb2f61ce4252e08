\* Three calls of Acquire, limits 0, 1 and 2, every interleaving; permits may
\* be held for ever.
CONSTANTS
  r1 = r1
  r2 = r2
  r3 = r3
  Requests <- ThreeRequests
  Limits <- MCLimits
SPECIFICATION GateSpec
INVARIANTS
  CountersExact
  NoLostWakeup
  PeakBound
PROPERTIES
  ImplementsSemaphore
  CancelledReturns
\* Every call may have failed or bypassed the gate: nothing is left to do.
CHECK_DEADLOCK FALSE
