\* Three calls of ReplyWithImages, three of AbandonActiveTurn; a turn may
\* iterate for ever as long as it owns the lock.
CONSTANTS
  t1 = t1
  t2 = t2
  t3 = t3
  k1 = k1
  k2 = k2
  k3 = k3
  NoTurn = NoTurn
  Turns <- MCTurns
  Cancels <- MCCancels
SPECIFICATION FairSpec
INVARIANTS
  OwnerIsRunning
  LockHasOneUnlocker
  AbandonedTurnStops
PROPERTIES
  AbandonedTurnEnds
\* All turns end.
CHECK_DEADLOCK FALSE
