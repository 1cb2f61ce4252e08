-------------------------- MODULE AgentTurn_proofs --------------------------
(***************************************************************************)
(* Proofs about AgentTurn for any number of turns and of cancels.          *)
(*                                                                         *)
(* LockHasOneUnlocker counts a set; the induction uses the set itself      *)
(* (OneUnlocker), and needs to know that the owner is past beginTurn: only *)
(* then can a turn between TryLock and ownership be the single unlocker.   *)
(* AbandonedTurnStops needs to know when a turn can have overrun at all.   *)
(***************************************************************************)
EXTENDS AgentTurn, FiniteSetTheorems, TLAPS

OneUnlocker == IF locked THEN \E x : Unlockers = {x} ELSE Unlockers = {}

OverrunOnlyAfterLoss ==
  \A t \in Turns :
    /\ overrun[t] <= 1
    /\ owner = t \/ pc[t] \notin {"top", "leaving", "ended"} => overrun[t] = 0

TurnInv == TypeOK /\ OwnerIsRunning /\ OneUnlocker /\ OverrunOnlyAfterLoss

LEMMA InitTurnInv == Init => TurnInv
  <1> SUFFICES ASSUME Init PROVE TurnInv
    OBVIOUS
  <1>1. TypeOK
    <2>1. <<>> \in Seq(Turns)
      OBVIOUS
    <2>2. [t \in Turns |-> 0] \in [Turns -> Nat]
      OBVIOUS
    <2> QED BY <2>1, <2>2, Zenon DEF Init, TypeOK
  <1>2. OwnerIsRunning
    BY DEF Init, OwnerIsRunning
  <1>3. OneUnlocker
    BY DEF Init, OneUnlocker, Unlockers
  <1>4. OverrunOnlyAfterLoss
    BY DEF Init, OverrunOnlyAfterLoss
  <1> QED BY <1>1, <1>2, <1>3, <1>4 DEF TurnInv

\* A step types.
LEMMA StepTypes == ASSUME TypeOK, Next PROVE TypeOK'
  <1> USE DEF TypeOK
  <1>1. ASSUME NEW t \in Turns, TryLock(t) PROVE TypeOK'
    BY <1>1 DEF TryLock
  <1>2. ASSUME NEW t \in Turns, Own(t) PROVE TypeOK'
    BY <1>2 DEF Own
  <1>3. ASSUME NEW t \in Turns, Enqueue(t) PROVE TypeOK'
    BY <1>3 DEF Enqueue
  <1>4. ASSUME NEW t \in Turns, LoopTop(t) PROVE TypeOK'
    BY <1>4 DEF LoopTop
  <1>5. ASSUME NEW t \in Turns, Iterate(t) PROVE TypeOK'
    BY <1>5 DEF Iterate
  <1>6. ASSUME NEW t \in Turns, ReleaseTurn(t) PROVE TypeOK'
    BY <1>6 DEF ReleaseTurn
  <1>7. ASSUME NEW k \in Cancels, AbandonOwner(k) PROVE TypeOK'
    BY <1>7 DEF AbandonOwner
  <1>8. ASSUME NEW k \in Cancels, AbandonUnlock(k) PROVE TypeOK'
    BY <1>8 DEF AbandonUnlock
  <1> QED
    BY <1>1, <1>2, <1>3, <1>4, <1>5, <1>6, <1>7, <1>8 DEF Next, TurnStep, CancelStep

\* A step of a turn leaves the other three conjuncts.
LEMMA TurnStepInv ==
  ASSUME TurnInv, TypeOK', NEW t \in Turns, TurnStep(t)
  PROVE  TurnInv'
  <1> USE TurnsAssumption, CancelsAssumption DEF TurnInv
  <1>1. CASE TryLock(t)
    <2>1. OwnerIsRunning'
      BY <1>1 DEF TryLock, OwnerIsRunning, TypeOK
    <2>2. CASE locked
      <3>1. Unlockers' = Unlockers
        BY <1>1, <2>2 DEF TryLock, Unlockers, TypeOK
      <3> QED BY <1>1, <2>1, <2>2, <3>1 DEF TryLock, OneUnlocker, OverrunOnlyAfterLoss, TypeOK
    <2>3. CASE ~locked
      <3>1. Unlockers' = Unlockers \cup {t}
        BY <1>1, <2>3 DEF TryLock, Unlockers, TypeOK
      <3>2. Unlockers = {}
        BY <2>3 DEF OneUnlocker
      <3>3. Unlockers' = {t}
        BY <3>1, <3>2
      <3> QED BY <1>1, <2>1, <2>3, <3>3 DEF TryLock, OneUnlocker, OverrunOnlyAfterLoss, TypeOK
    <2> QED BY <2>2, <2>3
  <1>2. CASE Own(t)
    <2>1. t \in Unlockers
      BY <1>2 DEF Own, Unlockers
    <2>2. locked /\ Unlockers = {t}
      BY <2>1 DEF OneUnlocker
    <2>3. owner = NoTurn
      BY <1>2, <2>2 DEF Own, Unlockers, OwnerIsRunning, TypeOK
    <2>4. Unlockers' = {t}
      BY <1>2, <2>2, <2>3 DEF Own, Unlockers, TypeOK
    <2>5. OwnerIsRunning' /\ OneUnlocker'
      BY <1>2, <2>2, <2>4 DEF Own, OwnerIsRunning, OneUnlocker, TypeOK
    <2>6. OverrunOnlyAfterLoss'
      BY <1>2 DEF Own, OverrunOnlyAfterLoss, TypeOK
    <2> QED BY <2>5, <2>6
  <1>3. CASE Enqueue(t) \/ LoopTop(t) \/ Iterate(t)
    <2>1. Unlockers' = Unlockers /\ locked' = locked
      BY <1>3 DEF Enqueue, LoopTop, Iterate, Unlockers, TypeOK
    <2>2. OwnerIsRunning'
      BY <1>3 DEF Enqueue, LoopTop, Iterate, OwnerIsRunning, TypeOK
    <2>3. OverrunOnlyAfterLoss'
      BY <1>3 DEF Enqueue, LoopTop, Iterate, OverrunOnlyAfterLoss, OwnerIsRunning, TypeOK
    <2> QED BY <2>1, <2>2, <2>3 DEF OneUnlocker
  <1>4. CASE ReleaseTurn(t)
    <2>1. OwnerIsRunning' /\ OverrunOnlyAfterLoss'
      BY <1>4 DEF ReleaseTurn, OwnerIsRunning, OverrunOnlyAfterLoss, TypeOK
    <2>2. CASE owner = t
      <3>1. Unlockers = {t}
        BY <2>2 DEF Unlockers, OneUnlocker
      <3>2. Unlockers' = {}
        BY <1>4, <2>2, <3>1 DEF ReleaseTurn, Unlockers, TypeOK
      <3> QED BY <1>4, <2>1, <2>2, <3>2 DEF ReleaseTurn, OneUnlocker
    <2>3. CASE owner # t
      <3>1. Unlockers' = Unlockers
        BY <1>4, <2>3 DEF ReleaseTurn, Unlockers, TypeOK
      <3> QED BY <1>4, <2>1, <2>3, <3>1 DEF ReleaseTurn, OneUnlocker
    <2> QED BY <2>2, <2>3
  <1> QED BY <1>1, <1>2, <1>3, <1>4 DEF TurnStep

\* So does a step of a cancel.
LEMMA CancelStepInv ==
  ASSUME TurnInv, TypeOK', NEW k \in Cancels, CancelStep(k)
  PROVE  TurnInv'
  <1> USE TurnsAssumption, CancelsAssumption DEF TurnInv
  <1>1. CASE AbandonOwner(k)
    <2>1. OwnerIsRunning' /\ OverrunOnlyAfterLoss'
      BY <1>1 DEF AbandonOwner, OwnerIsRunning, OverrunOnlyAfterLoss, TypeOK
    <2>2. CASE owner = NoTurn
      <3>1. Unlockers' = Unlockers
        BY <1>1, <2>2 DEF AbandonOwner, Unlockers, TypeOK
      <3> QED BY <1>1, <2>1, <3>1 DEF AbandonOwner, OneUnlocker
    <2>3. CASE owner # NoTurn
      <3>1. locked /\ Unlockers = {owner}
        BY <2>3 DEF Unlockers, OneUnlocker
      <3>2. Unlockers' = {k}
        BY <1>1, <2>3, <3>1 DEF AbandonOwner, Unlockers, OwnerIsRunning, TypeOK
      <3> QED BY <1>1, <2>1, <3>1, <3>2 DEF AbandonOwner, OneUnlocker
    <2> QED BY <2>2, <2>3
  <1>2. CASE AbandonUnlock(k)
    <2>1. OwnerIsRunning' /\ OverrunOnlyAfterLoss'
      BY <1>2 DEF AbandonUnlock, OwnerIsRunning, OverrunOnlyAfterLoss, TypeOK
    <2>2. CASE cancel[k] = "unlocking"
      <3>1. Unlockers = {k}
        BY <2>2 DEF Unlockers, OneUnlocker
      <3>2. Unlockers' = {}
        BY <1>2, <2>2, <3>1 DEF AbandonUnlock, Unlockers, TypeOK
      <3> QED BY <1>2, <2>1, <2>2, <3>2 DEF AbandonUnlock, OneUnlocker
    <2>3. CASE cancel[k] = "skipping"
      <3>1. Unlockers' = Unlockers
        BY <1>2, <2>3 DEF AbandonUnlock, Unlockers, TypeOK
      <3> QED BY <1>2, <2>1, <2>3, <3>1 DEF AbandonUnlock, OneUnlocker
    <2> QED BY <1>2, <2>2, <2>3 DEF AbandonUnlock
  <1> QED BY <1>1, <1>2 DEF CancelStep

LEMMA NextTurnInv == TurnInv /\ [Next]_vars => TurnInv'
  <1> SUFFICES ASSUME TurnInv, [Next]_vars PROVE TurnInv'
    OBVIOUS
  <1>1. CASE Next
    <2>1. TypeOK'
      BY <1>1, StepTypes DEF TurnInv
    <2> QED BY <1>1, <2>1, TurnStepInv, CancelStepInv DEF Next
  <1>2. CASE UNCHANGED vars
    BY <1>2 DEF vars, TurnInv, TypeOK, OwnerIsRunning, OneUnlocker, Unlockers,
                OverrunOnlyAfterLoss
  <1> QED BY <1>1, <1>2

\* The induction, for every set of turns and of cancels.
THEOREM TurnInductive == Spec => []TurnInv
  <1> QED BY InitTurnInv, NextTurnInv, PTL DEF Spec

\* turnMu is held on behalf of exactly one unlocker (beginTurn, releaseTurn,
\* AbandonActiveTurn): never locked for nobody, never unlocked twice.
THEOREM OneUnlockerAlways == Spec => []LockHasOneUnlocker
  <1>1. TurnInv => LockHasOneUnlocker
    <2> SUFFICES ASSUME TurnInv PROVE LockHasOneUnlocker
      OBVIOUS
    <2>1. CASE locked
      <3>1. PICK x : Unlockers = {x}
        BY <2>1 DEF TurnInv, OneUnlocker
      <3>2. Cardinality(Unlockers) = 1
        BY <3>1, FS_Singleton
      <3> QED BY <2>1, <3>2 DEF LockHasOneUnlocker
    <2>2. CASE ~locked
      <3>1. Unlockers = {}
        BY <2>2 DEF TurnInv, OneUnlocker
      <3>2. Cardinality(Unlockers) = 0
        BY <3>1, FS_EmptySet
      <3> QED BY <2>2, <3>2 DEF LockHasOneUnlocker
    <2> QED BY <2>1, <2>2
  <1> QED BY <1>1, TurnInductive, PTL

\* The owner of the lock is in its loop, so its deferred releaseTurn is still
\* to come.
THEOREM OwnerAlwaysRunning == Spec => []OwnerIsRunning
  <1>1. TurnInv => OwnerIsRunning
    BY DEF TurnInv
  <1> QED BY <1>1, TurnInductive, PTL

\* A turn that AbandonActiveTurn took the lock from finishes at most the
\* iteration of completeLoop it was in.
THEOREM AbandonedTurnsStop == Spec => []AbandonedTurnStops
  <1>1. TurnInv => AbandonedTurnStops
    BY DEF TurnInv, OverrunOnlyAfterLoss, AbandonedTurnStops
  <1> QED BY <1>1, TurnInductive, PTL
=============================================================================
