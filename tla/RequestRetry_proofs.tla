------------------------ MODULE RequestRetry_proofs ------------------------
(***************************************************************************)
(* Proofs about model requests, for any finite set of requests, any limits *)
(* and any number of turns and attempts.  First the limiter                *)
(* (RouteScheduler): the inductive invariant, the safety properties it     *)
(* implies and the refinement of RouteSemaphore.  Then ModelRequest and    *)
(* RequestRetry on top of it: a live call holds its permit, a permit has   *)
(* an owner, and the attempts of turns are requests.  Last, what a request *)
(* and a turn have left to do (RequestsFinish, TurnsFinish).               *)
(***************************************************************************)
EXTENDS RequestRetry, FiniteSetTheorems, TLAPS

(***************************************************************************)
(* The type invariant is not inductive alone (queued could go below zero), *)
(* and the counters need the exact sets they count.  Three more facts      *)
(* close the induction: the limit in force was brought by some call, a     *)
(* call that queues with a live context still has its watcher, and a call  *)
(* that has not reached limiter() has left no trace in it.                 *)
(***************************************************************************)
LimitWanted == limit > 0 => \E c \in Requests : want[c] = limit

WatcherArmed == \A c \in Requests :
                  pc[c] \in {"arriving", "asleep", "woken"} /\ ~cancelled[c]
                    => watcher[c] = "armed"

BeforeLimiter == \A c \in Requests :
                   /\ pc[c] \in {"new", "unlimited"} => want[c] = 0
                   /\ limit = 0 => pc[c] \in {"new", "unlimited"}

IInv == /\ TypeOK
        /\ CountersExact
        /\ NoLostWakeup
        /\ PeakBound
        /\ LimitWanted
        /\ WatcherArmed
        /\ BeforeLimiter
-----------------------------------------------------------------------------
\* Every set of requests is finite and has a natural cardinality.
LEMMA FiniteRequests ==
  ASSUME NEW S \in SUBSET Requests
  PROVE  IsFiniteSet(S) /\ Cardinality(S) \in Nat
BY RequestsAssumption, FS_Subset, FS_CardinalityType

\* Taking a request into a set it was not in adds one to the cardinality.
LEMMA CountIn ==
  ASSUME NEW S \in SUBSET Requests, NEW c \in Requests, c \notin S
  PROVE  Cardinality(S \cup {c}) = Cardinality(S) + 1
BY FiniteRequests, FS_AddElement

\* Taking a request out of a set it was in subtracts one, so the set was not
\* empty: the counters never go below zero.
LEMMA CountOut ==
  ASSUME NEW S \in SUBSET Requests, NEW c \in S
  PROVE  /\ Cardinality(S \ {c}) = Cardinality(S) - 1
         /\ Cardinality(S) > 0
<1>1. Cardinality(S \ {c}) = Cardinality(S) - 1
  BY FiniteRequests, FS_RemoveElement
<1>2. Cardinality(S \ {c}) \in Nat /\ Cardinality(S) \in Nat
  BY FiniteRequests
<1>. QED  BY <1>1, <1>2

\* A Broadcast moves sleepers to woken and nothing else.
LEMMA BroadcastType ==
  ASSUME pc \in [Requests -> Locations]
  PROVE  /\ Broadcast(pc) \in [Requests -> Locations]
         /\ \A c \in Requests :
              Broadcast(pc)[c] = IF pc[c] = "asleep" THEN "woken" ELSE pc[c]
BY DEF Broadcast, Locations

\* No limiter, no counts, nobody queued: the invariant holds at the start.
LEMMA InitIInv == Init => IInv
<1>. SUFFICES ASSUME Init PROVE IInv
  OBVIOUS
<1>1. TypeOK
  BY DEF Init, TypeOK, Locations
<1>2. Holders = {} /\ Waiters = {}
  BY DEF Init, Holders, Waiters
<1>3. CountersExact
  BY <1>2, FS_EmptySet DEF Init, CountersExact
<1>. QED  BY <1>1, <1>3 DEF Init, IInv, NoLostWakeup, PeakBound,
                            LimitWanted, WatcherArmed, BeforeLimiter
-----------------------------------------------------------------------------
\* Lookup counts nobody; if it changes the limit it wakes every sleeper, so
\* no sleeper can miss a raised limit.
LEMMA LookupIInv ==
  ASSUME IInv, NEW c \in Requests, NEW l \in Limits, Lookup(c, l)
  PROVE  IInv'
<1>. USE DEF IInv, TypeOK, Lookup
<1>0. l \in Nat
  BY LimitsAssumption
<1>1. pc' \in [Requests -> Locations]
  BY BroadcastType DEF Locations
<1>2. \A d \in Requests :
        /\ d # c => \/ pc'[d] = pc[d]
                    \/ pc[d] = "asleep" /\ pc'[d] = "woken"
        /\ pc'[c] = "arriving"
        /\ limit \notin {0, l} => pc'[d] # "asleep"
        /\ pc'[d] = "asleep" => pc[d] = "asleep"
  BY BroadcastType DEF Locations
<1>3. TypeOK'
  BY <1>0, <1>1
<1>4. Holders' = Holders /\ Waiters' = Waiters
  BY <1>2 DEF Holders, Waiters
<1>5. CountersExact'
  BY <1>4 DEF CountersExact
<1>6. NoLostWakeup'
  <2>. SUFFICES ASSUME NEW d \in Requests, pc'[d] = "asleep"
                PROVE  active' >= limit' /\ (cancelled'[d] => watcher'[d] = "armed")
    BY DEF NoLostWakeup
  <2>1. d # c /\ pc[d] = "asleep" /\ limit \in {0, l}
    BY <1>2
  <2>2. limit = l
    BY <2>1 DEF BeforeLimiter
  <2>. QED  BY <2>1, <2>2 DEF NoLostWakeup
<1>7. PeakBound'
  <2>1. \A d \in Requests : want'[d] >= want[d]
    BY <1>0 DEF BeforeLimiter
  <2>. QED  BY <1>0, <2>1 DEF PeakBound
<1>8. LimitWanted'
  BY DEF LimitWanted
<1>9. WatcherArmed'
  BY <1>2 DEF WatcherArmed
<1>10. BeforeLimiter'
  BY <1>0, <1>2 DEF BeforeLimiter
<1>. QED  BY <1>3, <1>5, <1>6, <1>7, <1>8, <1>9, <1>10

\* Admit moves one call from the queue, or from outside, to the holders.  The
\* gate is open, so nobody sleeps, and the new count is within the limit.
LEMMA AdmitIInv ==
  ASSUME IInv, NEW c \in Requests, Admit(c)
  PROVE  IInv'
<1>. USE DEF IInv, TypeOK, Admit, AtGate
<1>1. /\ Holders \in SUBSET Requests /\ Waiters \in SUBSET Requests
      /\ c \notin Holders
      /\ Holders' = Holders \cup {c}
  BY DEF Holders, Waiters, Locations
<1>2. active' = Cardinality(Holders')
  BY <1>1, CountIn DEF CountersExact
<1>3. queued' = Cardinality(Waiters') /\ queued' \in Nat
  <2>1. CASE pc[c] = "arriving"
    <3>1. Waiters' = Waiters
      BY <2>1 DEF Waiters
    <3>. QED  BY <2>1, <3>1 DEF CountersExact, QueuedWith
  <2>2. CASE pc[c] = "woken"
    <3>1. c \in Waiters /\ Waiters' = Waiters \ {c}
      BY <2>2 DEF Waiters
    <3>2. queued' = queued - 1
      BY <2>2 DEF QueuedWith
    <3>. QED  BY <1>1, <3>1, <3>2, CountOut DEF CountersExact
  <2>. QED  BY <2>1, <2>2
<1>4. TypeOK' /\ CountersExact'
  BY <1>2, <1>3 DEF CountersExact, Locations
<1>5. NoLostWakeup'
  BY DEF NoLostWakeup
<1>6. PeakBound'
  BY DEF PeakBound, LimitWanted
<1>. QED  BY <1>4, <1>5, <1>6 DEF LimitWanted, WatcherArmed, BeforeLimiter

\* GiveUp takes one call out of the queue.
LEMMA GiveUpIInv ==
  ASSUME IInv, NEW c \in Requests, GiveUp(c)
  PROVE  IInv'
<1>. USE DEF IInv, TypeOK, GiveUp, AtGate
<1>1. Holders' = Holders /\ Waiters \in SUBSET Requests
  BY DEF Holders, Waiters, Locations
<1>2. queued' = Cardinality(Waiters') /\ queued' \in Nat
  <2>1. CASE pc[c] = "arriving"
    <3>1. Waiters' = Waiters
      BY <2>1 DEF Waiters
    <3>. QED  BY <2>1, <3>1 DEF CountersExact, QueuedWith
  <2>2. CASE pc[c] = "woken"
    <3>1. c \in Waiters /\ Waiters' = Waiters \ {c}
      BY <2>2 DEF Waiters
    <3>2. queued > 0 /\ QueuedWith(c) = queued
      BY <1>1, <2>2, <3>1, CountOut DEF CountersExact, QueuedWith
    <3>3. queued' = queued - 1
      BY <3>2
    <3>. QED  BY <1>1, <3>1, <3>2, <3>3, CountOut DEF CountersExact
  <2>. QED  BY <2>1, <2>2
<1>3. TypeOK' /\ CountersExact'
  BY <1>1, <1>2 DEF CountersExact, Locations
<1>. QED  BY <1>3 DEF NoLostWakeup, PeakBound, LimitWanted, WatcherArmed,
                      BeforeLimiter

\* Sleep keeps one call in the queue, with its watcher armed and the gate shut.
LEMMA SleepIInv ==
  ASSUME IInv, NEW c \in Requests, Sleep(c)
  PROVE  IInv'
<1>. USE DEF IInv, TypeOK, Sleep, AtGate
<1>1. Holders' = Holders /\ Waiters \in SUBSET Requests
  BY DEF Holders, Waiters, Locations
<1>2. queued' = Cardinality(Waiters') /\ queued' \in Nat
  <2>1. CASE pc[c] = "arriving"
    <3>1. c \notin Waiters /\ Waiters' = Waiters \cup {c}
      BY <2>1 DEF Waiters
    <3>. QED  BY <1>1, <2>1, <3>1, CountIn DEF CountersExact, QueuedWith
  <2>2. CASE pc[c] = "woken"
    <3>1. Waiters' = Waiters
      BY <2>2 DEF Waiters
    <3>. QED  BY <2>2, <3>1 DEF CountersExact, QueuedWith
  <2>. QED  BY <2>1, <2>2
<1>3. TypeOK' /\ CountersExact'
  BY <1>1, <1>2 DEF CountersExact, Locations
<1>. QED  BY <1>3 DEF NoLostWakeup, PeakBound, LimitWanted, WatcherArmed,
                      BeforeLimiter

\* A first release takes one holder out and wakes every sleeper; a repeated
\* one changes nothing.
LEMMA ReleaseIInv ==
  ASSUME IInv, NEW c \in Requests, Release(c)
  PROVE  IInv'
<1>. USE DEF IInv, TypeOK, Release
<1>1. CASE pc[c] = "held"
  <2>1. /\ Holders \in SUBSET Requests /\ c \in Holders
        /\ pc' = [Broadcast(pc) EXCEPT ![c] = "released"]
    BY <1>1 DEF Holders
  <2>2. /\ pc' \in [Requests -> Locations]
        /\ pc'[c] = "released"
        /\ \A d \in Requests : d # c =>
             pc'[d] = IF pc[d] = "asleep" THEN "woken" ELSE pc[d]
    BY <2>1, BroadcastType DEF Locations
  <2>3. Holders' = Holders \ {c} /\ Waiters' = Waiters
    BY <1>1, <2>2 DEF Holders, Waiters
  <2>4. active > 0 /\ active' = active - 1
    BY <1>1, <2>1, CountOut DEF CountersExact
  <2>5. TypeOK' /\ CountersExact'
    BY <2>1, <2>2, <2>3, <2>4, CountOut DEF CountersExact
  <2>6. NoLostWakeup'
    BY <2>2 DEF NoLostWakeup
  <2>7. PeakBound'
    BY <2>4 DEF PeakBound
  <2>. QED  BY <1>1, <2>2, <2>5, <2>6, <2>7
            DEF LimitWanted, WatcherArmed, BeforeLimiter
<1>2. CASE pc[c] = "released"
  <2>1. UNCHANGED vars
    BY <1>2 DEF vars
  <2>. QED  BY <2>1 DEF vars, CountersExact, Holders, Waiters, NoLostWakeup,
               PeakBound, LimitWanted, WatcherArmed, BeforeLimiter
<1>. QED  BY <1>1, <1>2

\* A watcher that fires only wakes sleepers.
LEMMA WatcherFireIInv ==
  ASSUME IInv, NEW c \in Requests, WatcherFire(c)
  PROVE  IInv'
<1>. USE DEF IInv, TypeOK, WatcherFire
<1>1. /\ pc' \in [Requests -> Locations]
      /\ \A d \in Requests :
           pc'[d] = IF pc[d] = "asleep" THEN "woken" ELSE pc[d]
  BY BroadcastType
<1>2. Holders' = Holders /\ Waiters' = Waiters
  BY <1>1 DEF Holders, Waiters
<1>3. TypeOK' /\ CountersExact'
  BY <1>1, <1>2 DEF CountersExact
<1>. QED  BY <1>1, <1>3 DEF NoLostWakeup, PeakBound, LimitWanted,
                            WatcherArmed, BeforeLimiter

\* The end of a context and the end of a watcher touch no count.
LEMMA QuietIInv ==
  ASSUME IInv, NEW c \in Requests, Cancel(c) \/ WatcherStop(c) \/ Bypass(c)
  PROVE  IInv'
<1>. USE DEF IInv, TypeOK
<1>1. CASE Cancel(c)
  BY <1>1 DEF Cancel, CountersExact, Holders, Waiters, NoLostWakeup,
     PeakBound, LimitWanted, WatcherArmed, BeforeLimiter
<1>2. CASE WatcherStop(c)
  BY <1>2 DEF WatcherStop, CountersExact, Holders, Waiters, NoLostWakeup,
     PeakBound, LimitWanted, WatcherArmed, BeforeLimiter
<1>3. CASE Bypass(c)
  <2>1. Holders' = Holders /\ Waiters' = Waiters
    BY <1>3 DEF Bypass, Holders, Waiters, Locations
  <2>. QED  BY <1>3, <2>1 DEF Bypass, CountersExact, NoLostWakeup, PeakBound,
               LimitWanted, WatcherArmed, BeforeLimiter, Locations
<1>. QED  BY <1>1, <1>2, <1>3

\* Every step of the limiter preserves the inductive invariant.
LEMMA NextIInv == IInv /\ [Next]_vars => IInv'
<1>. SUFFICES ASSUME IInv, [Next]_vars PROVE IInv'
  OBVIOUS
<1>1. CASE UNCHANGED vars
  BY <1>1 DEF vars, IInv, TypeOK, CountersExact, Holders, Waiters,
     NoLostWakeup, PeakBound, LimitWanted, WatcherArmed, BeforeLimiter
<1>2. ASSUME NEW c \in Requests, NEW l \in Limits, Lookup(c, l)
      PROVE  IInv'
  BY <1>2, LookupIInv
<1>3. ASSUME NEW c \in Requests, Gate(c)
      PROVE  IInv'
  BY <1>3, AdmitIInv, GiveUpIInv, SleepIInv DEF Gate
<1>4. ASSUME NEW c \in Requests, Release(c) \/ WatcherFire(c)
      PROVE  IInv'
  BY <1>4, ReleaseIInv, WatcherFireIInv
<1>5. ASSUME NEW c \in Requests, Cancel(c) \/ WatcherStop(c) \/ Bypass(c)
      PROVE  IInv'
  BY <1>5, QuietIInv
<1>. QED  BY <1>1, <1>2, <1>3, <1>4, <1>5 DEF Next, Gate

\* The inductive invariant holds in every reachable state.
THEOREM Inductive == Spec => []IInv
BY InitIInv, NextIInv, PTL DEF Spec
-----------------------------------------------------------------------------
\* Every variable keeps its type; the counters of the limiter never leave Nat.
THEOREM TypeCorrect == Spec => []TypeOK
BY Inductive, PTL DEF IInv

\* limiter.active and limiter.queued count permits and queued calls exactly,
\* for any number of calls, limits, cancellations and repeated releases.
THEOREM CountersAreExact == Spec => []CountersExact
BY Inductive, PTL DEF IInv

\* Nobody sleeps in cond.Wait while the gate is open, or with a finished
\* context and no broadcast to come.
THEOREM NoWakeupLost == Spec => []NoLostWakeup
BY Inductive, PTL DEF IInv

\* The permits out never exceed the largest limit a caller brought.
THEOREM PeakIsBounded == Spec => []PeakBound
BY Inductive, PTL DEF IInv
-----------------------------------------------------------------------------
\* What the refinement mapping makes of a location.
LEMMA PhaseOfLocation ==
  ASSUME NEW l \in Locations
  PROVE  /\ PhaseOf(l) \in Sem!Phases
         /\ PhaseOf(l) = "out"     <=> l \in {"new", "unlimited"}
         /\ PhaseOf(l) = "waiting" <=> l \in {"arriving", "asleep", "woken"}
         /\ PhaseOf(l) = "inside"  <=> l = "held"
         /\ PhaseOf(l) = "gone"    <=> l \in {"released", "failed"}
BY DEF PhaseOf, Sem!Phases, Locations

\* The requests inside the semaphore are the holders of a permit.
LEMMA InsideIsHolders ==
  ASSUME TypeOK
  PROVE  Sem!Inside = Holders
BY PhaseOfLocation DEF phaseBar, Sem!Inside, Holders, TypeOK

\* A step that moves c to location l, and others at most out of cond.Wait,
\* gives c the phase of l and leaves the other phases alone.
LEMMA OneMoves ==
  ASSUME NEW c \in Requests, NEW l \in Locations, TypeOK, TypeOK', pc'[c] = l,
         \A d \in Requests \ {c} : \/ pc'[d] = pc[d]
                                   \/ pc[d] = "asleep" /\ pc'[d] = "woken"
  PROVE  phaseBar' = [phaseBar EXCEPT ![c] = PhaseOf(l)]
<1>1. PhaseOf("asleep") = "waiting" /\ PhaseOf("woken") = "waiting"
  BY PhaseOfLocation DEF Locations
<1>2. \A d \in Requests \ {c} : PhaseOf(pc'[d]) = PhaseOf(pc[d])
  BY <1>1
<1>. QED  BY <1>2 DEF phaseBar

\* The limiter starts as the semaphore does.
LEMMA InitRefines == Init => Sem!SemInit
BY PhaseOfLocation DEF Init, Sem!SemInit, phaseBar, cancelledBar, Locations

\* The critical sections that move one request: each is a step of the
\* semaphore for that request.
LEMMA MoveRefines ==
  ASSUME IInv, IInv', NEW c \in Requests
  PROVE  /\ \A l \in Limits : Lookup(c, l) => Sem!Arrive(c, l)
         /\ Admit(c) => Sem!Grant(c)
         /\ GiveUp(c) => Sem!Withdraw(c)
         /\ Release(c) /\ pc[c] = "held" => Sem!Leave(c)
<1>. USE DEF IInv
<1>0. pc \in [Requests -> Locations] /\ \A d \in Requests : phaseBar[d] = PhaseOf(pc[d])
  BY DEF phaseBar, TypeOK
<1>1. ASSUME NEW l \in Limits, Lookup(c, l) PROVE Sem!Arrive(c, l)
  <2>1. /\ pc'[c] = "arriving" /\ "arriving" \in Locations
        /\ \A d \in Requests \ {c} : \/ pc'[d] = pc[d]
                                     \/ pc[d] = "asleep" /\ pc'[d] = "woken"
    BY <1>1, BroadcastType DEF Lookup, TypeOK, Locations
  <2>2. phaseBar' = [phaseBar EXCEPT ![c] = PhaseOf("arriving")]
    BY <2>1, OneMoves
  <2>. QED  BY <1>0, <1>1, <2>1, <2>2, PhaseOfLocation
            DEF Lookup, Sem!Arrive, cancelledBar
<1>2. ASSUME Admit(c) PROVE Sem!Grant(c)
  <2>1. /\ pc'[c] = "held" /\ "held" \in Locations
        /\ \A d \in Requests \ {c} : pc'[d] = pc[d]
    BY <1>2 DEF Admit, TypeOK, Locations
  <2>2. phaseBar' = [phaseBar EXCEPT ![c] = PhaseOf("held")]
    BY <2>1, OneMoves
  <2>3. Sem!Cardinality(Sem!Inside) < limit
    <3>1. Cardinality(Holders) < limit /\ Sem!Inside = Holders
      BY <1>2, InsideIsHolders DEF Admit, CountersExact
    <3>2. Sem!Cardinality(Holders) = Cardinality(Holders)
      BY DEF Cardinality, Sem!Cardinality
    <3>. QED  BY <3>1, <3>2
  <2>. QED  BY <1>0, <1>2, <2>1, <2>2, <2>3, PhaseOfLocation
            DEF Admit, AtGate, Sem!Grant, cancelledBar
<1>3. ASSUME GiveUp(c) PROVE Sem!Withdraw(c)
  <2>1. /\ pc'[c] = "failed" /\ "failed" \in Locations
        /\ \A d \in Requests \ {c} : pc'[d] = pc[d]
    BY <1>3 DEF GiveUp, TypeOK, Locations
  <2>2. phaseBar' = [phaseBar EXCEPT ![c] = PhaseOf("failed")]
    BY <2>1, OneMoves
  <2>. QED  BY <1>0, <1>3, <2>1, <2>2, PhaseOfLocation
            DEF GiveUp, AtGate, Sem!Withdraw, cancelledBar
<1>4. ASSUME Release(c), pc[c] = "held" PROVE Sem!Leave(c)
  <2>1. /\ pc'[c] = "released" /\ "released" \in Locations
        /\ \A d \in Requests \ {c} : \/ pc'[d] = pc[d]
                                     \/ pc[d] = "asleep" /\ pc'[d] = "woken"
    BY <1>4, BroadcastType DEF Release, TypeOK, Locations
  <2>2. phaseBar' = [phaseBar EXCEPT ![c] = PhaseOf("released")]
    BY <2>1, OneMoves
  <2>. QED  BY <1>0, <1>4, <2>1, <2>2, PhaseOfLocation
            DEF Release, Sem!Leave, cancelledBar
<1>. QED  BY <1>1, <1>2, <1>3, <1>4

\* The other steps change no phase and no capacity.
LEMMA StutterRefines ==
  ASSUME IInv, IInv', NEW c \in Requests,
         \/ Sleep(c) \/ WatcherFire(c) \/ WatcherStop(c) \/ Bypass(c)
         \/ Release(c) /\ pc[c] # "held"
  PROVE  UNCHANGED Sem!semVars
<1>. USE DEF IInv
<1>1. PhaseOf("asleep") = PhaseOf("woken") /\ PhaseOf("asleep") = PhaseOf("arriving")
      /\ PhaseOf("unlimited") = PhaseOf("new")
  BY PhaseOfLocation DEF Locations
<1>2. UNCHANGED <<limit, cancelled>>
  BY DEF Sleep, WatcherFire, WatcherStop, Bypass, Release
<1>3. \A d \in Requests : PhaseOf(pc'[d]) = PhaseOf(pc[d])
  BY <1>1, BroadcastType
     DEF Sleep, AtGate, WatcherFire, WatcherStop, Bypass, Release, TypeOK
<1>. QED  BY <1>2, <1>3 DEF Sem!semVars, phaseBar, cancelledBar

\* Every step of the limiter is a step of the semaphore or a stutter.
LEMMA StepRefines ==
  IInv /\ IInv' /\ [Next]_vars => [Sem!SemNext]_(Sem!semVars)
<1>. SUFFICES ASSUME IInv, IInv', [Next]_vars
              PROVE  [Sem!SemNext]_(Sem!semVars)
  OBVIOUS
<1>1. CASE UNCHANGED vars
  BY <1>1 DEF vars, Sem!semVars, phaseBar, cancelledBar
<1>2. ASSUME NEW c \in Requests, NEW l \in Limits, Lookup(c, l)
      PROVE  Sem!SemNext
  BY <1>2, MoveRefines DEF Sem!SemNext
<1>3. ASSUME NEW c \in Requests, Cancel(c)
      PROVE  Sem!SemNext
  <2>1. UNCHANGED <<limit, phaseBar>>
    BY <1>3 DEF Cancel, phaseBar
  <2>2. cancelledBar' = cancelledBar \cup {c}
    BY <1>3 DEF Cancel, cancelledBar, IInv, TypeOK
  <2>. QED  BY <2>1, <2>2 DEF Sem!SemNext, Sem!ContextDone
<1>4. ASSUME NEW c \in Requests,
             Admit(c) \/ GiveUp(c) \/ (Release(c) /\ pc[c] = "held")
      PROVE  Sem!SemNext
  BY <1>4, MoveRefines DEF Sem!SemNext
<1>. QED  BY <1>1, <1>2, <1>3, <1>4, StutterRefines DEF Next

\* The limiter implements the counting semaphore: whatever the limits do, a
\* permit is granted only while fewer than limit permits are really out, and
\* only a request whose context is done leaves the queue without one.
THEOREM SchedulerRefinesSemaphore == Spec => ImplementsSemaphore
BY InitRefines, StepRefines, Inductive, PTL
   DEF Spec, ImplementsSemaphore, Sem!SemSpec

-----------------------------------------------------------------------------
(* ModelRequest and RequestRetry.                                          *)

Inside == {"held", "released", "unlimited"}
Begun(c) == caller[c] \notin {"acquiring", "refused"}
GivenUp(c) == watchdog[c] \in {"draining", "ended"} \/ c \in abandoned

\* Where the goroutines of one request may be together.
Stage(c) == /\ ~Begun(c) => worker[c] = "none" /\ watchdog[c] = "none" /\ pc[c] # "released"
            /\ caller[c] = "refused" => pc[c] = "failed"
            /\ caller[c] = "tracked" => worker[c] = "none" /\ watchdog[c] = "none"
            /\ Begun(c) => pc[c] \in Inside
            /\ watchdog[c] # "none" => caller[c] = "timedout"
            /\ caller[c] \in {"waiting", "answered", "timedout"} => worker[c] # "none"
            /\ c \in holds \cup forcing => c \in Tracked /\ Begun(c)
            /\ ~(c \in holds /\ c \in forcing)
            /\ c \in forcing => c \in abandoned
            /\ pc[c] = "released" => GivenUp(c) \/ worker[c] = "ended"
            /\ worker[c] = "ended" => pc[c] # "held"

RequestInv == RequestTypeOK /\ \A c \in Requests : Stage(c)

\* What every step of the limiter does to a request that is not its own.
Bystander(d) == pc'[d] = pc[d] \/ (pc[d] = "asleep" /\ pc'[d] = "woken")

LEMMA FreePermitMoves ==
  ASSUME RequestTypeOK, NEW c \in Requests, FreePermit(c)
  PROVE  /\ pc[c] \in Inside
         /\ pc'[c] = IF pc[c] = "unlimited" THEN "unlimited" ELSE "released"
         /\ \A d \in Requests \ {c} : Bystander(d)
<1>1. pc \in [Requests -> Locations]  BY DEF RequestTypeOK, TypeOK
<1>2. CASE pc[c] = "unlimited"  BY <1>2 DEF FreePermit, vars, Inside, Bystander
<1>3. CASE pc[c] # "unlimited"
  <2>1. pc[c] \in {"held", "released"}  BY <1>3 DEF FreePermit, Release
  <2>2. CASE pc[c] = "held"
    <3>1. pc' = [Broadcast(pc) EXCEPT ![c] = "released"]  BY <1>3, <2>2 DEF FreePermit, Release
    <3>2. QED  BY <1>1, <2>1, <2>2, <3>1, BroadcastType DEF Inside, Bystander
  <2>3. CASE pc[c] = "released"
    <3>1. pc' = pc  BY <1>3, <2>3 DEF FreePermit, Release
    <3>2. QED  BY <2>3, <3>1 DEF Inside, Bystander
  <2>4. QED  BY <2>1, <2>2, <2>3
<1>4. QED  BY <1>2, <1>3

\* A request whose goroutines do nothing stays as it is.
LEMMA BystanderStage ==
  ASSUME NEW d \in Requests, Stage(d), Bystander(d),
         caller'[d] = caller[d], worker'[d] = worker[d], watchdog'[d] = watchdog[d],
         d \in holds' <=> d \in holds, d \in forcing' <=> d \in forcing,
         d \in abandoned' <=> d \in abandoned
  PROVE  Stage(d)'
  BY DEF Stage, Begun, Inside, GivenUp, Bystander

LEMMA RequestInitInv == RequestInit => RequestInv
<1> SUFFICES ASSUME RequestInit PROVE RequestInv  OBVIOUS
<1>1. TypeOK  BY InitIInv DEF RequestInit, IInv
<1>2. RequestTypeOK  BY <1>1 DEF RequestInit, RequestTypeOK
<1>3. ASSUME NEW c \in Requests PROVE Stage(c)
  BY DEF RequestInit, Init, Stage, Begun, Inside, GivenUp
<1>4. QED  BY <1>2, <1>3 DEF RequestInv

\* A step of the goroutines of c: what it leaves c in, the others where they were.
StepOf(c) == /\ RequestTypeOK'
             /\ Stage(c)'
             /\ \A d \in Requests \ {c} :
                  /\ Bystander(d)
                  /\ caller'[d] = caller[d] /\ worker'[d] = worker[d] /\ watchdog'[d] = watchdog[d]
                  /\ d \in holds' <=> d \in holds
                  /\ d \in forcing' <=> d \in forcing
                  /\ d \in abandoned' <=> d \in abandoned

LEMMA StepOfInv ==
  ASSUME RequestInv, NEW c \in Requests, StepOf(c)
  PROVE  RequestInv'
<1>1. ASSUME NEW d \in Requests \ {c} PROVE Stage(d)'
  BY BystanderStage DEF StepOf, RequestInv
<1>2. QED  BY <1>1 DEF StepOf, RequestInv

\* The steps of Acquire are not seen outside it: a request that began has left it.
LEMMA AcquireInv ==
  ASSUME RequestInv, TypeOK', NEW c \in Requests, AcquireStep(c)
  PROVE  RequestInv'
<1>1. RequestTypeOK'  BY DEF RequestInv, RequestTypeOK, AcquireStep, goVars
<1>2. UNCHANGED goVars  BY DEF AcquireStep
<1>3. pc \in [Requests -> Locations]  BY DEF RequestInv, RequestTypeOK, TypeOK
<1>4. ASSUME NEW d \in Requests, Bystander(d) PROVE Stage(d)'
  BY <1>2, <1>4, BystanderStage DEF RequestInv, goVars
<1>5. CASE Bypass(c)
  <2>1. \A d \in Requests \ {c} : Bystander(d)  BY <1>3, <1>5 DEF Bypass, Bystander
  <2>2. pc[c] = "new" /\ pc'[c] = "unlimited"  BY <1>3, <1>5 DEF Bypass
  <2>3. Stage(c)  BY DEF RequestInv
  <2>4. Stage(c)'  BY <1>2, <2>2, <2>3 DEF Stage, Begun, Inside, GivenUp, goVars
  <2>5. QED  BY <1>1, <1>4, <2>1, <2>4 DEF RequestInv
<1>6. ASSUME NEW l \in Limits, Lookup(c, l) PROVE RequestInv'
  <2>1. \A d \in Requests \ {c} : Bystander(d)  BY <1>3, <1>6, BroadcastType DEF Lookup, Bystander
  <2>2. pc[c] = "new" /\ pc'[c] = "arriving"  BY <1>3, <1>6, BroadcastType DEF Lookup
  <2>3. Stage(c)  BY DEF RequestInv
  <2>4. Stage(c)'  BY <1>2, <2>2, <2>3 DEF Stage, Begun, Inside, GivenUp, goVars
  <2>5. QED  BY <1>1, <1>4, <2>1, <2>4 DEF RequestInv
<1>7. CASE Gate(c)
  <2>1. \A d \in Requests \ {c} : Bystander(d)
    BY <1>3, <1>7 DEF Gate, Admit, GiveUp, Sleep, Bystander
  <2>2. pc[c] \in {"arriving", "woken"} /\ pc'[c] \in {"held", "failed", "asleep"}
    BY <1>3, <1>7 DEF Gate, Admit, GiveUp, Sleep, AtGate
  <2>3. Stage(c)  BY DEF RequestInv
  <2>4. Stage(c)'  BY <1>2, <2>2, <2>3 DEF Stage, Begun, Inside, GivenUp, goVars
  <2>5. QED  BY <1>1, <1>4, <2>1, <2>4 DEF RequestInv
<1>8. CASE WatcherFire(c) \/ WatcherStop(c)
  <2>1. \A d \in Requests : Bystander(d)
    BY <1>3, <1>8, BroadcastType DEF WatcherFire, WatcherStop, Bystander
  <2>2. QED  BY <1>1, <1>4, <2>1 DEF RequestInv
<1>9. QED  BY <1>5, <1>6, <1>7, <1>8 DEF AcquireStep

LEMMA CancelInv ==
  ASSUME RequestInv, TypeOK', NEW c \in Requests, ContextEnds(c)
  PROVE  RequestInv'
<1>1. RequestTypeOK'  BY DEF RequestInv, RequestTypeOK, ContextEnds, goVars
<1>2. ASSUME NEW d \in Requests PROVE Stage(d)'
  BY BystanderStage DEF RequestInv, ContextEnds, Cancel, goVars, Bystander
<1>3. QED  BY <1>1, <1>2 DEF RequestInv

\* The steps of the goroutines that leave the limiter alone.
Talk(c) == \/ Refuse(c) \/ Track(c) \/ StartComplete(c) \/ CompleteReturns(c) \/ ReceiveResult(c)
           \/ LeaveOnContext(c) \/ WatchdogSeesDone(c) \/ WatchdogDrains(c)

LEMMA TalkInv ==
  ASSUME RequestInv, TypeOK', NEW c \in Requests, Talk(c)
  PROVE  RequestInv'
<1> USE DEF RequestInv, RequestTypeOK, Stage, Begun, Inside, GivenUp, Bystander
<1>1. CASE Refuse(c)
  <2>1. StepOf(c)  BY <1>1 DEF Refuse, vars, StepOf
  <2>2. QED  BY <2>1, StepOfInv
<1>2. CASE Track(c)
  <2>1. StepOf(c)  BY <1>2 DEF Track, vars, StepOf
  <2>2. QED  BY <2>1, StepOfInv
<1>3. CASE StartComplete(c)
  <2>1. StepOf(c)  BY <1>3 DEF StartComplete, vars, StepOf
  <2>2. QED  BY <2>1, StepOfInv
<1>4. CASE CompleteReturns(c)
  <2>1. StepOf(c)  BY <1>4 DEF CompleteReturns, vars, StepOf
  <2>2. QED  BY <2>1, StepOfInv
<1>5. CASE ReceiveResult(c)
  <2>1. StepOf(c)  BY <1>5 DEF ReceiveResult, vars, StepOf
  <2>2. QED  BY <2>1, StepOfInv
<1>6. CASE LeaveOnContext(c)
  <2>1. StepOf(c)  BY <1>6 DEF LeaveOnContext, vars, StepOf
  <2>2. QED  BY <2>1, StepOfInv
<1>7. CASE WatchdogSeesDone(c)
  <2>1. StepOf(c)  BY <1>7 DEF WatchdogSeesDone, vars, StepOf
  <2>2. QED  BY <2>1, StepOfInv
<1>8. CASE WatchdogDrains(c)
  <2>1. StepOf(c)  BY <1>8 DEF WatchdogDrains, vars, StepOf
  <2>2. QED  BY <2>1, StepOfInv
<1>9. QED  BY <1>1, <1>2, <1>3, <1>4, <1>5, <1>6, <1>7, <1>8 DEF Talk

\* The three owners of the release function: the goroutine that called the
\* provider, the watchdog, and the turn that was abandoned.
LEMMA GiveBackInv ==
  ASSUME RequestInv, TypeOK', NEW c \in Requests,
         DeferredRelease(c) \/ WatchdogReclaims(c) \/ ForceRelease(c)
  PROVE  RequestInv'
<1>1. FreePermit(c)  BY DEF DeferredRelease, WatchdogReclaims, ForceRelease, TrackedRelease
<1>2. /\ pc[c] \in Inside
      /\ pc'[c] = IF pc[c] = "unlimited" THEN "unlimited" ELSE "released"
      /\ \A d \in Requests \ {c} : Bystander(d)
  BY <1>1, FreePermitMoves DEF RequestInv
<1>3. Stage(c)  BY DEF RequestInv
<1>4. CASE DeferredRelease(c)
  <2>1. RequestTypeOK'
    BY <1>4 DEF RequestInv, RequestTypeOK, DeferredRelease, TrackedRelease
  <2>2. Stage(c)'
    BY <1>2, <1>3, <1>4
       DEF RequestInv, RequestTypeOK, DeferredRelease, TrackedRelease, Stage, Begun, Inside, GivenUp
  <2>3. StepOf(c)  BY <1>2, <1>4, <2>1, <2>2
                   DEF StepOf, DeferredRelease, TrackedRelease, RequestInv, RequestTypeOK
  <2>4. QED  BY <2>3, StepOfInv
<1>5. CASE WatchdogReclaims(c)
  <2>1. RequestTypeOK'
    BY <1>5 DEF RequestInv, RequestTypeOK, WatchdogReclaims, TrackedRelease
  <2>2. Stage(c)'
    BY <1>2, <1>3, <1>5
       DEF RequestInv, RequestTypeOK, WatchdogReclaims, TrackedRelease, Stage, Begun, Inside, GivenUp
  <2>3. StepOf(c)  BY <1>2, <1>5, <2>1, <2>2
                   DEF StepOf, WatchdogReclaims, TrackedRelease, RequestInv, RequestTypeOK
  <2>4. QED  BY <2>3, StepOfInv
<1>6. CASE ForceRelease(c)
  <2>1. RequestTypeOK'  BY <1>6 DEF RequestInv, RequestTypeOK, ForceRelease
  <2>2. Stage(c)'
    BY <1>2, <1>3, <1>6
       DEF RequestInv, RequestTypeOK, ForceRelease, Stage, Begun, Inside, GivenUp
  <2>3. StepOf(c)  BY <1>2, <1>6, <2>1, <2>2
                   DEF StepOf, ForceRelease, RequestInv, RequestTypeOK
  <2>4. QED  BY <2>3, StepOfInv
<1>7. QED  BY <1>4, <1>5, <1>6

LEMMA AbandonInv ==
  ASSUME RequestInv, TypeOK', Abandon
  PROVE  RequestInv'
<1>1. RequestTypeOK'  BY DEF RequestInv, RequestTypeOK, Abandon, vars
<1>2. ASSUME NEW c \in Requests PROVE Stage(c)'
  <2>1. Stage(c)  BY DEF RequestInv
  <2>2. QED  BY <2>1 DEF Abandon, vars, Stage, Begun, Inside, GivenUp
<1>3. QED  BY <1>1, <1>2 DEF RequestInv

LEMMA RequestNextInv ==
  RequestInv /\ TypeOK' /\ [RequestNext]_allVars => RequestInv'
<1> SUFFICES ASSUME RequestInv, TypeOK', [RequestNext]_allVars PROVE RequestInv'  OBVIOUS
<1>1. CASE UNCHANGED allVars
  BY <1>1 DEF allVars, vars, goVars, RequestInv, RequestTypeOK, Stage, Begun, Inside, GivenUp
<1>2. CASE Abandon  BY <1>2, AbandonInv
<1>3. ASSUME NEW c \in Requests, AcquireStep(c) \/ ContextEnds(c) PROVE RequestInv'
  BY <1>3, AcquireInv, CancelInv
<1>4. ASSUME NEW c \in Requests, CompleteReturns(c) \/ GoStep(c) PROVE RequestInv'
  <2>1. CASE Talk(c)  BY <2>1, TalkInv
  <2>2. CASE DeferredRelease(c) \/ WatchdogReclaims(c) \/ ForceRelease(c)  BY <2>2, GiveBackInv
  <2>3. QED  BY <1>4, <2>1, <2>2 DEF GoStep, Talk
<1>5. QED  BY <1>1, <1>2, <1>3, <1>4 DEF RequestNext

\* To the limiter, a request's goroutines are callers like any others.
LEMMA RequestsUseTheLimiter == [RequestNext]_allVars => [Next]_vars
<1> SUFFICES ASSUME [RequestNext]_allVars PROVE [Next]_vars  OBVIOUS
<1>1. CASE UNCHANGED allVars  BY <1>1 DEF allVars
<1>2. CASE Abandon  BY <1>2 DEF Abandon
<1>3. ASSUME NEW c \in Requests, AcquireStep(c) \/ ContextEnds(c) PROVE Next
  BY <1>3 DEF AcquireStep, ContextEnds, Gate, Next
<1>4. ASSUME NEW c \in Requests, CompleteReturns(c) \/ GoStep(c) PROVE [Next]_vars
  <2>1. CASE Talk(c)
    BY <2>1 DEF Talk, Refuse, Track, StartComplete, CompleteReturns, ReceiveResult,
       LeaveOnContext, WatchdogSeesDone, WatchdogDrains
  <2>2. CASE DeferredRelease(c) \/ WatchdogReclaims(c) \/ ForceRelease(c)
    BY <2>2 DEF DeferredRelease, WatchdogReclaims, ForceRelease, TrackedRelease, FreePermit, Next
  <2>3. QED  BY <1>4, <2>1, <2>2 DEF GoStep, Talk
<1>5. QED  BY <1>1, <1>2, <1>3, <1>4 DEF RequestNext

\* Every variable of the request keeps its type and its goroutines fit together,
\* for any number of requests.
THEOREM RequestInvariant == RequestSpec => []RequestInv
<1>1. RequestSpec => Spec
  BY RequestsUseTheLimiter, PTL DEF RequestSpec, RequestInit, Spec
<1>2. RequestSpec => []TypeOK  BY <1>1, TypeCorrect
<1>3. QED  BY <1>2, RequestInitInv, RequestNextInv, PTL DEF RequestSpec

\* What the invariant says of calls and permits.
LEMMA InvSafe == RequestInv => LiveCallsHoldPermits /\ PermitsHaveOwners
<1> SUFFICES ASSUME RequestInv PROVE LiveCallsHoldPermits /\ PermitsHaveOwners  OBVIOUS
<1>1. ASSUME NEW c \in InFlight \cap Limited
      PROVE  pc[c] = "held" \/ GivenUp(c)
  <2>1. Stage(c)  BY DEF RequestInv, InFlight
  <2>2. QED  BY <2>1 DEF Stage, Begun, Inside, InFlight, Limited
<1>2. ASSUME NEW c \in Holders
      PROVE  caller[c] \in {"acquiring", "tracked"} \/ worker[c] \in {"completing", "sent"}
  <2>1. Stage(c)  BY DEF RequestInv, Holders
  <2>2. caller[c] \in {"acquiring", "tracked", "waiting", "answered", "timedout", "refused"}
        /\ worker[c] \in {"none", "completing", "sent", "ended"}
    BY DEF RequestInv, RequestTypeOK, Holders
  <2>3. QED  BY <2>1, <2>2 DEF Stage, Holders
<1>3. LiveCallsHoldPermits  BY <1>1 DEF LiveCallsHoldPermits, GivenUp
<1>4. PermitsHaveOwners  BY <1>2 DEF PermitsHaveOwners
<1>5. QED  BY <1>3, <1>4
-----------------------------------------------------------------------------
\* A turn that is on its way is at one of its attempts, and an attempt is a request.
TurnInv == /\ plan \in Plans /\ DOMAIN plan \subseteq Turns
           /\ turn \in [Turns -> {"idle", "trying", "elsewhere", "delaying", "returned"}]
           /\ attempt \in [Turns -> Nat]
           /\ \A t \in Turns : turn[t] # "idle" => t \in DOMAIN plan
           /\ \A t \in DOMAIN plan :
                /\ turn[t] = "idle" => attempt[t] = 0
                /\ turn[t] = "delaying" => attempt[t] < Len(plan[t])
                /\ OnTheWay(t) => attempt[t] \in 1 .. Len(plan[t])

LEMMA CurrentIsRequest ==
  ASSUME TurnInv, NEW t \in Turns, OnTheWay(t)
  PROVE  Current(t) \in Requests
<1>1. t \in DOMAIN plan  BY DEF TurnInv, OnTheWay
<1>2. plan[t] \in Seq(Requests) /\ attempt[t] \in 1 .. Len(plan[t])
  BY <1>1, PlansAssumption DEF TurnInv
<1>3. QED  BY <1>2 DEF Current

LEMMA TurnInitInv == RetryInit => TurnInv
  BY PlansAssumption DEF RetryInit, TurnInv, OnTheWay

LEMMA OverInv ==
  ASSUME TurnInv, NEW t \in Turns, OnTheWay(t), NEW outcome, Over(t, outcome)
  PROVE  TurnInv'
<1>1. t \in DOMAIN plan  BY DEF TurnInv, OnTheWay
<1>2. CASE turn' = [turn EXCEPT ![t] = "delaying"] /\ attempt[t] < Len(plan[t])
  BY <1>1, <1>2 DEF Over, TurnInv, OnTheWay
<1>3. CASE turn' = [turn EXCEPT ![t] = "returned"]
  BY <1>1, <1>3 DEF Over, TurnInv, OnTheWay
<1>4. QED  BY <1>2, <1>3 DEF Over

LEMMA TryInv ==
  ASSUME TurnInv, NEW t \in Turns, Try(t)
  PROVE  TurnInv'
<1>1. t \in DOMAIN plan /\ turn[t] \in {"idle", "delaying"}  BY DEF Try
<1>2. plan[t] \in Seq(Requests) /\ plan[t] # << >>  BY <1>1, PlansAssumption DEF TurnInv
<1>3. Len(plan[t]) \in Nat /\ Len(plan[t]) > 0  BY <1>2
<1>4. CASE ended[t]  BY <1>1, <1>4 DEF Try, TurnInv, OnTheWay
<1>5. CASE ~ended[t]
  <2>1. attempt[t] + 1 \in 1 .. Len(plan[t])  BY <1>1, <1>3 DEF TurnInv
  <2>2. QED  BY <1>1, <1>5, <2>1 DEF Try, TurnInv, OnTheWay
<1>6. QED  BY <1>4, <1>5

LEMMA SettleInv ==
  ASSUME TurnInv, NEW t \in Turns, Settle(t)
  PROVE  TurnInv'
<1>1. OnTheWay(t) /\ t \in DOMAIN plan  BY DEF Settle, OnTheWay, TurnInv
<1>2. PICK outcome \in Outcomes(Current(t)) :
        IF FallsBack(t, outcome)
        THEN turn' = [turn EXCEPT ![t] = "elsewhere"] /\ UNCHANGED <<allVars, plan, attempt, ended>>
        ELSE Over(t, outcome)
  BY DEF Settle
<1>3. CASE FallsBack(t, outcome)  BY <1>1, <1>2, <1>3 DEF TurnInv, OnTheWay
<1>4. CASE ~FallsBack(t, outcome)  BY <1>1, <1>2, <1>4, OverInv
<1>5. QED  BY <1>3, <1>4

LEMMA TurnNextInv == TurnInv /\ [RetryNext]_retryVars => TurnInv'
<1> SUFFICES ASSUME TurnInv, [RetryNext]_retryVars PROVE TurnInv'  OBVIOUS
<1>1. CASE UNCHANGED turnVars  BY <1>1 DEF turnVars, TurnInv, OnTheWay
<1>2. ASSUME NEW t \in Turns, Try(t) \/ Settle(t) \/ Elsewhere(t) PROVE TurnInv'
  BY <1>2, TryInv, SettleInv, OverInv DEF Elsewhere, OnTheWay
<1>3. ASSUME NEW t \in Turns, TurnIsCanceled(t) PROVE TurnInv'
  BY <1>3 DEF TurnIsCanceled, TurnInv, OnTheWay
<1>4. QED  BY <1>1, <1>2, <1>3
           DEF RetryNext, Progress, AttemptStep, Answered, TurnStep, AttemptTimesOut, retryVars

\* The end of an attempt: nothing, or the end of a request's context.
LEMMA OverCancels ==
  ASSUME TurnInv, NEW t \in Turns, OnTheWay(t), NEW outcome, Over(t, outcome)
  PROVE  [RequestNext]_allVars
  BY CurrentIsRequest DEF Over, RequestNext

LEMMA TurnsMakeRequests ==
  TurnInv /\ [RetryNext]_retryVars => [RequestNext]_allVars
<1> SUFFICES ASSUME TurnInv, [RetryNext]_retryVars PROVE [RequestNext]_allVars  OBVIOUS
<1>1. CASE UNCHANGED retryVars  BY <1>1 DEF retryVars
<1>2. ASSUME NEW c \in Requests, AttemptStep(c) \/ Answered(c) PROVE RequestNext
  BY <1>2 DEF AttemptStep, Answered, RequestNext
<1>3. ASSUME NEW t \in Turns, Try(t) PROVE UNCHANGED allVars  BY <1>3 DEF Try
<1>4. ASSUME NEW t \in Turns, Settle(t) PROVE [RequestNext]_allVars
  <2>1. OnTheWay(t)  BY <1>4 DEF Settle, OnTheWay
  <2>2. QED  BY <1>4, <2>1, OverCancels DEF Settle
<1>5. ASSUME NEW t \in Turns, Elsewhere(t) PROVE [RequestNext]_allVars
  <2>1. OnTheWay(t)  BY <1>5 DEF Elsewhere, OnTheWay
  <2>2. QED  BY <1>5, <2>1, OverCancels DEF Elsewhere
<1>6. ASSUME NEW t \in Turns, AttemptTimesOut(t) \/ TurnIsCanceled(t)
      PROVE  [RequestNext]_allVars
  BY <1>6, CurrentIsRequest DEF AttemptTimesOut, TurnIsCanceled, RequestNext
<1>7. CASE Abandon  BY <1>7 DEF RequestNext
<1>8. QED  BY <1>1, <1>2, <1>3, <1>4, <1>5, <1>6, <1>7 DEF RetryNext, Progress, TurnStep

\* The attempts of turns are requests of ModelRequest: retrying, falling back and
\* cancelling adds no step to those of one call.
THEOREM TurnsRefineRequests == RetrySpec => RequestSpec
<1>1. RetryInit => RequestInit  BY DEF RetryInit
<1>2. RetrySpec => []TurnInv  BY TurnInitInv, TurnNextInv, PTL DEF RetrySpec
<1>3. QED  BY <1>1, <1>2, TurnsMakeRequests, PTL DEF RetrySpec, RequestSpec

\* However turns retry, time out and are abandoned, whoever is at the provider owns
\* a permit of its route, tracked by the agent or not, unless its own watchdog gave
\* it up or AbandonActiveTurn took its hold.
THEOREM LiveCallsHold == RetrySpec => []LiveCallsHoldPermits
BY TurnsRefineRequests, RequestInvariant, InvSafe, PTL

\* Every permit that is out has a goroutine that will give it back.
THEOREM PermitsAreOwned == RetrySpec => []PermitsHaveOwners
BY TurnsRefineRequests, RequestInvariant, InvSafe, PTL
-----------------------------------------------------------------------------
(* What is left to do: of the goroutines of a request, and of a turn.      *)

CallerLeft(c) == CASE caller[c] = "acquiring" -> 3
                   [] caller[c] = "tracked" -> 2
                   [] caller[c] = "waiting" -> 1
                   [] OTHER -> 0
WorkerLeft(c) == CASE worker[c] = "none" -> 3
                   [] worker[c] = "completing" -> 2
                   [] worker[c] = "sent" -> 1
                   [] OTHER -> 0
WatchdogLeft(c) == CASE watchdog[c] = "none" -> 3
                     [] watchdog[c] = "armed" -> 2
                     [] watchdog[c] = "draining" -> 1
                     [] OTHER -> 0

\* A hold that was forced away is not registered again.
HoldLeft(c) == IF caller[c] = "acquiring" \/ c \in holds THEN 2
               ELSE IF c \in forcing THEN 1 ELSE 0
StepsLeft(c) == CallerLeft(c) + WorkerLeft(c) + WatchdogLeft(c) + HoldLeft(c)

TurnLeft(t) == LET attempts == 3 * (Len(plan[t]) - attempt[t])
               IN  CASE turn[t] \in {"idle", "delaying"} -> attempts
                     [] turn[t] = "trying" -> attempts + 2
                     [] turn[t] = "elsewhere" -> attempts + 1
                     [] OTHER -> 0

\* Behind the gate, a request's goroutines never do a thing again: every step
\* of one of them, the provider's answer and an abandoned turn's taking of the
\* hold leave it less to do, and no step of any request leaves any of them more.
RequestsShorten ==
  [][/\ \A c \in Requests : StepsLeft(c)' <= StepsLeft(c)
     /\ \A c \in Requests : GoStep(c) \/ CompleteReturns(c) => StepsLeft(c)' < StepsLeft(c)
     /\ Abandon => \A c \in holds : StepsLeft(c)' < StepsLeft(c)]_allVars

\* A turn never goes back to an attempt or to the models it fell back to.
TurnsShorten ==
  [][/\ \A t \in DOMAIN plan : TurnLeft(t)' <= TurnLeft(t)
     /\ \A t \in DOMAIN plan : TurnStep(t) => TurnLeft(t)' < TurnLeft(t)]_retryVars

LeftBounded == \A c \in Requests : StepsLeft(c) \in 0 .. 11
TurnBounded == \A t \in DOMAIN plan : TurnLeft(t) \in 0 .. 3 * Len(plan[t])

LEMMA LeftRange ==
  ASSUME NEW c
  PROVE  /\ CallerLeft(c) \in 0 .. 3 /\ WorkerLeft(c) \in 0 .. 3
         /\ WatchdogLeft(c) \in 0 .. 3 /\ HoldLeft(c) \in 0 .. 2
BY DEF CallerLeft, WorkerLeft, WatchdogLeft, HoldLeft

LEMMA LeftTyped == \A c : StepsLeft(c) \in 0 .. 11
BY LeftRange DEF StepsLeft

\* Nothing of c is touched.
Untouched(c) == /\ caller'[c] = caller[c] /\ worker'[c] = worker[c] /\ watchdog'[c] = watchdog[c]
                /\ c \in holds' <=> c \in holds
                /\ c \in forcing' <=> c \in forcing

LEMMA UntouchedLeft == ASSUME NEW c, Untouched(c) PROVE StepsLeft(c)' = StepsLeft(c)
<1>1. CallerLeft(c)' = CallerLeft(c)  BY DEF Untouched, CallerLeft
<1>2. WorkerLeft(c)' = WorkerLeft(c)  BY DEF Untouched, WorkerLeft
<1>3. WatchdogLeft(c)' = WatchdogLeft(c)  BY DEF Untouched, WatchdogLeft
<1>4. HoldLeft(c)' = HoldLeft(c)  BY DEF Untouched, HoldLeft
<1>5. QED  BY <1>1, <1>2, <1>3, <1>4 DEF StepsLeft

\* One part has less to do, and none has more.
LEMMA OnePartLess ==
  ASSUME NEW c,
         CallerLeft(c)' <= CallerLeft(c), WorkerLeft(c)' <= WorkerLeft(c),
         WatchdogLeft(c)' <= WatchdogLeft(c), HoldLeft(c)' <= HoldLeft(c),
         \/ CallerLeft(c)' < CallerLeft(c) \/ WorkerLeft(c)' < WorkerLeft(c)
         \/ WatchdogLeft(c)' < WatchdogLeft(c) \/ HoldLeft(c)' < HoldLeft(c)
  PROVE  StepsLeft(c)' < StepsLeft(c)
<1>1. /\ CallerLeft(c) \in Int /\ WorkerLeft(c) \in Int
      /\ WatchdogLeft(c) \in Int /\ HoldLeft(c) \in Int
  BY LeftRange
<1>2. /\ CallerLeft(c)' \in Int /\ WorkerLeft(c)' \in Int
      /\ WatchdogLeft(c)' \in Int /\ HoldLeft(c)' \in Int
  BY DEF CallerLeft, WorkerLeft, WatchdogLeft, HoldLeft
<1>3. QED  BY <1>1, <1>2 DEF StepsLeft

LEMMA GoShortens ==
  ASSUME RequestInv, NEW c \in Requests, GoStep(c) \/ CompleteReturns(c)
  PROVE  /\ StepsLeft(c)' < StepsLeft(c)
         /\ \A d \in Requests \ {c} : StepsLeft(d)' = StepsLeft(d)
<1> USE DEF RequestInv, RequestTypeOK
<1>1. \A d \in Requests \ {c} : Untouched(d)
  BY DEF GoStep, CompleteReturns, Refuse, Track, StartComplete, DeferredRelease, TrackedRelease,
     ReceiveResult, LeaveOnContext, WatchdogSeesDone, WatchdogReclaims, WatchdogDrains, ForceRelease,
     Untouched
<1>2. \A d \in Requests \ {c} : StepsLeft(d)' = StepsLeft(d)
  BY <1>1, UntouchedLeft
<1>3. Stage(c)
  OBVIOUS
<1> DEFINE Less == /\ CallerLeft(c)' <= CallerLeft(c) /\ WorkerLeft(c)' <= WorkerLeft(c)
                   /\ WatchdogLeft(c)' <= WatchdogLeft(c) /\ HoldLeft(c)' <= HoldLeft(c)
                   /\ \/ CallerLeft(c)' < CallerLeft(c) \/ WorkerLeft(c)' < WorkerLeft(c)
                      \/ WatchdogLeft(c)' < WatchdogLeft(c) \/ HoldLeft(c)' < HoldLeft(c)
<1> USE DEF CallerLeft, WorkerLeft, WatchdogLeft, HoldLeft
<1>4. Refuse(c) => Less
  BY DEF Refuse
<1>5. Track(c) => Less
  BY <1>3 DEF Track, Stage, Begun
<1>6. StartComplete(c) => Less
  BY <1>3 DEF StartComplete, Stage
<1>7. CompleteReturns(c) => Less
  BY DEF CompleteReturns
<1>8. DeferredRelease(c) => Less
  BY DEF DeferredRelease, TrackedRelease
<1>9. ReceiveResult(c) => Less
  BY DEF ReceiveResult
<1>10. LeaveOnContext(c) => Less
  BY <1>3 DEF LeaveOnContext, Stage
<1>11. WatchdogSeesDone(c) => Less
  BY DEF WatchdogSeesDone
<1>12. WatchdogReclaims(c) => Less
  BY DEF WatchdogReclaims, TrackedRelease
<1>13. WatchdogDrains(c) => Less
  BY DEF WatchdogDrains
<1>14. ForceRelease(c) => Less
  BY <1>3 DEF ForceRelease, Stage, Begun
<1>15. Less
  BY <1>4, <1>5, <1>6, <1>7, <1>8, <1>9, <1>10, <1>11, <1>12, <1>13, <1>14 DEF GoStep
<1>16. QED  BY <1>2, <1>15, OnePartLess

LEMMA AbandonShortens ==
  ASSUME RequestInv, Abandon
  PROVE  /\ \A c \in holds : StepsLeft(c)' < StepsLeft(c)
         /\ \A c \in Requests : StepsLeft(c)' <= StepsLeft(c)
<1>1. /\ holds \subseteq Requests /\ holds' = {} /\ forcing' = forcing \cup holds
      /\ UNCHANGED <<caller, worker, watchdog>>
  BY DEF Abandon, RequestInv, RequestTypeOK
<1>2. ASSUME NEW c \in holds PROVE StepsLeft(c)' < StepsLeft(c)
  <2>1. caller[c] # "acquiring"
    BY <1>1 DEF RequestInv, Stage, Begun
  <2>2. HoldLeft(c) = 2 /\ HoldLeft(c)' = 1
    BY <1>1, <2>1 DEF HoldLeft
  <2>3. /\ CallerLeft(c)' = CallerLeft(c) /\ WorkerLeft(c)' = WorkerLeft(c)
        /\ WatchdogLeft(c)' = WatchdogLeft(c)
    BY <1>1 DEF CallerLeft, WorkerLeft, WatchdogLeft
  <2>4. QED  BY <2>2, <2>3, LeftRange, OnePartLess
<1>3. ASSUME NEW c \in Requests, c \notin holds PROVE StepsLeft(c)' = StepsLeft(c)
  BY <1>1, <1>3, UntouchedLeft DEF Untouched
<1>4. ASSUME NEW c \in Requests PROVE StepsLeft(c)' <= StepsLeft(c)
  <2>1. StepsLeft(c) \in Int
    BY LeftTyped
  <2>2. StepsLeft(c)' \in Int
    BY DEF StepsLeft, CallerLeft, WorkerLeft, WatchdogLeft, HoldLeft
  <2>3. StepsLeft(c)' < StepsLeft(c) \/ StepsLeft(c)' = StepsLeft(c)
    BY <1>2, <1>3
  <2>4. QED  BY <2>1, <2>2, <2>3
<1>5. QED  BY <1>2, <1>4

\* Once a request has its permit or was refused it, its goroutines take at most
\* 11 steps, however the provider, the contexts and abandoned turns go on:
\* whatever is then left of a permit comes back by one of them.
THEOREM RequestsFinish == RequestSpec => RequestsShorten /\ []LeftBounded
<1>1. ASSUME RequestInv, RequestNext
      PROVE  /\ \A c \in Requests : StepsLeft(c)' <= StepsLeft(c)
             /\ \A c \in Requests : GoStep(c) \/ CompleteReturns(c) => StepsLeft(c)' < StepsLeft(c)
             /\ Abandon => \A c \in holds : StepsLeft(c)' < StepsLeft(c)
  <2>1. ASSUME UNCHANGED goVars, NEW c \in Requests PROVE StepsLeft(c)' = StepsLeft(c)
    BY <2>1, UntouchedLeft DEF Untouched, goVars
  <2>2. ASSUME NEW c \in Requests PROVE StepsLeft(c)' <= StepsLeft(c)
    <3>1. StepsLeft(c) \in Int
      BY LeftTyped
    <3>2. CASE Abandon  BY <1>1, <3>2, AbandonShortens
    <3>3. ASSUME NEW d \in Requests, GoStep(d) \/ CompleteReturns(d)
          PROVE  StepsLeft(c)' <= StepsLeft(c)
      <4>1. StepsLeft(c)' = StepsLeft(c) \/ StepsLeft(c)' < StepsLeft(c)
        BY <1>1, <3>3, GoShortens
      <4>2. StepsLeft(c)' \in Int
        BY DEF StepsLeft, CallerLeft, WorkerLeft, WatchdogLeft, HoldLeft
      <4>3. QED  BY <3>1, <4>1, <4>2
    <3>4. ASSUME NEW d \in Requests, AcquireStep(d) \/ ContextEnds(d)
          PROVE  StepsLeft(c)' <= StepsLeft(c)
      BY <2>1, <3>1, <3>4 DEF AcquireStep, ContextEnds
    <3>5. QED  BY <1>1, <3>2, <3>3, <3>4 DEF RequestNext
  <2>3. ASSUME NEW c \in Requests, GoStep(c) \/ CompleteReturns(c) PROVE StepsLeft(c)' < StepsLeft(c)
    BY <1>1, <2>3, GoShortens
  <2>4. Abandon => \A c \in holds : StepsLeft(c)' < StepsLeft(c)
    BY <1>1, AbandonShortens
  <2>5. QED  BY <2>2, <2>3, <2>4
<1>2. LeftBounded
  BY LeftTyped DEF LeftBounded
<1>3. QED  BY <1>1, <1>2, RequestInvariant, PTL DEF RequestSpec, RequestsShorten

LEMMA TurnRange ==
  ASSUME TurnInv, NEW t \in DOMAIN plan
  PROVE  /\ t \in Turns /\ Len(plan[t]) \in Nat /\ attempt[t] \in Nat
         /\ TurnLeft(t) \in 0 .. 3 * Len(plan[t])
<1>1. plan[t] \in Seq(Requests) /\ t \in Turns
  BY PlansAssumption DEF TurnInv
<1>2. Len(plan[t]) \in Nat
  BY <1>1
<1>3. /\ attempt[t] \in Nat
      /\ turn[t] = "idle" => attempt[t] = 0
      /\ turn[t] = "delaying" => attempt[t] < Len(plan[t])
      /\ turn[t] \in {"trying", "elsewhere"} => attempt[t] \in 1 .. Len(plan[t])
  BY <1>1 DEF TurnInv, OnTheWay
<1>4. TurnLeft(t) \in 0 .. 3 * Len(plan[t])
  BY <1>2, <1>3 DEF TurnLeft
<1>5. QED  BY <1>1, <1>2, <1>3, <1>4

\* The end of an attempt leaves less than the attempt had.
LEMMA OverShortens ==
  ASSUME TurnInv, NEW t \in DOMAIN plan, OnTheWay(t), NEW outcome, Over(t, outcome)
  PROVE  TurnLeft(t)' < TurnLeft(t)
<1>1. t \in Turns /\ Len(plan[t]) \in Nat /\ attempt[t] \in 1 .. Len(plan[t]) /\ turn[t] \in {"trying", "elsewhere"}
  BY TurnRange DEF TurnInv, OnTheWay
<1>2. plan' = plan /\ attempt' = attempt /\ turn'[t] \in {"delaying", "returned"}
  BY <1>1 DEF Over, TurnInv
<1>3. QED  BY <1>1, <1>2 DEF TurnLeft

LEMMA TurnStepShortens ==
  ASSUME TurnInv, NEW t \in DOMAIN plan, TurnStep(t)
  PROVE  TurnLeft(t)' < TurnLeft(t)
<1>1. t \in Turns /\ Len(plan[t]) \in Nat /\ attempt[t] \in Nat
  BY TurnRange
<1>2. CASE Try(t)
  <2>1. /\ turn[t] \in {"idle", "delaying"} /\ plan' = plan
        /\ turn[t] = "idle" => attempt[t] = 0
        /\ turn[t] = "delaying" => attempt[t] < Len(plan[t])
    BY <1>2 DEF Try, TurnInv
  <2>2. Len(plan[t]) > 0
    <3>1. plan[t] \in Seq(Requests) /\ plan[t] # << >>
      BY PlansAssumption DEF TurnInv
    <3>2. QED  BY <3>1
  <2>3. attempt[t] < Len(plan[t])
    BY <1>1, <2>1, <2>2
  <2>4. \/ turn'[t] = "returned"
        \/ turn'[t] = "trying" /\ attempt'[t] = attempt[t] + 1
    BY <1>1, <1>2 DEF Try, TurnInv
  <2>5. QED  BY <1>1, <2>1, <2>3, <2>4 DEF TurnLeft
<1>3. CASE Settle(t)
  <2>1. PICK outcome \in Outcomes(Current(t)) :
          \/ turn' = [turn EXCEPT ![t] = "elsewhere"] /\ UNCHANGED <<plan, attempt>>
          \/ Over(t, outcome)
    BY <1>3 DEF Settle
  <2>2. turn[t] = "trying" /\ OnTheWay(t)
    BY <1>3 DEF Settle, OnTheWay
  <2>3. CASE turn' = [turn EXCEPT ![t] = "elsewhere"] /\ UNCHANGED <<plan, attempt>>
    <3>1. turn'[t] = "elsewhere"
      BY <1>1, <2>3 DEF TurnInv
    <3>2. QED  BY <1>1, <2>2, <2>3, <3>1 DEF TurnLeft
  <2>4. QED  BY <2>1, <2>2, <2>3, OverShortens
<1>4. CASE Elsewhere(t)
  BY <1>4, OverShortens DEF Elsewhere, OnTheWay
<1>5. QED  BY <1>2, <1>3, <1>4 DEF TurnStep

LEMMA OtherTurns ==
  ASSUME TurnInv, NEW t \in DOMAIN plan, NEW u \in Turns, u # t, TurnStep(u)
  PROVE  TurnLeft(t)' = TurnLeft(t)
<1>1. t \in Turns
  BY TurnRange
<1>2. plan' = plan /\ attempt'[t] = attempt[t] /\ turn'[t] = turn[t]
  BY <1>1 DEF TurnInv, TurnStep, Try, Settle, Elsewhere, Over
<1>3. QED  BY <1>2 DEF TurnLeft

\* A turn's steps are at most three for each of its attempts: nothing that the
\* provider, the fallback models, time-outs or other turns do gives it one back.
\* With RequestsFinish, what TurnsReturn rests on.  (agent.go:6971-7006)
THEOREM TurnsFinish == RetrySpec => TurnsShorten /\ []TurnBounded
<1>1. ASSUME TurnInv, RetryNext, NEW t \in DOMAIN plan
      PROVE  /\ TurnLeft(t)' <= TurnLeft(t)
             /\ TurnStep(t) => TurnLeft(t)' < TurnLeft(t)
  <2>1. TurnStep(t) => TurnLeft(t)' < TurnLeft(t)
    BY <1>1, TurnStepShortens
  <2>2. TurnLeft(t) \in Int
    BY <1>1, TurnRange
  <2>3. CASE TurnStep(t)
    <3>1. TurnInv' /\ t \in DOMAIN plan'
      <4>1. TurnInv'  BY <1>1, TurnNextInv
      <4>2. plan' = plan
        BY <2>3 DEF TurnStep, Try, Settle, Elsewhere, Over
      <4>3. QED  BY <4>1, <4>2
    <3>2. TurnLeft(t)' \in Int
      <4>1. turn'[t] \in {"idle", "trying", "elsewhere", "delaying", "returned"} /\ attempt'[t] \in Nat
        BY <3>1 DEF TurnInv
      <4>2. Len(plan'[t]) \in Nat
        BY <3>1, PlansAssumption DEF TurnInv
      <4>3. QED  BY <4>1, <4>2 DEF TurnLeft
    <3>3. QED  BY <2>1, <2>2, <2>3, <3>2
  <2>4. CASE \E u \in Turns : u # t /\ TurnStep(u)
    <3>1. PICK u \in Turns : u # t /\ TurnStep(u)
      BY <2>4
    <3>2. TurnLeft(t)' = TurnLeft(t)
      BY <1>1, <3>1, OtherTurns
    <3>3. QED  BY <2>1, <2>2, <3>2
  <2>5. CASE UNCHANGED <<plan, turn, attempt>>
    <3>1. TurnLeft(t)' = TurnLeft(t)
      BY <2>5 DEF TurnLeft
    <3>2. QED  BY <2>1, <2>2, <3>1
  <2>6. \/ \E u \in Turns : TurnStep(u)
        \/ UNCHANGED <<plan, turn, attempt>>
    BY <1>1 DEF RetryNext, Progress, AttemptStep, AttemptTimesOut, Answered, TurnIsCanceled, turnVars
  <2>7. QED  BY <2>1, <2>3, <2>4, <2>5, <2>6
<1>2. TurnInv => TurnBounded
  BY TurnRange DEF TurnBounded
<1>3. TurnInv /\ RetryNext =>
        /\ \A t \in DOMAIN plan : TurnLeft(t)' <= TurnLeft(t)
        /\ \A t \in DOMAIN plan : TurnStep(t) => TurnLeft(t)' < TurnLeft(t)
  BY <1>1
<1>4. QED  BY <1>2, <1>3, TurnInitInv, TurnNextInv, PTL DEF RetrySpec, TurnsShorten
=============================================================================
