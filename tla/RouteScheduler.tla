--------------------------- MODULE RouteScheduler ---------------------------
(***************************************************************************)
(* ModelRouteScheduler (model_route_scheduler.go): the gate every model   *)
(* request of one physical backend (one ScheduleKey) passes.  A limiter is *)
(* a counter pair guarded by a mutex and a condition variable; each call   *)
(* of Acquire also starts a watcher goroutine that turns the end of its    *)
(* context into a Broadcast.  A critical section of limiter.mu is one      *)
(* action; sync.Cond.Wait is the state "asleep", which only a Broadcast    *)
(* leaves; a goroutine that was woken competes for the mutex again.        *)
(*                                                                         *)
(* A member of Requests is one call of Acquire together with the release   *)
(* function it returns.                                                    *)
(***************************************************************************)
EXTENDS Integers, FiniteSets

CONSTANTS Requests,     \* the calls of Acquire
          Limits        \* what policy.LimitFor may return; 0 = not limited

ASSUME RequestsAssumption == IsFiniteSet(Requests)
ASSUME LimitsAssumption == Limits \subseteq Nat

VARIABLES limit,        \* limiter.limit, 0 while the limiter does not exist
          active,       \* limiter.active
          queued,       \* limiter.queued
          pc,           \* where each call of Acquire stands
          want,         \* the limit a call brought to limiter()
          cancelled,    \* ctx.Done() of the call is closed
          watcher       \* the call's watcher goroutine

vars == <<limit, active, queued, pc, want, cancelled, watcher>>

Locations == {"new", "arriving", "asleep", "woken", "held", "released",
              "failed", "unlimited"}

TypeOK == /\ limit \in Nat
          /\ active \in Nat
          /\ queued \in Nat
          /\ pc \in [Requests -> Locations]
          /\ want \in [Requests -> Nat]
          /\ cancelled \in [Requests -> BOOLEAN]
          /\ watcher \in [Requests -> {"none", "armed", "gone"}]

Init == /\ limit = 0
        /\ active = 0
        /\ queued = 0
        /\ pc = [c \in Requests |-> "new"]
        /\ want = [c \in Requests |-> 0]
        /\ cancelled = [c \in Requests |-> FALSE]
        /\ watcher = [c \in Requests |-> "none"]

\* limiter.cond.Broadcast: every sleeping goroutine may try the mutex again.
Broadcast(p) == [c \in Requests |-> IF p[c] = "asleep" THEN "woken" ELSE p[c]]

\* No limit, or a policy that is switched off: Acquire returns a release
\* function that does nothing.
Bypass(c) == /\ pc[c] = "new"
             /\ 0 \in Limits
             /\ pc' = [pc EXCEPT ![c] = "unlimited"]
             /\ UNCHANGED <<limit, active, queued, want, cancelled, watcher>>

\* Mutant of Lookup: a resize does not wake the queue.
LookupSilently(c, l) ==
  /\ pc[c] = "new"
  /\ l > 0
  /\ limit' = l
  /\ pc' = [pc EXCEPT ![c] = "arriving"]
  /\ want' = [want EXCEPT ![c] = l]
  /\ watcher' = [watcher EXCEPT ![c] = "armed"]
  /\ UNCHANGED <<active, queued, cancelled>>

\* limiter(): create the limiter, or resize it and wake the queue when the
\* limit differs; Acquire then starts the watcher.
Lookup(c, l) ==
  /\ pc[c] = "new"
  /\ l > 0
  /\ limit' = l
  /\ pc' = [(IF limit \in {0, l} THEN pc ELSE Broadcast(pc))
              EXCEPT ![c] = "arriving"]
  /\ want' = [want EXCEPT ![c] = l]
  /\ watcher' = [watcher EXCEPT ![c] = "armed"]
  /\ UNCHANGED <<active, queued, cancelled>>

\* The caller holds limiter.mu and is about to test the loop condition: it
\* has just come (and counts itself first) or returned from cond.Wait.
AtGate(c) == pc[c] \in {"arriving", "woken"}
QueuedWith(c) == IF pc[c] = "arriving" THEN queued + 1 ELSE queued

\* Mutant of Admit: off by one at the limit.
AdmitOneMore(c) == /\ AtGate(c)
                   /\ active <= limit
                   /\ queued' = QueuedWith(c) - 1
                   /\ active' = active + 1
                   /\ pc' = [pc EXCEPT ![c] = "held"]
                   /\ UNCHANGED <<limit, want, cancelled, watcher>>

\* The loop ends: a permit is taken.  The context is not looked at again.
Admit(c) == /\ AtGate(c)
            /\ active < limit
            /\ queued' = QueuedWith(c) - 1
            /\ active' = active + 1
            /\ pc' = [pc EXCEPT ![c] = "held"]
            /\ UNCHANGED <<limit, want, cancelled, watcher>>

\* The loop body with the context done: leave the queue with ctx.Err().
GiveUp(c) == /\ AtGate(c)
             /\ active >= limit
             /\ cancelled[c]
             /\ queued' = IF QueuedWith(c) > 0 THEN QueuedWith(c) - 1 ELSE 0
             /\ pc' = [pc EXCEPT ![c] = "failed"]
             /\ UNCHANGED <<limit, active, want, cancelled, watcher>>

\* The loop body with the context alive: cond.Wait.
Sleep(c) == /\ AtGate(c)
            /\ active >= limit
            /\ ~cancelled[c]
            /\ queued' = QueuedWith(c)
            /\ pc' = [pc EXCEPT ![c] = "asleep"]
            /\ UNCHANGED <<limit, active, want, cancelled, watcher>>

Gate(c) == Admit(c) \/ GiveUp(c) \/ Sleep(c)

\* The context of a call ends, before, during or after Acquire.
Cancel(c) == /\ ~cancelled[c]
             /\ cancelled' = [cancelled EXCEPT ![c] = TRUE]
             /\ UNCHANGED <<limit, active, queued, pc, want, watcher>>

\* Mutant of WatcherFire: the watcher ends without a broadcast.
WatcherMute(c) == /\ watcher[c] = "armed"
                  /\ cancelled[c]
                  /\ watcher' = [watcher EXCEPT ![c] = "gone"]
                  /\ UNCHANGED <<limit, active, queued, pc, want, cancelled>>

\* The watcher goroutine: its select takes ctxDone and broadcasts ...
WatcherFire(c) == /\ watcher[c] = "armed"
                  /\ cancelled[c]
                  /\ watcher' = [watcher EXCEPT ![c] = "gone"]
                  /\ pc' = Broadcast(pc)
                  /\ UNCHANGED <<limit, active, queued, want, cancelled>>

\* ... or watcherDone, which Acquire closes when it returns.
WatcherStop(c) == /\ watcher[c] = "armed"
                  /\ pc[c] \in {"held", "released", "failed"}
                  /\ watcher' = [watcher EXCEPT ![c] = "gone"]
                  /\ UNCHANGED <<limit, active, queued, pc, want, cancelled>>

\* Mutant of Release: without the flag released.
ReleaseTwice(c) ==
  /\ pc[c] \in {"held", "released"}
  /\ active' = IF active > 0 THEN active - 1 ELSE 0
  /\ pc' = [Broadcast(pc) EXCEPT ![c] = "released"]
  /\ UNCHANGED <<limit, queued, want, cancelled, watcher>>

\* The release function: its first call frees the permit and wakes the
\* queue; later calls, from a deferred call, a watchdog or an abandoned
\* turn, find released set.
Release(c) ==
  /\ pc[c] \in {"held", "released"}
  /\ IF pc[c] = "held"
       THEN /\ active' = IF active > 0 THEN active - 1 ELSE 0
            /\ pc' = [Broadcast(pc) EXCEPT ![c] = "released"]
       ELSE UNCHANGED <<active, pc>>
  /\ UNCHANGED <<limit, queued, want, cancelled, watcher>>

Next == \E c \in Requests : \/ Bypass(c)
                            \/ \E l \in Limits : Lookup(c, l)
                            \/ Admit(c)
                            \/ GiveUp(c)
                            \/ Sleep(c)
                            \/ Cancel(c)
                            \/ WatcherFire(c)
                            \/ WatcherStop(c)
                            \/ Release(c)

Spec == Init /\ [][Next]_vars

\* sync.Mutex hands itself to a starving goroutine after 1 ms, so a goroutine
\* at the gate gets through it; a ready select is taken.  Nothing obliges the
\* holder of a permit to release it.
GateFairness == \A c \in Requests :
                  /\ WF_vars(Gate(c))
                  /\ WF_vars(WatcherFire(c) \/ WatcherStop(c))

GateSpec == Spec /\ GateFairness
-----------------------------------------------------------------------------
Holders == {c \in Requests : pc[c] = "held"}
Waiters == {c \in Requests : pc[c] \in {"asleep", "woken"}}

\* The two counters count what they say, across resizes, cancellations and
\* repeated releases: active is the number of calls that own a permit, queued
\* the number that sleep or were woken.  A counter that drifts by one takes a
\* slot away for good or lets one request too many reach the backend.
CountersExact == /\ active = Cardinality(Holders)
                 /\ queued = Cardinality(Waiters)

\* No wakeup is lost: a goroutine in cond.Wait has nothing to wake up for
\* (the gate is closed) and, if its context has ended, its watcher has yet to
\* broadcast.  It is what makes a raised limit, a release and a cancellation
\* reach the queue.
NoLostWakeup == \A c \in Requests :
                  pc[c] = "asleep" => /\ active >= limit
                                      /\ cancelled[c] => watcher[c] = "armed"

\* However often callers with different limits resize the one limiter, there
\* are never more permits out than the largest limit some caller brought.
PeakBound == active > 0 => \E c \in Requests : want[c] >= active

\* A call whose context ends while it queues returns, even if no holder ever
\* releases its permit (it may return with a permit).
CancelledReturns ==
  \A c \in Requests :
    (cancelled[c] /\ pc[c] \in {"arriving", "asleep", "woken"})
      ~> (pc[c] \in {"held", "failed", "released"})

\* The limiter is a resizable counting semaphore: capacity is limit, and a
\* request is inside from Admit to its first Release.
PhaseOf(l) == CASE l \in {"new", "unlimited"}             -> "out"
                [] l \in {"arriving", "asleep", "woken"}  -> "waiting"
                [] l = "held"                             -> "inside"
                [] l \in {"released", "failed"}           -> "gone"

phaseBar == [c \in Requests |-> PhaseOf(pc[c])]
cancelledBar == {c \in Requests : cancelled[c]}

Sem == INSTANCE RouteSemaphore WITH capacity <- limit,
                                    phase <- phaseBar,
                                    cancelled <- cancelledBar

\* Acquire and release implement the semaphore of RouteSemaphore: a permit is
\* granted only while fewer permits than the current limit are really out.
ImplementsSemaphore == Sem!SemSpec
=============================================================================
