---------------------------- MODULE ModelRequest ----------------------------
(***************************************************************************)
(* One model call from the route gate to the answer:                       *)
(* completeModelTurnSingleRouteAttempt (parallel_edit_workers.go) with the *)
(* goroutines it starts, and the agent's list of route holds (agent.go).   *)
(*                                                                         *)
(* The caller acquires a permit, registers its release function with the   *)
(* agent, starts a goroutine that calls client.Complete and waits for that *)
(* goroutine or for its context.  When the context ends first the caller   *)
(* leaves a watchdog behind that reclaims the permit from a provider which *)
(* does not return.  AbandonActiveTurn may take every registered hold away *)
(* at any moment.  The provider is not under anybody's control: Complete   *)
(* returns when it likes, or never.                                        *)
(***************************************************************************)
EXTENDS RouteScheduler

CONSTANT Tracked        \* requests made with the agent as hold tracker

ASSUME TrackedAssumption == Tracked \subseteq Requests

VARIABLES caller,       \* the goroutine inside completeModelTurnSingleRouteAttempt
          worker,       \* the goroutine that calls client.Complete
          done,         \* the one-slot channel done holds a result
          watchdog,     \* the goroutine left behind when the context ends
          holds,        \* a.routeHolds
          forcing,      \* holds forceReleaseModelRouteHolds took and has yet to release
          abandoned     \* history: the calls whose hold an abandoned turn ever took

goVars == <<caller, worker, done, watchdog, holds, forcing, abandoned>>
allVars == <<vars, goVars>>

RequestTypeOK ==
  /\ TypeOK
  /\ caller \in [Requests -> {"acquiring", "tracked", "waiting",
                              "answered", "timedout", "refused"}]
  /\ worker \in [Requests -> {"none", "completing", "sent", "ended"}]
  /\ done \in [Requests -> BOOLEAN]
  /\ watchdog \in [Requests -> {"none", "armed", "draining", "sawdone", "ended"}]
  /\ holds \subseteq Requests
  /\ forcing \subseteq Requests
  /\ abandoned \subseteq Requests

RequestInit == /\ Init
               /\ caller = [c \in Requests |-> "acquiring"]
               /\ worker = [c \in Requests |-> "none"]
               /\ done = [c \in Requests |-> FALSE]
               /\ watchdog = [c \in Requests |-> "none"]
               /\ holds = {}
               /\ forcing = {}
               /\ abandoned = {}

\* scheduler.Acquire, and the end of a request's context: a timeout of the
\* attempt, a cancelled turn, or the cancel() that follows every attempt.
AcquireStep(c) == /\ \/ Bypass(c)
                     \/ \E l \in Limits : Lookup(c, l)
                     \/ Gate(c)
                     \/ WatcherFire(c)
                     \/ WatcherStop(c)
                  /\ UNCHANGED goVars

ContextEnds(c) == Cancel(c) /\ UNCHANGED goVars

\* Acquire failed: the attempt returns "model route queue wait failed".
Refuse(c) == /\ caller[c] = "acquiring"
             /\ pc[c] = "failed"
             /\ caller' = [caller EXCEPT ![c] = "refused"]
             /\ UNCHANGED <<vars, worker, done, watchdog, holds, forcing, abandoned>>

\* trackModelRouteRelease: the permit is the caller's, its release function
\* becomes a hold of the agent.
Track(c) == /\ caller[c] = "acquiring"
            /\ pc[c] \in {"held", "unlimited"}
            /\ caller' = [caller EXCEPT ![c] = "tracked"]
            /\ holds' = holds \union ({c} \intersect Tracked)
            /\ UNCHANGED <<vars, worker, done, watchdog, forcing, abandoned>>

\* go func() { defer release(); ... client.Complete(ctx, req) ... }: it calls
\* the provider whatever became of the context or the permit meanwhile.
StartComplete(c) == /\ caller[c] = "tracked"
                    /\ caller' = [caller EXCEPT ![c] = "waiting"]
                    /\ worker' = [worker EXCEPT ![c] = "completing"]
                    /\ UNCHANGED <<vars, done, watchdog, holds, forcing, abandoned>>

\* client.Complete returns and its result goes into the channel.
CompleteReturns(c) == /\ worker[c] = "completing"
                      /\ worker' = [worker EXCEPT ![c] = "sent"]
                      /\ done' = [done EXCEPT ![c] = TRUE]
                      /\ UNCHANGED <<vars, caller, watchdog, holds, forcing, abandoned>>

\* The release function of Acquire; it does nothing for a call without a limit.
FreePermit(c) == IF pc[c] = "unlimited" THEN UNCHANGED vars ELSE Release(c)

\* The function trackModelRouteRelease returns: release once, drop the hold.
TrackedRelease(c) == /\ FreePermit(c)
                     /\ holds' = holds \ {c}

\* Mutant of DeferredRelease: an exit of the goroutine without the release.
DeferForgotten(c) == /\ worker[c] = "sent"
                     /\ worker' = [worker EXCEPT ![c] = "ended"]
                     /\ UNCHANGED <<vars, caller, done, watchdog, holds, forcing, abandoned>>

\* The deferred release of the goroutine, after the result was sent.
DeferredRelease(c) == /\ worker[c] = "sent"
                      /\ worker' = [worker EXCEPT ![c] = "ended"]
                      /\ TrackedRelease(c)
                      /\ UNCHANGED <<caller, done, watchdog, forcing, abandoned>>

\* The caller's select: the result ...
ReceiveResult(c) == /\ caller[c] = "waiting"
                    /\ done[c]
                    /\ done' = [done EXCEPT ![c] = FALSE]
                    /\ caller' = [caller EXCEPT ![c] = "answered"]
                    /\ UNCHANGED <<vars, worker, watchdog, holds, forcing, abandoned>>

\* Mutants of LeaveOnContext: the caller frees the slot of a live call; the
\* caller waits for the provider to notice the cancellation.
LeaveAndFree(c) == /\ caller[c] = "waiting"
                   /\ cancelled[c]
                   /\ caller' = [caller EXCEPT ![c] = "timedout"]
                   /\ watchdog' = [watchdog EXCEPT ![c] = "armed"]
                   /\ TrackedRelease(c)
                   /\ UNCHANGED <<worker, done, forcing, abandoned>>

LeaveWhenDone(c) == /\ caller[c] = "waiting"
                    /\ cancelled[c]
                    /\ done[c]
                    /\ caller' = [caller EXCEPT ![c] = "timedout"]
                    /\ watchdog' = [watchdog EXCEPT ![c] = "armed"]
                    /\ UNCHANGED <<vars, worker, done, holds, forcing, abandoned>>

\* ... or the context: force-close the connections, leave a watchdog, return.
LeaveOnContext(c) == /\ caller[c] = "waiting"
                     /\ cancelled[c]
                     /\ caller' = [caller EXCEPT ![c] = "timedout"]
                     /\ watchdog' = [watchdog EXCEPT ![c] = "armed"]
                     /\ UNCHANGED <<vars, worker, done, holds, forcing, abandoned>>

\* The watchdog's select: the result arrived ...
WatchdogSeesDone(c) == /\ watchdog[c] = "armed"
                       /\ done[c]
                       /\ done' = [done EXCEPT ![c] = FALSE]
                       /\ watchdog' = [watchdog EXCEPT ![c] = "sawdone"]
                       /\ UNCHANGED <<vars, caller, worker, holds, forcing, abandoned>>

\* Mutant of WatchdogReclaims: only wait for the provider.
WatchdogWaits(c) == /\ watchdog[c] = "armed"
                    /\ watchdog' = [watchdog EXCEPT ![c] = "draining"]
                    /\ UNCHANGED <<vars, caller, worker, done, holds, forcing, abandoned>>

\* ... or modelRouteCancelSlotReleaseTimeout passed: reclaim the slot, then
\* wait for the result, for ever if need be.
WatchdogReclaims(c) == /\ watchdog[c] = "armed"
                       /\ watchdog' = [watchdog EXCEPT ![c] = "draining"]
                       /\ TrackedRelease(c)
                       /\ UNCHANGED <<caller, worker, done, forcing, abandoned>>

WatchdogDrains(c) == /\ watchdog[c] = "draining"
                     /\ done[c]
                     /\ done' = [done EXCEPT ![c] = FALSE]
                     /\ watchdog' = [watchdog EXCEPT ![c] = "ended"]
                     /\ UNCHANGED <<vars, caller, worker, holds, forcing, abandoned>>

\* AbandonActiveTurn takes the list of holds under routeHoldMu ...
Abandon == /\ holds # {}
           /\ forcing' = forcing \union holds
           /\ abandoned' = abandoned \union holds
           /\ holds' = {}
           /\ UNCHANGED <<vars, caller, worker, done, watchdog>>

\* ... and releases them one after the other without it.
ForceRelease(c) == /\ c \in forcing
                   /\ forcing' = forcing \ {c}
                   /\ FreePermit(c)
                   /\ UNCHANGED <<caller, worker, done, watchdog, holds, abandoned>>

GoStep(c) == \/ Refuse(c)
             \/ Track(c)
             \/ StartComplete(c)
             \/ DeferredRelease(c)
             \/ ReceiveResult(c)
             \/ LeaveOnContext(c)
             \/ WatchdogSeesDone(c)
             \/ WatchdogReclaims(c)
             \/ WatchdogDrains(c)
             \/ ForceRelease(c)

RequestNext == \/ \E c \in Requests : \/ AcquireStep(c)
                                      \/ ContextEnds(c)
                                      \/ CompleteReturns(c)
                                      \/ GoStep(c)
               \/ Abandon

RequestSpec == RequestInit /\ [][RequestNext]_allVars
-----------------------------------------------------------------------------
InFlight == {c \in Requests : worker[c] = "completing"}
Limited == {c \in Requests : pc[c] # "unlimited"}

\* Whoever is at the provider owns a permit, the agent's own tracked calls as
\* much as the others.  Two exceptions, and no third: the watchdog of the call
\* gave it up, or AbandonActiveTurn took its hold.  The second one is what the
\* comment in the caller's select leaves out when it says that a single-slot
\* provider is never hit while the call is in flight
\* (parallel_edit_workers.go:1318-1323): an abandoned turn's call may be, for it
\* loses its permit so that the next turn need not wait for it.  Any other
\* release of a live call would let the next one reach the backend beside it.
LiveCallsHoldPermits ==
  \A c \in InFlight \intersect Limited :
    \/ pc[c] = "held"
    \/ watchdog[c] \in {"draining", "ended"}
    \/ c \in abandoned

\* The permits out are covered by requests that still have a goroutine which
\* will give them back: the caller on its way to start one, or the worker.
\* A permit without such an owner would never return.
PermitsHaveOwners ==
  \A c \in Holders : \/ caller[c] \in {"acquiring", "tracked"}
                     \/ worker[c] \in {"completing", "sent"}

\* Even a provider that never returns costs its route only bounded time: every
\* permit that was granted is released (parallel_edit_workers.go:1330-1341).
PermitsReturn == \A c \in Requests : pc[c] = "held" ~> pc[c] = "released"

=============================================================================
