-------------------------- MODULE DaemonScheduler --------------------------
(***************************************************************************)
(* From a due job to its run and back: the poll loop (Start, Stop, Poll),  *)
(* the RPC handlers that run a job at once, the guard that admits fired    *)
(* jobs, and the goroutines that execute them (job_scheduler.go,           *)
(* daemon_scheduler_runner.go), on top of the registry.                    *)
(*                                                                         *)
(* A critical section of DaemonScheduler.mu or of scheduledRunGuard.mu is  *)
(* one action; runFn is called under neither.                              *)
(***************************************************************************)
EXTENDS JobRegistry

CONSTANTS Callers,      \* RPC handlers that may execute RunNow at a time
          NoJob,
          Caps          \* what maxConcurrentScheduledRuns may be

ASSUME SchedulerBounds == NoJob \notin Ids /\ Caps \subseteq Nat

VARIABLES tick,         \* the ticker's channel holds a tick
          loop,         \* the poll goroutine
          due,          \* what it captured and has yet to dispatch
          stop,         \* Stop
          caller,       \* the job a RunNow handler is about to dispatch
          inFlight,     \* guard.inFlight
          active,       \* guard.active
          running,      \* goroutines of runScheduledJob at work, by job
          cap,          \* maxConcurrentScheduledRuns, the same for ever
          ending        \* those with only the deferred release left

loopVars == <<tick, loop, due, stop>>
guardVars == <<inFlight, active, running, ending, cap>>
vars == <<registryVars, loopVars, caller, guardVars>>

TypeOK == /\ RegistryTypeOK
          /\ tick \in BOOLEAN
          /\ loop \in {"off", "on", "gone"}
          /\ due \in Seq(Ids)
          /\ stop \in {"no", "closing", "returned"}
          /\ caller \in [Callers -> Ids \cup {NoJob}]
          /\ inFlight \subseteq Ids
          /\ active \in Nat /\ cap \in Caps
          /\ running \in [Ids -> Nat]
          /\ ending \in [Ids -> Nat]

Idle == /\ cap' = cap /\ tick' = FALSE /\ due' = <<>> /\ stop' = "no"
        /\ caller' = [c \in Callers |-> NoJob]
        /\ inFlight' = {} /\ active' = 0
        /\ running' = [id \in Ids |-> 0] /\ ending' = [id \in Ids |-> 0]

Init == /\ RegistryInit /\ cap \in Caps
        /\ tick = FALSE /\ loop = "off" /\ due = <<>> /\ stop = "no"
        /\ caller = [c \in Callers |-> NoJob]
        /\ inFlight = {} /\ active = 0
        /\ running = [id \in Ids |-> 0] /\ ending = [id \in Ids |-> 0]

\* Load, then Start if the configuration enables the loop.
Boot == /\ Load
        /\ loop' \in {"off", "on"}
        /\ UNCHANGED <<tick, due, stop, caller, guardVars>>

\* The process ends: every goroutine and everything in memory is gone.
Halt == ProcessEnds /\ Idle /\ loop' = "off"

Clock == TimePasses /\ UNCHANGED <<loopVars, caller, guardVars>>

AddRequest(w) == \E id \in Ids, name \in Names, s \in Schedules, t \in Read :
                   /\ Add(id, name, s, t, w)
                   /\ UNCHANGED <<loopVars, caller, guardVars>>

RemoveRequest(w) == \E id \in Ids :
                      /\ RemoveJob(id, w)
                      /\ UNCHANGED <<loopVars, caller, guardVars>>

\* The handler keeps the job for runFn if the file could be written.
RunRequest(c, w) == \E id \in Ids, t \in Read :
                      /\ caller[c] = NoJob
                      /\ RunNow(id, t, w)
                      /\ caller' = [caller EXCEPT ![c] = IF w = "ok" THEN id ELSE NoJob]
                      /\ UNCHANGED <<loopVars, guardVars>>

AdmitsOneMore(id) == id \notin inFlight /\ active <= cap

\* runFn: tryAcquire refuses a job in flight and a run beyond the cap; an
\* admitted job gets a goroutine of its own.
Admits(id) == id \notin inFlight /\ active < cap

Dispatch(id) == IF Admits(id)
                  THEN /\ inFlight' = inFlight \cup {id}
                       /\ active' = active + 1
                       /\ running' = [running EXCEPT ![id] = @ + 1]
                       /\ UNCHANGED <<ending, cap>>
                  ELSE UNCHANGED guardVars

RunDispatches(c) == /\ caller[c] # NoJob
                    /\ Dispatch(caller[c])
                    /\ caller' = [caller EXCEPT ![c] = NoJob]
                    /\ UNCHANGED <<registryVars, loopVars>>

\* The ticker, until Stop stops it.
Tick == /\ loop = "on"
        /\ stop = "no"
        /\ tick' = TRUE
        /\ UNCHANGED <<registryVars, loop, due, stop, caller, guardVars>>

\* The loop takes a tick (select may prefer it to a stop that is closed) and
\* captures the due jobs ...
PollCaptures(t, w) == /\ loop = "on" /\ tick /\ due = <<>>
                      /\ Poll(t, w)
                      /\ tick' = FALSE
                      /\ due' = DueJobs(t)
                      /\ UNCHANGED <<loop, stop, caller, guardVars>>

\* ... and hands them to runFn, one after the other, without the lock.
PollDispatches == /\ due # <<>>
                  /\ Dispatch(Head(due))
                  /\ due' = Tail(due)
                  /\ UNCHANGED <<registryVars, tick, loop, stop, caller>>

\* Stop, when the daemon closes: the goroutine is told to and waited for.
StopCloses == /\ loop = "on"
              /\ stop = "no"
              /\ stop' = "closing"
              /\ UNCHANGED <<registryVars, tick, loop, due, caller, guardVars>>

\* Mutant of LoopExits: the goroutine waits for Stop, which waits for it.
LoopExitsLate == /\ loop = "on" /\ stop = "returned" /\ due = <<>>
                 /\ loop' = "gone"
                 /\ UNCHANGED <<registryVars, tick, due, stop, caller, guardVars>>

LoopExits == /\ loop = "on" /\ stop = "closing" /\ due = <<>>
             /\ loop' = "gone"
             /\ UNCHANGED <<registryVars, tick, due, stop, caller, guardVars>>

StopReturns == /\ stop = "closing"
               /\ loop = "gone"
               /\ stop' = "returned"
               /\ UNCHANGED <<registryVars, tick, loop, due, caller, guardVars>>

\* runScheduledJob: the work ends well, or it fails, times out or panics and
\* the error is recorded with the job; the deferred release comes last.
RunEnds(id) == /\ running[id] > 0
               /\ running' = [running EXCEPT ![id] = @ - 1]
               /\ ending' = [ending EXCEPT ![id] = @ + 1]
               /\ UNCHANGED <<loopVars, caller, inFlight, active, cap>>

RunSucceeds(id) == RunEnds(id) /\ UNCHANGED registryVars

RunFails(id, w) == RunEnds(id) /\ RecordRunError(id, w)

ReleaseRun(id) == /\ ending[id] > 0
                  /\ ending' = [ending EXCEPT ![id] = @ - 1]
                  /\ inFlight' = inFlight \ {id}
                  /\ active' = IF active > 0 THEN active - 1 ELSE 0
                  /\ UNCHANGED <<registryVars, loopVars, caller, running, cap>>

RunStep(id) == RunSucceeds(id) \/ (\E w \in Writes : RunFails(id, w)) \/ ReleaseRun(id)

PollStep == (\E t \in Read, w \in Writes : PollCaptures(t, w)) \/ PollDispatches

Next == \/ Boot
        \/ Halt
        \/ Clock
        \/ \E w \in Writes : AddRequest(w) \/ RemoveRequest(w)
        \/ \E c \in Callers, w \in Writes : RunRequest(c, w)
        \/ \E c \in Callers : RunDispatches(c)
        \/ Tick
        \/ PollStep
        \/ StopCloses
        \/ LoopExits
        \/ StopReturns
        \/ \E id \in Ids : RunStep(id)

Spec == Init /\ [][Next]_vars

\* The ticker ticks and goroutines run; a run ends because its context does.
\* Nobody has to send a request, stop the daemon or start it again.
FairSpec == /\ Spec
            /\ WF_vars(Tick)
            /\ WF_vars(PollStep)
            /\ WF_vars(LoopExits)
            /\ WF_vars(StopReturns)
            /\ \A c \in Callers : WF_vars(RunDispatches(c))
            /\ \A id \in Ids : WF_vars(RunStep(id))
-----------------------------------------------------------------------------
\* The guard counts what really runs: a job never runs beside an earlier run
\* of itself, whether the loop, a client or a job added again under its
\* identifier fired it, the cap holds, and no slot is lost.
GuardExact ==
  /\ \A id \in Ids : running[id] + ending[id] = IF id \in inFlight THEN 1 ELSE 0
  /\ active = Cardinality(inFlight)
  /\ active <= cap

\* While the loop runs, a due job is captured (or removed) before long, even
\* while earlier runs block every slot.
DueJobsFire ==
  \A id \in Ids : (loop = "on" /\ stop = "no" /\ IsDue(id, now))
                    ~> (~IsDue(id, now) \/ loop # "on" \/ stop # "no")

\* Stop returns: the poll goroutine waits for nothing that Stop holds.
StopEnds == (stop = "closing") ~> (stop = "returned" \/ ~Up)

=============================================================================
