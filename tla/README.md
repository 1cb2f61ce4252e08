# Kernforge models

TLA+ specifications of the parts of Kernforge (`src/cmd/kernforge`, Go) whose correctness
depends on the order of events: goroutines that share a counter, a lock that can be taken away,
a file that is written while a process ends, a loop that a dozen gates send around again.
TLC checks them on small instances; TLAPS proves their safety properties, with the invariants and the
refinements these rest on, for every instance.

Paths below are relative to `src/cmd/kernforge/` unless they begin with `src/`.
`PROJECT.json` lists the runs, the source lines of every definition, the mutants that show that a
property can fail, the hazards and the finding.

    tlc -workers 2 -config route_scheduler.cfg MCRouteScheduler.tla
    tlapm RequestRetry_proofs.tla

## 1. What Kernforge is

A command line coding agent. One process holds a session (conversation, plan, task graph,
background jobs), an agent that runs one turn at a time, and a gate in front of every model
backend. A goal lets the agent work in iterations without the user. A daemon variant serves the
same runtime over HTTP to an editor extension, and fires scheduled jobs; a dashboard shows and
edits the decisions that were recorded. The parts with a state of their own:

| Part | State it keeps | Operations | Talks to | Modelled |
|---|---|---|---|---|
| Route scheduler (`model_route_scheduler.go`) | per backend: limit, active, queued, condition variable | Acquire, release, limiter (resize), the context watcher | every model call | yes |
| Model request (`parallel_edit_workers.go`, `agent.go`) | goroutine of the call, result channel, watchdog, the agent's route holds | one attempt from the gate to the answer; forced release | route scheduler, providers, turn lock | yes |
| Retry and fallback (`agent.go`, `parallel_edit_workers.go`) | attempt counter, contexts, fallback models | try, wait, try again, fall back | model requests | yes |
| Agent turn (`agent.go`, `turn_queue.go`) | turn lock, owning generation, queue of inputs | ReplyWithImages, AbandonActiveTurn | model requests, session | yes |
| Turn loop and final gates (`agent.go`, `turn_runtime.go`, `review_harness_auto.go`, `coding_harness.go`) | a dozen counters, verification and review of the turn's edits | completeLoop | model requests, tools, verification, review | the control |
| Goals (`goals*.go`, `goal_*.go`) | record of the goal, copy of the iteration, checkpoint | run, iterate, pause, roll back | agent turns, verification, reviewers | one goal at a time |
| Project analysis (`analysis_project.go`, `analysis_*sharding.go`) | shards, reports, reviews, the last run on disk | plan, batches, refine, gaps, reuse, persist | worker and reviewer models, the workspace | the run |
| Job registry (`job_scheduler.go`) | map and order of jobs, schedule file | Load, Add, Remove, RunNow, Poll, recordRunError | the file system, the clock | yes |
| Scheduler loop and run guard (`job_scheduler.go`, `daemon_scheduler_runner.go`, `daemon.go`) | ticker, stop channel, in-flight set, active count | Start, Stop, dispatch, runScheduledJob | job registry, agent turns | yes |
| Background shell jobs (`shell_background.go`) | records of jobs and bundles in the session, a status file per job, detached runners | start, reuse, poll, supersede, cancel | session store, operating system | most |
| Decision store, profile, dashboard (`implementation_decision_*.go`, `implementation_preference_profile.go`, `decision_dashboard_server.go`) | record and history files, lock files, the profile, pending decisions | Put, Revise, delete, rebuild, note, bootstrap | agents, the dashboard, other processes | most |
| Parallel workers, leases (`parallel_*_workers.go`, `editable_leases.go`, `specialists.go`) | worker slots, leases, diffs | batch, merge | model requests, task graph | no |
| Task graph (`task_graph.go`, `task_state.go`, `task_executor.go`) | node lifecycles and dependencies | plan sync, claim, complete | session | no |
| Session store (`session.go`, `storage_atomic.go`) | the session file | save, load | all | as a write that may fail |
| Daemon server, client and stream (`daemon.go`, `daemon_stream.go`) | state file, subscribers with bounded channels | RPC with one refresh, publish, drop | editor extension | the schedule handlers |
| Gates (`review_*.go`, `runtime_gate_*.go`, `verify*.go`, `completion_audit.go`, `edit_loop_*.go`) | ledgers, cached verdicts | derive a gate from the session | agent turn, goals | as free answers |
| MCP client, LSP pool (`mcp.go`, `lsp_pool.go`) | pending requests, pooled servers | call, time out, restart, evict | external processes | no |

The rest (fuzzing campaigns, text classification of model answers, rendering, configuration,
command line) is sequential work over data and input/output. `PROJECT.json` lists every part with
its files, what of it is modelled, and the reason when it is not.

### Hard behaviours, part by part, and what correct means

* **Route scheduler.** A permit is released by whoever comes first: the deferred call of the
  worker, a watchdog, an abandoned turn. Limits change while calls queue. A context ends while a
  goroutine sleeps in `cond.Wait`, which does not look at contexts. Correct: counters that do not
  drift, no lost wakeup, never more permits than some caller's limit allows, nobody left behind.
* **Model request, retry, fallback.** The provider may never return. The caller must go on, and the
  slot must come back, while a live call must not share a single-slot backend with the next one.
  The attempt after a time-out queues behind the permit of the one before it: a turn must not
  wait for itself.
* **Agent turn.** Cancelling takes the lock away from a goroutine that still runs. Correct: one
  unlocker, an owner that is really running, an abandoned turn that stops soon.
* **Turn loop.** Gates share counters, tool calls start some of them again, a review is cached under a
  fingerprint. Correct: a turn ends; it does not complete with an edit nobody reviewed or with a
  failed verification that is not mentioned.
* **Goals.** An iteration works on a copy of a record that the agent also marks; it may pause
  for the user and go on in another run, when its checkpoint may be gone; reports of verifications outlive
  the code they speak of. Correct: completion follows no verification that failed or that an edit made old, a
  rollback undoes the whole iteration, and a run ends.
* **Project analysis.** Files change between the scan, the worker and the next run, which reuses what
  it takes for unchanged, and an edit may be undone; refinement replaces shards by pieces within a budget. Correct: what is
  reused is current, no file drops out between two shards, the status tells what failed.
* **Job registry and loop.** Clock, restarts, failing writes and manual runs all move the same two
  time stamps, some with a time read before the lock. Correct: no slot twice, what was acknowledged survives; a run is never beside an
  earlier run of its job, slots come back, due jobs are taken up.
* **Background jobs.** Two processes write one status file, and a write may fail; a poll reads it and then asks
  whether the process is there. Correct: a verdict is earned, final, and agrees with the bundle's; a check
  made stale by an edit does not come back as a success; no command runs twice.
* **Decisions.** Several processes revise one decision; each may die between two files. A rebuild
  of the profile lists records while they change; a page is put together from four reads, of records that
  may be unreadable. Correct:
  no accepted revision is lost, a pending decision stays until the journal has it, the profile
  never goes back, a page that says it is current is right.
* **Not modelled**: leases that overlap, an RPC repeated after a lost reply, an event dropped by a
  full channel, a cached verdict for a change that has moved on, an MCP answer after its time-out.

## 2. Modules

| Module | Models | Notes |
|---|---|---|
| `RouteSemaphore` | abstract: a counting semaphore whose capacity changes | what `RouteScheduler` promises |
| `RouteScheduler` | `model_route_scheduler.go` | one limiter; implements `RouteSemaphore` |
| `ModelRequest` | one attempt of a model call | extends `RouteScheduler`: every permit step is a step of it |
| `RequestRetry`, `RequestRetry_proofs` | the attempts of a turn's request | extends `ModelRequest`: an attempt is a request of it; the proofs are those of all three |
| `AgentTurn`, `AgentTurn_proofs` | turn lock, ownership, queue, abandonment | |
| `TurnLoop`, `TurnLoop_proofs` | one run of `completeLoop` | |
| `GoalRuntime`, `GoalRuntime_proofs` | the loop of one goal | |
| `ProjectAnalysis`, `ProjectAnalysis_proofs` | a run of the analysis and the next one | |
| `JobRegistry` | registry of scheduled jobs and its file | |
| `DaemonScheduler`, `DaemonScheduler_proofs` | poll loop, RPC handlers, guard, runs | extends `JobRegistry`; the proofs are those of both |
| `BackgroundJobs`, `BackgroundJobs_proofs` | runners, jobs, bundles | |
| `DecisionJournal` | abstract: revisions that are only added | what `DecisionStore` promises |
| `DecisionStore` | the files of the decisions, their locks, clients that die | implements `DecisionJournal` |
| `DecisionProfile`, `DecisionProfile_proofs` | agents, dashboard, profile | extends `DecisionStore`: agents and requests are clients of it; the proofs are those of both |
| `MC...` | finite constants for TLC | no definition of the models is replaced |

### How state and actions correspond to the code

**Granularity.** A critical section of a mutex is one action; so is a channel operation, a write of
a file, and the part of a sequential operation between two points another process can see. What a
goroutine reads before a lock and uses after it is a parameter of the later action: `t \in Read` in
`JobRegistry` is a clock value up to `MaxLag` old, because `Poll`, `RunNow` and `Add` call
`time.Now` before `s.mu.Lock`.

**RouteScheduler.** `pc[c]` is the position of one call of `Acquire`; `asleep` is `cond.Wait`, left
only through `Broadcast` (into `woken`, where the goroutine competes for the mutex). `Lookup` is
`limiter()`, `Admit`/`GiveUp`/`Sleep` the loop, `WatcherFire`/`WatcherStop` the `select` of the
watcher goroutine, `Release` the closure with its `released` flag, which may be called again.
One member of `Requests` is one call, so newcomers are finite in number.

**ModelRequest.** `caller`, `worker` and `watchdog` are the three goroutines of an attempt, `done` the
buffered channel, `holds` the agent's list of releases, `forcing` the part
`forceReleaseModelRouteHolds` has copied out and is releasing. `TrackedRelease` joins the release
and the removal of the hold, which two different mutexes guard: between them the hold is one whose
release does nothing. `abandoned` is history: the calls whose permit an abandoned turn took. `CompleteReturns` is external and never assumed to happen; closing the
connections of a client may make it happen to other calls too, which the free action covers.

**RequestRetry.** `turn` and `attempt` are the loop of `completeModelTurn`, `plan` the attempts it may come
to. `Try` is the head of the loop, `Settle` what follows from the attempt's outcome
(`shouldRetryProviderError`, `shouldTryFallbackModel`), `Over` the deferred `cancel()`,
`AttemptTimesOut` the `context.WithTimeout` of the attempt. A fallback model has a limiter of its own (the
key names the model), so an attempt there is its outcome (`Elsewhere`). The delay between
attempts is a step. Errors by which a provider reports a context that ended are transient or
terminal errors here.

**AgentTurn.** `beginTurn` locks and then records ownership (`TryLock`, `Own`); `AbandonActiveTurn`
clears the ownership and then unlocks (`AbandonOwner`, `AbandonUnlock`). The gap in both is modelled.
`Iterate` is a whole iteration of `completeLoop` between two looks at the owner; `overrun` counts
those a turn finishes after it lost the lock.

**TurnLoop.** An action is one iteration of `completeLoop`: what kind of answer the model gave, and for a
text (`Text`) the gates in their order. `tried` holds the counters, several of which are
shared (`nudge` serves the request to name the verification, the readiness test and the final gate
of version 2); `work` is what the turn edited and what its verification said, `review` the
automatic post-change review with its cached fingerprint. Whether a gate objects to a wording is
free; `setup.troubles` bounds which objections occur in a turn. Left out: the compaction of the history, the
retries before the final fixes, the correction of the narration's language, documents a turn
generates. A detector of repeated calls either redirects or blocks.

**GoalRuntime.** `goal` is the session's record, `copy` the iteration's; `End` writes the copy over
the record (`recordGoalIteration`), so what `update_goal` marked in between is lost (`Marked`). The
workspace is a version number that every editing turn raises; `code.same` says whether the *names* of the
changed files are those of the last audit, all that `repeatedGoalVerificationReport` compares.
A failed save, a failed artifact and the wall clock are the free stop of `Top`. `resolved` says whether the
checkpoint of a paused iteration is still there (`createGoalCheckpoint` takes a new one if not), `HistoryPassed`
what the newest report in the history of the workspace says, which stands in when the session has none
(`completionAuditLatestVerification`). `made` and `origin` are history.

**ProjectAnalysis.** `batch` and `work` are the slice given to `executeShards` and its goroutines, wave by
wave; `shards`, `reports`, `reviews` the code's parallel slices, `replaced` the refined parents, `store` what
`tryReuseShard` can take from the newest run file. A member of `Files` is a group of files that every
plan keeps together; `content` is its text, one of the domain of `Shape`, which says what the index sees
of a text; an edit gives any other text, so an edit may be undone. `steady`, which the code does not record, says
that a worker saw what the fingerprints of its shard were taken of. An answer of worker or reviewer is one step.

**JobRegistry, DaemonScheduler.** A schedule is an interval or the set of times a cron text matches;
`Horizon` stands for the five years `nextCronRun` searches. `jobs` is the map, `order` the list,
`disk` the file. `acked`, `lost` and `fired` are history. Generated identifiers are any unused one;
identifiers sent by clients may name an existing job. `Writes` says what `os.WriteFile` may do: succeed,
fail, or be cut short by the end of the process. The text of the last error is left out.

**BackgroundJobs.** `op` is the operation the manager is in; it works through the jobs of a bundle
or of the session one by one, and each `SyncJob` is two actions, `ReadStatus` and `Probe`, with
steps of the runners between them. `proc` is the runner (not its command): outside Windows a runner
this process started becomes a zombie, because nothing waits for it, and `ps` still shows it; on
Windows, or after a restart, it is simply gone; `windows` is either from the start. `saved` is the session file; a
save is part of the operation and may fail, and so may the status file that `CancelJob` writes, whose error the
code drops (`shell_background.go:542`). `ps`, `tasklist` and the kill itself are taken to work. `Requests` are what the launch tools are called with; hooks, the write policy
and the user are the three answers of `Ask`. Not here: the scheduler and fuzzing start jobs
without looking for one to reuse, so two runs of a command are possible on those paths.

**DecisionStore, DecisionProfile.** A record is its revision and a text. `op[c]` is a client between the read
under the file lock and its last write; `Archive` writes the history file, `WriteRevision` the
record. `Abort` is a failed write, `Die` the end of a process with all its clients, whose locks the
system frees. `work[t]` is what an agent, a request of the dashboard or its rebuilding thread is doing; `dash` the three
flags of the dashboard, `session` a pending decision in memory and in the saved session; `Bump` the
status generation. `issues` are the records a page could not read. `scheduled` is history. Files survive the end of a process as they were written; loss
of power is not modelled. The code polls for a file lock without any order, so nothing is promised of its
progress.

## 3. What is checked

At most a few minutes each with two workers. Every property of a passing run has a mutant of the code
under which the same run fails (`PROJECT.json`, `mutants`; the mutated definitions stand before the
originals in the modules). The modules' type invariants (`TypeOK`) hold in these instances as well; those of
the modules with proofs are proved or part of the proved invariant.

| Run | Instance | Shows | States |
|---|---|---|---|
| `route_scheduler` | 3 calls, limits 0, 1, 2, any cancellation and repeated release | `CountersExact`, `NoLostWakeup`, `PeakBound`, `ImplementsSemaphore`, `CancelledReturns` | 56 thousand |
| `model_request` | one turn of 2 attempts, or two turns, one without a tracker; limits 0, 1, 2; fallbacks for one | `LiveCallsHoldPermits`, `PermitsHaveOwners`, `TurnsReturn`, `PermitsReturn` | 649 thousand |
| `agent_turn` | 3 turns, 3 cancels | `OwnerIsRunning`, `LockHasOneUnlocker`, `AbandonedTurnStops`, `AbandonedTurnEnds` | 108 thousand |
| `turn_loop` | 7 setups: groups of gates that meet, a reviewer model, a budget of 2 tool turns | `ReviewCovers`, `UnverifiedIsNamed`, `BudgetEnds`, `TurnEnds` | 921 thousand |
| `goal_runtime` | 2 slices, 2 runs, 3 edits, 3 iterations, thresholds 2, checkpoints that are gone, reports that stand in | `CompletionIsVerified`, `RollbackCovers`, `RunEnds` | 1.4 million |
| `goal_runtime_skipped` | the same | the finding, `SkippedIsUnchanged` | |
| `project_analysis` | 2 shards of 3 and 2 file groups that refer to each other, one of them merged, 2 configurations, 2 runs, 3 texts of a file, 2 edits | `ReusedIsCurrent`, `NothingDropped`, `CompletedIsReviewed`, `RunEnds` | 1.6 million |
| `job_registry` | 2 jobs, interval 4 and cron {2, 3}, `MaxTime` 5, `Horizon` 2, `MaxLag` 1, identifiers of clients, 2 restarts, failed and torn writes | `SlotsFollowRuns`, `SlotsRespected`, `AcknowledgedSurvive` | 1.0 million |
| `daemon_scheduler` | 2 jobs, one identifier a client may bring, cap 1 or 2, `MaxTime` 2, 1 restart | `GuardExact`, `DueJobsFire`, `StopEnds` | 222 thousand |
| `background_jobs` | 2 jobs, 2 bundles, 2 commands, 1 failed write of the session or a status file, 1 restart, Windows and elsewhere | `EvidenceIsEarned`, `BundleVerdictAgrees`, `OneRunPerCommand`, `VerdictIsFinal`, `OverriddenStays` | 7.4 million |
| `decision_journal` | 2 agents, 1 request, 4 revisions, no rebuild saved, unreadable records | `HistoryComplete`, `ImplementsJournal`, `PendingIsKept` | 471 thousand |
| `decision_profile` | 1 agent, 2 requests and the thread, 3 revisions, 2 rebuilds, a note, unreadable records | `ProfileIsSerial`, `CleanIsCurrent` | 3.9 million |

### Why these bounds

* Three calls of `Acquire` give a holder, a sleeper and one that resizes, cancels or overtakes; a limit goes up and
  down between 1 and 2, and 0 is the call that bypasses the gate. The safety part is proved for any number.
* Two attempts of one turn are the one that was given up and the one that queues behind its permit; two turns
  are a live call and one beside it. The watchdog, an abandoned turn and the deferred release can all meet
  on either. Proved for any number.
* Three turns and three cancels let a cancel hit a turn, its successor, and the gap of a third.
  Also proved for any number.
* `turn_loop` explores the gates in groups that share a counter or a piece of state in the code, with limits as
  in the code or one where it has more; turns are counted only under a budget.
* Two slices let an approval leave one open; a limit of two lets a counter be started again before it is reached.
  Two runs are one that pauses and one that resumes. The safety part is proved for any number.
* Two edits in `project_analysis` are one and its undoing, or one of either kind in each run; three texts are the first, one that only
  rewords it and one whose shape the index sees change. The merged shard refers to the file that is edited.
* In `project_analysis` a budget of 3 fits one refinement of either kind or cuts one short; a budget of 1 makes the
  first candidate exceed it. The second run is explored through its base batch (`SecondRunReuses`), where
  it reuses; afterwards it repeats the first.
* `MaxTime` 5 with interval 4 and the cron minutes 2 and 3 gives neighbouring slots, an interval that is longer than twice
  the lag and reached once, and a schedule that runs out; two restarts let a job be loaded from a file that
  itself came from a loaded one. A `MaxLag` of 1 lets two operations get the lock out of order: the second case of
  `SlotsRespected` is met only after two manual runs out of order, failed writes and a restart.
* `daemon_scheduler` leaves failing writes to `job_registry`. A cap of 2 lets a second run of one job through if the
  in-flight set does not stop it; a cap of 1 is reached by two jobs.
* Two background jobs and two bundles for one task node are the smallest case in which a bundle supersedes
  another that shares a job with it, one job finishes while the other runs, and a
  cancellation stops half-way. After a restart one bundle fewer may be recorded (the bound keeps the
  run short); the second launch after a restart is then a reuse or supersession before it.
* Two agents and a request are three processes at one decision; four revisions are a decision made, changed, deleted and
  restored. Two requests and the thread are a change, a note and a page meeting a rebuild.
* `CHECK_DEADLOCK FALSE` where the bounded system really stops: all turns have ended, all time is used up,
  all requests are done. `background_jobs`, `decision_journal` and `decision_profile` cannot stop.

### Fairness

* `GateSpec`: a goroutine at the gate gets through (`sync.Mutex` hands itself to a waiter starved for a
  millisecond) and a ready `select` is taken. **No** fairness for `Release` or `Cancel`:
  `CancelledReturns` holds even if no permit ever comes back.
* `FairRetrySpec`: weak fairness of `Progress`, the steps of goroutines that can run, the watchdog's timer and
  the time-outs of the attempts (`context.WithTimeout`); nothing of the provider, and nobody has to cancel. One
  condition for all is enough, because every request has a finite number of steps.
* `AgentTurn!FairSpec`: a turn's steps, and the second half of a cancel that began.
* `TurnLoop!FairSpec`, `GoalRuntime!FairSpec`, `ProjectAnalysis!FairSpec`: an iteration, a stage or a shard goes on: its model
  requests have time-outs and finite retries (`model_request` shows that they return).
* `DaemonScheduler!FairSpec`: ticker, loop, run functions (each under a context with a time-out). Nobody must
  stop the daemon, send a request or start it again.
* `BackgroundJobs` and `DecisionProfile` have no liveness: outside Windows nothing ends a job whose runner died
  unheard, and a file lock is polled for.

## 4. What is proved

Every invariant and every safety action property the passing runs check is a theorem, for all values of the constants that
the named assumptions of the modules admit; where a theorem needs more, it says so in an `ASSUME` of its own, and
the reason is given here. The arguments:

**`RequestRetry_proofs`**, the limiter first, for every finite set of requests and every set of limits in `Nat`
(`RequestsAssumption`, `LimitsAssumption`): `TypeOK`, `CountersExact`, `NoLostWakeup`, `PeakBound`, with the inductive
invariant `IInv`, and `Spec => ImplementsSemaphore`:

* `CountersExact` is inductive with the type invariant, by counting: a lemma says how the cardinality of a set
  of requests changes when one of them changes place, and every action moves at most one into or out of
  `Holders` and `Waiters` (a broadcast moves sleepers within `Waiters`). It is also why the `> 0` tests before
  the decrements in the code are never needed.
* `NoLostWakeup` needs `WatcherArmed` (a call that is queued has its watcher, unless that has already fired for
  a context that ended) to show that a cancelled sleeper will be woken.
* `PeakBound` needs `LimitWanted` (the limit is one some caller brought) and `BeforeLimiter` (nothing is held or
  queued while there is none); after a lowered limit, `active` is still bounded by an earlier caller's.
* The refinement (`SchedulerRefinesSemaphore`): `InitRefines` and `StepRefines` map every step to one of
  `RouteSemaphore` or a stutter. `CountersExact` gives the abstract guard: `Admit` tests `active`, the semaphore
  counts the requests that are inside.

Then the requests, for any turns, plans of attempts, fallbacks and limits (also `TrackedAssumption`,
`PlansAssumption`): `RetrySpec => []LiveCallsHoldPermits` and `[]PermitsHaveOwners`. `RequestInv` says of each
request where its caller, worker, watchdog, permit and hold may be together (`Stage`); the key clauses are that a
released permit means the call was given up by its watchdog, was taken by an abandoned turn (`abandoned`), or has ended, and that
an ended worker holds none. A
request's step leaves the others where they are but for a broadcast (`BystanderStage`). The type of the
limiter comes from the first part, because every step of `ModelRequest` is one of the limiter's or leaves
it alone (`RequestsUseTheLimiter`). `TurnsRefineRequests` (`RetrySpec => RequestSpec`), with `TurnInv` (a turn on its
way is at one of its attempts), carries both to the turns.

`RequestsFinish` and `TurnsFinish` count what is left: each goroutine of a request, and its hold, only moves on
(`StepsLeft`, at most 11), and a turn takes at most three steps for an attempt (`TurnLeft`).
The steps of `Acquire` are not counted: a sleeper may be woken by every broadcast.

**`AgentTurn_proofs`**, for every set of turns and cancels (`TurnsAssumption`, `CancelsAssumption`): `TypeOK`,
`OwnerIsRunning`, `AbandonedTurnStops` and that `turnMu` never has two unlockers or none, with
`TurnInv`: a turn between `TryLock` and `Own`, the owner, and a cancel between its halves exclude each other
(`OneUnlocker`, the first-order form of `LockHasOneUnlocker`), and an iteration is overrun only by a turn that
is past its last look at the owner (`OverrunOnlyAfterLoss`).

**`TurnLoop_proofs`**, for every set of setups and every limit of a gate (`LimitsAssumption`):

* `ReviewCovers` and `UnverifiedIsNamed` from `GateInv`. Its middle part is `Sound`: a verdict is cached only while
  the workspace is the one it was given on. Every edit voids it, a fix by the review itself goes through a new review,
  and `Justified` says what the end of a turn owes to the work and the review as they are then. The gates
  are taken in their order, each with what it may leave behind, so that a path around a gate would show.
* `WithinBudget`, the safety half of `BudgetEnds`: the turns taken stay within the limit, and the limit is the budget
  with two turns for each extension and one for the recovery.
* `GatesGiveUp`, the safety half of `TurnEnds`: `GatesBounded` gives every counter its limit, and `Pressed` says that an
  answer that is sent back raises the counter of a gate, spends the one extra round of a used up review, or is one of two progress
  notes in a row, and lowers no gate's counter. Between two tool calls a turn with finitely many gates therefore
  runs out of ways to go on. It also assumes that the gates for wording are not the others (`BouncesAssumption`).

**`GoalRuntime_proofs`**, for any numbers of slices, iterations, runs, edits and any thresholds (`BoundsAssumption`, and
`NoneAssumption`: None is not a report):

* `RollbackCovers` from `GoalInv`: within an iteration the copy's checkpoint is the iteration's `origin`; between
  iterations the record keeps the checkpoint of one that was paused, or a crash made the history forget it; a
  checkpoint is a version that was made. So the version a rollback goes back to is the origin, which is where the
  iteration was resumed if its checkpoint was gone by then.
* `CompletionIsVerified` from `Checked`, which follows the report from `Verify` through the audit to the verdict:
  nothing edits between them except the agent that stands in for the reviewer, and the audit lets a failed report of the
  session through only for changes of documents. If the session has no report the theorem promises nothing of the one that stands in.
* `RunsShorten`, the safety half of the goal's `RunEnds`: `RunRank` is ten for every iteration left and the steps left in this one;
  every step of a run lowers it, and pauses, decisions and crashes do not raise it during a run. The budget caps the
  iterations (`Budgeted`), which is why no counter of failures is needed for the end.

**`ProjectAnalysis_proofs`**, for any plan, chunks, configurations, files and numbers of runs, edits and rounds
(`PlanAssumption`, `BoundsAssumption`):

* `NothingDropped` and `CompletedIsReviewed` from `Inv`, which is inductive: the type, `Workers` (what a shard's worker
  may have at each point, and that an earlier wave is done), `Aligned` (shards, reports and reviews, three parallel slices
  in the code, speak of the same shard at the same index, through refinement, gap shards and merge), `Filed` (the run file has the
  plan's shards) and `Complete` (no file of the plan is missing at any stage but for `CutOff`). That refinement loses no
  file is an invariant of its recursive function (`LosesNothing`), proved by a least counterexample.
* `ReusedIsCurrent`, with `Dated`: a steady report, in work or stored, saw texts that its shard's fingerprints agree with, so
  equal fingerprints at the next scan mean the same texts, or, for a merged shard, which has no fingerprint of its text in the
  code, texts of one shape. Nothing is assumed of edits or of the plan.
* `RunsAdvance`, the safety half of the analysis' `RunEnds`: stages and extra batches (`Phase`), then the waves of a
  batch, then the requests and revisions of each worker, are only ever used up (`Counted`); edits and cancels change none of them.

**`DaemonScheduler_proofs`**, for any jobs, schedules, clients, restarts and write failures (`SchedulesAssumption`,
`RegistryBounds`, `SchedulerBounds`):

* The registry: its type and `SlotsFollowRuns` (`HasSlot` of every job, kept by `ApplySchedule` wherever the code calls it).
* `SlotsRespected`, for any `MaxLag`, from `FiredInv`: of each job it is known up to the lag that it ran (`LastKnown`: its last
  run is none, not before the firing, or a whole interval ago), in memory (`JobsWait`) and in the file, whose last run
  is at most the lag after that in memory (`FileBehind`), so that a restart does not bring an earlier slot back.
* `AcknowledgedSurvive` from `AckInv` (what was acknowledged and not lost is in the file unless that is torn, and in the registry while
  the daemon is up), for any failing or torn writes and any identifiers that clients bring.
* `SchedulerRefinesRegistry` (`Spec => RegistrySpec`): poll loop, clients and runs use the registry by its operations only.
* `GuardExact`, for any cap: counted by the runs of each job that have not released their slot.

**`BackgroundJobs_proofs`**, for any jobs, bundles, commands, launches, failed saves and restarts (`BackgroundAssumption`):

* `IInv` ties the record of a job, its status file, its runner and what the operation in progress has read of it
  (`Runners`, `Verdicts`, `Reads`), the session in memory and the saved one (`Records`), and what a launch has already looked at (`Finds`).
  A status that was read stays good because only a working runner writes the file (`Reads`).
* `TypeOK`; `OneRunPerCommand`, because a search that found nothing passed over no job at work (`Finds`); `OverriddenStays`.
* `EvidenceIsEarned`, `BundleVerdictAgrees` and `VerdictIsFinal`, on every platform: `SyncJob` guesses only about a runner that has
  left no process entry, such a guess contradicts no success in the file, and a late report corrects it. All three
  say what remains true after a lost or failed write (section 5 says what does not).

**`DecisionProfile_proofs`**, the store first, for any clients, decisions, texts and revisions (`StoreAssumption`): `HistoryComplete` and
the refinement of `DecisionJournal`. `IInv` adds `TypeOK`, `Written` (a record has a text), `Exclusive` (no two clients in the store at
one decision) and `Fresh` (what a client read under the lock still holds); the refinement maps
`WriteNew` and `WriteRevision` to `Commit` and every other step, the death of a process included, to a stutter.
Then agents and dashboard (`ProfileAssumption`): `Spec => StoreSpec`, so that both hold whatever they do, and three action
properties from `ProfileInv`:

* `PendingIsKept`: what an agent writes is the decision that is pending, and when it clears it the record exists (`Recording`).
* `ProfileIsSerial` from `SerialInv`: one thread is in the profile, its listing is between the profile it replaces and the
  records, and the revision it read is still the current one, which is why the lock must be taken before the listing.
* `CleanIsCurrent` from two invariants. `CleanInv`: the dashboard has one rebuild at a time, and when no change waits for a
  rebuild (`Settled`), the listing in progress (`Catching`), or else the profile that is called clean, covers what was scheduled. `PageInv`: what a page
  listed is from the journal and not older than its start (`Genuine`), and while its status is stable nothing was
  scheduled after its start. A profile whose active records match the page's listing then shows all that was recorded when
  the page was asked for, deletions too, for which the journal has to be looked at (`MatchShows`); but for the records
  the page could not read, and a page with such records is called clean only if the dashboard's flag was.

Statements over all lengths of a sequence (the jobs that stay in the order and in the file, the plan's refinement) are proved for recursive functions,
with a least counterexample instead of the library's induction theorems, which need a higher-order argument.

### What is only model-checked

Liveness, which is outside the prover's reach: `CancelledReturns`, `TurnsReturn`, `PermitsReturn`, `AbandonedTurnEnds`, `BudgetEnds`,
`TurnEnds`, `RunEnds` of goals and of analyses, `DueJobsFire`, `StopEnds`. And the finding, which is a counterexample.
For the turn, the goal, the analysis and the request the theorems above show that what is left is bounded and only gets less, for all
values of the constants; that some step is always enabled, and taken under the fairness of section 3, is what TLC adds.
For `CancelledReturns` and `AbandonedTurnEnds` the safety part is `NoLostWakeup` and `AbandonedTurnStops`.

## 5. Finding

**A repair in the same files is not verified.** After a failed verification,
`repeatedGoalVerificationReport` (`goals_runtime.go:430`) compares the *names* of the changed files. A repair in those
files is recorded as failed again without being verified, and three such cycles block the goal. The report
itself says that no edits occurred (`goals_runtime.go:440`), and so does `src/README.md:221`.
`goal_runtime_skipped` shows it.

### Observations

Disagreements and sharp edges met while modelling. The models behave as the code does; where a property
would fail for one of them, the instance or the property says so.

* **Permit of an abandoned call.** `parallel_edit_workers.go:1318-1323` says the goroutine keeps its permit until
  `Complete` returns; `AbandonActiveTurn` (`agent.go:299`) gives it back at once, so the next turn may reach a single-slot
  provider beside it (third case of `LiveCallsHoldPermits`; the second is the watchdog, which the comment names).
* **Queued input.** `turn_queue.go:173` answers "Queued this input for the next turn"; `PopTurnQueue` has no caller
  outside the tests.
* **Lost jobs.** `job_scheduler.go:82` says that jobs survive a restart. `job_scheduler.go:194` rewrites the schedule in place; cut short,
  it is a file `Load` refuses, the daemon goes on empty and the next `Add` overwrites it. And an addition under the identifier of an
  existing job that cannot be saved removes that job from memory (`job_scheduler.go:264`), and the next save from the file.
  `AcknowledgedSurvive` names both (`lost`).
* **A slot again.** `Poll`, `RunNow` and `Add` read the clock before they wait for the mutex: one that waited moves `LastRun` back, and a
  slot may come again within the time it waited (`MaxLag` in `SlotsRespected`).
* **Torn run files.** `persistRun` of the analysis also writes in place: a torn newest run hides the complete
  ones before it.
* **A job refused at the cap** is not reconsidered on the next poll, as `daemon_scheduler_runner.go:43-46` says: `Poll` has
  moved its next run a whole interval on.
* **A runner that ended unheard** counts as a successful check (`shell_background.go:247-252`), while
  `src/FEATURE_USAGE_GUIDE.md:369` says that only a completed zero exit is evidence. It happens where a runner leaves no process
  entry: on Windows, and to the runners of an earlier process. `EvidenceIsEarned` and `BundleVerdictAgrees` name the case.
* **A cancellation that is not in the file.** `CancelJob` drops the error of writing the status (`shell_background.go:542`). The file
  then says "running", and the next poll takes the canceled job for running again, as long as there is a process entry, and then, on
  Windows at once, for completed with the exit code of its cancellation; a bundle of such jobs is then said to have completed.
  `VerdictIsFinal` is about verdicts on which record and file agree.
* **Turn loop.** With a reviewer model `UnverifiedIsNamed` does not hold: it is the reviewer that decides. A model that keeps calling
  tools after a final answer was asked for is answered without execution for ever, unless there is a tool budget. A batch broken off after an edit passes over
  automatic verification (`agent.go:4407`). The user's choice to finish in spite of a failure outside the patch is never
  taken back (`agent.go:2831`).
* **Goals.** If the final reviewer's provider fails, the agent judges its own work and may edit after the verification. A change of
  documents alone is accepted without the independent review a goal may require (`goals_runtime.go:880-887`). After a crash,
  and after a pause whose checkpoint cannot be resolved (`goals_runtime.go:1100-1103`), the resumed iteration takes a new
  checkpoint, although the comment above it says that the baseline does not move; a rollback then keeps what was edited before. In a session without a
  report of its own a goal may be completed on the newest report in the history of the workspace, of another session and
  of other code (`completion_audit.go:141-147`, `191-204`). Two scheduled goals of one workspace share the runtime and each other's approval mode.
* **Analysis.** If the first candidate for refinement alone exceeds the budget, the rest of its files leaves the run (`CutOff`).
  A merged shard (`analysis_sharding_semantic.go:211-246`) has no fingerprint of its text: after an edit inside a function body its
  report is reused, "because no relevant file, dependency, or semantic context changed" (`analysis_project.go:12494`). And an
  edit that comes between the fingerprints and the worker, and is undone before the next run, leaves a report of another
  text under current fingerprints. `ReusedIsCurrent` names both.
* **Decisions.** The dashboard publishes a finished rebuild as clean although a change was scheduled meanwhile; only the flag
  "rebuilding" keeps the page right. A process that dies after `Put` and before the rebuild leaves the profile without the decision until somebody
  rebuilds. An agent that lost the race for a decision gets a conflict, and on its next call the other's record. A record that cannot be read is
  listed as an issue (`implementation_decision_store.go:243-245`), and the page goes on without it: the profile may lack it, or it may be hidden
  from the page, without the flags "dirty" or "rebuilding" saying so. A rebuild fails on such a record.

## 6. Plan

What is left, in this order.

1. Proofs: the safety part of `DueJobsFire` and `StopEnds`, and a bound for the steps of `Acquire`, which counts broadcasts.
2. `EditableLeases` and the batch of parallel workers: disjoint leases, merge order, partial failure.
3. `TaskGraph`: node lifecycle with plan synchronisation and background bundles.
4. `DaemonStream` and `DaemonRpc`: bounded subscribers, the repeated RPC.
5. `VerdictCache` and the runtime gate: a cached verdict and the change it was given for.
6. `McpClient`, `LspPool`: late answers, eviction of a server in use.
7. Two goals at once, with the approval mode saved and restored around each.
8. Pure functions: interval and cron texts (`time.Duration` overflow), hunk order of patches, retention.

## 7. Not modelled

Fuzzing pipelines, the scanning and indexing of sources, text classification of answers, hooks and rendering: data
transformation without interleaving, whose results are free choices in the modules that use them. Providers: wire formats; a call
returns or never returns. Git worktrees, viewers, console key polling: input and output, taken as their
effect (an ended context, an abandoned turn). The memory model below the mutexes, and process identifiers
that the system reuses. The parts of the plan above, and, of the parts that are modelled, what
`PROJECT.json` names under each component.
