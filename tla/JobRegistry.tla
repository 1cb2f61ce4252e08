---------------------------- MODULE JobRegistry ----------------------------
(***************************************************************************)
(* The registry of scheduled jobs (job_scheduler.go): its map and order,   *)
(* the file it is written to, the clock that makes jobs due, restarts of   *)
(* the daemon, and writes of the file that fail or are cut short.  What    *)
(* becomes of a fired job is in DaemonScheduler, which extends this module.*)
(*                                                                         *)
(* A critical section of DaemonScheduler.mu is one action.  Poll, RunNow   *)
(* and Add read the clock BEFORE they take the lock, so the time they use  *)
(* may be up to MaxLag ticks old.                                          *)
(***************************************************************************)
EXTENDS Integers, FiniteSets, SequencesExt

CONSTANTS Ids,          \* job identifiers
          Names,        \* job names, up to case
          Schedules,    \* the schedules a client may ask for
          ClientIds,    \* identifiers a client may put into an add request
          MaxJobs,      \* maxScheduledJobs
          Horizon,      \* how far nextCronRun searches
          Writes,       \* what os.WriteFile may do: "ok", "failed", "torn"
          MaxLag,       \* bound: age of the time read before the lock
          MaxTime,      \* bound: the clock
          MaxRestarts   \* bound: restarts of the daemon

\* An interval schedule has every > 0; a cron schedule has every = 0 and the
\* set at of times it matches.
ASSUME SchedulesAssumption ==
  \A s \in Schedules : s.every \in Nat /\ s.at \subseteq Nat
ASSUME RegistryBounds ==
  /\ ClientIds \subseteq Ids
  /\ Writes \subseteq {"ok", "failed", "torn"}
  /\ {MaxJobs, Horizon, MaxLag, MaxTime, MaxRestarts} \subseteq Nat
  /\ MaxTime > 0

VARIABLES now,          \* the clock, from 1
          boot,         \* when the running daemon loaded its jobs, 0 = down
          restarts,
          jobs,         \* s.jobs
          order,        \* s.order
          disk,         \* the schedule file
          acked,        \* history: additions clients were told of
          lost,         \* history: those of them that a torn file or a failed
                        \* addition under their identifier has taken
          fired         \* history: when Poll last captured a job, 0 = never

registry == <<jobs, order, disk, acked, lost, fired>>
registryVars == <<now, boot, restarts, registry>>

\* The members of s at the positions P, in their order; recursion that the
\* proofs can follow (SelectSeq has no definition there).
Picked(s, P) ==
  LET picked[n \in 0 .. Len(s)] ==
        IF n = 0 THEN <<>>
        ELSE IF n \in P THEN Append(picked[n - 1], s[n]) ELSE picked[n - 1]
  IN  picked[Len(s)]

Keep(s, good) == Picked(s, {i \in DOMAIN s : s[i] \in good})
Distinct(s) == Picked(s, {i \in DOMAIN s : \A k \in 1 .. (i - 1) : s[k] # s[i]})

NoJobs == [id \in {} |-> 0]
Torn == [order |-> <<>>, jobs |-> NoJobs, torn |-> TRUE]

\* snapshotLocked: the jobs in order, an entry without a job left out.
File(j, o) == [order |-> Keep(o, DOMAIN j), jobs |-> Restrict(j, Range(o) \cap DOMAIN j), torn |-> FALSE]

Job == [name : Names, sched : Schedules, enabled : BOOLEAN,
        last : 0..MaxTime, next : Nat]
IsRegistry(r) == DOMAIN r \subseteq Ids /\ \A id \in DOMAIN r : r[id] \in Job

RegistryTypeOK ==
  /\ now \in 1..MaxTime /\ boot \in 0..now /\ restarts \in 0..MaxRestarts
  /\ IsRegistry(jobs) /\ order \in Seq(Ids)
  /\ IsRegistry(disk.jobs) /\ disk.order \in Seq(Ids) /\ disk.torn \in BOOLEAN
  /\ acked \subseteq Ids /\ lost \subseteq Ids /\ fired \in [Ids -> 0..MaxTime]
-----------------------------------------------------------------------------
\* nextScheduleRun and nextCronRun; 0 is the error.
NextScheduleRun(s, last, t) ==
  LET base == IF last = 0 THEN t ELSE last
      hits == {u \in s.at : t < u /\ u <= t + Horizon}
  IN  CASE s.every > 0 /\ base + s.every > t  -> base + s.every
        [] s.every > 0 /\ base + s.every <= t -> t + s.every
        [] s.every = 0 /\ hits # {}           -> Min(hits)
        [] s.every = 0 /\ hits = {}           -> 0

\* Mutant of ApplySchedule: a job without a slot stays enabled.
ApplyKeepsEnabled(job, t) ==
  [job EXCEPT !.next = NextScheduleRun(job.sched, job.last, t)]

\* applyScheduleLocked: it disables a job, and never enables one.
ApplySchedule(job, t) ==
  LET next == NextScheduleRun(job.sched, job.last, t)
  IN  [job EXCEPT !.enabled = job.enabled /\ next # 0, !.next = next]

\* persistLocked with the outcome w of the write.
Persist(w) == disk' = CASE w = "ok"     -> File(jobs', order')
                        [] w = "failed" -> disk
                        [] w = "torn"   -> Torn

Up == boot > 0

\* The times an operation may have read before it waited for the lock.
Read == {t \in (now - MaxLag) .. now : t >= boot}

IsDue(id, t) == /\ id \in DOMAIN jobs
                /\ jobs[id].enabled
                /\ 0 < jobs[id].next /\ jobs[id].next <= t

\* What Poll captures, and in which order: a job listed twice is not due the
\* second time.
Due(t) == {id \in Range(order) : IsDue(id, t)}
DueJobs(t) == Distinct(Keep(order, Due(t)))
-----------------------------------------------------------------------------
RegistryInit == /\ now = 1 /\ boot = 0 /\ restarts = 0
                /\ jobs = NoJobs /\ order = <<>> /\ disk = File(NoJobs, <<>>)
                /\ acked = {} /\ lost = {} /\ fired = [id \in Ids |-> 0]

\* Mutant of Load: trust the next run in the file.
LoadTrustsSlots == /\ ~Up
                   /\ boot' = now
                   /\ order' = Distinct(disk.order)
                   /\ jobs' = disk.jobs
                   /\ lost' = IF disk.torn THEN lost \cup acked ELSE lost
                   /\ UNCHANGED <<now, restarts, disk, acked, fired>>

\* Load, when the daemon starts.  A file that does not parse is reported, and
\* the daemon goes on without jobs.
Load == /\ ~Up
        /\ boot' = now
        /\ order' = Distinct(disk.order)
        /\ jobs' = [id \in DOMAIN disk.jobs |-> ApplySchedule(disk.jobs[id], now)]
        /\ lost' = IF disk.torn THEN lost \cup acked ELSE lost
        /\ UNCHANGED <<now, restarts, disk, acked, fired>>

\* The process ends, in good order or by a crash; in the latter case it may
\* have been inside os.WriteFile.
ProcessEnds == /\ Up
               /\ restarts < MaxRestarts
               /\ restarts' = restarts + 1
               /\ boot' = 0
               /\ jobs' = NoJobs /\ order' = <<>>
               /\ disk' \in {disk} \cup (IF "torn" \in Writes THEN {Torn} ELSE {})
               /\ UNCHANGED <<now, acked, lost, fired>>

TimePasses == /\ now < MaxTime
              /\ now' = now + 1
              /\ UNCHANGED <<boot, restarts, registry>>

AddUnsaved(id, name, s, t, w) ==
  LET job == ApplySchedule([name |-> name, sched |-> s, enabled |-> TRUE,
                            last |-> 0, next |-> 0], t)
  IN  /\ Up
      /\ NextScheduleRun(s, 0, t) # 0
      /\ \A k \in DOMAIN jobs : jobs[k].name # name
      /\ Len(order) < MaxJobs
      /\ id \notin DOMAIN jobs
      /\ jobs' = [k \in DOMAIN jobs \cup {id} |-> IF k = id THEN job ELSE jobs[k]]
      /\ order' = Append(order, id)
      /\ Persist(w)
      /\ acked' = acked \cup {id} /\ lost' = lost \ {id}
      /\ UNCHANGED <<now, boot, restarts, fired>>

\* Add: reject what is invalid or in use; the job is enabled, stored, appended
\* and persisted, and taken back when that fails.  nextJobIDLocked picks an
\* identifier no job has; a client may bring its own.
Add(id, name, s, t, w) ==
  LET job == ApplySchedule([name |-> name, sched |-> s, enabled |-> TRUE,
                            last |-> 0, next |-> 0], t)
      stored == [k \in DOMAIN jobs \cup {id} |-> IF k = id THEN job ELSE jobs[k]]
  IN  /\ Up
      /\ NextScheduleRun(s, 0, t) # 0
      /\ \A k \in DOMAIN jobs : jobs[k].name # name
      /\ Len(order) < MaxJobs
      /\ id \notin DOMAIN jobs \/ id \in ClientIds
      /\ IF w = "ok"
           THEN /\ jobs' = stored
                /\ order' = Append(order, id)
                /\ disk' = File(stored, order')
                /\ acked' = acked \cup {id} /\ lost' = lost \ {id}
           ELSE /\ jobs' = Restrict(jobs, DOMAIN jobs \ {id})
                /\ disk' = IF w = "torn" THEN Torn ELSE disk
                /\ lost' = lost \cup ({id} \cap acked)
                /\ UNCHANGED <<order, acked>>
      /\ fired' = [fired EXCEPT ![id] = 0]
      /\ UNCHANGED <<now, boot, restarts>>

\* Remove: gone from memory even when the file could not be written.
RemoveJob(id, w) == /\ Up
                    /\ id \in DOMAIN jobs
                    /\ jobs' = Restrict(jobs, DOMAIN jobs \ {id})
                    /\ order' = Keep(order, Range(order) \ {id})
                    /\ Persist(w)
                    /\ acked' = acked \ {id} /\ lost' = lost \ {id}
                    /\ UNCHANGED <<now, boot, restarts, fired>>

\* RunNow under the lock: the job is as good as run, even when the file could
\* not be written (and the caller gets an error instead of a run).
RunNow(id, t, w) ==
  /\ Up
  /\ id \in DOMAIN jobs
  /\ jobs[id].enabled
  /\ jobs' = [jobs EXCEPT ![id] = ApplySchedule([@ EXCEPT !.last = t], t)]
  /\ order' = order
  /\ Persist(w)
  /\ UNCHANGED <<now, boot, restarts, acked, lost, fired>>

\* Mutant of Poll: record the run, but do not advance the slot.
PollKeepsSlot(t, w) ==
  LET due == Due(t)
  IN  /\ Up
      /\ jobs' = [id \in DOMAIN jobs |-> IF id \in due THEN [jobs[id] EXCEPT !.last = t]
                                                    ELSE jobs[id]]
      /\ order' = order
      /\ IF due = {} THEN disk' = disk ELSE Persist(w)
      /\ fired' = [id \in Ids |-> IF id \in due THEN t ELSE fired[id]]
      /\ UNCHANGED <<now, boot, restarts, acked, lost>>

\* Poll under the lock: capture every due job and advance it; the outcome of
\* the write is ignored.
Poll(t, w) ==
  LET due == Due(t)
  IN  /\ Up
      /\ jobs' = [id \in DOMAIN jobs |->
                    IF id \in due THEN ApplySchedule([jobs[id] EXCEPT !.last = t], t)
                                  ELSE jobs[id]]
      /\ order' = order
      /\ IF due = {} THEN disk' = disk ELSE Persist(w)
      /\ fired' = [id \in Ids |-> IF id \in due THEN t ELSE fired[id]]
      /\ UNCHANGED <<now, boot, restarts, acked, lost>>

\* recordRunError: the error text is advisory, but the file is written again.
RecordRunError(id, w) == /\ Up
                         /\ UNCHANGED <<now, boot, restarts, jobs, order, acked, lost, fired>>
                         /\ IF id \in DOMAIN jobs THEN Persist(w) ELSE disk' = disk

Request(w) == \E id \in Ids :
                \/ \E name \in Names, s \in Schedules, t \in Read : Add(id, name, s, t, w)
                \/ RemoveJob(id, w)
                \/ \E t \in Read : RunNow(id, t, w)
                \/ RecordRunError(id, w)

RegistryNext == \/ Load
                \/ ProcessEnds
                \/ TimePasses
                \/ \E w \in Writes : Request(w)
                \/ \E w \in Writes, t \in Read : Poll(t, w)

RegistrySpec == RegistryInit /\ [][RegistryNext]_registryVars
-----------------------------------------------------------------------------

\* An enabled interval job that ran waits a whole interval after its last run,
\* and an enabled job always has a slot to come: a restart neither brings a
\* burst of catch-up runs nor leaves a job that looks alive and never fires.
SlotsFollowRuns ==
  \A id \in DOMAIN jobs :
    LET j == jobs[id]
    IN  j.enabled => /\ j.next > 0
                     /\ j.sched.every > 0 /\ j.last > 0
                          => j.next >= j.last + j.sched.every

\* What operations make of a job that Poll fired never gives it that slot again:
\* not twice for one cron minute, not sooner than the interval, whatever RunNow,
\* restarts and failed writes do in between.  The firing is known up to the age
\* of the time that an operation read before it got the lock: the next slot is
\* one that follows a time at most MaxLag before the firing, or, when the file
\* was ahead of the memory, at most MaxLag after it.
SlotsRespected ==
  \A id \in DOMAIN jobs :
    fired[id] > 0 /\ jobs[id].enabled
      => LET slot == jobs[id].next
             from == fired[id] - MaxLag
         IN  /\ slot > from
             /\ \/ slot >= NextScheduleRun(jobs[id].sched, from, from)
                \/ slot <= fired[id] + MaxLag

\* "... stored alongside the daemon state so scheduled jobs survive a daemon
\* restart."  (job_scheduler.go:82)  A job whose addition was acknowledged and
\* that nobody removed is in the registry of every daemon, but for the two ways
\* to lose one: the daemon starts on a file that a write left torn, or a client
\* adds a job under the same identifier and that fails.
AcknowledgedSurvive == Up => acked \ lost \subseteq DOMAIN jobs
=============================================================================
