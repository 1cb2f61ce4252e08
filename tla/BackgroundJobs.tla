--------------------------- MODULE BackgroundJobs ---------------------------
(***************************************************************************)
(* Shell commands that outlive the tool call that started them             *)
(* (shell_background.go): a detached runner per job, the status file it    *)
(* writes before it exits, the records of jobs and bundles in the session, *)
(* and the manager that starts, reuses, polls, supersedes and cancels them.*)
(*                                                                         *)
(* The manager runs in the agent's turn, one operation at a time, and is   *)
(* described by op.  The runners interleave with it: SyncJob reads a       *)
(* status file in one action and probes the process in another.            *)
(***************************************************************************)
EXTENDS Integers, FiniteSets, SequencesExt

CONSTANTS MaxJobs,      \* bound: jobs started
          MaxBundles,   \* bound: bundles recorded, one less after each restart
          Commands,     \* command lines, up to case
          Checks,       \* those whose text names a test, a build or a check
          NoOwner,
          Requests,     \* what the launch tools are called with: commands, the
                        \* task node they are for (its editable lease overlaps
                        \* no other) or NoOwner, the argument verification_like
          MaxFailures,  \* bound: failed writes, of the session or of a status file
          MaxRestarts   \* bound: ends of the kernforge process

ASSUME BackgroundAssumption ==
  /\ {MaxJobs, MaxBundles, MaxFailures, MaxRestarts} \subseteq Nat
  /\ Checks \subseteq Commands
  /\ \A q \in Requests : q.cmds \in Seq(Commands) /\ q.check \in BOOLEAN

Jobs == 1..MaxJobs             \* in the order of StartedAt
Bundles == 1..MaxBundles

VARIABLES windows,      \* taskkill, Job Objects; otherwise ps and zombies: fixed
          job,          \* Session.BackgroundJobs
          bundle,       \* Session.BackgroundBundles
          saved,        \* both, as the session file has them
          file,         \* what status.json of a job says
          proc,         \* the runner of a job
          outcome,      \* exit code of the command
          ours,         \* jobs whose runner is a child of this process
          op,           \* what the manager is doing
          failures, restarts

vars == <<windows, job, bundle, saved, file, proc, outcome, ours, op, failures, restarts>>

Final == {"completed", "failed", "canceled", "preempted"}
Overridden == {"stale", "superseded", "canceled", "preempted"}

NoJobYet == [status |-> "absent", exit |-> "none", cmd |-> "none", owned |-> FALSE]
NoBundleYet == [status |-> "absent", jobs |-> <<>>, owner |-> NoOwner, check |-> FALSE]

\* todo: jobs still to be synced or canceled; read: what the status file of the
\* first said or "unread"; at: the bundle in hand, 0 for none; pending: bundles
\* still to be handled; mark: the status a cancellation gives them; cmds:
\* commands still to be launched; batch: jobs launched for a new bundle.
Idle == [kind |-> "idle", todo |-> <<>>, read |-> "unread", at |-> 0,
         pending |-> <<>>, mark |-> "none", cmds |-> <<>>, batch |-> <<>>,
         owner |-> NoOwner, check |-> FALSE]

Status == Final \cup {"absent", "running"}
JobRecord == [status : Status, exit : {"none", "zero", "nonzero"},
              cmd : Commands \cup {"none"}, owned : BOOLEAN]

Owners == {NoOwner} \cup {q.owner : q \in Requests}
BundleRecord == [status : Overridden \cup {"absent", "running", "completed", "failed"},
                 jobs : Seq(Jobs), owner : Owners, check : BOOLEAN]

Operation == [kind : {"idle", "job", "bundle", "ask", "find", "record", "reuse", "cancel"},
              todo : Seq(Jobs), read : Status \cup {"torn", "unread"},
              at : Bundles \cup {0}, pending : Seq(Bundles),
              mark : {"none", "canceled", "stale", "superseded"},
              cmds : Seq(Commands), batch : Seq(Jobs), owner : Owners, check : BOOLEAN]

TypeOK == /\ windows \in BOOLEAN
          /\ job \in [Jobs -> JobRecord]
          /\ bundle \in [Bundles -> BundleRecord]
          /\ saved \in [job : [Jobs -> JobRecord], bundle : [Bundles -> BundleRecord]]
          /\ file \in [Jobs -> Status \cup {"torn"}]
          /\ proc \in [Jobs -> {"none", "working", "writing", "zombie", "gone"}]
          /\ outcome \in [Jobs -> {"unknown", "zero", "nonzero"}]
          /\ ours \subseteq Jobs /\ op \in Operation
          /\ failures \in 0..MaxFailures /\ restarts \in 0..MaxRestarts

Init == /\ windows \in BOOLEAN
        /\ job = [j \in Jobs |-> NoJobYet]
        /\ bundle = [b \in Bundles |-> NoBundleYet]
        /\ saved = [job |-> job, bundle |-> bundle]
        /\ file = [j \in Jobs |-> "absent"]
        /\ proc = [j \in Jobs |-> "none"]
        /\ outcome = [j \in Jobs |-> "unknown"]
        /\ ours = {} /\ op = Idle /\ failures = 0 /\ restarts = 0

\* The whole session is written; after the last restart nobody reads it.
Stored(jobs, ok) ==
  saved' = IF ok /\ restarts < MaxRestarts THEN [job |-> jobs, bundle |-> bundle'] ELSE saved
SaveWith(jobs, ok) == failures' = (IF ok THEN failures ELSE failures + 1) /\ Stored(jobs, ok)
Save(ok) == SaveWith(job', ok)
Outcomes == {ok \in BOOLEAN : ~ok => failures < MaxFailures}

BundlesUsed == Cardinality({b \in Bundles : bundle[b].status # "absent"})

Live(j) == proc[j] \in {"working", "writing"}

\* A runner ends: kernforge never waits for its children, so elsewhere than on
\* Windows its process entry stays.  (There a kill reaches the runner only; its
\* command may go on, but nobody reports for it.)
EndOf(j) == IF windows \/ j \notin ours THEN "gone" ELSE "zombie"
Killed(S) == [j \in Jobs |-> IF j \in S /\ Live(j) THEN EndOf(j) ELSE proc[j]]
-----------------------------------------------------------------------------
(* The runner of a job.                                                    *)

runnerRest == <<windows, job, bundle, saved, ours, op, failures, restarts>>

\* The command ends and the shell opens the status file, which empties it ...
CommandEnds(j, r) == /\ proc[j] = "working"
                     /\ outcome' = [outcome EXCEPT ![j] = r]
                     /\ file' = [file EXCEPT ![j] = "torn"]
                     /\ proc' = [proc EXCEPT ![j] = "writing"]
                     /\ UNCHANGED runnerRest

\* Mutant of Reports: the exit code of the command is lost.
ReportsZero(j) == /\ proc[j] = "writing"
                  /\ file' = [file EXCEPT ![j] = "completed"]
                  /\ proc' = Killed({j})
                  /\ UNCHANGED <<outcome, runnerRest>>

\* ... writes the verdict and exits.
Reports(j) == /\ proc[j] = "writing"
              /\ file' = [file EXCEPT ![j] = IF outcome[j] = "zero" THEN "completed"
                                                                    ELSE "failed"]
              /\ proc' = Killed({j})
              /\ UNCHANGED <<outcome, runnerRest>>

\* Killed from outside, or it cannot write its verdict, or not so that it can be
\* parsed: Windows PowerShell puts a byte order mark in front.
Dies(j) == /\ Live(j) /\ proc' = Killed({j})
           /\ UNCHANGED <<file, outcome, runnerRest>>

RunnerStep(j) == \/ \E r \in {"zero", "nonzero"} : CommandEnds(j, r)
                 \/ Reports(j)
                 \/ Dies(j)
-----------------------------------------------------------------------------
(* SyncJob, in its three uses: a job by itself, the jobs of a bundle, and   *)
(* the running jobs among which a launch looks for its command.            *)

managerRest == <<windows, file, proc, outcome, ours, restarts>>
records == <<job, bundle, saved, failures, managerRest>>

CommandsOf(s) == [i \in DOMAIN s |-> job[s[i]].cmd]
NewestFirst(S) == [i \in 1..Cardinality(S) |->
                     CHOOSE x \in S : Cardinality({y \in S : y > x}) = i - 1]
Recorded == {j \in Jobs : job[j].status # "absent"}

\* The next command of a launch, with job j for this one unless it is 0.  An
\* error of the post-tool hook ends the launch with what it has started.
NextCommand(j, hook) ==
  IF hook THEN [op EXCEPT !.kind = "ask", !.todo = <<>>, !.read = "unread",
                          !.cmds = Tail(@),
                          !.batch = IF j = 0 THEN @ ELSE Append(@, j)]
          ELSE Idle

ReadStatus == /\ op.kind \in {"job", "bundle", "find", "record"} /\ op.todo # <<>>
              /\ op.read = "unread"
              /\ op' = [op EXCEPT !.read = file[Head(op.todo)]]
              /\ UNCHANGED records

\* The status file decides when it can be parsed; a job that is then still
\* "running" and has no process is taken to have completed.
SyncedJob(j) ==
  LET status == IF op.read = "torn" THEN job[j].status ELSE op.read
      exit == CASE op.read = "completed"            -> "zero"
                [] op.read \in Final \ {"completed"} -> "nonzero"
                [] OTHER                             -> job[j].exit
      visible == Live(j) \/ proc[j] = "zombie"
  IN  IF status = "running" /\ ~visible
        THEN [job[j] EXCEPT !.status = "completed",
                            !.exit = IF exit = "none" THEN "zero" ELSE exit]
        ELSE [job[j] EXCEPT !.status = status, !.exit = exit]

\* FindReusableShellJob goes by the old copy when SyncJob returns an error.
Current(j, ok) == IF ok THEN SyncedJob(j) ELSE job[j]

\* Mutant of Found: a record that could not be saved is passed over.
FoundSaved(j, ok) == ok /\ SyncedJob(j).status = "running" /\ job[j].cmd = Head(op.cmds)

Found(j, ok) == Current(j, ok).status = "running" /\ job[j].cmd = Head(op.cmds)

\* The job that is reused gets an owner, and its record is then put back.
Adopts(j, ok) == op.kind = "find" /\ Found(j, ok) /\ op.owner # NoOwner /\ ~job[j].owned

\* SyncBundle returned: FindReusableShellBundle goes by the old copy, which was
\* running, when it returned an error.
AfterBundle(ok) ==
  IF op.kind = "bundle" THEN Idle
  ELSE IF /\ (IF ok THEN bundle' ELSE bundle)[op.at].status = "running"
          /\ bundle[op.at].jobs = op.batch
         THEN [op EXCEPT !.kind = "reuse", !.pending = <<>>, !.todo = <<>>]
         ELSE [op EXCEPT !.at = 0, !.pending = Tail(@), !.todo = <<>>]

\* A job that has ended lets go of its Job Object, which kills what is left.
Probe(ok, hook) ==
  /\ op.read # "unread" /\ UNCHANGED <<windows, bundle, file, outcome, ours, restarts>>
  /\ LET j == Head(op.todo)
         synced == [job EXCEPT ![j] = SyncedJob(j)]
         rest == [op EXCEPT !.todo = Tail(@), !.read = "unread"]
     IN  /\ SaveWith(synced, ok)
         /\ job' = IF Adopts(j, ok) THEN [job EXCEPT ![j] = [Current(j, ok) EXCEPT !.owned = TRUE]]
                                    ELSE synced
         /\ proc' = IF windows /\ j \in ours /\ synced[j].status \in Final
                      THEN Killed({j}) ELSE proc
         /\ op' = CASE op.kind = "job"  -> Idle
                    [] op.kind = "find" -> IF Found(j, ok) THEN NextCommand(j, hook) ELSE rest
                    [] OTHER -> IF ok THEN rest ELSE [AfterBundle(FALSE) EXCEPT !.read = "unread"]

BeginSyncJob(j) == /\ op = Idle /\ j \in Recorded
                   /\ op' = [Idle EXCEPT !.kind = "job", !.todo = <<j>>]
                   /\ UNCHANGED records
-----------------------------------------------------------------------------
(* Bundles: SyncBundle, and FindReusableShellBundle over the newest first.  *)

BeginSyncBundle(b) ==
  /\ op = Idle /\ bundle[b].status # "absent"
  /\ op' = [Idle EXCEPT !.kind = "bundle", !.at = b, !.todo = bundle[b].jobs]
  /\ UNCHANGED records

\* Mutant of Summary: it does not wait for the others once one has ended well.
SummaryHasty(statuses) == IF "completed" \in statuses THEN "completed" ELSE "running"

\* summarizeBackgroundBundle
Summary(statuses) == CASE "running" \in statuses                 -> "running"
                       [] statuses = {"completed"}               -> "completed"
                       [] OTHER -> IF "failed" \in statuses THEN "failed" ELSE "canceled"

\* Mutant of Synced: the verdict replaces "stale" and the like.
SyncedAnyway(b) ==
  [bundle[b] EXCEPT !.status = Summary({job[j].status : j \in Range(bundle[b].jobs)})]

Synced(b) == IF bundle[b].status \in Overridden THEN bundle[b]
             ELSE [bundle[b] EXCEPT
                     !.status = Summary({job[j].status : j \in Range(bundle[b].jobs)})]

EndSyncBundle(ok) ==
  /\ op.kind \in {"bundle", "record"} /\ op.at # 0 /\ op.todo = <<>>
  /\ bundle' = [bundle EXCEPT ![op.at] = Synced(op.at)]
  /\ UNCHANGED <<job, managerRest>>
  /\ Save(ok) /\ op' = AfterBundle(ok)

NextCandidate ==
  /\ op.kind = "record" /\ op.at = 0 /\ op.pending # <<>>
  /\ LET b == Head(op.pending)
     IN  op' = IF bundle[b].status = "running"
                 THEN [op EXCEPT !.at = b, !.todo = bundle[b].jobs]
                 ELSE [op EXCEPT !.pending = Tail(@)]
  /\ UNCHANGED records

ChecksAny(s) == \E j \in Range(s) : job[j].cmd \in Checks

\* The copy found running is put back, whatever the record says by now.
Reuse(ok) ==
  /\ op.kind = "reuse"
  /\ bundle' = [bundle EXCEPT ![op.at].status = "running",
                              ![op.at].owner = IF @ = NoOwner THEN op.owner ELSE @,
                              ![op.at].check = @ \/ op.check \/ ChecksAny(op.batch)]
  /\ UNCHANGED <<job, managerRest>> /\ Save(ok) /\ op' = Idle
-----------------------------------------------------------------------------
(* The launch tools.                                                       *)

BeginLaunch(q) ==
  /\ op = Idle /\ BundlesUsed < MaxBundles - restarts
  /\ op' = [Idle EXCEPT !.kind = "ask", !.cmds = q.cmds, !.owner = q.owner, !.check = q.check]
  /\ UNCHANGED records

\* Hooks, the write policy and the user let the command pass, skip it, or end
\* the launch with an error.
Ask(answer) ==
  /\ op.kind = "ask" /\ op.cmds # <<>>
  /\ op' = CASE answer = "yes"  -> [op EXCEPT !.kind = "find",
                                     !.todo = NewestFirst({j \in Jobs : job[j].status = "running"})]
             [] answer = "skip" -> NextCommand(0, TRUE)
             [] answer = "error" -> Idle
  /\ UNCHANGED records

\* StartShellJob: a record that cannot be saved stays, with its runner.
Start(ok, hook) ==
  /\ op.kind = "find" /\ op.todo = <<>> /\ UNCHANGED <<windows, bundle, outcome, restarts>>
  /\ \E j \in Jobs :
       /\ proc[j] = "none" /\ \A k \in Jobs : k < j => proc[k] # "none"
       /\ job' = [job EXCEPT ![j] = [status |-> "running", exit |-> "none",
                                     cmd |-> Head(op.cmds),
                                     owned |-> op.owner # NoOwner]]
       /\ proc' = [proc EXCEPT ![j] = "working"]
       /\ file' = [file EXCEPT ![j] = "running"]
       /\ ours' = ours \cup {j}
       /\ op' = NextCommand(j, ok /\ hook)
  /\ Save(ok)

\* It fails before it has a process.
StartFails == /\ op.kind = "find" /\ op.todo = <<>> /\ op' = Idle
              /\ UNCHANGED records

Launched == /\ op.kind = "ask" /\ op.cmds = <<>>
            /\ op' = IF op.batch = <<>> THEN Idle
                     ELSE [op EXCEPT !.kind = "record",
                             !.pending = NewestFirst({b \in Bundles : bundle[b].status # "absent"})]
            /\ UNCHANGED records

\* What supersedeMatchingBundles takes for an older copy of the batch.
Matches(b) == \/ CommandsOf(bundle[b].jobs) = CommandsOf(op.batch)
              \/ /\ bundle[b].check /\ (op.check \/ ChecksAny(op.batch))
                 /\ bundle[b].owner = op.owner /\ op.owner # NoOwner

NoneToReuse ==
  /\ op.kind = "record" /\ op.at = 0 /\ op.pending = <<>>
  /\ op' = [op EXCEPT !.kind = "cancel", !.mark = "superseded",
              !.pending = NewestFirst({b \in Bundles : bundle[b].status # "absent"
                                                       /\ Matches(b)})]
  /\ UNCHANGED records

\* The status of the new bundle comes from copies of its jobs that were running
\* when they were started or found.
RecordBundle(ok) ==
  /\ op.kind = "cancel" /\ op.mark = "superseded" /\ op.pending = <<>>
  /\ \E b \in Bundles :
       /\ bundle[b].status = "absent" /\ \A c \in Bundles : c < b => bundle[c].status # "absent"
       /\ bundle' = [bundle EXCEPT ![b] =
                       [status |-> "running", jobs |-> op.batch, owner |-> op.owner,
                        check |-> op.check \/ ChecksAny(op.batch)]]
  /\ UNCHANGED <<job, managerRest>> /\ Save(ok) /\ op' = Idle
-----------------------------------------------------------------------------
(* CancelJob, and CancelBundle for the user, for an edit of the workspace   *)
(* (markBackgroundBundlesStale) and for a newer bundle.                    *)

\* Mutant of Cancel: the runner is left alive.
CancelKeepsRunner(j, status, ok) ==
  /\ job' = [job EXCEPT ![j].status = status, ![j].exit = IF @ = "none" THEN "nonzero" ELSE @]
  /\ file' = [file EXCEPT ![j] = status] /\ UNCHANGED proc
  /\ UNCHANGED <<windows, outcome, ours, restarts>> /\ Save(ok)

\* Nobody looks at the error of writing the status file: it may stay as it was
\* or be left torn.
Cancel(j, status, ok) ==
  /\ job' = [job EXCEPT ![j].status = status, ![j].exit = IF @ = "none" THEN "nonzero" ELSE @]
  /\ proc' = Killed({j})
  /\ \E left \in {status, file[j], "torn"} :
       /\ file' = [file EXCEPT ![j] = left]
       /\ failures' = failures + (IF ok THEN 0 ELSE 1) + (IF left = status THEN 0 ELSE 1)
       /\ failures' <= MaxFailures
  /\ UNCHANGED <<windows, outcome, ours, restarts>> /\ Stored(job', ok)

CancelJob(j, ok) == /\ op = Idle /\ j \in Recorded /\ job[j].status \notin Final
                    /\ UNCHANGED <<bundle, op>> /\ Cancel(j, "canceled", ok)

BeginCancelBundle(b) ==
  /\ op = Idle /\ bundle[b].status # "absent"
  /\ op' = [Idle EXCEPT !.kind = "cancel", !.pending = <<b>>, !.mark = "canceled"]
  /\ UNCHANGED records

\* shouldInvalidateBackgroundBundle goes by the text of the commands.
Edit ==
  LET hit == {b \in Bundles : bundle[b].status \in {"running", "completed", "failed"}
                              /\ ChecksAny(bundle[b].jobs)}
  IN  /\ op = Idle /\ hit # {}
      /\ op' = [Idle EXCEPT !.kind = "cancel", !.pending = NewestFirst(hit), !.mark = "stale"]
      /\ UNCHANGED records

Marked(b) == [bundle EXCEPT ![b].status = op.mark]
NextPending == IF Tail(op.pending) = <<>> /\ op.mark # "superseded" THEN Idle
               ELSE [op EXCEPT !.pending = Tail(@), !.at = 0, !.todo = <<>>]

\* A newer bundle only marks an older one that is not running.
NextToCancel ==
  /\ op.kind = "cancel" /\ op.at = 0 /\ op.pending # <<>>
  /\ LET b == Head(op.pending)
     IN  IF op.mark = "superseded" /\ bundle[b].status # "running"
           THEN bundle' = Marked(b) /\ op' = NextPending
           ELSE op' = [op EXCEPT !.at = b, !.todo = bundle[b].jobs] /\ UNCHANGED bundle
  /\ UNCHANGED <<job, saved, failures, managerRest>>

\* Jobs that have ended stay as they are.  An error of CancelJob ends the loop;
\* only the cancel tool then leaves the bundle unmarked.
CancelNext(ok) ==
  /\ op.kind = "cancel" /\ op.todo # <<>>
  /\ LET j == Head(op.todo)
     IN  IF job[j].status \in Final
           THEN /\ op' = [op EXCEPT !.todo = Tail(@)]
                /\ UNCHANGED records
           ELSE /\ bundle' = IF ok \/ op.mark = "canceled" THEN bundle ELSE Marked(op.at)
                /\ Cancel(j, IF op.mark = "canceled" THEN "canceled" ELSE "preempted", ok)
                /\ op' = CASE ok -> [op EXCEPT !.todo = Tail(@)]
                           [] ~ok /\ op.mark = "canceled" -> Idle
                           [] ~ok /\ op.mark # "canceled" -> NextPending

EndCancel(ok) ==
  /\ op.kind = "cancel" /\ op.at # 0 /\ op.todo = <<>>
  /\ bundle' = Marked(op.at) /\ UNCHANGED <<job, managerRest>>
  /\ Save(ok) /\ op' = NextPending
-----------------------------------------------------------------------------
(* The session is resumed by another process.  On Windows the Job Objects    *)
(* were closed with the first; elsewhere the runners live on and what has   *)
(* ended is reaped.                                                        *)

Restart == /\ restarts < MaxRestarts /\ restarts' = restarts + 1
           /\ BundlesUsed <= MaxBundles - restarts'
           /\ job' = saved.job /\ bundle' = saved.bundle /\ op' = Idle /\ ours' = {}
           /\ proc' = IF windows THEN Killed(ours)
                      ELSE [j \in Jobs |-> IF proc[j] = "zombie" THEN "gone" ELSE proc[j]]
           /\ UNCHANGED <<windows, saved, failures, file, outcome>>

ManagerStep ==
  \/ \E j \in Jobs : BeginSyncJob(j)
  \/ \E b \in Bundles : BeginSyncBundle(b) \/ BeginCancelBundle(b)
  \/ \E q \in Requests : BeginLaunch(q)
  \/ \E a \in {"yes", "skip", "error"} : Ask(a)
  \/ ReadStatus \/ NextCandidate \/ StartFails \/ Launched \/ NoneToReuse \/ NextToCancel \/ Edit
  \/ \E ok \in Outcomes, hook \in BOOLEAN : Probe(ok, hook) \/ Start(ok, hook)
  \/ \E ok \in Outcomes : \/ EndSyncBundle(ok) \/ Reuse(ok) \/ RecordBundle(ok)
                       \/ CancelNext(ok) \/ EndCancel(ok)
                       \/ \E j \in Jobs : CancelJob(j, ok)

Next == (\E j \in Jobs : RunnerStep(j)) \/ ManagerStep \/ Restart

Spec == Init /\ [][Next]_vars
-----------------------------------------------------------------------------
(* Properties.                                                             *)

\* A job is taken for a successful check only when its command ended with exit
\* code zero, although SyncJob decides without waiting for the process; or, where
\* the end of a runner leaves no process entry (on Windows, and for a runner of
\* an earlier kernforge process), when its verdict was lost with it or had come
\* too late for that poll.  What the file then says is never a success, so a
\* false one is confirmed by nobody and the next poll corrects it if it can.
EvidenceIsEarned ==
  \A j \in Jobs : job[j].status = "completed" /\ job[j].exit = "zero" =>
    outcome[j] = "zero" \/ (proc[j] = "gone" /\ file[j] \in {"running", "torn", "failed"})

\* A verdict on which the record and the status file agree is final while the
\* process goes on: no late report of the runner, poll or cancellation revises
\* one or the other.
VerdictIsFinal ==
  [][restarts' = restarts =>
       \A j \in Jobs : job[j].status \in Final /\ file[j] = job[j].status
                         => /\ job'[j].status = job[j].status
                            /\ file'[j] = file[j]]_vars

\* A bundle that is said to have completed has only jobs that did, or that a late
\* report has since corrected to failed: it does not hide a job that runs, was
\* canceled, or had failed when it was summed up.
BundleVerdictAgrees ==
  \A b \in Bundles : bundle[b].status = "completed" =>
    \A j \in Range(bundle[b].jobs) :
      job[j].status = "completed" \/ (job[j].status = "failed" /\ file[j] = "failed" /\ proc[j] = "gone")

\* A bundle that an edit or a newer bundle has overridden is never again presented
\* with a verdict of its own, so a poll cannot revive a stale check.
OverriddenStays ==
  [][restarts' = restarts =>
       \A b \in Bundles : bundle[b].status \in {"stale", "superseded"}
                           => bundle'[b].status \in Overridden]_vars

\* Reuse works: the runners this process has started never run one command
\* twice at the same time, although their records are only as fresh as the
\* last poll and some could not be saved.
OneRunPerCommand ==
  \A j, k \in ours : j # k /\ proc[j] = "working" /\ proc[k] = "working"
                       => job[j].cmd # job[k].cmd
=============================================================================
