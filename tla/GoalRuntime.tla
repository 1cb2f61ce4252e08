---------------------------- MODULE GoalRuntime ----------------------------
(***************************************************************************)
(* The autonomous loop of one goal: runtimeState.runGoalLoop (goals.go)    *)
(* and runGoalIteration (goals_runtime.go).  An iteration lets the agent   *)
(* implement, has the result reviewed and repaired, verifies it, audits it *)
(* and asks a final reviewer.  It works on a copy of the goal, which it    *)
(* writes back to the session when it ends; the session is on disk.  The   *)
(* user starts and interrupts runs, and the process may die.               *)
(*                                                                         *)
(* What the agent, the reviewers, the verification and the audit say is    *)
(* chosen freely.  The workspace is a version number: every turn of the    *)
(* agent that edits makes a new one.                                       *)
(***************************************************************************)
EXTENDS Integers

CONSTANTS Slices,        \* how many slices the goal's plan has; they are done in order
          Ceiling,       \* iterations of a goal (goalAbsoluteIterationCeiling, MaxIterations)
          StallLimit,    \* goalNoProgressBlockThreshold, goalRepeatedFailureBlockThreshold
          RejectLimit,   \* goalSemanticRejectBlockThreshold
          AutoRollback,  \* the goal rolls back when it is blocked for lack of progress
          None,
          MaxRuns, MaxEdits

ASSUME BoundsAssumption == /\ Slices \in Nat \ {0} /\ Ceiling \in Nat
                           /\ MaxRuns \in Nat /\ MaxEdits \in Nat
                           /\ StallLimit \in Nat \ {0} /\ RejectLimit \in Nat \ {0}
                           /\ AutoRollback \in BOOLEAN
ASSUME NoneAssumption == None \notin [at : Nat, ok : BOOLEAN]

VARIABLES goal,       \* the session's record of the goal
          copy,       \* the iteration's copy of it, or None
          step,       \* where the run is; "idle" when there is none
          code,       \* the workspace: its version, the last one made, and whether
                      \* the changed files are still those of the last audit
          verified,   \* Session.LastVerification, or None
          waiting,    \* a decision of the user is pending
          canceled,   \* the user interrupted the run
          runs,
          made,       \* history: what the last turn that implements or repairs left
          origin      \* history: the checkpoint the iteration began with

vars == <<goal, copy, step, code, verified, waiting, canceled, runs, made, origin>>

\* stalls, fails, rejects: consecutive cycles without progress, with the same
\* failure, rejected by the final reviewer.  snap, docs, report belong to the
\* iteration under way: its checkpoint, whether only documents changed, whether
\* its verification recorded a report.
Init == /\ goal = [status |-> "active", iter |-> 0, left |-> Slices, stalls |-> 0, fails |-> 0,
                   rejects |-> 0, snap |-> None, docs |-> FALSE, report |-> FALSE]
        /\ copy = None /\ step = "idle"
        /\ code = [now |-> 0, latest |-> 0, same |-> FALSE]
        /\ verified = None
        /\ waiting = FALSE /\ canceled = FALSE
        /\ runs = 0 /\ made = 0 /\ origin = None

Stopped == {"paused", "blocked", "limited", "complete"}

\* The user starts or resumes the goal.  Without a usable model, or without the
\* reviewer that it requires, it stops at once.
Run == /\ step = "idle" /\ goal.status # "complete" /\ runs < MaxRuns
       /\ \E s \in {"active", "blocked", "limited"} :
            /\ goal' = IF goal.status = "blocked"
                       THEN [goal EXCEPT !.status = s, !.stalls = 0, !.fails = 0, !.rejects = 0]
                       ELSE [goal EXCEPT !.status = s]
            /\ step' = IF s = "active" THEN "top" ELSE "idle"
       /\ canceled' = FALSE
       /\ runs' = runs + 1
       /\ UNCHANGED <<copy, code, verified, waiting, made, origin>>

Cancel == /\ step # "idle" /\ ~canceled
          /\ canceled' = TRUE
          /\ UNCHANGED <<goal, copy, step, code, verified, waiting, runs, made, origin>>

\* The user makes the choice the goal was paused for.
Decide == /\ step = "idle" /\ waiting
          /\ waiting' = FALSE
          /\ UNCHANGED <<goal, copy, step, code, verified, canceled, runs, made, origin>>

\* The process dies during an iteration; its copy of the goal is lost.
Crash == /\ copy # None
         /\ copy' = None /\ origin' = None /\ step' = "idle"
         /\ \E same \in BOOLEAN : code' = [code EXCEPT !.same = same]
         /\ UNCHANGED <<goal, verified, waiting, canceled, runs, made>>

\* Mutants of Snapshot: a resumed iteration takes a checkpoint of its own.
SnapshotAnew(resolved) == {None, code.now}

\* createGoalCheckpoint: an iteration that was paused keeps its checkpoint as
\* long as that can be resolved; one that is gone does not come back.  A new
\* one may fail.
Snapshot(resolved) == IF goal.snap # None /\ resolved THEN {goal.snap} ELSE {None, code.now}

Begin == /\ \E resolved \in BOOLEAN : \E snap \in Snapshot(resolved) :
              /\ copy' = [goal EXCEPT !.status = "active", !.snap = snap]
              /\ origin' = IF origin = None \/ ~resolved THEN snap ELSE origin
         /\ step' = "implement"
         /\ goal' = goal

\* Between iterations an interruption ends the run, and so do the limits on
\* iterations, time and tokens.
Top == /\ step = "top"
       /\ UNCHANGED <<code, verified, waiting, canceled, runs, made>>
       /\ \/ \E s \in IF canceled THEN {"active"} ELSE {"blocked", "limited"} :
               goal' = [goal EXCEPT !.status = s] /\ step' = "idle" /\ UNCHANGED <<copy, origin>>
          \/ ~canceled /\ goal.iter < Ceiling /\ Begin

\* Mutants of Counts: an iteration does not count.
CountsNothing(g) == [g EXCEPT !.snap = None, !.docs = FALSE, !.report = FALSE]

\* recordGoalIteration: the copy becomes the record, and the iteration counts.
Counts(g) == [g EXCEPT !.iter = @ + 1, !.snap = None, !.docs = FALSE, !.report = FALSE]
End(g) == /\ goal' = Counts(g)
          /\ step' = IF g.status \in Stopped THEN "idle" ELSE "top"
          /\ copy' = None /\ origin' = None

\* finishGoalIterationCanceled: the run ends and the goal stays active.
EndCanceled(g) == /\ goal' = Counts([g EXCEPT !.status = "active"])
                  /\ step' = "idle"
                  /\ copy' = None /\ origin' = None

\* finishGoalIterationPendingImplementationDecision: the iteration does not count.
Pause == /\ goal' = [copy EXCEPT !.status = "paused", !.docs = FALSE, !.report = FALSE]
         /\ step' = "idle"
         /\ copy' = None /\ origin' = origin

\* What a turn of the agent leaves behind: edits, which it may verify itself,
\* and a question for the user, after which it edits no more.
Versions == IF waiting \/ code.latest = MaxEdits THEN {code.now} ELSE {code.now, code.latest + 1}
Reports(v) == {[at |-> v, ok |-> ok] : ok \in BOOLEAN}
Works == /\ \E v \in Versions :
              \/ v = code.now /\ UNCHANGED <<code, verified>>
              \/ /\ v # code.now
                 /\ code' \in {[now |-> v, latest |-> v, same |-> same] : same \in {FALSE, code.same}}
                 /\ verified' \in {verified} \cup Reports(v)
         /\ waiting' \in {waiting, TRUE}

\* The agent may also mark the session's record complete (update_goal), or find
\* it over its budget (accountGoalProgressAfterTool).
Marked == {goal} \cup {[goal EXCEPT !.status = s] : s \in {"complete", "limited"}}

\* A turn of the iteration ends it when it was canceled, failed or asks the user.
Turn == Works /\ made' = code'.now /\ UNCHANGED <<canceled, runs>>
TurnEnds(failed) == \/ canceled /\ EndCanceled(copy)
                    \/ ~canceled /\ \E s \in failed : End([copy EXCEPT !.status = s])
                    \/ ~canceled /\ waiting' /\ Pause
LeadsTo(s, docs) == /\ ~canceled /\ ~waiting'
                    /\ step' = s /\ copy' = [copy EXCEPT !.docs = docs]
                    /\ goal' \in Marked /\ origin' = origin

\* A change of documents alone is not reviewed.
Implement == /\ step = "implement" /\ Turn
             /\ \/ TurnEnds({"blocked", "limited"})
                \/ LeadsTo("review", FALSE) \/ LeadsTo("verify", TRUE)

\* The review harness judges; the agent does when no reviewer answers.
Review == /\ step = "review" /\ Turn
          /\ \/ TurnEnds({"blocked", "limited"})
             \/ LeadsTo("repair", FALSE) \/ LeadsTo("verify", FALSE)

Repair == /\ step = "repair" /\ Turn
          /\ TurnEnds({"blocked", "limited"}) \/ LeadsTo("verify", FALSE)

\* repeatedGoalVerificationReport: the last verification failed and the same
\* files are changed; it counts as failed again and does not run.
Repeats == verified # None /\ ~verified.ok /\ copy.fails >= 1 /\ code.same

\* handleGoalVerifyCommandContext: it may find no step to run, or fail to start.
Verifies == \/ /\ verified' \in IF Repeats THEN {verified} ELSE Reports(code.now)
               /\ copy' = [copy EXCEPT !.report = TRUE]
            \/ /\ ~Repeats /\ verified' = verified
               /\ \E s \in {"active", "blocked"} : copy' = [copy EXCEPT !.status = s]

Verify == /\ step = "verify"
          /\ UNCHANGED <<code, waiting, canceled, runs, made>>
          /\ \/ canceled /\ EndCanceled(copy) /\ UNCHANGED verified
             \/ ~canceled /\ Verifies /\ step' = "audit" /\ UNCHANGED <<goal, origin>>

\* rollbackGoalIterationCheckpoint, which may fail.
RollBack == \/ code' = [code EXCEPT !.same = TRUE] /\ made' = made
            \/ /\ AutoRollback /\ copy.snap # None
               /\ \E same \in BOOLEAN : code' = [code EXCEPT !.now = copy.snap, !.same = same]
               /\ made' = copy.snap

\* applyProgress for an audit that is not ready.
Counted == {[copy EXCEPT !.stalls = s, !.fails = f] :
              s \in {0, copy.stalls + 1}, f \in {0, 1, copy.fails + 1}}
Stalled(g) == g.stalls >= StallLimit \/ g.fails >= StallLimit

\* Mutants of Ready: a failed verification is a warning to the audit.
ReadyWithFailures == /\ copy' = [copy EXCEPT !.stalls = 0, !.fails = 0]
                     /\ step' = "semantic"
                     /\ code' = [code EXCEPT !.same = TRUE]
                     /\ UNCHANGED <<goal, verified, made, origin>>

\* completionAuditLatestVerification: the newest report in the history of the
\* workspace, which is of any session and of any version, if there is one.
HistoryPassed == BOOLEAN

\* buildCompletionAuditArtifact: it stands in if the session has no report.
Passed == IF verified # None THEN {verified.ok} ELSE HistoryPassed

\* An audit is ready only on a verification that passed, unless documents alone
\* changed.
Ready == /\ copy.docs \/ TRUE \in Passed
         /\ copy' = [copy EXCEPT !.stalls = 0, !.fails = 0]
         /\ step' = "semantic"
         /\ code' = [code EXCEPT !.same = TRUE]
         /\ UNCHANGED <<goal, verified, made, origin>>

\* A goal that stalls is blocked; otherwise recovery runs, which may verify.
NotReady(g) ==
    \/ /\ copy.status = "blocked" /\ End(g)
       /\ code' = [code EXCEPT !.same = TRUE] /\ UNCHANGED <<verified, made>>
    \/ /\ copy.status # "blocked" /\ Stalled(g)
       /\ End([g EXCEPT !.status = "blocked", !.rejects = 0]) /\ RollBack /\ UNCHANGED verified
    \/ /\ copy.status # "blocked" /\ ~Stalled(g)
       /\ code' = [code EXCEPT !.same = TRUE] /\ UNCHANGED made
       /\ \/ canceled /\ EndCanceled([g EXCEPT !.rejects = 0]) /\ UNCHANGED verified
          \/ ~canceled /\ End([g EXCEPT !.rejects = 0]) /\ verified' \in {verified} \cup Reports(code.now)

Audit == /\ step = "audit"
         /\ UNCHANGED <<waiting, canceled, runs>>
         /\ \/ Ready
            \/ \E g \in Counted : NotReady(g)
            \/ End([copy EXCEPT !.status = "blocked"]) /\ UNCHANGED <<code, verified, made>>

\* runGoalSemanticReview: when the reviewer's provider fails the agent judges,
\* in a turn of its own that may edit.
FallBack == /\ step = "semantic" /\ ~canceled /\ ~copy.docs
            /\ Works
            /\ step' = "verdict"
            /\ UNCHANGED <<goal, copy, canceled, runs, made, origin>>

\* The last slice completes the goal.
Approve == /\ End([copy EXCEPT !.left = IF @ = 0 THEN 0 ELSE @ - 1, !.rejects = 0,
                               !.status = IF copy.left <= 1 THEN "complete" ELSE "active"])
           /\ UNCHANGED <<code, verified, made>>

Reject == /\ ~copy.docs
          /\ \/ /\ copy.rejects + 1 >= RejectLimit
                /\ End([copy EXCEPT !.status = "blocked", !.rejects = @ + 1]) /\ RollBack
             \/ /\ copy.rejects + 1 < RejectLimit
                /\ copy' = [copy EXCEPT !.rejects = @ + 1] /\ step' = "mend"
                /\ UNCHANGED <<goal, code, made, origin>>
          /\ UNCHANGED verified

\* A reviewer that is not asked approves, interrupted or not.
Judge == /\ step \in {"semantic", "verdict"}
         /\ UNCHANGED <<waiting, canceled, runs>>
         /\ \/ Approve
            \/ ~canceled /\ Reject
            \/ /\ ~copy.docs
               /\ IF canceled THEN EndCanceled(copy) ELSE End([copy EXCEPT !.status = "blocked"])
               /\ UNCHANGED <<code, verified, made>>

\* A goal that its verification blocked stays blocked after this repair.
Mend == /\ step = "mend" /\ Turn
        /\ TurnEnds({"blocked"}) \/ (~canceled /\ ~waiting' /\ End(copy))

Iterate == Top \/ Implement \/ Review \/ Repair \/ Verify \/ Audit \/ FallBack \/ Judge \/ Mend
Next == Run \/ Cancel \/ Decide \/ Crash \/ Iterate
Spec == Init /\ [][Next]_vars

\* Turns, reviews and verifications end: they have timeouts and finite retries.
FairSpec == Spec /\ WF_vars(Iterate)

Statuses == Stopped \cup {"active"}
Versioned == 0..MaxEdits
Goals == [status : Statuses, iter : 0..Ceiling, left : 0..Slices, stalls : 0..StallLimit,
          fails : 0..StallLimit, rejects : 0..RejectLimit, snap : Versioned \cup {None},
          docs : BOOLEAN, report : BOOLEAN]
TypeOK == /\ goal \in Goals /\ copy \in Goals \cup {None}
          /\ step \in {"idle", "top", "implement", "review", "repair", "verify", "audit",
                       "semantic", "verdict", "mend"}
          /\ code \in [now : Versioned, latest : Versioned, same : BOOLEAN]
          /\ verified \in [at : Versioned, ok : BOOLEAN] \cup {None}
          /\ made \in Versioned /\ origin \in Versioned \cup {None}
          /\ waiting \in BOOLEAN /\ canceled \in BOOLEAN /\ runs \in 0..MaxRuns

-----------------------------------------------------------------------------
\* A goal is not completed on a verification that failed: the last one of the
\* session passed, and if the iteration's own recorded a report, then that is
\* the last one and no turn that implements or repairs comes after it.
\* (goals_runtime.go:509-839.)  Excepted are changes of documents, which their
\* own gate accepts, and what the agent edits when it stands in for the final
\* reviewer.  If the session has no report at all, one of the workspace's
\* history stands in, of whatever version it is.
Completes == step \in {"semantic", "verdict"} /\ goal'.status = "complete"
CompletionIsVerified == [][Completes /\ ~copy.docs /\ made = code.now =>
                             /\ verified # None => verified.ok
                             /\ copy.report => verified # None /\ verified.at = made]_vars

\* A rollback takes the workspace back to where the iteration began, and so
\* covers what it edited before a pause for the user's decision, unless the
\* checkpoint it began with was gone when it was resumed: then to where it was
\* resumed (goals_runtime.go:1091-1123).
RollbackCovers == [][code'.now < code.now => code'.now = origin]_vars

\* A run ends, whatever the agent and the reviewers answer: every iteration
\* counts, or stops the run (goals.go:944-983).
RunEnds == step # "idle" ~> step = "idle"

\* A verification that is recorded as failed without running speaks of the
\* workspace as it is: nothing was edited since it failed (goals_runtime.go:437).
SkippedIsUnchanged == [][step = "verify" /\ Repeats /\ ~copy.docs /\ step' = "audit"
                              => verified.at = code.now]_vars
=============================================================================
