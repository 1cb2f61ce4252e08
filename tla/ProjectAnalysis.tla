-------------------------- MODULE ProjectAnalysis --------------------------
(***************************************************************************)
(* Project analysis (analysis_project.go): a run cuts the workspace into   *)
(* shards, has a worker model report on each and a reviewer model judge    *)
(* the report, cuts important shards finer, fills gaps and writes the run  *)
(* to disk.  The next run reuses an approved report if the fingerprints of *)
(* its shard did not change.  The user edits files at any time.            *)
(*                                                                         *)
(* A member of Files is a group of files that every plan keeps together.   *)
(* shards, reports and reviews are the code's parallel slices; batch is    *)
(* the slice executeShards is given and work its goroutines.               *)
(***************************************************************************)
EXTENDS Integers, FiniteSets, SequencesExt

CONSTANTS Files, Edited,     \* the user edits some of the files
          Shape,             \* what the index sees of a text: symbols, edges, line ranges
          Original,          \* the text every file has at first
          Plan,              \* planShards: a sequence of [primary, reference, merged]
          Chunks,            \* refinementChunks of each shard of Plan
          Configs,           \* [mode, budget]: "single", "reviewed" or "root-cause",
                             \* and MaxRefinementShards
          Concurrency, MaxRevisionRounds,
          MaxRuns, MaxEdits, MaxExtras, \* bounds of the model
          None, Torn

ASSUME PlanAssumption ==
  /\ Original \in DOMAIN Shape
  /\ Plan \in Seq([primary : SUBSET Files, reference : SUBSET Files, merged : BOOLEAN])
  /\ DOMAIN Chunks = DOMAIN Plan
  /\ \A i \in DOMAIN Plan : /\ Chunks[i] \in Seq(SUBSET Plan[i].primary)
                            /\ Chunks[i] = <<>> \/ UNION Range(Chunks[i]) = Plan[i].primary
ASSUME BoundsAssumption == /\ Concurrency \in Nat \ {0}
                           /\ MaxRevisionRounds \in Nat /\ MaxExtras \in Nat
                           /\ \A c \in Configs : c.budget \in Nat

VARIABLES content,    \* the text of each file
          mode, budget, \* configuration
          stage,      \* what Run is doing
          scanned,    \* content when the run scanned the workspace
          batch, work, wave,
          shards, reports, reviews,
          replaced,   \* the shards of the plan that the refined batch replaces
          extras,     \* evidence and gap batches made
          canceled,   \* the run's context is cancelled
          store,      \* what the newest run file keeps for the next run, Torn, or None
          runs, edits

config == <<mode, budget>>
running == <<batch, work, wave>>
result == <<shards, reports, reviews>>
bounds == <<runs, edits>>
vars == <<content, config, stage, scanned, running, result, replaced, extras, canceled, store, bounds>>

See(fs) == [f \in fs |-> content[f]]

\* finalizeShard and enrichAnalysisShardsWithGraph: the fingerprints of a
\* shard.  A shard that mergeSemanticShardsByPriority combined is not
\* finalized again: it has the fingerprints of the index, none of the text.
Prints(shard, indexed) ==
  LET fs == shard.primary \cup shard.reference
  IN  [text  |-> IF shard.merged THEN None ELSE See(fs),
       shape |-> [f \in fs |-> Shape[indexed[f]]]]

Planned(shard, indexed) == [primary |-> shard.primary, reference |-> shard.reference,
                            prints |-> Prints(shard, indexed)]
Unmerged(primary, reference) == [primary |-> primary, reference |-> reference, merged |-> FALSE]

Waiting(b) == [i \in DOMAIN b |-> [pc |-> "waiting", attempt |-> 0, report |-> None, review |-> None,
                                   reused |-> FALSE]]

Execute(what, b) == stage' = what /\ batch' = b /\ work' = Waiting(b) /\ wave' = 0

Results(s, r, v) == shards' = s /\ reports' = r /\ reviews' = v

Init == /\ content = [f \in Files |-> Original]
        /\ scanned = content
        /\ \E c \in Configs : mode = c.mode /\ budget = c.budget
        /\ stage = "idle"
        /\ batch = <<>> /\ work = <<>> /\ wave = 0
        /\ shards = <<>> /\ reports = <<>> /\ reviews = <<>>
        /\ replaced = {} /\ extras = 0
        /\ canceled = FALSE
        /\ store = None
        /\ runs = 0 /\ edits = 0

\* The user edits a file, or undoes an edit.
Edit(f) == /\ edits < MaxEdits
           /\ \E text \in DOMAIN Shape \ {content[f]} : content' = [content EXCEPT ![f] = text]
           /\ edits' = edits + 1
           /\ UNCHANGED <<config, stage, scanned, running, result, replaced, extras, canceled, store, runs>>

Cancel == /\ stage # "idle" /\ ~canceled
          /\ canceled' = TRUE
          /\ UNCHANGED <<content, config, stage, scanned, running, result, replaced, extras, store, bounds>>

\* Run: scan, plan, fingerprint, and execute the first batch.
StartRun == /\ stage = "idle" /\ runs < MaxRuns
            /\ scanned' = content
            /\ Execute("base", [i \in DOMAIN Plan |-> Planned(Plan[i], content)])
            /\ runs' = runs + 1
            /\ UNCHANGED <<content, config, result, replaced, extras, canceled, store, edits>>
-----------------------------------------------------------------------------
InWave(i) == i \in wave * Concurrency + 1 .. (wave + 1) * Concurrency

\* loadPreviousRun: the newest file, and no run at all if it cannot be read.
Previous(i) == IF store \in {None, Torn} THEN None ELSE store[batch[i].primary]

\* Mutants of Reusable: the text fingerprints are not compared.
ReusableByShape(i) == /\ stage = "base" /\ Previous(i) # None
                      /\ Previous(i).report # None
                      /\ Previous(i).prints.shape = batch[i].prints.shape

\* tryReuseShard; only the first batch has a reuse state.
Reusable(i) == /\ stage = "base" /\ Previous(i) # None
               /\ Previous(i).report # None
               /\ Previous(i).prints = batch[i].prints

Shard(i, step) == /\ work' = [work EXCEPT ![i] = step]
                  /\ UNCHANGED <<content, config, stage, scanned, batch, wave, result, replaced,
                                 extras, canceled, store, bounds>>

FilesRead(i) == batch[i].primary \cup batch[i].reference
Scanned(fs) == [f \in fs |-> scanned[f]]

\* Steady, which the code does not record: the files are as they were when the
\* fingerprints were taken.
Asked(i, attempt) ==
  LET saw == See(FilesRead(i))
      text == batch[i].prints.text
  IN  [work[i] EXCEPT !.pc = "asked", !.attempt = attempt,
         !.report = [shard |-> batch[i].primary, kind |-> "ok", saw |-> saw,
                     steady |-> saw = IF text = None THEN Scanned(FilesRead(i)) ELSE text]]

\* executeShard starts: reuse the approved report, or ask the worker; the
\* prompt carries the files as they are now.
StartShard(i) ==
  /\ InWave(i) /\ work[i].pc = "waiting"
  /\ Shard(i, IF Reusable(i)
                THEN [work[i] EXCEPT !.pc = "done", !.reused = TRUE, !.report = Previous(i).report,
                                     !.review = [shard |-> batch[i].primary, status |-> "approved"]]
                ELSE Asked(i, 0))

\* What a report saw matters again only if it was approved.
Done(i, kind, verdict) ==
  [work[i] EXCEPT !.pc = "done", !.attempt = 0, !.report.kind = kind,
                  !.report.saw = IF verdict = "approved" THEN @ ELSE None,
                  !.report.steady = @ /\ verdict = "approved",
                  !.review = [shard |-> batch[i].primary, status |-> verdict]]

\* The worker fails: cancelled, the shard fails; else a placeholder stands for
\* the report.
WorkerFails(i) ==
  /\ work[i].pc = "asked"
  /\ Shard(i, IF canceled THEN [work[i] EXCEPT !.pc = "failed"]
                          ELSE Done(i, "provider_failed", "review_failed"))

\* The worker reports, in the schema or (after one repair) not, and
\* reviewReport judges: a verdict, no consent for a review, or a failure, which
\* never fails the shard, not even a cancelled one.
ShardReported(i) ==
  /\ work[i].pc = "asked"
  /\ \E kind \in {"ok", "parse_failed"} :
     \E verdict \in IF mode = "single" THEN {"model_review_skipped"}
                    ELSE {"approved", "model_review_skipped", "review_failed"}
                           \cup (IF work[i].attempt = MaxRevisionRounds THEN {"needs_revision"} ELSE {}) :
       Shard(i, Done(i, kind, verdict))

\* The reviewer, or the lint of root-cause reports, wants another attempt.
ShardRevised(i) ==
  /\ work[i].pc = "asked" /\ mode # "single" /\ work[i].attempt < MaxRevisionRounds
  /\ Shard(i, Asked(i, work[i].attempt + 1))

ShardStep(i) == StartShard(i) \/ WorkerFails(i) \/ ShardReported(i) \/ ShardRevised(i)
-----------------------------------------------------------------------------
Executing == stage \in {"base", "refined", "evidence", "gap"}

\* Mutants of WaveOver: every shard of the batch must have ended.
BatchOver == Executing /\ \A i \in DOMAIN batch : work[i].pc \in {"done", "failed"}

\* The WaitGroup of a wave.
WaveOver == Executing /\ \A i \in DOMAIN batch : InWave(i) => work[i].pc \in {"done", "failed"}
WaveOK == WaveOver /\ \A i \in DOMAIN batch : work[i].pc # "failed"
LastWave == (wave + 1) * Concurrency >= Len(batch)

NextWave == /\ WaveOK /\ ~LastWave
            /\ wave' = wave + 1
            /\ UNCHANGED <<content, config, stage, scanned, batch, work, result, replaced, extras,
                           canceled, store, bounds>>

\* Run returns; all it leaves is on disk.
Return == /\ Execute("idle", <<>>)
          /\ Results(<<>>, <<>>, <<>>)
          /\ replaced' = {} /\ extras' = 0 /\ canceled' = FALSE
          /\ UNCHANGED <<content, config, scanned, bounds>>

\* An error of a shard ends the run; nothing is written.
RunFails == WaveOver /\ ~WaveOK /\ Return /\ UNCHANGED store

BatchReports == [i \in DOMAIN batch |-> work[i].report]
BatchReviews == [i \in DOMAIN batch |-> work[i].review]

\* Mutants of RefineOne: a later candidate is cut to what is left, too.
RefineOneMore(plan, i) ==
  IF plan.full
    THEN plan
    ELSE LET room == Min({Len(Chunks[i]), budget - Len(plan.children)})
             children == plan.children \o SubSeq(Chunks[i], 1, room)
         IN  [children |-> children, parents |-> plan.parents \cup {i},
              full |-> Len(children) >= budget]

\* planRefinementShards for one more candidate.  The first candidate is cut to
\* the budget if it alone exceeds it; a later one that does not fit ends it.
RefineOne(plan, i) ==
  IF plan.full \/ (Len(plan.children) + Len(Chunks[i]) > budget /\ plan.children # <<>>)
    THEN [plan EXCEPT !.full = TRUE]
    ELSE LET children == plan.children \o SubSeq(Chunks[i], 1, Min({Len(Chunks[i]), budget}))
         IN  [children |-> children, parents |-> plan.parents \cup {i},
              full |-> Len(children) >= budget]

\* Shards that can be cut, in any order: the scores depend on the reports.
Candidates == {i \in DOMAIN Plan : budget > 0 /\ Len(Chunks[i]) >= 2}
Orders == UNION {SetToSeqs(s) : s \in SUBSET Candidates}
Refinement(order) ==
  LET plan[n \in 0 .. Len(order)] ==
        IF n = 0 THEN [children |-> <<>>, parents |-> {}, full |-> FALSE]
                 ELSE RefineOne(plan[n - 1], order[n])
  IN  plan[Len(order)]

\* The base batch is done: refine some shards.
FinishBase ==
  /\ stage = "base" /\ WaveOK /\ LastWave
  /\ Results(batch, BatchReports, BatchReviews)
  /\ \E order \in Orders :
       LET plan == Refinement(order)
       IN  /\ Execute(IF plan.children = <<>> THEN "planning" ELSE "refined",
                      [c \in DOMAIN plan.children |->
                         Planned(Unmerged(plan.children[c], {}), scanned)])
           /\ replaced' = plan.parents
  /\ UNCHANGED <<content, config, scanned, extras, canceled, store, bounds>>

Ascending(S) == [k \in 1 .. Cardinality(S) |-> CHOOSE x \in S : Cardinality({y \in S : y < x}) = k - 1]
Kept(s) == LET kept == Ascending(DOMAIN s \ replaced)
           IN  [k \in DOMAIN kept |-> s[kept[k]]]

\* mergeRefinedShardResults: the parents leave the three slices, the children
\* are appended to them.
FinishRefined ==
  /\ stage = "refined" /\ WaveOK /\ LastWave
  /\ Results(Kept(shards) \o batch, Kept(reports) \o BatchReports, Kept(reviews) \o BatchReviews)
  /\ Execute("planning", <<>>)
  /\ UNCHANGED <<content, config, scanned, replaced, extras, canceled, store, bounds>>

\* planRootCauseEvidenceRequestShards: files that no shard has.
PlanEvidence ==
  /\ stage = "planning" /\ mode = "root-cause" /\ extras < MaxExtras
  /\ \E fs \in SUBSET (Files \ UNION {shards[i].primary : i \in DOMAIN shards}) :
       fs # {} /\ Execute("evidence", <<Planned(Unmerged(fs, {}), scanned)>>)
  /\ extras' = extras + 1
  /\ UNCHANGED <<content, config, scanned, result, replaced, canceled, store, bounds>>

\* planCoverageGapShards: none, or one more shard with the files of a shard
\* whose report has a gap that is not the provider's failure.
PlanGap ==
  /\ stage = "planning"
  /\ \/ Execute("saving", <<>>)
     \/ \E i \in DOMAIN shards :
          /\ extras < MaxExtras
          /\ reviews[i].status # "review_failed"
          /\ Execute("gap", <<Planned(Unmerged(shards[i].primary, shards[i].reference), scanned)>>)
  /\ UNCHANGED <<content, config, scanned, result, replaced, extras, canceled, store, bounds>>

FinishExtra ==
  /\ stage \in {"evidence", "gap"} /\ WaveOK /\ LastWave
  /\ Results(shards \o batch, reports \o BatchReports, reviews \o BatchReviews)
  /\ Execute(IF stage = "evidence" THEN "planning" ELSE "saving", <<>>)
  /\ UNCHANGED <<content, config, scanned, replaced, extras, canceled, store, bounds>>
-----------------------------------------------------------------------------
Reviewed(verdict) == {i \in DOMAIN reviews : reviews[i].status = verdict}

\* Mutants of Summary: the review failures are not counted.
SummaryUncounted ==
  IF \E i \in DOMAIN reports : reports[i].kind = "parse_failed" THEN "completed_with_parse_failures"
  ELSE IF Reviewed("approved") = {} THEN "draft"
  ELSE "completed"

\* summarizeReviewDecisions, summarizeWorkerReportStatuses and the status Run
\* derives, unless the claim verifier adds blockers.
Summary ==
  IF \E i \in DOMAIN reports : reports[i].kind = "parse_failed" THEN "completed_with_parse_failures"
  ELSE IF Reviewed("approved") = {}
    THEN IF Reviewed("model_review_skipped") = {} THEN "draft" ELSE "completed_with_model_review_skipped"
  ELSE IF Reviewed("review_failed") \cup Reviewed("needs_revision") # {}
    THEN "completed_with_review_failures"
  ELSE "completed"

\* What tryReuseShard can take from the file: for the files of each planned
\* shard the last shard with them, by previousByPrimaryKey, and its report if
\* it was approved.
Stored ==
  [fs \in {Plan[i].primary : i \in DOMAIN Plan} |->
     LET those == {i \in DOMAIN shards : shards[i].primary = fs}
         last == Max(those)
     IN  IF those = {} THEN None
         ELSE [prints |-> shards[last].prints,
               report |-> IF reviews[last].status = "approved" THEN reports[last] ELSE None]]

\* persistRun writes the run file in place, no rename: before it nothing is
\* stored, a crash in it leaves it torn, an error or a cancel after it ends the
\* run with an error and the file is there.
Save == /\ stage = "saving" /\ Return
        /\ store' \in {store, Torn} \cup (IF canceled THEN {} ELSE {Stored})

Advance == NextWave \/ RunFails \/ FinishBase \/ FinishRefined \/ PlanGap \/ FinishExtra \/ Save

Next == \/ \E f \in Edited : Edit(f)
        \/ Cancel
        \/ StartRun
        \/ \E i \in DOMAIN batch : ShardStep(i)
        \/ Advance
        \/ PlanEvidence

Spec == Init /\ [][Next]_vars

\* Every model request has a timeout and finitely many retries.
MaxBatch == 1 .. Len(Plan) + Max({c.budget : c \in Configs})
FairSpec == /\ Spec
            /\ WF_vars(Advance)
            /\ \A i \in MaxBatch : WF_vars(i \in DOMAIN batch /\ ShardStep(i))
-----------------------------------------------------------------------------
\* A report that is reused saw what this run has scanned: every edit of a file
\* of its shard, also one that keeps the symbols, forces a new report.  The user
\* may edit at any time, but for an edit that comes between the fingerprints and
\* the worker (and is undone later, for else nothing is reused).  A shard that
\* was merged is reused although its text has changed, as long as its shape has
\* not.  ("no relevant file, dependency, or semantic context changed")
ReusedIsCurrent ==
  \A i \in DOMAIN work : work[i].reused /\ work[i].report.steady =>
    \A f \in FilesRead(i) :
      LET saw == work[i].report.saw[f]
      IN  IF batch[i].prints.text = None THEN Shape[saw] = Shape[scanned[f]] ELSE saw = scanned[f]

\* Refinement replaces shards, it does not lose files: a file of the plan is
\* in a shard of the run that is about to be saved, unless the first candidate
\* alone was cut to MaxRefinementShards.
CutOff == UNION {UNION {Chunks[i][k] : k \in budget + 1 .. Len(Chunks[i])} : i \in DOMAIN Plan}
NothingDropped ==
  stage = "saving" => (UNION {Plan[i].primary : i \in DOMAIN Plan}) \ CutOff
                        \subseteq UNION {shards[i].primary : i \in DOMAIN shards}

\* A run is saved as plain "completed" only if every shard has a parsed report
\* and a review of its own that neither failed nor asked for more, and one
\* review approved at least.  (Reports and reviews are found by the position
\* of their shard, through refinement, evidence and gap batches.)
CompletedIsReviewed ==
  stage = "saving" /\ Summary = "completed" =>
    /\ \A i \in DOMAIN shards : /\ reports[i].shard = shards[i].primary /\ reviews[i].shard = shards[i].primary
                                /\ reports[i].kind = "ok"
                                /\ reviews[i].status \in {"approved", "model_review_skipped"}
    /\ \E i \in DOMAIN shards : reviews[i].status = "approved"

\* A run ends, cancelled or not, whatever the models answer.
RunEnds == stage # "idle" ~> stage = "idle"
=============================================================================
