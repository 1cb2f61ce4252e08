------------------------------ MODULE TurnLoop ------------------------------
(***************************************************************************)
(* One turn of the agent: the loop of Agent.completeLoop (agent.go).  Each *)
(* iteration asks the model once and handles its answer: tool calls, a     *)
(* progress note, an empty answer, or a text that must pass the final      *)
(* gates one after the other.  Every gate may send the model back with     *)
(* guidance; a counter bounds how often.                                   *)
(*                                                                         *)
(* What the model, the tools, the reviewers and the hooks say is chosen    *)
(* freely; texts are reduced to what the gates read of them.               *)
(***************************************************************************)
EXTENDS Integers

CONSTANTS Setups,   \* [budget, live, v2, verify, review, explicit, troubles]: tool budget (0:
                    \* none), a reviewer model, final gate v2, automatic verification, automatic
                    \* post-change review, an explicit request to edit; troubles bounds the
                    \* model: the kinds of answers and objections that occur in the turn
          Bounces,  \* the gates that send a text back for how it is worded
          BounceLimit, Fallbacks, Extensions, RepairRounds, NoProgressFloor

ASSUME LimitsAssumption == /\ BounceLimit \in [Bounces -> Nat]
                           /\ Fallbacks \in Nat /\ Extensions \in Nat
                           /\ RepairRounds \in Nat /\ NoProgressFloor \in Nat
                           /\ \A s \in Setups : s.budget \in Nat

VARIABLES setup,
          loop,     \* [turns, limit, extensions, recovered]
          tried,    \* how often each kind of answer was sent back
          work,     \* what the turn did to the workspace and what became of it
          review,   \* the automatic post-change review
          last,     \* the last response: "text", "goesOn" (tools, a follow-up) or "other"
          outcome   \* how the turn ended

vars == <<setup, loop, tried, work, review, last, outcome>>

\* The answers and objections that are counted one by one.
Others == {"fallback", "commentary", "empty", "length", "continuation", "handoff", "filter",
           "nudge", "stop", "harness", "repair", "ledger", "answer", "churn"}
ASSUME BouncesAssumption == Bounces \cap Others = {}

Counters == Bounces \cup Others

Init == /\ setup \in Setups
        /\ loop = [turns |-> 0, limit |-> setup.budget, extensions |-> 0, recovered |-> FALSE]
        /\ tried = [c \in Counters |-> 0]
        \* unverified: edits since automatic verification last had its say;
        \* told, back: the model owes an answer that names the open verification,
        \* one that does not hand the edit back to the user
        /\ work = [attempted |-> FALSE, edited |-> FALSE, unverified |-> FALSE, unresolved |-> FALSE,
                   verdict |-> "none", scope |-> "unasked", told |-> FALSE, back |-> FALSE,
                   finalOnly |-> FALSE]
        \* cached: verdict for lastPostChangeReviewFingerprint; current: no edit since a review ran
        /\ review = [cached |-> "none", current |-> FALSE, exhausted |-> FALSE, stale |-> FALSE]
        /\ last = "none"
        /\ outcome = [verdict |-> "running", names |-> FALSE, review |-> "none"]

Occurs(c) == c \in setup.troubles
Running == outcome.verdict = "running"
Declined == work.verdict = "skipped"

\* The first statements of an iteration.
AtLimit == setup.budget > 0 /\ loop.turns >= loop.limit

\* Turns count against a budget; without one their parity keeps two iterations
\* in a row apart.
Turned == IF setup.budget > 0 THEN loop.turns + 1 ELSE 1 - loop.turns

\* Mutants of Respond: only an answer without tool calls is a turn.
RespondAnswers(kind) == /\ Running /\ ~AtLimit
                        /\ loop' = IF setup.budget > 0 /\ kind = "goesOn" THEN loop
                                                                         ELSE [loop EXCEPT !.turns = Turned]
                        /\ last' = kind
                        /\ UNCHANGED setup

Respond(kind) == /\ Running /\ ~AtLimit
                 /\ loop' = [loop EXCEPT !.turns = Turned]
                 /\ last' = kind
                 /\ UNCHANGED setup

Again == UNCHANGED outcome
End(verdict, names, r) == outcome' = [verdict |-> verdict, names |-> names, review |-> r]
Blocked == End("blocked", FALSE, "none") /\ UNCHANGED <<tried, work, review>>

Reset(zeroed) == [c \in Counters |-> IF c \in zeroed THEN 0 ELSE tried[c]]

\* Mutants of Heard: a text starts the stop hook's count again.
HeardAfresh == IF last' = "text" THEN Reset({"commentary", "stop"}) ELSE tried

\* A text ends a series of progress notes.
Heard == IF last' = "text" THEN Reset({"commentary"}) ELSE tried

SendBack(c) == /\ tried' = [Heard EXCEPT ![c] = @ + 1]
               /\ Again

\* Sent back at most limit times, and blocked the next time.
SendBackOrBlock(c, limit) ==
  /\ Occurs(c)
  /\ \/ tried[c] < limit /\ SendBack(c) /\ UNCHANGED <<work, review>>
     \/ tried[c] >= limit /\ Blocked

-----------------------------------------------------------------------------

\* The tool budget is used up: extensions (of 2 turns, for a
\* budget below 6) while the model makes progress, one last turn to conclude, then the turn ends.
Extend == /\ Running /\ AtLimit /\ loop.extensions < Extensions
          /\ loop' = [loop EXCEPT !.extensions = @ + 1, !.limit = @ + 2]
          /\ UNCHANGED <<setup, tried, work, review, last, outcome>>

Recover == /\ Running /\ AtLimit /\ ~loop.recovered
           /\ loop' = [loop EXCEPT !.recovered = TRUE, !.limit = @ + 1]
           /\ UNCHANGED <<setup, tried, work, review, last, outcome>>

LimitReached == /\ Running /\ AtLimit /\ loop.recovered
                /\ Blocked
                /\ UNCHANGED <<setup, loop, last>>

\* The user cancels, or the turn is no longer the agent's.
Cancel == /\ Running
          /\ End("canceled", FALSE, "none")
          /\ UNCHANGED <<setup, loop, tried, work, review, last>>

\* The request fails: each fallback model is tried once.  (A context overflow
\* compacts a history that is long, after which it is not.)
RequestFails == /\ Respond("other")
                /\ UNCHANGED <<work, review>>
                /\ \/ tried["fallback"] < Fallbacks /\ SendBack("fallback")
                   \/ End("failed", FALSE, "none") /\ UNCHANGED tried
-----------------------------------------------------------------------------
\* The model asks to go on without a tool call.
FollowUp == /\ Respond("goesOn") /\ ~work.finalOnly
            /\ tried' = Reset({"commentary"})
            /\ Again
            /\ UNCHANGED <<work, review>>

Commentary == /\ Respond("other")
              /\ SendBackOrBlock("commentary", 2)

\* No text: the token limit, the content filter, or nothing at all.  A cut
\* text counts as a length stop too.
Empty == /\ Respond("other")
         /\ \E c \in {"length", "filter", "empty"} : SendBackOrBlock(c, 1)

\* Automatic verification after the edits of an iteration: what follows from
\* each result.  The user is asked once a turn what to do with a failure
\* outside the patch.
Verified(w) ==
  LET done == [w EXCEPT !.unverified = FALSE]
  IN  IF ~setup.verify THEN {[done EXCEPT !.unresolved = FALSE]}
      ELSE {[done EXCEPT !.verdict = v, !.unresolved = v \in {"failed", "skipped"}] :
              v \in {"passed", "failed", "skipped", "disabled"}}
           \cup {[done EXCEPT !.verdict = "outside", !.scope = s, !.unresolved = (s # "finish")] :
                   s \in IF w.scope = "unasked" THEN {"finish", "repair"} ELSE {w.scope}}

\* Mutants of Edited: the edit leaves the fingerprint of the last review.
EditedKeepsReview(w) ==
  /\ work' = w
  /\ review' = [review EXCEPT !.current = FALSE, !.exhausted = FALSE, !.stale = FALSE]

\* An edit was applied: the review of the workspace is void.
Edited(w) ==
  /\ work' = w
  /\ review' = [cached |-> "none", current |-> FALSE, exhausted |-> FALSE, stale |-> FALSE]

\* A batch that a retry breaks off (a mismatching edit, an invalid call, a
\* compile error) goes to the next iteration past automatic verification.
Edit == /\ LET w == [work EXCEPT !.attempted = TRUE, !.edited = TRUE, !.finalOnly = FALSE,
                                 !.unverified = TRUE]
           IN  Edited(w) \/ \E v \in Verified(w) : Edited(v)
        /\ tried' = Reset({"commentary", "empty", "nudge", "harness", "ledger", "answer", "churn"})
        /\ Again

\* An edit tool was called in vain: only what was known of the review is void.
EditFails == /\ work' = [work EXCEPT !.attempted = TRUE]
             /\ review' = [review EXCEPT !.cached = "none", !.exhausted = FALSE]
             /\ tried' = Reset({"commentary", "empty", "nudge"})
             /\ Again

\* Other tools.  Without a new file or a success they bring nothing, and after
\* enough of that (and enough time) the turn ends; not once an edit was applied.
Inspect == \E news \in BOOLEAN :
  LET idle == ~news /\ ~work.edited /\ Occurs("churn")
      zero == Reset({"commentary", "empty", "nudge"} \cup IF idle THEN {} ELSE {"churn"})
  IN  /\ UNCHANGED <<work, review>>
      /\ tried' = IF idle /\ tried["churn"] < NoProgressFloor THEN [zero EXCEPT !["churn"] = @ + 1] ELSE zero
      /\ Again \/ (tried'["churn"] >= NoProgressFloor /\ End("blocked", FALSE, "none"))

\* Tool calls.  They are only answered, not executed, after a correction of the
\* final answer was asked for, when a detector of repeated calls objects, and
\* after verification was declined.  A detector or a gate before the write may
\* also end the turn.
Tools ==
  /\ Respond("goesOn")
  /\ \/ /\ tried' = Reset({"commentary"})
        /\ Again
        /\ UNCHANGED <<work, review>>
     \/ /\ ~work.finalOnly /\ Declined
        /\ tried' = Reset({"commentary", "empty", "nudge"})
        /\ Again
        /\ UNCHANGED <<work, review>>
     \/ /\ ~work.finalOnly /\ ~Declined
        /\ Edit \/ EditFails \/ Inspect
     \/ ~work.finalOnly /\ Blocked
-----------------------------------------------------------------------------
\* The gates a text passes, in their order.  d: it names the open verification.

\* Cut off by the token limit, or worded in a way some gate objects to.
Truncated == Occurs("continuation") /\ tried["continuation"] < 2 /\ SendBack("continuation") /\ UNCHANGED <<work, review>>

Bounced == \E b \in Bounces : /\ Occurs(b) /\ tried[b] < BounceLimit[b]
                              /\ SendBack(b)
                              /\ UNCHANGED <<work, review>>

\* An explicit request to edit is handed back, or only announced.
HandedBack == /\ setup.explicit /\ Occurs("handoff") /\ ~work.attempted /\ tried["handoff"] < 3
              /\ SendBack("handoff")
              /\ work' = [work EXCEPT !.back = TRUE]
              /\ UNCHANGED review

MustName(d) == work.unresolved /\ ~d /\ tried["nudge"] < 1

NameVerification == /\ SendBack("nudge")
                    /\ work' = [work EXCEPT !.told = TRUE]
                    /\ UNCHANGED review

\* FinalAnswerReadiness: an earlier request is still open.
Owes(d) == work.told /\ ~d /\ work.verdict # "passed"
HandsBack(h) == work.back /\ ~work.attempted /\ h

\* Sent back from here on, the text has met what was asked before; some gates
\* give the tools back.
Met == [work EXCEPT !.told = FALSE, !.back = FALSE]
SendBackWith(c, tools, r) == /\ SendBack(c)
                             /\ work' = IF tools THEN [Met EXCEPT !.finalOnly = FALSE] ELSE Met
                             /\ review' = r
BlockedWith(r) == End("blocked", FALSE, "none") /\ work' = Met /\ review' = r /\ UNCHANGED tried
Accept(how, d, said, r) == End(how, d, said) /\ work' = Met /\ review' = r /\ UNCHANGED tried

StopHook == /\ Occurs("stop")
            /\ \/ tried["stop"] < 3 /\ SendBackWith("stop", TRUE, review)
               \/ tried["stop"] >= 3 /\ BlockedWith(review)

\* runAutomaticPostChangeReviewGate: what the review says of the text.  A
\* failed review says nothing; findings that only lack verification are waived.
Reviews(d) ==
  IF ~work.edited THEN {"none"}
  ELSE IF ~setup.review THEN {"off"}
  ELSE IF d /\ work.verdict \in {"failed", "outside", "skipped", "disabled"} THEN {"skipped"}
  ELSE IF review.cached # "none" THEN {review.cached}
  ELSE {"clean", "blockers", "waived", "failed"}

\* A review that ran now covers the workspace as it is.
After(said) ==
  LET ran == said \in {"clean", "blockers", "waived"} /\ review.cached = "none"
  IN  [review EXCEPT !.cached = IF ran THEN said ELSE @, !.current = @ \/ ran]

\* Blockers go back to the model RepairRounds times, and once more when the
\* rounds are used up or the same blockers come again; then they pass.
Revise(said, r) ==
  /\ said = "blockers"
  /\ \/ tried["repair"] < RepairRounds /\ SendBackWith("repair", TRUE, r)
     \/ /\ ~review.exhausted
        /\ work' = [Met EXCEPT !.finalOnly = FALSE]
        /\ review' = [r EXCEPT !.exhausted = TRUE]
        /\ tried' = Heard /\ Again
Passes(said) == said = "blockers" => review.exhausted

\* The rest of the gates: a review that failed is run again, the runtime gate,
\* the reviewer of the final answer, the final gate of version 2.
Finish(d, before) ==
  \E said \in IF before = "failed" THEN Reviews(d) ELSE {before} :
    \/ Revise(said, After(said))
    \/ /\ Passes(said)
       /\ \/ ~setup.live /\ Occurs("ledger") /\ tried["ledger"] < 2 /\ SendBackWith("ledger", TRUE, After(said))
          \/ setup.live /\ Occurs("answer") /\ tried["answer"] < 2 /\ SendBackWith("answer", TRUE, After(said))
          \/ setup.v2 /\ tried["nudge"] < 2 /\ SendBackWith("nudge", FALSE, After(said))
          \/ setup.v2 /\ tried["nudge"] >= 2 /\ BlockedWith(After(said))
          \/ Accept("completed", d, said, After(said))

\* Mutants of HarnessInsists: only a declined verification must be named.
HarnessInsistsOnSkipped(d) == ~setup.live /\ work.unresolved /\ ~d /\ work.verdict = "skipped"

\* Without a reviewer model the harness insists that a failure of the patch or
\* a declined verification is named.
HarnessInsists(d) == ~setup.live /\ work.unresolved /\ ~d /\ work.verdict \in {"failed", "skipped"}

\* The harness objects: two revisions, then it adds the statements that are
\* missing itself; a stale review is run once more, or the turn ends blocked.
HarnessObjects(d, said) ==
  \/ /\ tried["harness"] < 2
     /\ SendBack("harness")
     /\ \E only \in BOOLEAN : work' = [Met EXCEPT !.finalOnly = only]
     /\ review' = After(said)
  \/ /\ tried["harness"] >= 2
     /\ \/ Accept("completed", d \/ HarnessInsists(d), said, After(said))
        \/ BlockedWith(After(said))
        \/ /\ work.edited /\ ~review.stale
           /\ Revise(said, [After(said) EXCEPT !.stale = TRUE])

Harness(d, said) == \/ (Occurs("harness") \/ HarnessInsists(d)) /\ HarnessObjects(d, said)
                    \/ ~HarnessInsists(d) /\ Finish(d, said)

Judge(d) ==
  \/ StopHook
  \/ work.scope = "finish" /\ Accept("ambient", TRUE, "none", review)
  \/ /\ work.scope # "finish"
     /\ \E said \in Reviews(d) : \/ Revise(said, After(said))
                                 \/ Passes(said) /\ Harness(d, said)

Text ==
  /\ Respond("text")
  /\ \/ Truncated \/ Bounced \/ HandedBack
     \/ \E d, h \in BOOLEAN :
          \/ MustName(d) /\ NameVerification
          \/ /\ ~MustName(d)
             /\ Owes(d) \/ HandsBack(h)
             /\ \/ tried["nudge"] < 2 /\ SendBack("nudge") /\ UNCHANGED <<work, review>>
                \/ tried["nudge"] >= 2 /\ HandsBack(h) /\ Blocked
          \/ ~MustName(d) /\ ~HandsBack(h) /\ (Owes(d) => tried["nudge"] >= 2) /\ Judge(d \/ Owes(d))
-----------------------------------------------------------------------------
Iterate == \/ Extend \/ Recover \/ LimitReached \/ RequestFails
           \/ FollowUp \/ Commentary \/ Empty \/ Tools \/ Text

Next == Iterate \/ Cancel

Spec == Init /\ [][Next]_vars
\* Requests have timeouts and finite retries, so an iteration ends.
FairSpec == Spec /\ WF_vars(Iterate)
-----------------------------------------------------------------------------
TypeOK ==
  /\ setup \in Setups
  /\ loop.turns \in Nat /\ loop.limit \in Nat /\ loop.extensions \in 0 .. Extensions
  /\ tried \in [Counters -> Nat]
  /\ outcome.verdict \in {"running", "completed", "ambient", "blocked", "failed", "canceled"}

\* A turn completes after an edit only with a post-change review of the
\* workspace as it is: one without blockers, or with blockers the model was
\* told would end the turn.  A review that is off, that failed twice, or that an
\* answer naming the open verification skips is not counted.
\* (runAutomaticPostChangeReviewGate and its cached fingerprint)
ReviewCovers ==
  outcome.verdict = "completed" /\ work.edited /\ outcome.review \notin {"off", "failed", "skipped"} =>
    /\ review.current
    /\ outcome.review \in {"clean", "waived"} \/ review.exhausted

\* Without a reviewer model, a turn whose verification was declined or failed
\* in the patch completes only with an answer that says so, however the text
\* got past the gates that ask for it.  (completeLoop's verification gate,
\* FinalAnswerReadiness, the coding harness and its healing)
UnverifiedIsNamed ==
  outcome.verdict \in {"completed", "ambient"} /\ work.unresolved
    /\ work.verdict \in {"failed", "skipped"} /\ ~setup.live => outcome.names

\* With a tool budget the turn ends, whatever the model does.  (the head of
\* the loop in completeLoop)
BudgetEnds == setup.budget > 0 ~> ~Running

\* Without one it ends if from some point on the model neither calls tools nor
\* asks to go on: the gates cannot send it back for ever.  (the counters of
\* completeLoop)
TurnEnds == <>[](last # "goesOn") => <>~Running

=============================================================================
