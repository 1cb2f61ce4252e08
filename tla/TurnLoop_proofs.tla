--------------------------- MODULE TurnLoop_proofs ---------------------------
(***************************************************************************)
(* Proofs about TurnLoop for every setup, every budget and every number of *)
(* times a gate may send an answer back.                                   *)
(*                                                                         *)
(* A turn ends in one step, of a gate that accepts the text, so both       *)
(* theorems are about what that step reads.  ReviewCovers needs to know    *)
(* that a cached verdict is one of the workspace as it is (Sound): only    *)
(* then may a gate pass a text on a review it did not run.  The last       *)
(* section is about how long a turn can be: GatesGiveUp counts what the    *)
(* gates may still send back.                                              *)
(***************************************************************************)
EXTENDS TurnLoop, TLAPS

Verdicts == {"none", "passed", "failed", "skipped", "disabled", "outside"}
Scopes == {"unasked", "finish", "repair"}
Said == {"none", "off", "skipped", "clean", "blockers", "waived", "failed"}

Work == [attempted : BOOLEAN, edited : BOOLEAN, unverified : BOOLEAN, unresolved : BOOLEAN,
         verdict : Verdicts, scope : Scopes, told : BOOLEAN, back : BOOLEAN, finalOnly : BOOLEAN]
Review == [cached : {"none", "clean", "blockers", "waived"}, current : BOOLEAN,
           exhausted : BOOLEAN, stale : BOOLEAN]

\* A verdict is cached only for the workspace it was given on.
Sound(r) == r \in Review /\ (r.cached # "none" => r.current)

\* What a turn that ended with verdict v, the answer and the review may leave
\* in the work w and the review r.
Justified(v, names, said, w, r) ==
  /\ v = "completed" /\ w.edited /\ said \notin {"off", "failed", "skipped"} =>
       r.current /\ (said \in {"clean", "waived"} \/ r.exhausted)
  /\ v \in {"completed", "ambient"} /\ w.unresolved /\ w.verdict \in {"failed", "skipped"}
       /\ ~setup.live => names

GateInv == /\ work \in Work
           /\ Sound(review)
           /\ Justified(outcome.verdict, outcome.names, outcome.review, work, review)

\* The step goes on or ends without an answer.
NoAnswer == outcome' = outcome \/ outcome'.verdict \in {"blocked", "canceled", "failed"}

LEMMA EndRecord ==
  ASSUME NEW v, NEW names, NEW r, End(v, names, r)
  PROVE  outcome'.verdict = v /\ outcome'.names = names /\ outcome'.review = r
  BY DEF End

LEMMA NoAnswerInv ==
  ASSUME Running, NoAnswer, work' \in Work, Sound(review'), UNCHANGED setup
  PROVE  GateInv'
<1>1. outcome'.verdict \notin {"completed", "ambient"}
  BY DEF NoAnswer, Running
<1>2. QED  BY <1>1 DEF GateInv, Justified, Sound

LEMMA AnswerInv ==
  ASSUME NEW v, NEW names, NEW said, End(v, names, said), work' \in Work, Sound(review'),
         UNCHANGED setup, Justified(v, names, said, work', review')
  PROVE  GateInv'
<1>1. outcome'.verdict = v /\ outcome'.names = names /\ outcome'.review = said
  BY EndRecord
<1>2. QED  BY <1>1 DEF GateInv, Justified, Sound

LEMMA MetWork ==
  ASSUME work \in Work
  PROVE  /\ Met \in Work /\ [Met EXCEPT !.finalOnly = FALSE] \in Work
         /\ \A only \in BOOLEAN : [Met EXCEPT !.finalOnly = only] \in Work
         /\ Met.edited = work.edited /\ Met.unresolved = work.unresolved
         /\ Met.verdict = work.verdict
<1> DEFINE w == [work EXCEPT !.told = FALSE]
<1>1. /\ w \in Work /\ w.edited = work.edited /\ w.unresolved = work.unresolved
      /\ w.verdict = work.verdict
  BY DEF Work
<1>2. [w EXCEPT !.back = FALSE] = Met
  BY DEF Met
<1> HIDE DEF w
<1>3. /\ Met \in Work /\ Met.edited = w.edited /\ Met.unresolved = w.unresolved
      /\ Met.verdict = w.verdict
  BY <1>1, <1>2 DEF Work
<1>4. \A only \in BOOLEAN : [Met EXCEPT !.finalOnly = only] \in Work
  BY <1>3 DEF Work
<1>5. QED  BY <1>1, <1>3, <1>4

LEMMA BlockedStep ==
  ASSUME Running, GateInv, Blocked, UNCHANGED setup PROVE GateInv'
<1>1. outcome'.verdict = "blocked" /\ UNCHANGED <<work, review>>
  BY EndRecord DEF Blocked
<1>2. QED  BY <1>1, NoAnswerInv DEF GateInv, NoAnswer

LEMMA SendBackStep ==
  ASSUME Running, NEW c, SendBack(c), work' \in Work, Sound(review'), UNCHANGED setup PROVE GateInv'
  BY NoAnswerInv DEF SendBack, Again, NoAnswer

LEMMA SendBackWithStep ==
  ASSUME Running, GateInv, NEW c, NEW tools \in BOOLEAN, NEW r, SendBackWith(c, tools, r), Sound(r),
         UNCHANGED setup
  PROVE  GateInv'
  BY MetWork, SendBackStep DEF SendBackWith, GateInv

LEMMA BlockedWithStep ==
  ASSUME Running, GateInv, NEW r, BlockedWith(r), Sound(r), UNCHANGED setup PROVE GateInv'
<1>1. outcome'.verdict = "blocked" /\ work' \in Work /\ review' = r
  BY EndRecord, MetWork DEF BlockedWith, GateInv
<1>2. QED  BY <1>1, NoAnswerInv DEF NoAnswer

LEMMA AcceptStep ==
  ASSUME GateInv, NEW v, NEW names, NEW said, NEW r, Accept(v, names, said, r), Sound(r),
         UNCHANGED setup, Justified(v, names, said, work, r)
  PROVE  GateInv'
<1>1. work' \in Work /\ review' = r /\ End(v, names, said)
  BY MetWork DEF Accept, GateInv
<1>2. Justified(v, names, said, work', review')
  BY <1>1, MetWork DEF Accept, Justified, GateInv
<1>3. QED  BY <1>1, <1>2, AnswerInv

\* What a review says, and what it leaves.
LEMMA ReviewsSay ==
  ASSUME GateInv, NEW d, NEW said \in Reviews(d)
  PROVE  /\ said \in Said
         /\ work.edited => said # "none"
         /\ Sound(After(said))
         /\ said \in {"clean", "blockers", "waived"} => After(said).current
         /\ After(said).exhausted = review.exhausted
<1>1. review \in Review /\ (review.cached # "none" => review.current)
  BY DEF GateInv, Sound
<1>2. said \in Said /\ (work.edited => said # "none")
  BY <1>1 DEF Reviews, Said, Review
<1> DEFINE ran == said \in {"clean", "blockers", "waived"} /\ review.cached = "none"
           a == [review EXCEPT !.cached = IF ran THEN said ELSE @]
<1>3. /\ a \in Review /\ a.current = review.current /\ a.exhausted = review.exhausted
      /\ a.cached = IF ran THEN said ELSE review.cached
  BY <1>1 DEF Review
<1>4. After(said) = [a EXCEPT !.current = review.current \/ ran]
  BY <1>3 DEF After, Review
<1>5. /\ After(said) \in Review /\ After(said).current = (review.current \/ ran)
      /\ After(said).exhausted = review.exhausted /\ After(said).cached = a.cached
  BY <1>3, <1>4 DEF Review
<1>6. QED  BY <1>1, <1>2, <1>3, <1>5 DEF Sound

LEMMA ReviseStep ==
  ASSUME Running, GateInv, NEW said, NEW r, Sound(r), Revise(said, r), UNCHANGED setup
  PROVE  GateInv'
<1>1. CASE SendBackWith("repair", TRUE, r)
  BY <1>1, SendBackWithStep
<1>2. CASE /\ work' = [Met EXCEPT !.finalOnly = FALSE]
           /\ review' = [r EXCEPT !.exhausted = TRUE] /\ Again
  <2>1. work' \in Work  BY <1>2, MetWork DEF GateInv
  <2>2. Sound(review')  BY <1>2 DEF Sound, Review
  <2>3. QED  BY <1>2, <2>1, <2>2, NoAnswerInv DEF NoAnswer, Again
<1>3. QED  BY <1>1, <1>2 DEF Revise

\* A text that passes the review gate completes the turn on what the gate saw.
LEMMA PassesJustify ==
  ASSUME GateInv, NEW d, NEW e, NEW said \in Reviews(d), Passes(said),
         work.unresolved /\ work.verdict \in {"failed", "skipped"} /\ ~setup.live => e
  PROVE  Justified("completed", e, said, work, After(said))
  BY ReviewsSay DEF Passes, Justified, Said

LEMMA FinishStep ==
  ASSUME Running, GateInv, NEW d \in BOOLEAN, NEW before \in Reviews(d), ~HarnessInsists(d),
         Finish(d, before), UNCHANGED setup
  PROVE  GateInv'
<1>1. PICK said \in Reviews(d) :
        \/ Revise(said, After(said))
        \/ /\ Passes(said)
           /\ \/ SendBackWith("ledger", TRUE, After(said))
              \/ SendBackWith("answer", TRUE, After(said))
              \/ SendBackWith("nudge", FALSE, After(said))
              \/ BlockedWith(After(said))
              \/ Accept("completed", d, said, After(said))
  BY DEF Finish
<1>2. Sound(After(said))  BY ReviewsSay
<1>3. CASE Accept("completed", d, said, After(said)) /\ Passes(said)
  <2>1. work.unresolved /\ work.verdict \in {"failed", "skipped"} /\ ~setup.live => d
    BY DEF HarnessInsists
  <2>2. QED  BY <1>2, <1>3, <2>1, PassesJustify, AcceptStep
<1>4. QED  BY <1>1, <1>2, <1>3, ReviseStep, SendBackWithStep, BlockedWithStep

LEMMA HarnessObjectsStep ==
  ASSUME Running, GateInv, NEW d \in BOOLEAN, NEW said \in Reviews(d), Passes(said),
         HarnessObjects(d, said), UNCHANGED setup
  PROVE  GateInv'
<1>1. Sound(After(said))  BY ReviewsSay
<1>2. CASE SendBack("harness") /\ review' = After(said)
           /\ \E only \in BOOLEAN : work' = [Met EXCEPT !.finalOnly = only]
  <2>1. work' \in Work  BY <1>2, MetWork DEF GateInv
  <2>2. QED  BY <1>1, <1>2, <2>1, SendBackStep
<1>3. CASE Accept("completed", d \/ HarnessInsists(d), said, After(said))
  <2>1. Justified("completed", d \/ HarnessInsists(d), said, work, After(said))
    <3>1. work.unresolved /\ work.verdict \in {"failed", "skipped"} /\ ~setup.live =>
            d \/ HarnessInsists(d)
      BY DEF HarnessInsists
    <3>2. QED  BY <3>1, PassesJustify
  <2>2. QED  BY <1>1, <1>3, <2>1, AcceptStep
<1>4. CASE Revise(said, [After(said) EXCEPT !.stale = TRUE])
  <2>1. Sound([After(said) EXCEPT !.stale = TRUE])  BY <1>1 DEF Sound, Review
  <2>2. QED  BY <1>4, <2>1, ReviseStep
<1>5. QED  BY <1>1, <1>2, <1>3, <1>4, BlockedWithStep DEF HarnessObjects

LEMMA JudgeStep ==
  ASSUME Running, GateInv, NEW d \in BOOLEAN, Judge(d), UNCHANGED setup PROVE GateInv'
<1>1. CASE StopHook
  BY <1>1, SendBackWithStep, BlockedWithStep DEF StopHook, GateInv
<1>2. CASE Accept("ambient", TRUE, "none", review)
  BY <1>2, AcceptStep DEF Justified, GateInv
<1>3. CASE \E said \in Reviews(d) : Revise(said, After(said)) \/ (Passes(said) /\ Harness(d, said))
  <2>1. PICK said \in Reviews(d) : Revise(said, After(said)) \/ (Passes(said) /\ Harness(d, said))
    BY <1>3
  <2>2. CASE Revise(said, After(said))  BY <2>2, ReviewsSay, ReviseStep
  <2>3. CASE Passes(said) /\ HarnessObjects(d, said)  BY <2>3, HarnessObjectsStep
  <2>4. CASE ~HarnessInsists(d) /\ Finish(d, said)  BY <2>4, FinishStep
  <2>5. QED  BY <2>1, <2>2, <2>3, <2>4 DEF Harness
<1>4. QED  BY <1>1, <1>2, <1>3 DEF Judge

LEMMA TextStep ==
  ASSUME GateInv, Text PROVE GateInv'
<1>1. Running /\ UNCHANGED setup  BY DEF Text, Respond
<1>2. CASE Truncated \/ Bounced
  BY <1>1, <1>2, SendBackStep DEF Truncated, Bounced, GateInv
<1>3. CASE HandedBack
  BY <1>1, <1>3, SendBackStep DEF HandedBack, GateInv, Work
<1>4. CASE \E d, h \in BOOLEAN :
          \/ MustName(d) /\ NameVerification
          \/ /\ ~MustName(d)
             /\ Owes(d) \/ HandsBack(h)
             /\ \/ tried["nudge"] < 2 /\ SendBack("nudge") /\ UNCHANGED <<work, review>>
                \/ tried["nudge"] >= 2 /\ HandsBack(h) /\ Blocked
          \/ ~MustName(d) /\ ~HandsBack(h) /\ (Owes(d) => tried["nudge"] >= 2) /\ Judge(d \/ Owes(d))
  <2>1. CASE NameVerification
    BY <1>1, <2>1, SendBackStep DEF NameVerification, GateInv, Work
  <2>2. CASE SendBack("nudge") /\ UNCHANGED <<work, review>>
    BY <1>1, <2>2, SendBackStep DEF GateInv
  <2>3. CASE Blocked  BY <1>1, <2>3, BlockedStep
  <2>4. ASSUME NEW d \in BOOLEAN, Judge(d \/ Owes(d)) PROVE GateInv'
    <3>1. (d \/ Owes(d)) \in BOOLEAN  BY DEF Owes
    <3>2. QED  BY <1>1, <2>4, <3>1, JudgeStep
  <2>5. QED  BY <1>4, <2>1, <2>2, <2>3, <2>4
<1>5. QED  BY <1>2, <1>3, <1>4 DEF Text
-----------------------------------------------------------------------------
\* The tools of an iteration.
LEMMA VerifiedWork ==
  ASSUME NEW w \in Work, NEW v \in Verified(w)
  PROVE  v \in Work
<1> DEFINE done == [w EXCEPT !.unverified = FALSE]
<1>1. done \in Work  BY DEF Work
<1>2. CASE v = [done EXCEPT !.unresolved = FALSE]
  BY <1>1, <1>2 DEF Work
<1>3. CASE \E r \in {"passed", "failed", "skipped", "disabled"} :
             v = [done EXCEPT !.verdict = r, !.unresolved = r \in {"failed", "skipped"}]
  <2>1. PICK r \in {"passed", "failed", "skipped", "disabled"} :
          v = [done EXCEPT !.verdict = r, !.unresolved = r \in {"failed", "skipped"}]
    BY <1>3
  <2> DEFINE a == [done EXCEPT !.verdict = r]
  <2>2. a \in Work  BY <1>1 DEF Work, Verdicts
  <2>3. ASSUME NEW u \in BOOLEAN PROVE [a EXCEPT !.unresolved = u] \in Work
    BY <2>2 DEF Work
  <2>4. (r \in {"failed", "skipped"}) \in BOOLEAN  OBVIOUS
  <2> HIDE DEF a
  <2>5. [a EXCEPT !.unresolved = (r \in {"failed", "skipped"})] \in Work
    BY <2>3, <2>4, Zenon
  <2>6. QED  BY <2>1, <2>5, Zenon DEF a
<1>4. CASE \E s \in {"finish", "repair", w.scope} :
             v = [done EXCEPT !.verdict = "outside", !.scope = s, !.unresolved = (s # "finish")]
  <2>1. PICK s \in {"finish", "repair", w.scope} :
          v = [done EXCEPT !.verdict = "outside", !.scope = s, !.unresolved = (s # "finish")]
    BY <1>4
  <2> DEFINE a == [done EXCEPT !.verdict = "outside"]
             b == [a EXCEPT !.scope = s]
  <2>2. a \in Work  BY <1>1 DEF Work, Verdicts
  <2>3. s \in Scopes  BY <2>1 DEF Work, Scopes
  <2>4. b \in Work  BY <2>2, <2>3 DEF Work
  <2>5. ASSUME NEW u \in BOOLEAN PROVE [b EXCEPT !.unresolved = u] \in Work
    BY <2>4 DEF Work
  <2>6. (s # "finish") \in BOOLEAN  OBVIOUS
  <2> HIDE DEF b
  <2>7. [b EXCEPT !.unresolved = (s # "finish")] \in Work
    BY <2>5, <2>6, Zenon
  <2>8. QED  BY <2>1, <2>7, Zenon DEF b
<1>5. QED  BY <1>2, <1>3, <1>4 DEF Verified

LEMMA EditStep ==
  ASSUME Running, GateInv, Edit, UNCHANGED setup PROVE GateInv'
<1> DEFINE a == [work EXCEPT !.attempted = TRUE]
           b == [a EXCEPT !.edited = TRUE]
           c == [b EXCEPT !.finalOnly = FALSE]
           w == [c EXCEPT !.unverified = TRUE]
<1>1. w \in Work
  <2>1. a \in Work  BY DEF Work, GateInv
  <2>2. b \in Work  BY <2>1 DEF Work
  <2>3. c \in Work  BY <2>2 DEF Work
  <2>4. QED  BY <2>3 DEF Work
<1>2. w = [work EXCEPT !.attempted = TRUE, !.edited = TRUE, !.finalOnly = FALSE, !.unverified = TRUE]
  OBVIOUS
<1>3. Edited(w) \/ \E v \in Verified(w) : Edited(v)
  BY <1>2 DEF Edit
<1>4. PICK v \in Work : Edited(v)
  BY <1>1, <1>3, VerifiedWork
<1>5. work' \in Work /\ Sound(review')
  BY <1>4 DEF Edited, Sound, Review
<1>6. QED  BY <1>5, NoAnswerInv DEF Edit, Again, NoAnswer

LEMMA EditFailsStep ==
  ASSUME Running, GateInv, EditFails, UNCHANGED setup PROVE GateInv'
<1>1. work' \in Work  BY DEF EditFails, GateInv, Work
<1>2. Sound(review')
  <2>1. [review EXCEPT !.cached = "none"] \in Review /\ [review EXCEPT !.cached = "none"].cached = "none"
    BY DEF GateInv, Sound, Review
  <2>2. QED  BY <2>1 DEF EditFails, Sound, Review
<1>3. QED  BY <1>1, <1>2, NoAnswerInv DEF EditFails, Again, NoAnswer

LEMMA InspectStep ==
  ASSUME Running, GateInv, Inspect, UNCHANGED setup PROVE GateInv'
<1>1. UNCHANGED <<work, review>> /\ (Again \/ End("blocked", FALSE, "none"))
  BY DEF Inspect
<1>2. NoAnswer  BY <1>1, EndRecord DEF NoAnswer, Again
<1>3. QED  BY <1>1, <1>2, NoAnswerInv DEF GateInv

LEMMA ToolsStep ==
  ASSUME GateInv, Tools PROVE GateInv'
<1>1. Running /\ UNCHANGED setup  BY DEF Tools, Respond
<1>2. CASE Again /\ UNCHANGED <<work, review>>
  BY <1>1, <1>2, NoAnswerInv DEF Again, NoAnswer, GateInv
<1>3. QED
  BY <1>1, <1>2, EditStep, EditFailsStep, InspectStep, BlockedStep DEF Tools

\* The other ways an iteration goes on or ends.
LEMMA OtherStep ==
  ASSUME GateInv,
         Extend \/ Recover \/ LimitReached \/ RequestFails \/ FollowUp \/ Commentary \/ Empty \/ Cancel
  PROVE  GateInv'
<1>1. Running /\ UNCHANGED setup
  BY DEF Extend, Recover, LimitReached, RequestFails, FollowUp, Commentary, Empty, Cancel, Respond
<1>2. ASSUME UNCHANGED <<work, review>>, NoAnswer PROVE GateInv'
  BY <1>1, <1>2, NoAnswerInv DEF GateInv
<1>3. CASE Extend \/ Recover
  BY <1>2, <1>3 DEF Extend, Recover, NoAnswer
<1>4. CASE LimitReached
  BY <1>1, <1>4, BlockedStep DEF LimitReached
<1>5. CASE RequestFails
  BY <1>2, <1>5, EndRecord DEF RequestFails, SendBack, Again, NoAnswer
<1>6. CASE FollowUp
  BY <1>2, <1>6 DEF FollowUp, Again, NoAnswer
<1>7. ASSUME NEW c, NEW limit, SendBackOrBlock(c, limit) PROVE GateInv'
  BY <1>1, <1>2, <1>7, BlockedStep DEF SendBackOrBlock, SendBack, Again, NoAnswer
<1>8. CASE Commentary \/ Empty
  BY <1>7, <1>8 DEF Commentary, Empty
<1>9. CASE Cancel
  BY <1>2, <1>9, EndRecord DEF Cancel, NoAnswer
<1>10. QED  BY <1>3, <1>4, <1>5, <1>6, <1>8, <1>9

LEMMA GateInvInductive == /\ Init => GateInv
                          /\ GateInv /\ [Next]_vars => GateInv'
<1>1. Init => GateInv
  BY DEF Init, GateInv, Sound, Review, Work, Verdicts, Scopes, Justified
<1>2. GateInv /\ UNCHANGED vars => GateInv'
  BY DEF vars, GateInv, Sound, Justified
<1>3. GateInv /\ Next => GateInv'
  BY TextStep, ToolsStep, OtherStep DEF Next, Iterate
<1>4. QED  BY <1>1, <1>2, <1>3

\* A turn completes after an edit only on a review of the workspace as it is,
\* without blockers or with blockers the model was told of.
\* (runAutomaticPostChangeReviewGate and its cached fingerprint)
THEOREM ReviewOfTheWorkspace == Spec => []ReviewCovers
<1>1. GateInv => ReviewCovers
  BY DEF GateInv, Justified, ReviewCovers
<1>2. QED  BY <1>1, GateInvInductive, PTL DEF Spec

\* Without a reviewer model no text that hides a declined or failed
\* verification completes the turn, whichever gate lets it pass.
\* (completeLoop's verification gate, the coding harness and its healing)
THEOREM VerificationIsNamed == Spec => []UnverifiedIsNamed
<1>1. GateInv => UnverifiedIsNamed
  BY DEF GateInv, Justified, UnverifiedIsNamed
<1>2. QED  BY <1>1, GateInvInductive, PTL DEF Spec
-----------------------------------------------------------------------------
\* The types, and the turns a budget allows: each extension adds two, the
\* last turn to conclude one.
Loop == [turns : Nat, limit : Nat, extensions : 0 .. Extensions, recovered : BOOLEAN]

WithinBudget ==
  setup.budget > 0 => /\ loop.turns <= loop.limit
                      /\ loop.limit <= setup.budget + 2 * Extensions + 1

LoopInv == /\ setup \in Setups
           /\ loop \in Loop
           /\ setup.budget = 0 => loop.turns \in {0, 1}
           /\ setup.budget > 0 => /\ loop.turns <= loop.limit
                                  /\ loop.limit = setup.budget + 2 * loop.extensions
                                                  + (IF loop.recovered THEN 1 ELSE 0)

TriedOutcome == /\ tried \in [Counters -> Nat]
                /\ outcome.verdict \in {"running", "completed", "ambient", "blocked", "failed", "canceled"}

LEMMA LoopInvInductive == /\ Init => LoopInv
                          /\ LoopInv /\ [Next]_vars => LoopInv'
<1> USE LimitsAssumption DEF LoopInv, Loop
<1>1. Init => LoopInv
  BY DEF Init
<1>2. ASSUME LoopInv, NEW kind, Respond(kind) PROVE LoopInv'
  <2>1. UNCHANGED setup /\ loop' = [loop EXCEPT !.turns = Turned] /\ ~AtLimit
    BY <1>2 DEF Respond
  <2>2. Turned \in Nat /\ loop'.turns = Turned /\ loop' \in Loop
        /\ loop'.limit = loop.limit /\ loop'.extensions = loop.extensions
        /\ loop'.recovered = loop.recovered
    BY <1>2, <2>1 DEF Turned
  <2>3. QED  BY <1>2, <2>1, <2>2 DEF Turned, AtLimit
<1>3. ASSUME LoopInv, Extend PROVE LoopInv'
  <2> DEFINE a == [loop EXCEPT !.extensions = @ + 1]
  <2>1. /\ a \in Loop /\ a.limit = loop.limit /\ a.turns = loop.turns /\ a.recovered = loop.recovered
        /\ a.extensions = loop.extensions + 1
    BY <1>3 DEF Extend
  <2>2. loop' = [a EXCEPT !.limit = a.limit + 2]
    BY <1>3, <2>1 DEF Extend
  <2> HIDE DEF a
  <2>3. /\ loop' \in Loop /\ loop'.limit = loop.limit + 2 /\ loop'.turns = loop.turns
        /\ loop'.recovered = loop.recovered /\ loop'.extensions = loop.extensions + 1
    BY <2>1, <2>2
  <2>4. UNCHANGED setup  BY <1>3 DEF Extend
  <2>5. QED  BY <1>3, <2>3, <2>4
<1>4. ASSUME LoopInv, Recover PROVE LoopInv'
  <2> DEFINE a == [loop EXCEPT !.recovered = TRUE]
  <2>1. /\ a \in Loop /\ a.limit = loop.limit /\ a.turns = loop.turns /\ a.recovered = TRUE
        /\ a.extensions = loop.extensions
    BY <1>4 DEF Recover
  <2>2. loop' = [a EXCEPT !.limit = a.limit + 1]
    BY <1>4, <2>1 DEF Recover
  <2> HIDE DEF a
  <2>3. /\ loop' \in Loop /\ loop'.limit = loop.limit + 1 /\ loop'.turns = loop.turns
        /\ loop'.recovered = TRUE /\ loop'.extensions = loop.extensions
    BY <2>1, <2>2
  <2>4. UNCHANGED setup /\ ~loop.recovered  BY <1>4 DEF Recover
  <2>5. QED  BY <1>4, <2>3, <2>4
<1>5. LoopInv /\ UNCHANGED <<setup, loop>> => LoopInv'
  OBVIOUS
<1>6. LoopInv /\ [Next]_vars => LoopInv'
  BY <1>2, <1>3, <1>4, <1>5
     DEF Next, Iterate, vars, LimitReached, Cancel, RequestFails, FollowUp, Commentary, Empty, Tools, Text
<1>7. QED  BY <1>1, <1>6

LEMMA ResetTyped ==
  ASSUME tried \in [Counters -> Nat]
  PROVE  /\ \A zeroed : Reset(zeroed) \in [Counters -> Nat]
         /\ Heard \in [Counters -> Nat]
  BY DEF Reset, Heard

LEMMA SendBackTyped ==
  ASSUME TriedOutcome, NEW c \in Counters, SendBack(c) PROVE TriedOutcome'
  BY ResetTyped DEF SendBack, Again, TriedOutcome

\* The step leaves the counters alone and ends the turn, or it sends back.
LEMMA EndTyped ==
  ASSUME TriedOutcome, UNCHANGED tried,
         NEW v \in {"completed", "ambient", "blocked", "failed", "canceled"}, NEW n, NEW r, End(v, n, r)
  PROVE  TriedOutcome'
  BY EndRecord DEF TriedOutcome

LEMMA GatesTyped ==
  ASSUME TriedOutcome
  PROVE  /\ Blocked => TriedOutcome'
         /\ \A r : BlockedWith(r) => TriedOutcome'
         /\ \A n, said, r : \A v \in {"completed", "ambient"} : Accept(v, n, said, r) => TriedOutcome'
         /\ \A tools, r : \A c \in Counters : SendBackWith(c, tools, r) => TriedOutcome'
         /\ \A said, r : Revise(said, r) => TriedOutcome'
<1>1. Blocked => TriedOutcome'
  BY EndTyped DEF Blocked
<1>2. \A r : BlockedWith(r) => TriedOutcome'
  BY EndTyped DEF BlockedWith
<1>3. ASSUME NEW n, NEW said, NEW r, NEW v \in {"completed", "ambient"}, Accept(v, n, said, r)
      PROVE  TriedOutcome'
  BY <1>3, EndTyped DEF Accept
<1>4. \A tools, r : \A c \in Counters : SendBackWith(c, tools, r) => TriedOutcome'
  BY SendBackTyped DEF SendBackWith
<1>5. ASSUME NEW said, NEW r, Revise(said, r) PROVE TriedOutcome'
  <2>1. CASE SendBackWith("repair", TRUE, r)
    BY <1>4, <2>1 DEF Counters, Others
  <2>2. CASE tried' = Heard /\ Again
    BY <2>2, ResetTyped DEF Again, TriedOutcome
  <2>3. QED  BY <1>5, <2>1, <2>2 DEF Revise
<1>6. QED  BY <1>1, <1>2, <1>3, <1>4, <1>5

LEMMA JudgeTyped ==
  ASSUME TriedOutcome, NEW d, Judge(d) PROVE TriedOutcome'
<1> USE GatesTyped, SendBackTyped
<1>1. ASSUME NEW before, Finish(d, before) PROVE TriedOutcome'
  BY <1>1 DEF Finish, Counters, Others
<1>2. ASSUME NEW said, HarnessObjects(d, said) PROVE TriedOutcome'
  BY <1>2 DEF HarnessObjects, Counters, Others
<1>3. StopHook => TriedOutcome'
  BY DEF StopHook, Counters, Others
<1>4. QED  BY <1>1, <1>2, <1>3 DEF Judge, Harness

LEMMA TextTyped ==
  ASSUME TriedOutcome, Text PROVE TriedOutcome'
<1>1. \A c \in Counters : SendBack(c) => TriedOutcome'
  BY SendBackTyped
<1>2. Truncated \/ Bounced \/ HandedBack \/ NameVerification => TriedOutcome'
  BY <1>1 DEF Truncated, Bounced, HandedBack, NameVerification, Counters, Others
<1>3. SendBack("nudge") \/ Blocked => TriedOutcome'
  BY <1>1, GatesTyped DEF Counters, Others
<1>4. QED  BY <1>2, <1>3, JudgeTyped DEF Text

LEMMA ToolsTyped ==
  ASSUME TriedOutcome, Tools PROVE TriedOutcome'
<1>1. ASSUME NEW zeroed, tried' = Reset(zeroed), Again PROVE TriedOutcome'
  BY <1>1, ResetTyped DEF TriedOutcome, Again
<1>2. Inspect => TriedOutcome'
  <2>1. ASSUME Inspect PROVE tried' \in [Counters -> Nat]
    <3>1. PICK zeroed :
            \/ tried' = Reset(zeroed)
            \/ tried' = [Reset(zeroed) EXCEPT !["churn"] = @ + 1]
      BY <2>1 DEF Inspect
    <3>2. QED  BY <3>1, ResetTyped DEF TriedOutcome, Counters, Others
  <2>2. Inspect => Again \/ End("blocked", FALSE, "none")
    BY DEF Inspect
  <2>3. QED  BY <2>1, <2>2, EndRecord DEF Again, TriedOutcome
<1>3. Edit \/ EditFails => TriedOutcome'
  BY <1>1 DEF Edit, EditFails
<1>4. QED  BY <1>1, <1>2, <1>3, GatesTyped DEF Tools

LEMMA TriedInductive == /\ Init => TriedOutcome
                        /\ TriedOutcome /\ [Next]_vars => TriedOutcome'
<1>1. Init => TriedOutcome
  BY DEF Init, TriedOutcome
<1>2. ASSUME TriedOutcome, [Next]_vars PROVE TriedOutcome'
  <2>1. \A limit : \A c \in Counters : SendBackOrBlock(c, limit) => TriedOutcome'
    BY <1>2, SendBackTyped, GatesTyped DEF SendBackOrBlock
  <2>2. CASE Commentary \/ Empty  BY <2>1, <2>2 DEF Commentary, Empty, Counters, Others
  <2>3. CASE RequestFails
    BY <1>2, <2>3, SendBackTyped, EndTyped DEF RequestFails, Counters, Others
  <2>4. CASE FollowUp  BY <1>2, <2>4, ResetTyped DEF FollowUp, Again, TriedOutcome
  <2>5. CASE LimitReached \/ Cancel
    BY <1>2, <2>5, GatesTyped, EndTyped DEF LimitReached, Cancel
  <2>6. CASE Extend \/ Recover \/ UNCHANGED vars
    BY <1>2, <2>6 DEF Extend, Recover, vars, TriedOutcome
  <2>7. QED  BY <1>2, <2>2, <2>3, <2>4, <2>5, <2>6, ToolsTyped, TextTyped DEF Next, Iterate
<1>3. QED  BY <1>1, <1>2

\* Every counter of the turn is a number, for every setup.  (completeLoop)
THEOREM TurnTypes == Spec => []TypeOK
<1>1. LoopInv /\ TriedOutcome => TypeOK
  BY DEF LoopInv, Loop, TriedOutcome, TypeOK
<1>2. QED  BY <1>1, LoopInvInductive, TriedInductive, PTL DEF Spec

\* The extensions and the last turn are granted once each: whatever the model
\* does, a turn with a tool budget asks it a bounded number of times, which is
\* what BudgetEnds rests on.  (the head of the loop in completeLoop)
THEOREM BudgetIsBounded == Spec => []WithinBudget
<1>1. LoopInv => WithinBudget
  BY LimitsAssumption DEF LoopInv, Loop, WithinBudget
<1>2. QED  BY <1>1, LoopInvInductive, PTL DEF Spec
-----------------------------------------------------------------------------
(* The gates: how often each may send the model back, and what is left of  *)
(* a turn in which it calls no more tools.                                 *)

Limit(c) == CASE c \in Bounces -> BounceLimit[c]
              [] c = "fallback" -> Fallbacks
              [] c = "repair" -> RepairRounds
              [] c = "churn" -> NoProgressFloor
              [] c \in {"empty", "length", "filter"} -> 1
              [] c \in {"handoff", "stop"} -> 3
              [] c \in {"commentary", "continuation", "nudge", "harness", "ledger", "answer"} -> 2

\* No gate sends the model back more often than its own limit says.
GatesBounded == \A c \in Counters : tried[c] <= Limit(c)

\* An answer that is sent back counts for good: for the gate that did it, as
\* the one extra round of a used up review, or as one of two progress notes in
\* a row; and it gives no other gate a try back.
Gates == Counters \ {"commentary"}
Pressed ==
  /\ \A c \in Gates : tried'[c] >= tried[c]
  /\ review.exhausted => review'.exhausted
  /\ \/ \E c \in Gates : tried'[c] > tried[c]
     \/ ~review.exhausted /\ review'.exhausted
     \/ tried'["commentary"] > tried["commentary"]
GatesPress == [][(RequestFails \/ Commentary \/ Empty \/ Text) /\ Running' => Pressed]_vars

Press == GatesBounded' /\ (Running' => Pressed)

LEMMA Limits ==
  /\ \A c \in Counters : Limit(c) \in Nat
  /\ \A b \in Bounces : b \in Gates /\ Limit(b) = BounceLimit[b]
  /\ \A c \in Others \ {"commentary"} : c \in Gates
  /\ "commentary" \in Counters
  /\ Limit("fallback") = Fallbacks /\ Limit("repair") = RepairRounds /\ Limit("churn") = NoProgressFloor
  /\ \A c \in {"empty", "length", "filter"} : Limit(c) = 1
  /\ \A c \in {"handoff", "stop"} : Limit(c) = 3
  /\ \A c \in {"commentary", "continuation", "nudge", "harness", "ledger", "answer"} : Limit(c) = 2
<1>1. ASSUME NEW c \in Others PROVE c \notin Bounces
  BY <1>1, BouncesAssumption
<1>2. ASSUME NEW b \in Bounces PROVE b \in Gates /\ Limit(b) = BounceLimit[b]
  <2>1. b \notin Others
    BY <1>1
  <2>2. b \in Gates
    BY <2>1 DEF Gates, Counters, Others
  <2>3. Limit(b) = BounceLimit[b]
    BY <2>1 DEF Limit, Others
  <2>4. QED  BY <2>2, <2>3
<1>3. \A c \in Others \ {"commentary"} : c \in Gates
  BY DEF Gates, Counters
<1>4. "commentary" \in Counters
  BY DEF Counters, Others
<1>5. Limit("fallback") = Fallbacks /\ Limit("repair") = RepairRounds /\ Limit("churn") = NoProgressFloor
  BY <1>1 DEF Limit, Others
<1>6. \A c \in {"empty", "length", "filter"} : Limit(c) = 1
  BY <1>1 DEF Limit, Others
<1>7. \A c \in {"handoff", "stop"} : Limit(c) = 3
  BY <1>1 DEF Limit, Others
<1>8. \A c \in {"commentary", "continuation", "nudge", "harness", "ledger", "answer"} : Limit(c) = 2
  BY <1>1 DEF Limit, Others
<1>9. \A b \in Bounces : Limit(b) \in Nat
  BY <1>2, LimitsAssumption
<1>10. \A c \in Others : Limit(c) \in Nat
  <2>1. Fallbacks \in Nat /\ RepairRounds \in Nat /\ NoProgressFloor \in Nat
    BY LimitsAssumption
  <2>2. QED  BY <1>5, <1>6, <1>7, <1>8, <2>1 DEF Others
<1>11. QED  BY <1>2, <1>3, <1>4, <1>5, <1>6, <1>7, <1>8, <1>9, <1>10 DEF Counters

\* A reset gives tries back, and takes none.
LEMMA ResetBounded ==
  ASSUME TriedOutcome, GatesBounded, NEW zeroed
  PROVE  \A c \in Counters : Reset(zeroed)[c] \in Nat /\ Reset(zeroed)[c] <= Limit(c)
<1> SUFFICES ASSUME NEW c \in Counters
             PROVE  Reset(zeroed)[c] \in Nat /\ Reset(zeroed)[c] <= Limit(c)
  OBVIOUS
<1>1. Reset(zeroed)[c] = IF c \in zeroed THEN 0 ELSE tried[c]
  BY DEF Reset
<1>2. tried[c] \in Nat /\ tried[c] <= Limit(c) /\ Limit(c) \in Nat
  BY Limits DEF TriedOutcome, GatesBounded
<1>3. QED  BY <1>1, <1>2

LEMMA HeardBounded ==
  ASSUME TriedOutcome, GatesBounded
  PROVE  /\ Heard \in [Counters -> Nat]
         /\ \A c \in Counters : Heard[c] <= Limit(c)
         /\ \A c \in Gates : Heard[c] = tried[c]
<1>1. Heard \in [Counters -> Nat]
  BY ResetTyped DEF TriedOutcome
<1>2. Heard = tried \/ Heard = Reset({"commentary"})
  BY DEF Heard
<1>3. \A c \in Counters : Heard[c] <= Limit(c)
  BY <1>2, ResetBounded DEF GatesBounded
<1>4. ASSUME NEW c \in Gates PROVE Heard[c] = tried[c]
  <2>1. c \in Counters /\ c \notin {"commentary"}
    BY DEF Gates
  <2>2. QED  BY <1>2, <2>1 DEF Reset
<1>5. QED  BY <1>1, <1>3, <1>4

LEMMA SendBackPresses ==
  ASSUME TriedOutcome, GatesBounded, NEW c \in Gates, tried[c] < Limit(c), SendBack(c),
         review.exhausted => review'.exhausted
  PROVE  Press
<1>1. c \in Counters /\ tried' = [Heard EXCEPT ![c] = Heard[c] + 1]
  BY DEF Gates, SendBack
<1>2. /\ Heard \in [Counters -> Nat] /\ \A e \in Counters : Heard[e] <= Limit(e)
      /\ \A e \in Gates : Heard[e] = tried[e]
  BY HeardBounded
<1>3. /\ tried'[c] = tried[c] + 1
      /\ \A e \in Counters : e # c => tried'[e] = Heard[e]
  BY <1>1, <1>2
<1>4. \A e \in Counters : tried[e] \in Nat /\ Limit(e) \in Nat
  BY Limits DEF TriedOutcome
<1>5. GatesBounded'
  BY <1>1, <1>2, <1>3, <1>4 DEF GatesBounded
<1>6. \A e \in Gates : tried'[e] >= tried[e]
  BY <1>1, <1>2, <1>3, <1>4 DEF Gates
<1>7. tried'[c] > tried[c]
  BY <1>1, <1>3, <1>4
<1>8. QED  BY <1>5, <1>6, <1>7 DEF Press, Pressed

LEMMA EndPresses ==
  ASSUME GatesBounded, UNCHANGED tried, NEW v, NEW n, NEW r, End(v, n, r), v # "running"
  PROVE  Press
<1>1. GatesBounded'
  BY DEF GatesBounded
<1>2. ~Running'
  BY EndRecord DEF Running
<1>3. QED  BY <1>1, <1>2 DEF Press

LEMMA BlockedPresses ==
  ASSUME GatesBounded PROVE Blocked => Press
  BY EndPresses DEF Blocked

LEMMA SendBackWithPresses ==
  ASSUME TriedOutcome, GatesBounded, NEW c \in Gates, NEW tools, NEW r, tried[c] < Limit(c),
         SendBackWith(c, tools, r), r.exhausted = review.exhausted
  PROVE  Press
  BY SendBackPresses DEF SendBackWith

LEMMA RevisePresses ==
  ASSUME TriedOutcome, GatesBounded, NEW said, NEW r \in Review, r.exhausted = review.exhausted,
         Revise(said, r)
  PROVE  Press
<1>1. CASE tried["repair"] < RepairRounds /\ SendBackWith("repair", TRUE, r)
  <2>1. "repair" \in Gates /\ Limit("repair") = RepairRounds
    BY Limits DEF Others
  <2>2. QED  BY <1>1, <2>1, SendBackWithPresses
<1>2. CASE ~review.exhausted /\ review' = [r EXCEPT !.exhausted = TRUE] /\ tried' = Heard
  <2>1. review'.exhausted
    BY <1>2 DEF Review
  <2>2. /\ \A e \in Counters : Heard[e] <= Limit(e)
        /\ \A e \in Gates : Heard[e] = tried[e]
    BY HeardBounded
  <2>3. GatesBounded'
    BY <1>2, <2>2 DEF GatesBounded
  <2>4. \A e \in Gates : tried[e] \in Nat
    BY DEF TriedOutcome, Gates
  <2>5. \A e \in Gates : tried'[e] >= tried[e]
    BY <1>2, <2>2, <2>4
  <2>6. QED  BY <1>2, <2>1, <2>3, <2>5 DEF Press, Pressed
<1>3. QED  BY <1>1, <1>2 DEF Revise

LEMMA FinishPresses ==
  ASSUME TriedOutcome, GatesBounded, GateInv, NEW d \in BOOLEAN, NEW before \in Reviews(d),
         Finish(d, before)
  PROVE  Press
<1>1. PICK said \in Reviews(d) :
        \/ Revise(said, After(said))
        \/ tried["ledger"] < 2 /\ SendBackWith("ledger", TRUE, After(said))
        \/ tried["answer"] < 2 /\ SendBackWith("answer", TRUE, After(said))
        \/ tried["nudge"] < 2 /\ SendBackWith("nudge", FALSE, After(said))
        \/ BlockedWith(After(said))
        \/ Accept("completed", d, said, After(said))
  BY DEF Finish
<1>2. After(said) \in Review /\ After(said).exhausted = review.exhausted
  BY ReviewsSay DEF Sound
<1>3. \A c \in {"ledger", "answer", "nudge"} : c \in Gates /\ Limit(c) = 2
  BY Limits DEF Others
<1>4. CASE BlockedWith(After(said)) \/ Accept("completed", d, said, After(said))
  BY <1>4, EndPresses DEF BlockedWith, Accept
<1>5. QED  BY <1>1, <1>2, <1>3, <1>4, RevisePresses, SendBackWithPresses

LEMMA HarnessPresses ==
  ASSUME TriedOutcome, GatesBounded, GateInv, NEW d \in BOOLEAN, NEW said \in Reviews(d),
         HarnessObjects(d, said)
  PROVE  Press
<1>1. After(said) \in Review /\ After(said).exhausted = review.exhausted
  BY ReviewsSay DEF Sound
<1>2. CASE tried["harness"] < 2 /\ SendBack("harness") /\ review' = After(said)
  <2>1. "harness" \in Gates /\ Limit("harness") = 2
    BY Limits DEF Others
  <2>2. QED  BY <1>1, <1>2, <2>1, SendBackPresses
<1>3. CASE \/ Accept("completed", d \/ HarnessInsists(d), said, After(said))
           \/ BlockedWith(After(said))
  BY <1>3, EndPresses DEF BlockedWith, Accept
<1>4. CASE Revise(said, [After(said) EXCEPT !.stale = TRUE])
  <2> DEFINE a == After(said)
             r == [a EXCEPT !.stale = TRUE]
  <2> HIDE DEF a
  <2>1. a \in Review /\ a.exhausted = review.exhausted
    BY <1>1 DEF a
  <2>2. r \in Review /\ r.exhausted = a.exhausted
    BY <2>1 DEF Review
  <2>3. Revise(said, r)
    BY <1>4 DEF a
  <2> HIDE DEF r
  <2>4. QED  BY <2>1, <2>2, <2>3, RevisePresses
<1>5. QED  BY <1>2, <1>3, <1>4 DEF HarnessObjects

LEMMA JudgePresses ==
  ASSUME TriedOutcome, GatesBounded, GateInv, NEW d \in BOOLEAN, Judge(d)
  PROVE  Press
<1>1. CASE StopHook
  <2>1. "stop" \in Gates /\ Limit("stop") = 3
    BY Limits DEF Others
  <2>2. CASE BlockedWith(review)
    BY <2>2, EndPresses DEF BlockedWith
  <2>3. CASE tried["stop"] < 3 /\ SendBackWith("stop", TRUE, review)
    BY <2>1, <2>3, SendBackWithPresses
  <2>4. QED  BY <1>1, <2>2, <2>3 DEF StopHook
<1>2. CASE Accept("ambient", TRUE, "none", review)
  BY <1>2, EndPresses DEF Accept
<1>3. CASE \E said \in Reviews(d) : Revise(said, After(said)) \/ Harness(d, said)
  <2>1. PICK said \in Reviews(d) : Revise(said, After(said)) \/ Harness(d, said)
    BY <1>3
  <2>2. CASE Revise(said, After(said))
    <3>1. After(said) \in Review /\ After(said).exhausted = review.exhausted
      BY ReviewsSay DEF Sound
    <3>2. QED  BY <2>2, <3>1, RevisePresses
  <2>3. QED  BY <2>1, <2>2, HarnessPresses, FinishPresses DEF Harness
<1>4. QED  BY <1>1, <1>2, <1>3 DEF Judge

LEMMA TextPresses ==
  ASSUME TriedOutcome, GatesBounded, GateInv, Text
  PROVE  Press
<1>1. \A c \in {"continuation", "handoff", "nudge"} : c \in Gates
  BY Limits DEF Others
<1>2. Limit("continuation") = 2 /\ Limit("handoff") = 3 /\ Limit("nudge") = 2
  BY Limits
<1>3. CASE Truncated
  BY <1>1, <1>2, <1>3, SendBackPresses DEF Truncated
<1>4. CASE Bounced
  <2>1. PICK b \in Bounces : tried[b] < BounceLimit[b] /\ SendBack(b) /\ UNCHANGED review
    BY <1>4 DEF Bounced
  <2>2. b \in Gates /\ Limit(b) = BounceLimit[b]
    BY Limits
  <2>3. QED  BY <2>1, <2>2, SendBackPresses
<1>5. CASE HandedBack
  BY <1>1, <1>2, <1>5, SendBackPresses DEF HandedBack
<1>6. ASSUME NEW d, MustName(d), NameVerification PROVE Press
  <2>1. tried["nudge"] < 1 /\ SendBack("nudge") /\ UNCHANGED review
    BY <1>6 DEF MustName, NameVerification
  <2>2. tried["nudge"] \in Nat
    BY <1>1 DEF TriedOutcome, Gates
  <2>3. tried["nudge"] < 2
    BY <2>1, <2>2
  <2>4. QED  BY <1>1, <1>2, <2>1, <2>3, SendBackPresses
<1>7. CASE tried["nudge"] < 2 /\ SendBack("nudge") /\ UNCHANGED review
  BY <1>1, <1>2, <1>7, SendBackPresses
<1>8. CASE Blocked
  BY <1>8, BlockedPresses
<1>9. ASSUME NEW d \in BOOLEAN, Judge(d \/ Owes(d)) PROVE Press
  <2>1. (d \/ Owes(d)) \in BOOLEAN  BY DEF Owes
  <2>2. QED  BY <1>9, <2>1, JudgePresses
<1>10. QED  BY <1>3, <1>4, <1>5, <1>6, <1>7, <1>8, <1>9 DEF Text

LEMMA NoTextPresses ==
  ASSUME TriedOutcome, GatesBounded, RequestFails \/ Commentary \/ Empty
  PROVE  Press
<1>1. \A c \in {"fallback", "length", "filter", "empty"} : c \in Gates
  BY Limits DEF Others
<1>2. CASE RequestFails
  <2>1. UNCHANGED review
    BY <1>2 DEF RequestFails
  <2>2. CASE tried["fallback"] < Fallbacks /\ SendBack("fallback")
    BY <1>1, <2>1, <2>2, Limits, SendBackPresses
  <2>3. CASE End("failed", FALSE, "none") /\ UNCHANGED tried
    BY <2>3, EndPresses
  <2>4. QED  BY <1>2, <2>2, <2>3 DEF RequestFails
<1>3. CASE Empty
  <2>1. PICK c \in {"length", "filter", "empty"} :
          \/ tried[c] < 1 /\ SendBack(c) /\ UNCHANGED review
          \/ Blocked
    BY <1>3 DEF Empty, SendBackOrBlock
  <2>2. c \in Gates /\ Limit(c) = 1
    BY <1>1, Limits
  <2>3. QED  BY <2>1, <2>2, SendBackPresses, BlockedPresses
<1>4. CASE Commentary
  <2>1. last' = "other"
    BY <1>4 DEF Commentary, Respond
  <2>2. CASE tried["commentary"] < 2 /\ SendBack("commentary") /\ UNCHANGED review
    <3>1. tried' = [tried EXCEPT !["commentary"] = tried["commentary"] + 1]
      BY <2>1, <2>2 DEF SendBack, Heard
    <3>2. "commentary" \in Counters /\ tried \in [Counters -> Nat] /\ Limit("commentary") = 2
      BY Limits DEF TriedOutcome
    <3>3. /\ tried'["commentary"] = tried["commentary"] + 1
          /\ \A e \in Counters \ {"commentary"} : tried'[e] = tried[e]
      BY <3>1, <3>2
    <3>4. tried["commentary"] \in Nat /\ tried["commentary"] + 1 <= 2
      BY <2>2, <3>2
    <3>5. GatesBounded'
      BY <3>2, <3>3, <3>4 DEF GatesBounded
    <3>6. \A e \in Gates : tried'[e] >= tried[e]
      BY <3>2, <3>3 DEF Gates
    <3>7. tried'["commentary"] > tried["commentary"]
      BY <3>3, <3>4
    <3>8. QED  BY <2>2, <3>5, <3>6, <3>7 DEF Press, Pressed
  <2>3. QED  BY <1>4, <2>2, BlockedPresses DEF Commentary, SendBackOrBlock
<1>5. QED  BY <1>2, <1>3, <1>4

LEMMA ToolsBounded ==
  ASSUME TriedOutcome, GatesBounded, Tools PROVE GatesBounded'
<1>1. ASSUME NEW zeroed, tried' = Reset(zeroed) PROVE GatesBounded'
  BY <1>1, ResetBounded DEF GatesBounded
<1>2. ASSUME NEW zeroed, tried["churn"] < NoProgressFloor, "churn" \notin zeroed,
             tried' = [Reset(zeroed) EXCEPT !["churn"] = @ + 1]
      PROVE  GatesBounded'
  <2> DEFINE zero == Reset(zeroed)
  <2>1. \A c \in Counters : zero[c] \in Nat /\ zero[c] <= Limit(c)
    BY ResetBounded
  <2>2. "churn" \in Counters /\ Limit("churn") = NoProgressFloor
    BY Limits DEF Counters, Others
  <2>3. zero["churn"] = tried["churn"] /\ DOMAIN zero = Counters
    BY <1>2, <2>2 DEF Reset
  <2> HIDE DEF zero
  <2>4. tried' = [zero EXCEPT !["churn"] = zero["churn"] + 1]
    BY <1>2 DEF zero
  <2>5. tried["churn"] + 1 <= NoProgressFloor
    BY <1>2, <2>1, <2>2, <2>3, LimitsAssumption
  <2>6. ASSUME NEW c \in Counters PROVE tried'[c] <= Limit(c)
    BY <2>1, <2>2, <2>3, <2>4, <2>5
  <2>7. QED  BY <2>6 DEF GatesBounded
<1>3. CASE Inspect
  <2>1. PICK zeroed :
          \/ tried' = Reset(zeroed)
          \/ /\ tried["churn"] < NoProgressFloor /\ "churn" \notin zeroed
             /\ tried' = [Reset(zeroed) EXCEPT !["churn"] = @ + 1]
    <3>1. PICK news \in BOOLEAN :
            LET idle == ~news /\ ~work.edited /\ Occurs("churn")
                zero == Reset({"commentary", "empty", "nudge"} \cup IF idle THEN {} ELSE {"churn"})
            IN  tried' = IF idle /\ tried["churn"] < NoProgressFloor
                           THEN [zero EXCEPT !["churn"] = @ + 1] ELSE zero
      BY <1>3 DEF Inspect
    <3>2. QED  BY <3>1
  <2>2. QED  BY <1>1, <1>2, <2>1
<1>4. CASE Edit \/ EditFails
  BY <1>1, <1>4 DEF Edit, EditFails
<1>5. Blocked => GatesBounded'
  BY DEF Blocked, GatesBounded
<1>6. QED  BY <1>1, <1>3, <1>4, <1>5 DEF Tools

LEMMA GatesInductive == /\ Init => GatesBounded
                        /\ TriedOutcome /\ GateInv /\ GatesBounded /\ [Next]_vars => GatesBounded'
<1>1. ASSUME Init PROVE GatesBounded
  <2>1. \A c \in Counters : tried[c] = 0 /\ Limit(c) \in Nat
    BY <1>1, Limits DEF Init
  <2>2. QED  BY <2>1 DEF GatesBounded
<1>2. ASSUME TriedOutcome, GateInv, GatesBounded, [Next]_vars PROVE GatesBounded'
  <2>1. CASE UNCHANGED tried
    BY <1>2, <2>1 DEF GatesBounded
  <2>2. CASE FollowUp
    BY <1>2, <2>2, ResetBounded DEF FollowUp, GatesBounded
  <2>3. CASE RequestFails \/ Commentary \/ Empty
    BY <1>2, <2>3, NoTextPresses DEF Press
  <2>4. CASE Text
    BY <1>2, <2>4, TextPresses DEF Press
  <2>5. CASE Tools
    BY <1>2, <2>5, ToolsBounded
  <2>6. CASE Extend \/ Recover \/ LimitReached \/ Cancel \/ UNCHANGED vars
    BY <2>1, <2>6 DEF Extend, Recover, LimitReached, Cancel, Blocked, vars
  <2>7. QED  BY <1>2, <2>2, <2>3, <2>4, <2>5, <2>6 DEF Next, Iterate
<1>3. QED  BY <1>1, <1>2

\* No gate sends the model back more often than its limit, and an answer that
\* is sent back uses up a try of some gate that only tools can give back: what
\* TurnEnds rests on.  (the counters of completeLoop)
THEOREM GatesGiveUp == Spec => []GatesBounded /\ GatesPress
<1>1. TriedOutcome /\ GateInv /\ GatesBounded =>
        ((RequestFails \/ Commentary \/ Empty \/ Text) /\ Running' => Pressed)
  BY NoTextPresses, TextPresses DEF Press
<1>2. QED
  BY <1>1, GatesInductive, GateInvInductive, TriedInductive, PTL DEF Spec, GatesPress
=============================================================================
