------------------------- MODULE GoalRuntime_proofs -------------------------
(***************************************************************************)
(* For every number of slices, iterations, runs and edits, a rollback      *)
(* undoes the iteration, or what came after a pause that lost its          *)
(* checkpoint (RollbackCovers), a goal is not completed on a verification  *)
(* that failed or is older than the iteration's work                       *)
(* (CompletionIsVerified), and every step of a run brings its end nearer   *)
(* (RunShortens).                                                          *)
(***************************************************************************)
EXTENDS GoalRuntime, TLAPS

\* A record of a goal, without the bounds of its counters.
Record == [status : Statuses, iter : Nat, left : Nat, stalls : Nat, fails : Nat, rejects : Nat,
           snap : Nat \cup {None}, docs : BOOLEAN, report : BOOLEAN]

Between == {"idle", "top"}
Within == {"implement", "review", "repair", "verify", "audit", "semantic", "verdict", "mend"}

\* The workspace is at a version that was made, and so is every checkpoint.
Workspace == /\ code \in [now : Nat, latest : Nat, same : BOOLEAN]
             /\ code.now <= code.latest
TakenAt(g, latest) == g \in Record /\ (g.snap # None => g.snap <= latest)

\* Between iterations the record keeps the checkpoint of an iteration that was
\* paused; a crash may have made the history forget it.
GoalInv == /\ Workspace
           /\ TakenAt(goal, code.latest)
           /\ step \in Between \cup Within
           /\ step \in Between => origin \in {None, goal.snap}
           /\ step \in Within => TakenAt(copy, code.latest) /\ copy.snap = origin

\* What may change in the record during an iteration is not its checkpoint.
Kept(g, h) == h \in Record /\ h.snap = g.snap

LEMMA BetweenInv ==
  ASSUME Workspace', TakenAt(goal', code'.latest), step' \in Between, origin' \in {None, goal'.snap}
  PROVE  GoalInv'
  BY DEF GoalInv, Between, Within

LEMMA WithinInv ==
  ASSUME Workspace', TakenAt(goal', code'.latest), step' \in Within,
         TakenAt(copy', code'.latest), copy'.snap = origin'
  PROVE  GoalInv'
  BY DEF GoalInv, Between, Within

\* The record that is written back at the end of an iteration has no checkpoint.
LEMMA CountsRecord ==
  ASSUME NEW g \in Record
  PROVE  Counts(g) \in Record /\ Counts(g).snap = None
<1> DEFINE a == [g EXCEPT !.iter = @ + 1]
           b == [a EXCEPT !.snap = None]
           c == [b EXCEPT !.docs = FALSE]
<1>1. a \in Record  BY DEF Record
<1>2. b \in Record /\ b.snap = None  BY <1>1 DEF Record
<1>3. c \in Record /\ c.snap = None  BY <1>2 DEF Record
<1>4. [c EXCEPT !.report = FALSE] \in Record /\ [c EXCEPT !.report = FALSE].snap = None
  BY <1>3 DEF Record
<1>5. QED  BY <1>4 DEF Counts

LEMMA StatusRecord ==
  ASSUME NEW g \in Record, NEW s \in Statuses
  PROVE  Kept(g, [g EXCEPT !.status = s])
  BY DEF Record, Kept

LEMMA CountersRecord ==
  ASSUME NEW g \in Record, NEW s \in Statuses, NEW i \in Nat, NEW f \in Nat, NEW r \in Nat
  PROVE  Kept(g, [g EXCEPT !.status = s, !.stalls = i, !.fails = f, !.rejects = r])
<1> DEFINE a == [g EXCEPT !.status = s]
           b == [a EXCEPT !.stalls = i]
           c == [b EXCEPT !.fails = f]
<1>1. a \in Record /\ a.snap = g.snap  BY DEF Record
<1>2. b \in Record /\ b.snap = g.snap  BY <1>1 DEF Record
<1>3. c \in Record /\ c.snap = g.snap  BY <1>2 DEF Record
<1>4. [c EXCEPT !.rejects = r] \in Record /\ [c EXCEPT !.rejects = r].snap = g.snap
  BY <1>3 DEF Record
<1>5. QED  BY <1>4 DEF Kept

\* The records an audit, an approval and a rejection leave.
LEMMA CountedRecord ==
  ASSUME copy \in Record, NEW g \in Counted
  PROVE  /\ g \in Record /\ [g EXCEPT !.rejects = 0] \in Record
         /\ [g EXCEPT !.status = "blocked", !.rejects = 0] \in Record
<1>1. copy.stalls \in Nat /\ copy.fails \in Nat  BY DEF Record
<1>2. PICK i \in {0, copy.stalls + 1}, f \in {0, 1, copy.fails + 1} :
        g = [copy EXCEPT !.stalls = i, !.fails = f]
  BY DEF Counted
<1>3. i \in Nat /\ f \in Nat  BY <1>1, <1>2
<1>4. [copy EXCEPT !.stalls = i] \in Record  BY <1>3 DEF Record
<1>5. g \in Record  BY <1>2, <1>3, <1>4 DEF Record
<1>6. QED  BY <1>5 DEF Record, Statuses, Stopped

LEMMA ApprovedRecord ==
  ASSUME copy \in Record
  PROVE  [copy EXCEPT !.left = IF @ = 0 THEN 0 ELSE @ - 1, !.rejects = 0,
                      !.status = IF copy.left <= 1 THEN "complete" ELSE "active"] \in Record
<1> DEFINE l == IF copy.left = 0 THEN 0 ELSE copy.left - 1
           s == IF copy.left <= 1 THEN "complete" ELSE "active"
           a == [copy EXCEPT !.left = l]
           b == [a EXCEPT !.rejects = 0]
<1>1. l \in Nat /\ s \in Statuses  BY DEF Record, Statuses, Stopped
<1>2. a \in Record  BY <1>1 DEF Record
<1>3. b \in Record  BY <1>2 DEF Record
<1>4. [b EXCEPT !.status = s] \in Record  BY <1>1, <1>3 DEF Record
<1>5. QED  BY <1>4

LEMMA RejectedRecord ==
  ASSUME copy \in Record
  PROVE  [copy EXCEPT !.status = "blocked", !.rejects = @ + 1] \in Record
<1> DEFINE a == [copy EXCEPT !.status = "blocked"]
<1>1. a \in Record /\ a.rejects + 1 \in Nat  BY DEF Record, Statuses, Stopped
<1>2. [a EXCEPT !.rejects = @ + 1] \in Record  BY <1>1 DEF Record
<1>3. QED  BY <1>2

LEMMA EndInv ==
  ASSUME NEW g \in Record, Workspace', goal' = Counts(g), step' \in Between, origin' = None
  PROVE  GoalInv'
<1>1. TakenAt(goal', code'.latest)  BY CountsRecord DEF TakenAt
<1>2. QED  BY <1>1, BetweenInv

LEMMA KeptTaken ==
  ASSUME NEW m \in Nat, NEW n \in Nat, m <= n, NEW g, NEW h, TakenAt(g, m), Kept(g, h)
  PROVE  TakenAt(h, n)
  BY DEF TakenAt, Kept, Record

\* A turn of the agent makes a later version or none.
LEMMA WorksForward ==
  ASSUME Workspace, Works
  PROVE  Workspace' /\ code'.now >= code.now /\ code'.latest >= code.latest
<1>1. CASE UNCHANGED code  BY <1>1 DEF Workspace
<1>2. CASE \E v \in Versions : /\ v # code.now
                               /\ code' \in {[now |-> v, latest |-> v, same |-> s] : s \in {FALSE, code.same}}
  <2>1. PICK v \in Versions, same \in {FALSE, code.same} :
          v # code.now /\ code' = [now |-> v, latest |-> v, same |-> same]
    BY <1>2
  <2>2. v = code.latest + 1  BY <2>1 DEF Versions
  <2>3. same \in BOOLEAN  BY <2>1 DEF Workspace
  <2>4. v \in Nat /\ v >= code.now /\ v >= code.latest  BY <2>2 DEF Workspace
  <2>5. QED  BY <2>1, <2>3, <2>4 DEF Workspace
<1>3. QED  BY <1>1, <1>2 DEF Works

LEMMA InitInv == ASSUME Init PROVE GoalInv
  BY BoundsAssumption DEF Init, GoalInv, Workspace, TakenAt, Record, Between, Within, Statuses, Stopped

\* A turn ends the iteration, or leads to a step that goes on with its copy.
LEMMA TurnEndsInv ==
  ASSUME GoalInv, step \in Within, Workspace', code'.latest >= code.latest,
         NEW F \in SUBSET Statuses, TurnEnds(F)
  PROVE  GoalInv'
<1>1. copy \in Record /\ TakenAt(copy, code.latest) /\ copy.snap = origin  BY DEF GoalInv, TakenAt
<1>2. code.latest \in Nat /\ code'.latest \in Nat  BY DEF GoalInv, Workspace
<1>3. CASE EndCanceled(copy)
  <2>1. [copy EXCEPT !.status = "active"] \in Record
    BY <1>1, StatusRecord DEF Statuses, Kept
  <2>2. QED  BY <1>3, <2>1, EndInv DEF EndCanceled, Between
<1>4. ASSUME NEW s \in F, End([copy EXCEPT !.status = s]) PROVE GoalInv'
  <2>1. [copy EXCEPT !.status = s] \in Record
    BY <1>1, StatusRecord DEF Kept
  <2>2. QED  BY <1>4, <2>1, EndInv DEF End, Between
<1>5. CASE Pause
  <2>1. Kept(copy, goal')
    BY <1>5, <1>1 DEF Pause, Kept, Record, Statuses, Stopped
  <2>2. TakenAt(goal', code'.latest)  BY <2>1, <1>1, <1>2, KeptTaken
  <2>3. step' \in Between /\ origin' = goal'.snap
    BY <1>5, <1>1, <2>1 DEF Pause, Between, Kept
  <2>4. QED  BY <2>2, <2>3, BetweenInv
<1>6. QED  BY <1>3, <1>4, <1>5 DEF TurnEnds

LEMMA MarkedRecord ==
  ASSUME goal \in Record, NEW h \in Marked
  PROVE  Kept(goal, h)
  BY DEF Marked, Kept, Record, Statuses, Stopped

LEMMA LeadsToInv ==
  ASSUME GoalInv, step \in Within, Workspace', code'.latest >= code.latest,
         NEW s \in Within, NEW d \in BOOLEAN, LeadsTo(s, d)
  PROVE  GoalInv'
<1>1. goal \in Record /\ TakenAt(goal, code.latest)  BY DEF GoalInv, TakenAt
<1>2. copy \in Record /\ TakenAt(copy, code.latest) /\ copy.snap = origin  BY DEF GoalInv, TakenAt
<1>3. code.latest \in Nat /\ code'.latest \in Nat  BY DEF GoalInv, Workspace
<1>4. TakenAt(goal', code'.latest)
  <2>1. Kept(goal, goal')  BY <1>1, MarkedRecord DEF LeadsTo
  <2>2. QED  BY <2>1, <1>1, <1>3, KeptTaken
<1>5. Kept(copy, copy')  BY <1>2 DEF LeadsTo, Kept, Record
<1>6. TakenAt(copy', code'.latest)  BY <1>5, <1>2, <1>3, KeptTaken
<1>7. copy'.snap = origin' /\ step' \in Within  BY <1>5, <1>2 DEF LeadsTo, Kept
<1>8. QED  BY <1>4, <1>6, <1>7, WithinInv

\* Every action of the loop keeps the invariant, and lowers the version only
\* when it rolls back.
Forward == GoalInv' /\ (code'.now < code.now => code'.now = origin)

LEMMA TurnForward ==
  ASSUME GoalInv, step \in Within, Turn,
         NEW F \in SUBSET Statuses,
         TurnEnds(F) \/ (\E s \in Within, d \in BOOLEAN : LeadsTo(s, d))
  PROVE  Forward
<1>1. Workspace' /\ code'.now >= code.now /\ code'.latest >= code.latest
  BY WorksForward DEF GoalInv, Turn
<1>2. GoalInv'
  <2>1. CASE TurnEnds(F)  BY <2>1, <1>1, TurnEndsInv
  <2>2. CASE \E s \in Within, d \in BOOLEAN : LeadsTo(s, d)  BY <2>2, <1>1, LeadsToInv
  <2>3. QED  BY <2>1, <2>2
<1>3. ~(code'.now < code.now)  BY <1>1 DEF GoalInv, Workspace
<1>4. QED  BY <1>2, <1>3 DEF Forward

LEMMA ImplementForward == ASSUME GoalInv, Implement PROVE Forward
<1>1. step \in Within /\ Turn  BY DEF Implement, Within
<1>2. {"blocked", "limited"} \in SUBSET Statuses  BY DEF Statuses, Stopped
<1>3. TurnEnds({"blocked", "limited"}) \/ LeadsTo("review", FALSE) \/ LeadsTo("verify", TRUE)
  BY DEF Implement
<1>4. QED  BY <1>1, <1>2, <1>3, TurnForward DEF Within

LEMMA ReviewForward == ASSUME GoalInv, Review PROVE Forward
<1>1. step \in Within /\ Turn  BY DEF Review, Within
<1>2. {"blocked", "limited"} \in SUBSET Statuses  BY DEF Statuses, Stopped
<1>3. TurnEnds({"blocked", "limited"}) \/ LeadsTo("repair", FALSE) \/ LeadsTo("verify", FALSE)
  BY DEF Review
<1>4. QED  BY <1>1, <1>2, <1>3, TurnForward DEF Within

LEMMA RepairForward == ASSUME GoalInv, Repair PROVE Forward
<1>1. step \in Within /\ Turn  BY DEF Repair, Within
<1>2. {"blocked", "limited"} \in SUBSET Statuses  BY DEF Statuses, Stopped
<1>3. TurnEnds({"blocked", "limited"}) \/ LeadsTo("verify", FALSE)  BY DEF Repair
<1>4. QED  BY <1>1, <1>2, <1>3, TurnForward DEF Within

\* A step that leaves the workspace alone.
LEMMA StillForward ==
  ASSUME GoalInv, GoalInv', code'.now = code.now
  PROVE  Forward
  BY DEF Forward, GoalInv, Workspace

LEMMA OutsideForward == ASSUME GoalInv, Run \/ Cancel \/ Decide \/ Crash PROVE Forward
<1>1. CASE Cancel \/ Decide
  <2>1. UNCHANGED <<goal, copy, step, code, origin>>  BY <1>1 DEF Cancel, Decide
  <2>2. GoalInv'  BY <2>1 DEF GoalInv, Workspace, TakenAt
  <2>3. QED  BY <2>1, <2>2, StillForward
<1>2. CASE Run
  <2>1. goal \in Record /\ TakenAt(goal, code.latest) /\ Workspace /\ origin \in {None, goal.snap}
        /\ code.latest \in Nat
    BY <1>2 DEF GoalInv, TakenAt, Run, Between, Workspace
  <2>2. UNCHANGED <<code, origin>> /\ step' \in Between  BY <1>2 DEF Run, Between
  <2>3. Kept(goal, goal')
    <3>1. PICK s \in Statuses :
            \/ goal' = [goal EXCEPT !.status = s, !.stalls = 0, !.fails = 0, !.rejects = 0]
            \/ goal' = [goal EXCEPT !.status = s]
      BY <1>2 DEF Run, Statuses, Stopped
    <3>2. CASE goal' = [goal EXCEPT !.status = s, !.stalls = 0, !.fails = 0, !.rejects = 0]
      <4>1. Kept(goal, [goal EXCEPT !.status = s, !.stalls = 0, !.fails = 0, !.rejects = 0])
        BY <2>1, CountersRecord
      <4>2. QED  BY <3>2, <4>1
    <3>3. CASE goal' = [goal EXCEPT !.status = s]  BY <2>1, <3>3, StatusRecord
    <3>4. QED  BY <3>1, <3>2, <3>3
  <2>4. TakenAt(goal', code'.latest)  BY <2>1, <2>2, <2>3, KeptTaken
  <2>5. Workspace' /\ origin' \in {None, goal'.snap}  BY <2>1, <2>2, <2>3 DEF Workspace, Kept
  <2>6. QED  BY <2>2, <2>4, <2>5, BetweenInv, StillForward
<1>3. CASE Crash
  <2>1. code'.now = code.now /\ code'.latest = code.latest /\ Workspace'
    BY <1>3 DEF Crash, GoalInv, Workspace
  <2>2. goal' = goal /\ step' \in Between /\ origin' = None  BY <1>3 DEF Crash, Between
  <2>3. TakenAt(goal', code'.latest)  BY <2>1, <2>2 DEF GoalInv, TakenAt
  <2>4. QED  BY <2>1, <2>2, <2>3, BetweenInv, StillForward
<1>4. QED  BY <1>1, <1>2, <1>3

LEMMA TopForward == ASSUME GoalInv, Top PROVE Forward
<1>1. code' = code /\ step \in Between  BY DEF Top, Between
<1>2. goal \in Record /\ TakenAt(goal, code.latest) /\ Workspace /\ origin \in {None, goal.snap}
      /\ code.now \in Nat /\ code.latest \in Nat /\ code.now <= code.latest
  BY <1>1 DEF GoalInv, TakenAt, Workspace
<1>3. Workspace'  BY <1>1, <1>2 DEF Workspace
<1>4. CASE \E s \in Statuses : goal' = [goal EXCEPT !.status = s] /\ step' = "idle" /\ origin' = origin
  <2>1. Kept(goal, goal')  BY <1>4, <1>2, StatusRecord
  <2>2. TakenAt(goal', code'.latest)  BY <2>1, <1>1, <1>2, KeptTaken
  <2>3. step' \in Between /\ origin' \in {None, goal'.snap}  BY <1>4, <1>2, <2>1 DEF Between, Kept
  <2>4. QED  BY <1>1, <1>3, <2>2, <2>3, BetweenInv, StillForward
<1>5. CASE Begin
  <2>0. PICK resolved \in BOOLEAN : \E snap \in Snapshot(resolved) :
          /\ copy' = [goal EXCEPT !.status = "active", !.snap = snap]
          /\ origin' = IF origin = None \/ ~resolved THEN snap ELSE origin
    BY <1>5 DEF Begin
  <2>1. PICK snap \in Snapshot(resolved) :
          /\ copy' = [goal EXCEPT !.status = "active", !.snap = snap]
          /\ origin' = IF origin = None \/ ~resolved THEN snap ELSE origin
    BY <2>0
  <2>2. snap \in Nat \cup {None} /\ (snap # None => snap <= code.latest)
        /\ (goal.snap # None /\ resolved => snap = goal.snap)
    BY <1>2, <2>1 DEF Snapshot, TakenAt, Record
  <2>3. copy' \in Record /\ copy'.snap = snap
    <3> DEFINE a == [goal EXCEPT !.status = "active"]
    <3>1. a \in Record  BY <1>2 DEF Record, Statuses
    <3>2. [a EXCEPT !.snap = snap] \in Record /\ [a EXCEPT !.snap = snap].snap = snap
      BY <3>1, <2>2 DEF Record
    <3>3. QED  BY <3>2, <2>1
  <2>4. TakenAt(copy', code'.latest)  BY <2>2, <2>3, <1>1 DEF TakenAt
  <2>5. origin' = copy'.snap  BY <2>1, <2>2, <2>3, <1>2
  <2>6. goal' = goal /\ step' \in Within  BY <1>5 DEF Begin, Within
  <2>7. QED  BY <1>1, <1>2, <1>3, <2>4, <2>5, <2>6, WithinInv, StillForward
<1>6. QED  BY <1>4, <1>5 DEF Top, Statuses, Stopped

LEMMA VerifyForward == ASSUME GoalInv, Verify PROVE Forward
<1>1. code' = code /\ step \in Within  BY DEF Verify, Within
<1>2. Workspace /\ Workspace' /\ code'.latest >= code.latest /\ code.latest \in Nat
  BY <1>1 DEF GoalInv, Workspace
<1>3. copy \in Record /\ TakenAt(copy, code.latest) /\ copy.snap = origin
  BY <1>1 DEF GoalInv, TakenAt
<1>4. CASE EndCanceled(copy)
  <2>1. [copy EXCEPT !.status = "active"] \in Record  BY <1>3, StatusRecord DEF Statuses, Kept
  <2>2. QED  BY <1>1, <1>2, <1>4, <2>1, EndInv, StillForward DEF EndCanceled, Between
<1>5. CASE Verifies /\ step' = "audit" /\ UNCHANGED <<goal, origin>>
  <2>1. Kept(copy, copy')
    <3>1. CASE copy' = [copy EXCEPT !.report = TRUE]  BY <3>1, <1>3 DEF Kept, Record
    <3>2. CASE \E s \in Statuses : copy' = [copy EXCEPT !.status = s]  BY <3>2, <1>3, StatusRecord
    <3>3. QED  BY <1>5, <3>1, <3>2 DEF Verifies, Statuses, Stopped
  <2>2. TakenAt(copy', code'.latest)  BY <2>1, <1>1, <1>2, <1>3, KeptTaken
  <2>3. TakenAt(goal', code'.latest)  BY <1>1, <1>5 DEF GoalInv
  <2>4. step' \in Within /\ copy'.snap = origin'  BY <1>5, <2>1, <1>3 DEF Within, Kept
  <2>5. QED  BY <1>1, <1>2, <2>2, <2>3, <2>4, WithinInv, StillForward
<1>6. QED  BY <1>4, <1>5 DEF Verify

LEMMA FallBackForward == ASSUME GoalInv, FallBack PROVE Forward
<1>1. step \in Within /\ step' \in Within /\ UNCHANGED <<goal, copy, origin>>
  BY DEF FallBack, Within
<1>2. Workspace' /\ code'.now >= code.now /\ code'.latest >= code.latest
  BY WorksForward DEF GoalInv, FallBack
<1>3. TakenAt(goal, code.latest) /\ TakenAt(copy, code.latest) /\ copy.snap = origin
      /\ goal \in Record /\ copy \in Record /\ code.latest \in Nat /\ code'.latest \in Nat
      /\ code.now \in Nat /\ code'.now \in Nat
  BY <1>1, <1>2 DEF GoalInv, TakenAt, Workspace
<1>4. TakenAt(goal', code'.latest) /\ TakenAt(copy', code'.latest)
  BY <1>1, <1>2, <1>3, KeptTaken DEF Kept
<1>5. GoalInv'  BY <1>1, <1>2, <1>3, <1>4, WithinInv
<1>6. QED  BY <1>2, <1>3, <1>5 DEF Forward

LEMMA MendForward == ASSUME GoalInv, Mend PROVE Forward
<1>1. step \in Within /\ Turn  BY DEF Mend, Within
<1>2. CASE TurnEnds({"blocked"})
  BY <1>1, <1>2, TurnForward DEF Statuses, Stopped
<1>3. CASE End(copy)
  <2>1. Workspace' /\ code'.now >= code.now  BY <1>1, WorksForward DEF GoalInv, Turn
  <2>2. copy \in Record  BY <1>1 DEF GoalInv, TakenAt
  <2>3. GoalInv'  BY <2>1, <2>2, <1>3, EndInv DEF End, Between
  <2>4. QED  BY <2>1, <2>3 DEF Forward, GoalInv, Workspace
<1>4. QED  BY <1>2, <1>3 DEF Mend

\* The workspace keeps its version, or is rolled back.
Settled == code' = code \/ code' = [code EXCEPT !.same = TRUE] \/ RollBack

\* A rollback goes to the checkpoint of the iteration, which is where it began.
LEMMA SettledInv ==
  ASSUME GoalInv, step \in Within, Settled
  PROVE  /\ Workspace' /\ code'.latest = code.latest
         /\ code'.now < code.now => code'.now = origin
<1>1. Workspace /\ copy \in Record /\ TakenAt(copy, code.latest) /\ copy.snap = origin
      /\ code.now \in Nat
  BY DEF GoalInv, TakenAt, Workspace
<1>2. CASE code' = code  BY <1>1, <1>2 DEF Workspace
<1>3. CASE code' = [code EXCEPT !.same = TRUE]
  <2>1. code' = [now |-> code.now, latest |-> code.latest, same |-> TRUE]
    BY <1>3, <1>1 DEF Workspace
  <2>2. QED  BY <2>1, <1>1 DEF Workspace
<1>4. CASE copy.snap # None /\ \E same \in BOOLEAN : code' = [code EXCEPT !.now = copy.snap, !.same = same]
  <2>1. PICK same \in BOOLEAN : code' = [code EXCEPT !.now = copy.snap, !.same = same]  BY <1>4
  <2>2. copy.snap \in Nat /\ copy.snap <= code.latest  BY <1>1, <1>4 DEF TakenAt, Record
  <2>3. code' = [now |-> copy.snap, latest |-> code.latest, same |-> same]
    BY <2>1, <1>1 DEF Workspace
  <2>4. QED  BY <1>1, <2>2, <2>3 DEF Workspace
<1>5. QED  BY <1>2, <1>3, <1>4 DEF Settled, RollBack

LEMMA EndForward ==
  ASSUME GoalInv, step \in Within, NEW g \in Record, Settled, End(g)
  PROVE  Forward
<1>1. Workspace' /\ (code'.now < code.now => code'.now = origin)  BY SettledInv
<1>2. goal' = Counts(g) /\ step' \in Between /\ origin' = None  BY DEF End, Between
<1>3. QED  BY <1>1, <1>2, EndInv DEF Forward

LEMMA EndCanceledForward ==
  ASSUME GoalInv, step \in Within, NEW g \in Record, Settled, EndCanceled(g)
  PROVE  Forward
<1>1. Workspace' /\ (code'.now < code.now => code'.now = origin)  BY SettledInv
<1>2. [g EXCEPT !.status = "active"] \in Record  BY StatusRecord DEF Statuses, Kept
<1>3. goal' = Counts([g EXCEPT !.status = "active"]) /\ step' \in Between /\ origin' = None
  BY DEF EndCanceled, Between
<1>4. QED  BY <1>1, <1>2, <1>3, EndInv DEF Forward

\* A step of the iteration that goes on with its copy.
LEMMA GoOnForward ==
  ASSUME GoalInv, step \in Within, Settled, step' \in Within, UNCHANGED <<goal, origin>>,
         Kept(copy, copy')
  PROVE  Forward
<1>1. Workspace' /\ code'.latest = code.latest /\ (code'.now < code.now => code'.now = origin)
  BY SettledInv
<1>2. TakenAt(goal, code.latest) /\ TakenAt(copy, code.latest) /\ copy.snap = origin
      /\ code.latest \in Nat
  BY DEF GoalInv, Workspace
<1>3. TakenAt(goal', code'.latest)  BY <1>1, <1>2
<1>4. TakenAt(copy', code'.latest)  BY <1>1, <1>2, KeptTaken
<1>5. copy'.snap = origin'  BY <1>2 DEF Kept
<1>6. QED  BY <1>1, <1>3, <1>4, <1>5, WithinInv DEF Forward

LEMMA AuditForward == ASSUME GoalInv, Audit PROVE Forward
<1>1. step \in Within /\ copy \in Record  BY DEF Audit, Within, GoalInv, TakenAt
<1>2. CASE Ready
  <2>1. Settled /\ step' \in Within /\ UNCHANGED <<goal, origin>>
    BY <1>2 DEF Ready, Settled, Within
  <2>2. Kept(copy, copy')
    BY <1>1, <1>2 DEF Ready, Kept, Record
  <2>3. QED  BY <1>1, <2>1, <2>2, GoOnForward
<1>3. ASSUME NEW g \in Counted, NotReady(g) PROVE Forward
  <2>1. /\ g \in Record /\ [g EXCEPT !.rejects = 0] \in Record
        /\ [g EXCEPT !.status = "blocked", !.rejects = 0] \in Record
    BY <1>1, <1>3, CountedRecord
  <2>2. CASE copy.status = "blocked"
    BY <1>1, <1>3, <2>1, <2>2, EndForward DEF NotReady, Settled
  <2>3. CASE copy.status # "blocked" /\ Stalled(g)
    BY <1>1, <1>3, <2>1, <2>3, EndForward DEF NotReady, Settled
  <2>4. CASE copy.status # "blocked" /\ ~Stalled(g)
    BY <1>1, <1>3, <2>1, <2>4, EndForward, EndCanceledForward DEF NotReady, Settled
  <2>5. QED  BY <2>2, <2>3, <2>4
<1>4. CASE End([copy EXCEPT !.status = "blocked"]) /\ UNCHANGED code
  <2>1. [copy EXCEPT !.status = "blocked"] \in Record
    BY <1>1, StatusRecord DEF Statuses, Stopped, Kept
  <2>2. QED  BY <1>1, <1>4, <2>1, EndForward DEF Settled
<1>5. QED  BY <1>2, <1>3, <1>4 DEF Audit

LEMMA JudgeForward == ASSUME GoalInv, Judge PROVE Forward
<1>1. step \in Within /\ copy \in Record  BY DEF Judge, Within, GoalInv, TakenAt
<1>2. copy.left \in Nat /\ copy.rejects \in Nat  BY <1>1 DEF Record
<1>3. CASE Approve
  BY <1>1, <1>3, ApprovedRecord, EndForward DEF Approve, Settled
<1>4. CASE Reject
  <2>1. [copy EXCEPT !.rejects = @ + 1] \in Record
        /\ [copy EXCEPT !.rejects = @ + 1].snap = copy.snap
    BY <1>1, <1>2 DEF Record
  <2>2. [copy EXCEPT !.status = "blocked", !.rejects = @ + 1] \in Record
    BY <1>1, RejectedRecord
  <2>3. CASE End([copy EXCEPT !.status = "blocked", !.rejects = @ + 1]) /\ RollBack
    BY <1>1, <2>2, <2>3, EndForward DEF Settled
  <2>4. CASE /\ copy' = [copy EXCEPT !.rejects = @ + 1] /\ step' = "mend"
             /\ UNCHANGED <<goal, code, made, origin>>
    BY <1>1, <2>1, <2>4, GoOnForward DEF Settled, Within, Kept
  <2>5. QED  BY <1>4, <2>3, <2>4 DEF Reject
<1>5. CASE UNCHANGED code /\ EndCanceled(copy)
  BY <1>1, <1>5, EndCanceledForward DEF Settled
<1>6. CASE UNCHANGED code /\ End([copy EXCEPT !.status = "blocked"])
  <2>1. [copy EXCEPT !.status = "blocked"] \in Record
    BY <1>1, StatusRecord DEF Statuses, Stopped, Kept
  <2>2. QED  BY <1>1, <1>6, <2>1, EndForward DEF Settled
<1>7. QED  BY <1>3, <1>4, <1>5, <1>6 DEF Judge

LEMMA NextForward == ASSUME GoalInv, [Next]_vars PROVE GoalInv' /\ (code'.now < code.now => code'.now = origin)
<1>1. CASE UNCHANGED vars
  <2>1. UNCHANGED <<goal, copy, step, code, origin>>  BY <1>1 DEF vars
  <2>2. GoalInv'  BY <2>1 DEF GoalInv, Workspace, TakenAt
  <2>3. QED  BY <2>1, <2>2, StillForward DEF Forward
<1>2. CASE Next
  BY <1>2, OutsideForward, TopForward, ImplementForward, ReviewForward, RepairForward,
     VerifyForward, AuditForward, FallBackForward, JudgeForward, MendForward
     DEF Next, Iterate, Forward
<1>3. QED  BY <1>1, <1>2

\* The invariant of the loop: while an iteration runs its copy of the goal holds
\* the checkpoint the iteration began with, a version that was made, and between
\* iterations the record holds that of an iteration that was paused
\* (createGoalCheckpoint, finishGoalIterationPendingImplementationDecision).
THEOREM GoalInvariant == Spec => []GoalInv
<1>1. Init => GoalInv  BY InitInv
<1>2. GoalInv /\ [Next]_vars => GoalInv'  BY NextForward
<1>3. QED  BY <1>1, <1>2, PTL DEF Spec

\* A rollback takes the workspace back to where the iteration began, however
\* often it was paused for the user's decision, or to where it was resumed if its
\* checkpoint was gone by then (rollbackGoalIterationCheckpoint,
\* createGoalCheckpoint).
THEOREM RollbackCovered == Spec => RollbackCovers
<1>1. GoalInv /\ [Next]_vars => [code'.now < code.now => code'.now = origin]_vars
  BY NextForward
<1>2. QED  BY <1>1, GoalInvariant, PTL DEF Spec, RollbackCovers

-----------------------------------------------------------------------------
(***************************************************************************)
(* Completion.  A record starts every iteration without a report, so that  *)
(* the one it has after the verification is of the workspace as the audit  *)
(* and the final reviewer find it.                                         *)
(***************************************************************************)
Working == {"implement", "review", "repair", "verify"}
Vouched == /\ verified # None => verified.ok
           /\ copy.report = TRUE => verified # None /\ verified.at = code.now

Checked == /\ made \in Nat /\ made <= code.latest
           /\ goal.report = FALSE
           /\ step \in Working => copy.report = FALSE
           /\ step = "audit" /\ copy.report = TRUE =>
                verified # None /\ (verified.ok => verified.at = code.now)
           /\ step = "semantic" /\ ~copy.docs => Vouched
           /\ step = "verdict" /\ ~copy.docs /\ made = code.now => Vouched

\* Outside of the steps that the report is about nothing is claimed of it.
LEMMA ElsewhereChecked ==
  ASSUME made' \in Nat, made' <= code'.latest, goal'.report = FALSE,
         step' \in Between \cup {"mend"}
  PROVE  Checked'
  BY DEF Checked, Between, Working

LEMMA CountsReport == ASSUME NEW g \in Record PROVE Counts(g).report = FALSE
  BY DEF Counts, Record

LEMMA EndChecked ==
  ASSUME made' \in Nat, made' <= code'.latest, NEW g \in Record, End(g)
  PROVE  Checked'
<1>1. goal'.report = FALSE /\ step' \in Between  BY CountsReport DEF End, Between
<1>2. QED  BY <1>1, ElsewhereChecked

LEMMA EndCanceledChecked ==
  ASSUME made' \in Nat, made' <= code'.latest, NEW g \in Record, EndCanceled(g)
  PROVE  Checked'
<1>1. [g EXCEPT !.status = "active"] \in Record  BY StatusRecord DEF Statuses, Kept
<1>2. goal'.report = FALSE /\ step' \in Between  BY <1>1, CountsReport DEF EndCanceled, Between
<1>3. QED  BY <1>2, ElsewhereChecked

LEMMA WithinRecords ==
  ASSUME GoalInv
  PROVE  /\ goal \in Record /\ code.latest \in Nat /\ code.now \in Nat /\ code.now <= code.latest
         /\ step \in Within => copy \in Record
  BY DEF GoalInv, TakenAt, Workspace

LEMMA TurnMade ==
  ASSUME GoalInv, Turn
  PROVE  made' \in Nat /\ made' <= code'.latest
  BY WorksForward DEF GoalInv, Turn, Workspace

LEMMA TurnEndsChecked ==
  ASSUME GoalInv, step \in Within, Turn, NEW F \in SUBSET Statuses, TurnEnds(F)
  PROVE  Checked'
<1>1. made' \in Nat /\ made' <= code'.latest /\ copy \in Record  BY TurnMade, WithinRecords
<1>2. CASE EndCanceled(copy)  BY <1>1, <1>2, EndCanceledChecked
<1>3. ASSUME NEW s \in F, End([copy EXCEPT !.status = s]) PROVE Checked'
  <2>1. [copy EXCEPT !.status = s] \in Record  BY <1>1, StatusRecord DEF Kept
  <2>2. QED  BY <1>1, <1>3, <2>1, EndChecked
<1>4. CASE Pause
  <2>1. goal'.report = FALSE /\ step' \in Between  BY <1>1, <1>4 DEF Pause, Record, Between
  <2>2. QED  BY <1>1, <2>1, ElsewhereChecked
<1>5. QED  BY <1>2, <1>3, <1>4 DEF TurnEnds

LEMMA LeadsToChecked ==
  ASSUME GoalInv, Checked, step \in Working, Turn,
         NEW s \in Working, NEW d \in BOOLEAN, LeadsTo(s, d)
  PROVE  Checked'
<1>1. made' \in Nat /\ made' <= code'.latest /\ copy \in Record /\ goal \in Record
  BY TurnMade, WithinRecords DEF Working, Within
<1>2. goal'.report = FALSE  BY <1>1 DEF LeadsTo, Marked, Checked, Record
<1>3. copy'.report = FALSE /\ step' = s  BY <1>1 DEF LeadsTo, Checked, Record
<1>4. QED  BY <1>1, <1>2, <1>3 DEF Checked, Working

LEMMA OutsideChecked == ASSUME GoalInv, Checked, Run \/ Cancel \/ Decide \/ Crash PROVE Checked'
<1>1. CASE Cancel \/ Decide
  <2>1. UNCHANGED <<goal, copy, step, code, verified, made>>  BY <1>1 DEF Cancel, Decide
  <2>2. QED  BY <2>1 DEF Checked, Vouched
<1>2. CASE Run
  <2>1. goal'.report = FALSE  BY <1>2, WithinRecords DEF Run, Checked, Record
  <2>2. UNCHANGED <<code, made>> /\ step' \in Between  BY <1>2 DEF Run, Between
  <2>3. QED  BY <2>1, <2>2, ElsewhereChecked DEF Checked
<1>3. CASE Crash
  <2>1. code'.latest = code.latest  BY <1>3 DEF Crash, GoalInv, Workspace
  <2>2. UNCHANGED <<goal, made>> /\ step' \in Between  BY <1>3 DEF Crash, Between
  <2>3. QED  BY <2>1, <2>2, ElsewhereChecked DEF Checked
<1>4. QED  BY <1>1, <1>2, <1>3

LEMMA TopChecked == ASSUME GoalInv, Checked, Top PROVE Checked'
<1>1. made' = made /\ code' = code  BY DEF Top
<1>2. CASE \E s \in Statuses : goal' = [goal EXCEPT !.status = s] /\ step' = "idle"
  <2>1. goal'.report = FALSE  BY <1>2, WithinRecords DEF Checked, Record
  <2>2. QED  BY <1>1, <1>2, <2>1, ElsewhereChecked DEF Checked, Between
<1>3. CASE Begin
  <2>1. goal' = goal /\ step' = "implement"  BY <1>3 DEF Begin
  <2>2. copy'.report = FALSE  BY <1>3, WithinRecords DEF Begin, Checked, Record
  <2>3. QED  BY <1>1, <2>1, <2>2 DEF Checked, Working
<1>4. QED  BY <1>2, <1>3 DEF Top, Statuses, Stopped

LEMMA WorkingChecked == ASSUME GoalInv, Checked, Implement \/ Review \/ Repair PROVE Checked'
<1>1. step \in Working /\ step \in Within /\ Turn
  BY DEF Implement, Review, Repair, Working, Within
<1>2. {"blocked", "limited"} \in SUBSET Statuses  BY DEF Statuses, Stopped
<1>3. \/ TurnEnds({"blocked", "limited"})
      \/ \E s \in Working, d \in BOOLEAN : LeadsTo(s, d)
  BY DEF Implement, Review, Repair, Working
<1>4. CASE TurnEnds({"blocked", "limited"})  BY <1>1, <1>2, <1>4, TurnEndsChecked
<1>5. CASE \E s \in Working, d \in BOOLEAN : LeadsTo(s, d)  BY <1>1, <1>5, LeadsToChecked
<1>6. QED  BY <1>3, <1>4, <1>5

\* The report is of the workspace as it is, or repeats a failure.
LEMMA VerifyChecked == ASSUME GoalInv, Checked, Verify PROVE Checked'
<1>1. step \in Working /\ step \in Within /\ code' = code /\ made' = made
  BY DEF Verify, Working, Within
<1>2. copy \in Record /\ copy.report = FALSE /\ made \in Nat /\ made <= code.latest
  BY <1>1, WithinRecords DEF Checked
<1>3. CASE EndCanceled(copy)  BY <1>1, <1>2, <1>3, EndCanceledChecked
<1>4. CASE Verifies /\ step' = "audit" /\ goal' = goal
  <2>1. copy'.report = TRUE => verified' # None /\ (verified'.ok => verified'.at = code'.now)
    <3>1. CASE Repeats /\ verified' = verified  BY <3>1 DEF Repeats
    <3>2. CASE verified' \in Reports(code.now)
      <4>1. PICK ok \in BOOLEAN : verified' = [at |-> code.now, ok |-> ok]
        BY <3>2 DEF Reports
      <4>2. verified' \in [at : Nat, ok : BOOLEAN]
        BY <4>1 DEF GoalInv, Workspace
      <4>3. QED  BY <4>1, <4>2, <1>1, NoneAssumption
    <3>3. CASE \E s \in {"active", "blocked"} : copy' = [copy EXCEPT !.status = s]
      BY <3>3, <1>2 DEF Record
    <3>4. QED  BY <1>4, <3>1, <3>2, <3>3 DEF Verifies
  <2>2. QED  BY <1>1, <1>2, <1>4, <2>1 DEF Checked, Working
<1>5. QED  BY <1>3, <1>4 DEF Verify

\* An audit that is ready lets only a verification that passed through.
LEMMA AuditChecked == ASSUME GoalInv, Checked, Audit PROVE Checked'
<1>1. step = "audit" /\ step \in Within  BY DEF Audit, Within
<1>2. copy \in Record /\ goal.report = FALSE  BY <1>1, WithinRecords DEF Checked
<1>3. CASE Ready
  <2>1. UNCHANGED <<goal, verified, made>> /\ step' = "semantic"  BY <1>3 DEF Ready
  <2>2. code'.now = code.now /\ code'.latest = code.latest
    BY <1>3 DEF Ready, GoalInv, Workspace
  <2>3. copy'.report = copy.report /\ copy'.docs = copy.docs  BY <1>2, <1>3 DEF Ready, Record
  <2>4. copy'.docs \/ (verified # None => verified.ok)  BY <1>3, <2>3 DEF Ready, Passed
  <2>5. copy'.report = TRUE => verified # None /\ (verified.ok => verified.at = code.now)
    BY <1>1, <2>3 DEF Checked
  <2>6. QED  BY <2>1, <2>2, <2>4, <2>5 DEF Checked, Vouched, Working
<1>4. ASSUME Settled, made' \in {made, copy.snap} /\ (made' # made => copy.snap # None)
      PROVE  made' \in Nat /\ made' <= code'.latest
  <2>1. code'.latest = code.latest  BY <1>1, <1>4, SettledInv
  <2>2. QED  BY <1>1, <1>2, <1>4, <2>1 DEF Checked, GoalInv, TakenAt, Record
<1>5. ASSUME NEW g \in Counted, NotReady(g) PROVE Checked'
  <2>1. /\ Settled /\ made' \in {made, copy.snap} /\ (made' # made => copy.snap # None)
        /\ \/ End(g) \/ End([g EXCEPT !.status = "blocked", !.rejects = 0])
           \/ EndCanceled([g EXCEPT !.rejects = 0]) \/ End([g EXCEPT !.rejects = 0])
    BY <1>5 DEF NotReady, Settled, RollBack
  <2>2. /\ g \in Record /\ [g EXCEPT !.rejects = 0] \in Record
        /\ [g EXCEPT !.status = "blocked", !.rejects = 0] \in Record
    BY <1>2, <1>5, CountedRecord
  <2>3. made' \in Nat /\ made' <= code'.latest  BY <1>4, <2>1
  <2>4. QED  BY <2>1, <2>2, <2>3, EndChecked, EndCanceledChecked
<1>6. CASE End([copy EXCEPT !.status = "blocked"]) /\ UNCHANGED <<code, made>>
  <2>1. [copy EXCEPT !.status = "blocked"] \in Record
    BY <1>2, StatusRecord DEF Statuses, Stopped, Kept
  <2>2. QED  BY <1>6, <2>1, EndChecked DEF Checked
<1>7. QED  BY <1>3, <1>5, <1>6 DEF Audit

\* A turn that stands in for the reviewer and edits leaves a version that no
\* turn of the iteration made.
LEMMA FallBackChecked == ASSUME GoalInv, Checked, FallBack PROVE Checked'
<1>1. step = "semantic" /\ step' = "verdict" /\ UNCHANGED <<goal, copy, made>> /\ ~copy.docs
  BY DEF FallBack
<1>2. made \in Nat /\ made <= code.latest /\ Vouched  BY <1>1 DEF Checked
<1>3. code'.latest >= code.latest /\ code.latest \in Nat /\ code'.latest \in Nat
  BY WorksForward DEF FallBack, GoalInv, Workspace
<1>4. CASE UNCHANGED <<code, verified>>
  BY <1>1, <1>2, <1>4 DEF Checked, Vouched, Working
<1>5. CASE \E v \in Versions : /\ v # code.now
                               /\ code' \in {[now |-> v, latest |-> v, same |-> s] : s \in {FALSE, code.same}}
  <2>1. code'.now = code.latest + 1  BY <1>5 DEF Versions
  <2>2. made' # code'.now  BY <1>1, <1>2, <1>3, <2>1
  <2>3. QED  BY <1>1, <1>2, <1>3, <2>2 DEF Checked, Working
<1>6. QED  BY <1>4, <1>5 DEF FallBack, Works

LEMMA JudgeChecked == ASSUME GoalInv, Checked, Judge PROVE Checked'
<1>1. step \in Within /\ copy \in Record /\ made \in Nat /\ made <= code.latest /\ goal.report = FALSE
  BY WithinRecords DEF Judge, Within, Checked
<1>2. CASE \E g \in Record : End(g) /\ UNCHANGED <<code, made>>
  BY <1>1, <1>2, EndChecked
<1>3. CASE Reject
  <2>1. CASE copy' = [copy EXCEPT !.rejects = @ + 1] /\ step' = "mend" /\ UNCHANGED <<goal, code, made>>
    BY <1>1, <2>1, ElsewhereChecked
  <2>2. CASE End([copy EXCEPT !.status = "blocked", !.rejects = @ + 1]) /\ RollBack
    <3>1. made' \in {made, copy.snap} /\ (made' # made => copy.snap # None) /\ Settled
      BY <2>2 DEF RollBack, Settled
    <3>2. code'.latest = code.latest  BY <1>1, <3>1, SettledInv
    <3>3. made' \in Nat /\ made' <= code'.latest
      BY <1>1, <3>1, <3>2 DEF GoalInv, TakenAt, Record
    <3>4. QED  BY <1>1, <2>2, <3>3, RejectedRecord, EndChecked
  <2>3. QED  BY <1>3, <2>1, <2>2 DEF Reject
<1>4. CASE UNCHANGED <<code, made>> /\ EndCanceled(copy)
  BY <1>1, <1>4, EndCanceledChecked
<1>5. CASE Approve
  BY <1>1, <1>2, <1>5, ApprovedRecord DEF Approve
<1>6. CASE UNCHANGED <<code, made>> /\ End([copy EXCEPT !.status = "blocked"])
  <2>1. [copy EXCEPT !.status = "blocked"] \in Record
    BY <1>1, StatusRecord DEF Statuses, Stopped, Kept
  <2>2. QED  BY <1>2, <1>6, <2>1
<1>7. QED  BY <1>3, <1>4, <1>5, <1>6 DEF Judge

LEMMA MendChecked == ASSUME GoalInv, Checked, Mend PROVE Checked'
<1>1. step \in Within /\ Turn  BY DEF Mend, Within
<1>2. made' \in Nat /\ made' <= code'.latest /\ copy \in Record  BY <1>1, TurnMade, WithinRecords
<1>3. CASE TurnEnds({"blocked"})  BY <1>1, <1>3, TurnEndsChecked DEF Statuses, Stopped
<1>4. CASE End(copy)  BY <1>2, <1>4, EndChecked
<1>5. QED  BY <1>3, <1>4 DEF Mend

LEMMA NextChecked == ASSUME GoalInv, Checked, [Next]_vars PROVE Checked'
<1>1. CASE UNCHANGED vars
  BY <1>1 DEF vars, Checked, Vouched
<1>2. CASE Next
  BY <1>2, OutsideChecked, TopChecked, WorkingChecked, VerifyChecked, AuditChecked,
     FallBackChecked, JudgeChecked, MendChecked DEF Next, Iterate
<1>3. QED  BY <1>1, <1>2

\* A goal is never completed on a verification that failed, nor on one that the
\* iteration recorded and that an edit of its turns made old (runGoalIteration).
THEOREM CompletionVerified == Spec => CompletionIsVerified
<1>1. Init => Checked  BY DEF Init, Checked, Working
<1>2. GoalInv /\ Checked /\ [Next]_vars => Checked'  BY NextChecked
<1>3. GoalInv /\ Checked /\ [Next]_vars =>
        [Completes /\ ~copy.docs /\ made = code.now =>
           /\ verified # None => verified.ok
           /\ copy.report => verified # None /\ verified.at = made]_vars
  BY DEF Checked, Vouched, Completes
<1>4. QED  BY <1>1, <1>2, <1>3, GoalInvariant, PTL DEF Spec, CompletionIsVerified
-----------------------------------------------------------------------------
(***************************************************************************)
(* The end of a run.  An iteration goes through its steps in one direction *)
(* and counts when it ends, unless it pauses, which ends the run.          *)
(***************************************************************************)
StepsLeft(s) == CASE s = "idle"      -> 0
                  [] s = "mend"      -> 1
                  [] s = "verdict"   -> 2
                  [] s = "semantic"  -> 3
                  [] s = "audit"     -> 4
                  [] s = "verify"    -> 5
                  [] s = "repair"    -> 6
                  [] s = "review"    -> 7
                  [] s = "implement" -> 8
                  [] s = "top"       -> 9

\* How many steps the run can still take at most.
RunRank == IF step = "idle" THEN 0 ELSE 10 * (Ceiling - goal.iter) + StepsLeft(step)

\* The record counts the iterations, at most Ceiling of them, and the copy is
\* of the iteration that is under way.
Budgeted == /\ goal.iter <= Ceiling
            /\ step \in Within => copy.iter = goal.iter /\ goal.iter < Ceiling

LEMMA StepsLeftValues ==
  /\ StepsLeft("idle") = 0 /\ StepsLeft("mend") = 1 /\ StepsLeft("verdict") = 2
  /\ StepsLeft("semantic") = 3 /\ StepsLeft("audit") = 4 /\ StepsLeft("verify") = 5
  /\ StepsLeft("repair") = 6 /\ StepsLeft("review") = 7 /\ StepsLeft("implement") = 8
  /\ StepsLeft("top") = 9
  BY DEF StepsLeft

LEMMA StepsLeftRange == \A s \in Between \cup Within : StepsLeft(s) \in 0 .. 9 /\ (s # "idle" => StepsLeft(s) > 0)
  BY StepsLeftValues DEF Between, Within

LEMMA CountsIteration == ASSUME NEW g \in Record PROVE Counts(g).iter = g.iter + 1
<1> DEFINE a == [g EXCEPT !.iter = @ + 1]
           b == [a EXCEPT !.snap = None]
           c == [b EXCEPT !.docs = FALSE]
<1>1. a \in Record /\ a.iter = g.iter + 1  BY DEF Record
<1>2. b \in Record /\ b.iter = a.iter  BY <1>1 DEF Record
<1>3. c \in Record /\ c.iter = b.iter  BY <1>2 DEF Record
<1>4. [c EXCEPT !.report = FALSE].iter = c.iter  BY <1>3 DEF Record
<1>5. QED  BY <1>1, <1>2, <1>3, <1>4 DEF Counts

\* What a step of an iteration does to the run: it ends the iteration, which
\* counts, or stops the run, or goes on to a step further down.
EndsIteration == step' \in Between /\ goal'.iter = goal.iter + 1
StopsRun == step' = "idle" /\ goal'.iter = goal.iter
GoesDown == /\ step' \in Within /\ StepsLeft(step') < StepsLeft(step)
            /\ goal'.iter = goal.iter /\ copy'.iter = copy.iter
Shorter == Budgeted' /\ RunRank' < RunRank /\ RunRank' \in Nat

LEMMA IterationShortens ==
  ASSUME GoalInv, Budgeted, step \in Within, EndsIteration \/ StopsRun \/ GoesDown
  PROVE  Shorter
<1>1. Ceiling \in Nat /\ goal.iter \in Nat /\ goal.iter < Ceiling /\ copy.iter = goal.iter
  BY BoundsAssumption, WithinRecords DEF Budgeted, Record
<1>2. StepsLeft(step) \in 1 .. 9 /\ step # "idle"
  BY StepsLeftRange DEF Within
<1>3. RunRank = 10 * (Ceiling - goal.iter) + StepsLeft(step)
  BY <1>2 DEF RunRank
<1>4. CASE EndsIteration
  <2>1. step' \in Between /\ goal'.iter = goal.iter + 1  BY <1>4 DEF EndsIteration
  <2>2. Budgeted'  BY <1>1, <2>1 DEF Budgeted, Between, Within
  <2>3. RunRank' = 0 \/ RunRank' = 10 * (Ceiling - (goal.iter + 1)) + StepsLeft(step')
    BY <2>1 DEF RunRank
  <2>4. StepsLeft(step') \in 0 .. 9  BY <2>1, StepsLeftRange
  <2>5. QED  BY <1>1, <1>2, <1>3, <2>2, <2>3, <2>4 DEF Shorter
<1>5. CASE StopsRun
  <2>1. step' = "idle" /\ goal'.iter = goal.iter  BY <1>5 DEF StopsRun
  <2>2. Budgeted' /\ RunRank' = 0  BY <1>1, <2>1 DEF Budgeted, RunRank, Within
  <2>3. QED  BY <1>1, <1>2, <1>3, <2>2 DEF Shorter
<1>6. CASE GoesDown
  <2>1. /\ step' \in Within /\ step' # "idle" /\ StepsLeft(step') < StepsLeft(step)
        /\ goal'.iter = goal.iter /\ copy'.iter = copy.iter
    BY <1>6 DEF GoesDown, Within
  <2>2. Budgeted'  BY <1>1, <2>1 DEF Budgeted
  <2>3. RunRank' = 10 * (Ceiling - goal.iter) + StepsLeft(step')  BY <2>1 DEF RunRank
  <2>4. StepsLeft(step') \in 0 .. 9  BY <2>1, StepsLeftRange
  <2>5. QED  BY <1>1, <1>2, <1>3, <2>1, <2>2, <2>3, <2>4 DEF Shorter
<1>7. QED  BY <1>4, <1>5, <1>6

LEMMA EndCounts ==
  ASSUME copy.iter = goal.iter, NEW g \in Record, g.iter = copy.iter, End(g) \/ EndCanceled(g)
  PROVE  EndsIteration
<1>1. CASE End(g)
  BY <1>1, CountsIteration DEF End, EndsIteration, Between
<1>2. CASE EndCanceled(g)
  <2>1. [g EXCEPT !.status = "active"] \in Record /\ [g EXCEPT !.status = "active"].iter = g.iter
    BY DEF Record, Statuses
  <2>2. QED  BY <1>2, <2>1, CountsIteration DEF EndCanceled, EndsIteration, Between
<1>3. QED  BY <1>1, <1>2

LEMMA TurnEndsShortens ==
  ASSUME copy \in Record, copy.iter = goal.iter, NEW F \in SUBSET Statuses, TurnEnds(F)
  PROVE  EndsIteration \/ StopsRun
<1>1. CASE EndCanceled(copy)  BY <1>1, EndCounts
<1>2. ASSUME NEW s \in F, End([copy EXCEPT !.status = s]) PROVE EndsIteration
  <2>1. [copy EXCEPT !.status = s] \in Record /\ [copy EXCEPT !.status = s].iter = copy.iter
    BY DEF Record
  <2>2. QED  BY <1>2, <2>1, EndCounts
<1>3. CASE Pause
  <2>1. [copy EXCEPT !.status = "paused", !.docs = FALSE, !.report = FALSE].iter = copy.iter
    BY DEF Record
  <2>2. QED  BY <1>3, <2>1 DEF Pause, StopsRun
<1>4. QED  BY <1>1, <1>2, <1>3 DEF TurnEnds

LEMMA LeadsDown ==
  ASSUME goal \in Record, copy \in Record, NEW s \in Within, NEW d \in BOOLEAN, LeadsTo(s, d),
         StepsLeft(s) < StepsLeft(step)
  PROVE  GoesDown
<1>1. copy'.iter = copy.iter /\ step' = s  BY DEF LeadsTo, Record
<1>2. goal'.iter = goal.iter  BY DEF LeadsTo, Marked, Record
<1>3. QED  BY <1>1, <1>2 DEF GoesDown

LEMMA WithinBudgeted ==
  ASSUME GoalInv, Budgeted, step \in Within
  PROVE  goal \in Record /\ copy \in Record /\ copy.iter = goal.iter
  BY WithinRecords DEF Budgeted

LEMMA WorkingShortens == ASSUME GoalInv, Budgeted, Implement \/ Review \/ Repair PROVE Shorter
<1>1. step \in Within /\ {"blocked", "limited"} \in SUBSET Statuses
  BY DEF Implement, Review, Repair, Within, Statuses, Stopped
<1>2. goal \in Record /\ copy \in Record /\ copy.iter = goal.iter
  BY <1>1, WithinBudgeted
<1>3. CASE TurnEnds({"blocked", "limited"})
  BY <1>1, <1>2, <1>3, TurnEndsShortens, IterationShortens
<1>4. ASSUME NEW s \in {"review", "repair", "verify"}, NEW d \in BOOLEAN, LeadsTo(s, d),
             StepsLeft(s) < StepsLeft(step)
      PROVE  Shorter
  BY <1>1, <1>2, <1>4, LeadsDown, IterationShortens DEF Within
<1>5. CASE Implement
  <2>1. StepsLeft("review") < StepsLeft(step) /\ StepsLeft("verify") < StepsLeft(step)
    BY <1>5, StepsLeftValues DEF Implement
  <2>2. LeadsTo("review", FALSE) => Shorter  BY <1>4, <2>1
  <2>3. LeadsTo("verify", TRUE) => Shorter  BY <1>4, <2>1
  <2>4. QED  BY <1>3, <1>5, <2>2, <2>3 DEF Implement
<1>6. CASE Review
  <2>1. StepsLeft("repair") < StepsLeft(step) /\ StepsLeft("verify") < StepsLeft(step)
    BY <1>6, StepsLeftValues DEF Review
  <2>2. LeadsTo("repair", FALSE) => Shorter  BY <1>4, <2>1
  <2>3. LeadsTo("verify", FALSE) => Shorter  BY <1>4, <2>1
  <2>4. QED  BY <1>3, <1>6, <2>2, <2>3 DEF Review
<1>7. CASE Repair
  <2>1. StepsLeft("verify") < StepsLeft(step)
    BY <1>7, StepsLeftValues DEF Repair
  <2>2. LeadsTo("verify", FALSE) => Shorter  BY <1>4, <2>1
  <2>3. QED  BY <1>3, <1>7, <2>2 DEF Repair
<1>8. QED  BY <1>5, <1>6, <1>7

LEMMA VerifyShortens == ASSUME GoalInv, Budgeted, Verify PROVE Shorter
<1>1. step = "verify" /\ step \in Within  BY DEF Verify, Within
<1>2. copy \in Record /\ copy.iter = goal.iter  BY <1>1, WithinBudgeted
<1>3. CASE EndCanceled(copy)  BY <1>1, <1>2, <1>3, EndCounts, IterationShortens
<1>4. CASE Verifies /\ step' = "audit" /\ UNCHANGED goal
  <2>1. copy'.iter = copy.iter  BY <1>2, <1>4 DEF Verifies, Record
  <2>2. GoesDown  BY <1>1, <1>4, <2>1, StepsLeftValues DEF GoesDown, Within
  <2>3. QED  BY <1>1, <2>2, IterationShortens
<1>5. QED  BY <1>3, <1>4 DEF Verify

\* The records of an audit are of the same iteration.
LEMMA CountedIteration ==
  ASSUME copy \in Record, NEW g \in Counted
  PROVE  /\ g.iter = copy.iter /\ [g EXCEPT !.rejects = 0].iter = copy.iter
         /\ [g EXCEPT !.status = "blocked", !.rejects = 0].iter = copy.iter
<1>1. PICK i \in {0, copy.stalls + 1}, f \in {0, 1, copy.fails + 1} :
        g = [copy EXCEPT !.stalls = i, !.fails = f]
  BY DEF Counted
<1>2. g \in Record  BY CountedRecord
<1>3. g.iter = copy.iter  BY <1>1 DEF Record
<1>4. QED  BY <1>2, <1>3 DEF Record

LEMMA AuditShortens == ASSUME GoalInv, Budgeted, Audit PROVE Shorter
<1>1. step = "audit" /\ step \in Within  BY DEF Audit, Within
<1>2. copy \in Record /\ copy.iter = goal.iter  BY <1>1, WithinBudgeted
<1>3. CASE Ready
  <2>1. copy'.iter = copy.iter /\ goal' = goal /\ step' = "semantic"  BY <1>2, <1>3 DEF Ready, Record
  <2>2. GoesDown  BY <1>1, <2>1, StepsLeftValues DEF GoesDown, Within
  <2>3. QED  BY <1>1, <2>2, IterationShortens
<1>4. ASSUME NEW g \in Counted, NotReady(g) PROVE EndsIteration
  <2>1. /\ g \in Record /\ [g EXCEPT !.rejects = 0] \in Record
        /\ [g EXCEPT !.status = "blocked", !.rejects = 0] \in Record
    BY <1>2, CountedRecord
  <2>2. /\ g.iter = copy.iter /\ [g EXCEPT !.rejects = 0].iter = copy.iter
        /\ [g EXCEPT !.status = "blocked", !.rejects = 0].iter = copy.iter
    BY <1>2, CountedIteration
  <2>3. \/ End(g) \/ End([g EXCEPT !.status = "blocked", !.rejects = 0])
        \/ EndCanceled([g EXCEPT !.rejects = 0]) \/ End([g EXCEPT !.rejects = 0])
    BY <1>4 DEF NotReady
  <2>4. QED  BY <1>2, <2>1, <2>2, <2>3, EndCounts
<1>5. CASE End([copy EXCEPT !.status = "blocked"])
  <2>1. [copy EXCEPT !.status = "blocked"] \in Record /\ [copy EXCEPT !.status = "blocked"].iter = copy.iter
    BY <1>2 DEF Record, Statuses, Stopped
  <2>2. EndsIteration  BY <1>2, <1>5, <2>1, EndCounts
  <2>3. QED  BY <1>1, <2>2, IterationShortens
<1>6. QED  BY <1>1, <1>3, <1>4, <1>5, IterationShortens DEF Audit

LEMMA FallBackShortens == ASSUME GoalInv, Budgeted, FallBack PROVE Shorter
<1>1. step \in Within /\ GoesDown
  BY StepsLeftValues DEF FallBack, GoesDown, Within
<1>2. QED  BY <1>1, IterationShortens

LEMMA JudgeShortens == ASSUME GoalInv, Budgeted, Judge PROVE Shorter
<1>1. step \in {"semantic", "verdict"} /\ step \in Within  BY DEF Judge, Within
<1>2. copy \in Record /\ copy.iter = goal.iter /\ copy.rejects \in Nat
  BY <1>1, WithinBudgeted DEF Record
<1>3. CASE Approve
  <2> DEFINE g == [copy EXCEPT !.left = IF @ = 0 THEN 0 ELSE @ - 1, !.rejects = 0,
                               !.status = IF copy.left <= 1 THEN "complete" ELSE "active"]
  <2>1. g \in Record  BY <1>2, ApprovedRecord
  <2>2. g.iter = copy.iter  BY <1>2 DEF Record
  <2>3. End(g)  BY <1>3 DEF Approve
  <2> HIDE DEF g
  <2>4. EndsIteration  BY <1>2, <2>1, <2>2, <2>3, EndCounts
  <2>5. QED  BY <1>1, <2>4, IterationShortens
<1>4. CASE Reject
  <2>1. CASE copy' = [copy EXCEPT !.rejects = @ + 1] /\ step' = "mend" /\ goal' = goal
    <3>1. copy'.iter = copy.iter  BY <1>2, <2>1 DEF Record
    <3>2. GoesDown  BY <1>1, <2>1, <3>1, StepsLeftValues DEF GoesDown, Within
    <3>3. QED  BY <1>1, <3>2, IterationShortens
  <2>2. CASE End([copy EXCEPT !.status = "blocked", !.rejects = @ + 1])
    <3>1. [copy EXCEPT !.status = "blocked", !.rejects = @ + 1].iter = copy.iter  BY <1>2 DEF Record
    <3>2. EndsIteration  BY <1>2, <2>2, <3>1, RejectedRecord, EndCounts
    <3>3. QED  BY <1>1, <3>2, IterationShortens
  <2>3. QED  BY <1>4, <2>1, <2>2 DEF Reject
<1>5. CASE EndCanceled(copy)  BY <1>1, <1>2, <1>5, EndCounts, IterationShortens
<1>6. CASE End([copy EXCEPT !.status = "blocked"])
  <2>1. [copy EXCEPT !.status = "blocked"] \in Record /\ [copy EXCEPT !.status = "blocked"].iter = copy.iter
    BY <1>2 DEF Record, Statuses, Stopped
  <2>2. EndsIteration  BY <1>2, <1>6, <2>1, EndCounts
  <2>3. QED  BY <1>1, <2>2, IterationShortens
<1>7. QED  BY <1>3, <1>4, <1>5, <1>6 DEF Judge

LEMMA MendShortens == ASSUME GoalInv, Budgeted, Mend PROVE Shorter
<1>1. step \in Within  BY DEF Mend, Within
<1>2. copy \in Record /\ copy.iter = goal.iter  BY <1>1, WithinBudgeted
<1>3. CASE TurnEnds({"blocked"})
  <2>1. {"blocked"} \in SUBSET Statuses  BY DEF Statuses, Stopped
  <2>2. EndsIteration \/ StopsRun  BY <1>2, <1>3, <2>1, TurnEndsShortens
  <2>3. QED  BY <1>1, <2>2, IterationShortens
<1>4. CASE End(copy)  BY <1>1, <1>2, <1>4, EndCounts, IterationShortens
<1>5. QED  BY <1>3, <1>4 DEF Mend

\* A run that is at its limits begins no iteration.
LEMMA TopShortens == ASSUME GoalInv, Budgeted, Top PROVE Shorter
<1>1. step = "top" /\ goal \in Record /\ goal.iter \in Nat /\ Ceiling \in Nat /\ goal.iter <= Ceiling
  BY BoundsAssumption, WithinRecords DEF Top, Budgeted, Record
<1>2. RunRank = 10 * (Ceiling - goal.iter) + 9  BY <1>1, StepsLeftValues DEF RunRank
<1>3. CASE \E s \in Statuses : goal' = [goal EXCEPT !.status = s] /\ step' = "idle"
  <2>1. goal'.iter = goal.iter  BY <1>1, <1>3 DEF Record
  <2>2. Budgeted' /\ RunRank' = 0  BY <1>1, <1>3, <2>1 DEF Budgeted, RunRank, Within
  <2>3. QED  BY <1>1, <1>2, <2>2 DEF Shorter
<1>4. CASE goal.iter < Ceiling /\ Begin
  <2>1. step' = "implement" /\ goal' = goal  BY <1>4 DEF Begin
  <2>2. copy'.iter = goal.iter  BY <1>1, <1>4 DEF Begin, Record
  <2>3. Budgeted'  BY <1>1, <1>4, <2>1, <2>2 DEF Budgeted
  <2>4. RunRank' = 10 * (Ceiling - goal.iter) + 8  BY <2>1, StepsLeftValues DEF RunRank
  <2>5. QED  BY <1>1, <1>2, <2>3, <2>4 DEF Shorter
<1>5. QED  BY <1>3, <1>4 DEF Top, Statuses, Stopped

LEMMA OutsideLengthens ==
  ASSUME GoalInv, Budgeted, Run \/ Cancel \/ Decide \/ Crash
  PROVE  Budgeted' /\ (step # "idle" => RunRank' <= RunRank)
<1>1. goal.iter \in Nat /\ Ceiling \in Nat /\ goal.iter <= Ceiling
  BY BoundsAssumption, WithinRecords DEF Budgeted, Record
<1>2. RunRank \in Nat
  <2>1. step # "idle" => StepsLeft(step) \in 0 .. 9  BY StepsLeftRange DEF GoalInv
  <2>2. QED  BY <1>1, <2>1 DEF RunRank
<1>3. CASE Cancel \/ Decide
  <2>1. UNCHANGED <<goal, copy, step>>  BY <1>3 DEF Cancel, Decide
  <2>2. Budgeted' /\ RunRank' = RunRank  BY <2>1 DEF Budgeted, RunRank
  <2>3. QED  BY <1>2, <2>2
<1>4. CASE Run
  <2>1. goal'.iter = goal.iter  BY <1>4, WithinRecords DEF Run, Record
  <2>2. step = "idle" /\ step' \in Between  BY <1>4 DEF Run, Between
  <2>3. Budgeted'  BY <1>1, <2>1, <2>2 DEF Budgeted, Between, Within
  <2>4. QED  BY <2>2, <2>3
<1>5. CASE Crash
  <2>1. goal' = goal /\ step' = "idle"  BY <1>5 DEF Crash
  <2>2. Budgeted' /\ RunRank' = 0  BY <1>1, <2>1 DEF Budgeted, RunRank, Within
  <2>3. QED  BY <1>2, <2>2
<1>6. QED  BY <1>3, <1>4, <1>5

LEMMA IterateShortens == ASSUME GoalInv, Budgeted, Iterate PROVE Shorter
  BY TopShortens, WorkingShortens, VerifyShortens, AuditShortens, FallBackShortens, JudgeShortens,
     MendShortens DEF Iterate

\* Every step of a run is one of at most 10 * Ceiling + 9, whatever the agent, the
\* reviewers and the verification answer: the safety half of RunEnds.  An interruption
\* does not lengthen the run, and a goal has at most Ceiling iterations over all its
\* runs (runGoalLoop, recordGoalIteration).
RunShortens == [][/\ Iterate => RunRank' < RunRank
                  /\ step # "idle" => RunRank' <= RunRank]_vars
RankBounded == RunRank \in 0 .. 10 * Ceiling + 9 /\ goal.iter \in 0 .. Ceiling

LEMMA RankInRange == ASSUME GoalInv, Budgeted PROVE RankBounded
<1>1. goal.iter \in Nat /\ Ceiling \in Nat /\ goal.iter <= Ceiling
  BY BoundsAssumption, WithinRecords DEF Budgeted, Record
<1>2. StepsLeft(step) \in 0 .. 9  BY StepsLeftRange DEF GoalInv
<1>3. QED  BY <1>1, <1>2 DEF RankBounded, RunRank

THEOREM RunsShorten == Spec => RunShortens /\ []RankBounded
<1>1. Init => Budgeted
  BY BoundsAssumption DEF Init, Budgeted, Within
<1>2. GoalInv /\ Budgeted /\ [Next]_vars => Budgeted'
  <2> SUFFICES ASSUME GoalInv, Budgeted, [Next]_vars PROVE Budgeted'
    OBVIOUS
  <2>1. CASE Iterate  BY <2>1, IterateShortens DEF Shorter
  <2>2. CASE Run \/ Cancel \/ Decide \/ Crash  BY <2>2, OutsideLengthens
  <2>3. CASE UNCHANGED vars  BY <2>3 DEF vars, Budgeted
  <2>4. QED  BY <2>1, <2>2, <2>3 DEF Next
<1>3. GoalInv /\ Budgeted /\ [Next]_vars =>
        [/\ Iterate => RunRank' < RunRank
         /\ step # "idle" => RunRank' <= RunRank]_vars
  <2> SUFFICES ASSUME GoalInv, Budgeted, Next
               PROVE  /\ Iterate => RunRank' < RunRank
                      /\ step # "idle" => RunRank' <= RunRank
    OBVIOUS
  <2>1. Iterate => RunRank' < RunRank  BY IterateShortens DEF Shorter
  <2>2. CASE Iterate
    <3>1. RunRank' \in Int  BY <2>2, IterateShortens DEF Shorter
    <3>2. RunRank \in Int  BY RankInRange DEF RankBounded
    <3>3. QED  BY <2>1, <2>2, <3>1, <3>2
  <2>3. CASE Run \/ Cancel \/ Decide \/ Crash
    <3>1. ~Iterate \/ RunRank' < RunRank  BY <2>1
    <3>2. QED  BY <2>1, <2>3, OutsideLengthens
  <2>4. QED  BY <2>2, <2>3 DEF Next
<1>4. GoalInv /\ Budgeted => RankBounded
  BY RankInRange
<1>5. QED  BY <1>1, <1>2, <1>3, <1>4, GoalInvariant, PTL DEF Spec, RunShortens
=============================================================================
