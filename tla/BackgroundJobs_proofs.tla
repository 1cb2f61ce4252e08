------------------------ MODULE BackgroundJobs_proofs ------------------------
(***************************************************************************)
(* Proofs about background jobs, for any number of jobs, bundles, failed   *)
(* writes and restarts, on every platform.                                 *)
(*                                                                         *)
(* The invariant IInv says that the records of jobs, their status files,   *)
(* the runners and what an operation holds of them agree; where SyncJob    *)
(* had to guess, that the runner is gone and its file holds no success.    *)
(***************************************************************************)
EXTENDS BackgroundJobs, FiniteSetTheorems, TLAPS

-----------------------------------------------------------------------------
(* NewestFirst lists its argument.                                         *)

Above(S, x) == {y \in S : y > x}
Rank(S) == [x \in S |-> Cardinality(Above(S, x)) + 1]

LEMMA RankIsInjective ==
  ASSUME NEW S, S \subseteq Nat, IsFiniteSet(S)
  PROVE  Rank(S) \in Injection(S, 1..Cardinality(S))
<1>1. ASSUME NEW x \in S
      PROVE  /\ IsFiniteSet(Above(S, x)) /\ Cardinality(Above(S, x)) \in Nat
             /\ Cardinality(Above(S, x)) + 1 \in 1..Cardinality(S)
  <2>1. Above(S, x) \in SUBSET (S \ {x}) /\ IsFiniteSet(S \ {x})
    BY FS_RemoveElement DEF Above
  <2>2. /\ IsFiniteSet(Above(S, x))
        /\ Cardinality(Above(S, x)) <= Cardinality(S \ {x})
    BY <2>1, FS_Subset
  <2>3. /\ Cardinality(S \ {x}) = Cardinality(S) - 1
        /\ Cardinality(S) \in Nat /\ Cardinality(Above(S, x)) \in Nat
    BY <2>2, FS_RemoveElement, FS_CardinalityType
  <2>4. QED  BY <2>2, <2>3
<1>2. ASSUME NEW x \in S, NEW y \in S, x < y, Rank(S)[x] = Rank(S)[y] PROVE FALSE
  <2>1. Above(S, y) \in SUBSET Above(S, x)
    <3>1. \A z \in S : z > y => z > x
      BY <1>2
    <3>2. QED  BY <3>1 DEF Above
  <2>2. Cardinality(Above(S, x)) = Cardinality(Above(S, y))
    BY <1>1, <1>2 DEF Rank
  <2>3. Above(S, x) = Above(S, y)
    BY <1>1, <2>1, <2>2, FS_Subset
  <2>4. y \in Above(S, x) /\ y \notin Above(S, y)
    BY <1>2 DEF Above
  <2>5. QED  BY <2>3, <2>4
<1>3. \A x, y \in S : Rank(S)[x] = Rank(S)[y] => x = y
  <2> SUFFICES ASSUME NEW x \in S, NEW y \in S, Rank(S)[x] = Rank(S)[y], x # y PROVE FALSE
    OBVIOUS
  <2>1. x < y \/ y < x  OBVIOUS
  <2>2. QED  BY <1>2, <2>1
<1>4. Rank(S) \in [S -> 1..Cardinality(S)]
  BY <1>1 DEF Rank
<1>5. QED  BY <1>3, <1>4 DEF Injection, IsInjective

LEMMA NewestFirstLists ==
  ASSUME NEW S, S \subseteq Nat, IsFiniteSet(S)
  PROVE  NewestFirst(S) \in Seq(S) /\ Range(NewestFirst(S)) = S
<1> DEFINE n == Cardinality(S)
<1>1. n \in Nat /\ IsFiniteSet(1..n) /\ Cardinality(1..n) = n
  <2>1. n \in Nat  BY FS_CardinalityType
  <2>2. QED  BY <2>1, FS_Interval
<1> HIDE DEF n
<1>2. Rank(S) \in Injection(S, 1..n)
  BY RankIsInjective DEF n
<1>3. Rank(S) \in Surjection(S, 1..n)
  BY <1>1, <1>2, FS_Injection DEF n
<1>4. \A i \in 1..n : \E x \in S : Cardinality({y \in S : y > x}) = i - 1
  <2> SUFFICES ASSUME NEW i \in 1..n PROVE \E x \in S : Cardinality({y \in S : y > x}) = i - 1
    OBVIOUS
  <2>1. PICK x \in S : Rank(S)[x] = i
    BY <1>3 DEF Surjection
  <2>2. Cardinality(Above(S, x)) + 1 = i /\ Cardinality(Above(S, x)) \in Nat
    <3>1. Above(S, x) \in SUBSET S  BY DEF Above
    <3>2. IsFiniteSet(Above(S, x))  BY <3>1, FS_Subset
    <3>3. QED  BY <2>1, <3>2, FS_CardinalityType DEF Rank
  <2>3. QED  BY <2>2 DEF Above
<1> DEFINE At(i) == CHOOSE x \in S : Cardinality({y \in S : y > x}) = i - 1
<1>5. \A i \in 1..n : At(i) \in S /\ Cardinality({y \in S : y > At(i)}) = i - 1
  BY <1>4
<1>6. NewestFirst(S) = [i \in 1..n |-> At(i)]
  BY Zenon DEF NewestFirst, n
<1> HIDE DEF At
<1>7. NewestFirst(S) = [i \in 1..n |-> NewestFirst(S)[i]]
  BY <1>6
<1>8. \A i \in 1..n : /\ NewestFirst(S)[i] \in S
                      /\ Cardinality({y \in S : y > NewestFirst(S)[i]}) = i - 1
  BY <1>5, <1>6
<1>9. \A x \in S : \E i \in 1..n : NewestFirst(S)[i] = x
  <2> SUFFICES ASSUME NEW x \in S PROVE \E i \in 1..n : NewestFirst(S)[i] = x
    OBVIOUS
  <2> DEFINE i == Rank(S)[x]
  <2>1. i \in 1..n
    BY <1>2 DEF Injection
  <2>2. IsFiniteSet(Above(S, x))
    <3>1. Above(S, x) \in SUBSET S  BY DEF Above
    <3>2. QED  BY <3>1, FS_Subset
  <2>3. Cardinality(Above(S, x)) \in Nat
    BY <2>2, FS_CardinalityType
  <2>4. i = Cardinality(Above(S, x)) + 1
    BY DEF Rank
  <2> DEFINE z == NewestFirst(S)[i]
  <2>5. z \in S /\ Cardinality(Above(S, z)) = i - 1
    BY <1>8, <2>1 DEF Above
  <2>6. Rank(S)[z] = Rank(S)[x]
    BY <2>3, <2>4, <2>5 DEF Rank
  <2>7. z = x
    BY <1>2, <2>5, <2>6 DEF Injection, IsInjective
  <2>8. QED  BY <2>1, <2>7
<1>10. NewestFirst(S) \in Seq(S)
  <2> DEFINE e == NewestFirst(S)
  <2>1. e = [i \in 1..n |-> e[i]] /\ \A i \in 1..n : e[i] \in S
    BY <1>7, <1>8
  <2> HIDE DEF e
  <2>2. e \in [1..n -> S]
    BY <2>1
  <2>3. e \in Seq(S)
    BY <1>1, <2>2
  <2>4. QED  BY <2>3 DEF e
<1>11. DOMAIN NewestFirst(S) = 1..n
  BY <1>7
<1>12. QED  BY <1>8, <1>9, <1>10, <1>11 DEF Range

LEMMA ListsOfJobs == \A S \in SUBSET Jobs : NewestFirst(S) \in Seq(Jobs) /\ Range(NewestFirst(S)) = S
<1> SUFFICES ASSUME NEW S \in SUBSET Jobs
             PROVE  NewestFirst(S) \in Seq(Jobs) /\ Range(NewestFirst(S)) = S
  OBVIOUS
<1>1. IsFiniteSet(Jobs) /\ S \subseteq Nat
  BY BackgroundAssumption, FS_Interval DEF Jobs
<1>2. IsFiniteSet(S)
  BY <1>1, FS_Subset
<1>3. NewestFirst(S) \in Seq(S) /\ Range(NewestFirst(S)) = S
  BY <1>1, <1>2, NewestFirstLists
<1>4. QED  BY <1>3

LEMMA ListsOfBundles == \A S \in SUBSET Bundles : NewestFirst(S) \in Seq(Bundles)
<1> SUFFICES ASSUME NEW S \in SUBSET Bundles PROVE NewestFirst(S) \in Seq(Bundles)
  OBVIOUS
<1>1. IsFiniteSet(Bundles) /\ S \subseteq Nat
  BY BackgroundAssumption, FS_Interval DEF Bundles
<1>2. IsFiniteSet(S)
  BY <1>1, FS_Subset
<1>3. NewestFirst(S) \in Seq(S)
  BY <1>1, <1>2, NewestFirstLists
<1>4. QED  BY <1>3
-----------------------------------------------------------------------------
(* The invariant.                                                          *)

Alive == {"working", "writing"}

\* A job with a verdict has no runner at work, and a job that was not started
\* has no record, p being what the runners do.
Settled(jobs, p) == \A j \in Jobs : /\ jobs[j].status \in Final => p[j] \notin Alive
                                    /\ p[j] = "none" => jobs[j].status = "absent"

\* A record that says completed or failed was told so by the status file, or it
\* is a guess about a runner that is gone, f being what the files say.
Reported == {"completed", "failed"}
Told(jobs, f, p) == \A j \in Jobs :
  /\ jobs[j].status = "completed" =>
       f[j] = "completed" \/ (p[j] = "gone" /\ f[j] \in {"running", "torn", "failed"})
  /\ jobs[j].status = "failed" => f[j] = "failed"

\* The jobs of a bundle that has completed did, as far as was known then.
Backed(jobs, bundles, p) ==
  \A b \in Bundles : bundles[b].status = "completed" =>
    \A j \in Jobs \cap Range(bundles[b].jobs) :
      jobs[j].status = "completed" \/ (jobs[j].status = "failed" /\ p[j] = "gone")

\* What the session file has of a job was not taken back since.
Ahead(old, new) == \A j \in Jobs : old[j].status \in Reported => new[j].status \in Reported

Sound(jobs, bundles, f, p) == Settled(jobs, p) /\ Told(jobs, f, p) /\ Backed(jobs, bundles, p)

Records == /\ Sound(job, bundle, file, proc)
           /\ Sound(saved.job, saved.bundle, file, proc)
           /\ Ahead(saved.job, job)

\* What the status file says follows the runner.
Runners == \A j \in Jobs :
  /\ proc[j] = "none" <=> file[j] = "absent"
  /\ proc[j] = "none" => outcome[j] = "unknown" /\ j \notin ours
  /\ proc[j] = "working" => outcome[j] = "unknown" /\ file[j] = "running"
  /\ proc[j] = "writing" => file[j] = "torn"
  /\ file[j] = "completed" => outcome[j] = "zero"
  /\ proc[j] = "zombie" => j \in ours /\ ~windows
  /\ j \in ours /\ ~windows => proc[j] # "gone"

\* The jobs of this process have a record.
Verdicts == \A j \in ours : job[j].status # "absent"

\* What SyncJob has read still holds, or the runner was at work.
Reads == op.read # "unread" =>
  /\ op.todo # <<>> /\ op.kind \in {"job", "bundle", "find", "record"}
  /\ LET j == Head(op.todo)
     IN  /\ op.read = "absent" <=> proc[j] = "none"
         /\ op.read \in Final => file[j] = op.read
         /\ proc[j] = "working" => op.read = "running"
         /\ op.read \in {"running", "torn"} => file[j] \in {"running", "torn", "completed", "failed"}
         /\ job[j].status \in Final => op.read = file[j]

\* What the operation will do to the bundle in hand.
Marks == /\ op.kind = "reuse" => bundle[op.at].status \in {"running", "completed", "failed", "canceled"}
         /\ op.kind = "cancel" => op.mark # "none"

\* The search for a job to reuse has not passed over one that works.
Finds == op.kind = "find" =>
  \A j \in ours : proc[j] = "working" /\ job[j].cmd = Head(op.cmds) => j \in Range(op.todo)

\* What an operation has in hand when it has a job, a bundle or a command.
Course == /\ op.kind = "find" => op.cmds # <<>>
          /\ op.kind \in {"record", "cancel"} /\ op.at # 0 => op.pending # <<>>
          /\ op.kind = "ask" \/ (op.kind \in {"record", "cancel"} /\ op.at = 0) => op.todo = <<>>
          /\ op.kind \in {"ask", "find"} => op.at = 0

IInv == /\ TypeOK /\ Course /\ Records /\ Runners /\ Verdicts /\ Reads /\ Marks /\ Finds
        /\ OneRunPerCommand

-----------------------------------------------------------------------------
(* Types.                                                                  *)

LEMMA IdleType == Idle \in Operation
<1>1. NoOwner \in Owners  BY DEF Owners
<1>2. QED  BY <1>1 DEF Idle, Operation

\* The next steps of an operation keep it one.
LEMMA OperationReads ==
  ASSUME NEW o \in Operation, NEW s \in Seq(Jobs), NEW r \in Status \cup {"torn", "unread"}
  PROVE  [o EXCEPT !.todo = s, !.read = r] \in Operation
  BY DEF Operation

LEMMA OperationWaits ==
  ASSUME NEW o \in Operation, NEW s \in Seq(Bundles)
  PROVE  [o EXCEPT !.pending = s] \in Operation
  BY DEF Operation

LEMMA OperationGoesOn ==
  ASSUME NEW o \in Operation, NEW s \in Seq(Bundles), NEW a \in Bundles \cup {0}
  PROVE  [o EXCEPT !.pending = s, !.at = a, !.todo = <<>>] \in Operation
<1>1. <<>> \in Seq(Jobs)  OBVIOUS
<1>2. QED  BY <1>1 DEF Operation

LEMMA OperationTakes ==
  ASSUME NEW o \in Operation, NEW s \in Seq(Jobs), NEW a \in Bundles \cup {0}
  PROVE  [o EXCEPT !.at = a, !.todo = s] \in Operation
  BY DEF Operation

LEMMA OperationAsks ==
  ASSUME NEW o \in Operation, NEW s \in Seq(Commands), NEW e \in Seq(Jobs)
  PROVE  [o EXCEPT !.kind = "ask", !.todo = <<>>, !.read = "unread", !.cmds = s, !.batch = e]
           \in Operation
<1>1. <<>> \in Seq(Jobs)  OBVIOUS
<1>2. QED  BY <1>1 DEF Operation

LEMMA OperationReuses ==
  ASSUME NEW o \in Operation
  PROVE  [o EXCEPT !.kind = "reuse", !.pending = <<>>, !.todo = <<>>] \in Operation
<1>1. <<>> \in Seq(Jobs) /\ <<>> \in Seq(Bundles)  OBVIOUS
<1>2. QED  BY <1>1 DEF Operation

LEMMA NextCommandType ==
  ASSUME op \in Operation, op.cmds # <<>>, NEW j \in Jobs \cup {0}, NEW hook
  PROVE  NextCommand(j, hook) \in Operation
<1>1. op.batch \in Seq(Jobs) /\ op.cmds \in Seq(Commands)
  BY DEF Operation
<1>2. Tail(op.cmds) \in Seq(Commands) /\ (j # 0 => Append(op.batch, j) \in Seq(Jobs))
  BY <1>1
<1> DEFINE e == IF j = 0 THEN op.batch ELSE Append(op.batch, j)
<1>3. e \in Seq(Jobs)
  BY <1>1, <1>2
<1>4. [op EXCEPT !.kind = "ask", !.todo = <<>>, !.read = "unread", !.cmds = Tail(op.cmds), !.batch = e]
        \in Operation
  BY <1>2, <1>3, OperationAsks
<1>5. QED  BY <1>4, IdleType DEF NextCommand

LEMMA AfterBundleType ==
  ASSUME op \in Operation, NEW ok, op.kind = "bundle" \/ op.pending # <<>>
  PROVE  AfterBundle(ok) \in Operation
<1>1. op.pending \in Seq(Bundles)
  BY DEF Operation
<1>2. op.pending # <<>> => Tail(op.pending) \in Seq(Bundles)
  BY <1>1
<1>3. op.pending # <<>> => [op EXCEPT !.at = 0, !.pending = Tail(op.pending), !.todo = <<>>] \in Operation
  <2>1. op.pending # <<>> => [op EXCEPT !.pending = Tail(op.pending), !.at = 0, !.todo = <<>>] \in Operation
    BY <1>2, OperationGoesOn
  <2>2. [op EXCEPT !.at = 0, !.pending = Tail(op.pending), !.todo = <<>>]
          = [op EXCEPT !.pending = Tail(op.pending), !.at = 0, !.todo = <<>>]
    OBVIOUS
  <2>3. QED  BY <2>1, <2>2
<1>4. QED  BY <1>3, IdleType, OperationReuses DEF AfterBundle

LEMMA NextPendingType ==
  ASSUME op \in Operation, op.pending # <<>>
  PROVE  NextPending \in Operation
<1>1. op.pending \in Seq(Bundles)
  BY DEF Operation
<1>2. Tail(op.pending) \in Seq(Bundles)
  BY <1>1
<1>3. [op EXCEPT !.pending = Tail(op.pending), !.at = 0, !.todo = <<>>] \in Operation
  BY <1>2, OperationGoesOn
<1>4. QED  BY <1>3, IdleType DEF NextPending

\* Beginnings.
LEMMA BeginningType ==
  /\ \A j \in Jobs : [Idle EXCEPT !.kind = "job", !.todo = <<j>>] \in Operation
  /\ \A b \in Bundles, s \in Seq(Jobs) : [Idle EXCEPT !.kind = "bundle", !.at = b, !.todo = s] \in Operation
  /\ \A b \in Bundles : [Idle EXCEPT !.kind = "cancel", !.pending = <<b>>, !.mark = "canceled"] \in Operation
  /\ \A s \in Seq(Bundles) : [Idle EXCEPT !.kind = "cancel", !.pending = s, !.mark = "stale"] \in Operation
  /\ \A q \in Requests : [Idle EXCEPT !.kind = "ask", !.cmds = q.cmds, !.owner = q.owner, !.check = q.check]
                           \in Operation
<1> DEFINE o == Idle
<1>1. o \in Operation
  BY IdleType
<1> HIDE DEF o
<1>2. ASSUME NEW j \in Jobs PROVE [o EXCEPT !.kind = "job", !.todo = <<j>>] \in Operation
  <2>1. <<j>> \in Seq(Jobs)  OBVIOUS
  <2>2. QED  BY <1>1, <2>1 DEF Operation
<1>3. ASSUME NEW b \in Bundles, NEW s \in Seq(Jobs)
      PROVE  [o EXCEPT !.kind = "bundle", !.at = b, !.todo = s] \in Operation
  BY <1>1 DEF Operation
<1>4. ASSUME NEW b \in Bundles
      PROVE  [o EXCEPT !.kind = "cancel", !.pending = <<b>>, !.mark = "canceled"] \in Operation
  <2>1. <<b>> \in Seq(Bundles)  OBVIOUS
  <2>2. QED  BY <1>1, <2>1 DEF Operation
<1>5. ASSUME NEW s \in Seq(Bundles)
      PROVE  [o EXCEPT !.kind = "cancel", !.pending = s, !.mark = "stale"] \in Operation
  BY <1>1 DEF Operation
<1>6. ASSUME NEW q \in Requests
      PROVE  [o EXCEPT !.kind = "ask", !.cmds = q.cmds, !.owner = q.owner, !.check = q.check] \in Operation
  <2>1. q.cmds \in Seq(Commands) /\ q.owner \in Owners /\ q.check \in BOOLEAN
    BY BackgroundAssumption DEF Owners
  <2>2. ASSUME NEW c \in Seq(Commands), NEW w \in Owners, NEW u \in BOOLEAN
        PROVE  [o EXCEPT !.kind = "ask", !.cmds = c, !.owner = w, !.check = u] \in Operation
    BY <1>1, <2>2 DEF Operation
  <2>3. QED  BY <2>1, <2>2
<1>7. QED  BY <1>2, <1>3, <1>4, <1>5, <1>6 DEF o

\* The steps that change the operation only.
OnlyOperation ==
  \/ \E j \in Jobs : BeginSyncJob(j)
  \/ \E b \in Bundles : BeginSyncBundle(b) \/ BeginCancelBundle(b)
  \/ \E q \in Requests : BeginLaunch(q)
  \/ \E a \in {"yes", "skip", "error"} : Ask(a)
  \/ ReadStatus \/ NextCandidate \/ StartFails \/ Launched \/ NoneToReuse \/ Edit

LEMMA OnlyOperationType ==
  ASSUME TypeOK, Course, OnlyOperation PROVE op' \in Operation
<1>1. op \in Operation
  BY DEF TypeOK
<1>2. /\ op.todo \in Seq(Jobs) /\ op.pending \in Seq(Bundles)
      /\ \A b \in Bundles : bundle[b].jobs \in Seq(Jobs)
  BY DEF TypeOK, Operation, BundleRecord
<1>3. CASE \/ \E j \in Jobs : BeginSyncJob(j)
           \/ \E b \in Bundles : BeginSyncBundle(b) \/ BeginCancelBundle(b)
           \/ \E q \in Requests : BeginLaunch(q)
  <2>1. ASSUME NEW j \in Jobs, BeginSyncJob(j) PROVE op' \in Operation
    BY <2>1, BeginningType DEF BeginSyncJob
  <2>2. ASSUME NEW b \in Bundles, BeginSyncBundle(b) \/ BeginCancelBundle(b) PROVE op' \in Operation
    BY <1>2, <2>2, BeginningType DEF BeginSyncBundle, BeginCancelBundle
  <2>3. ASSUME NEW q \in Requests, BeginLaunch(q) PROVE op' \in Operation
    BY <2>3, BeginningType DEF BeginLaunch
  <2>4. QED  BY <1>3, <2>1, <2>2, <2>3
<1>4. ASSUME NEW a \in {"yes", "skip", "error"}, Ask(a) PROVE op' \in Operation
  <2> DEFINE s == NewestFirst({j \in Jobs : job[j].status = "running"})
  <2>1. s \in Seq(Jobs)
    BY ListsOfJobs
  <2> HIDE DEF s
  <2>2. [op EXCEPT !.kind = "find", !.todo = s] \in Operation
    BY <1>1, <2>1 DEF Operation
  <2>3. CASE a = "yes"
    BY <1>4, <2>2, <2>3 DEF Ask, s
  <2>4. CASE a = "skip"
    BY <1>1, <1>4, <2>4, NextCommandType DEF Ask
  <2>5. CASE a = "error"
    BY <1>4, <2>5, IdleType DEF Ask
  <2>6. QED  BY <2>3, <2>4, <2>5
<1>5. CASE ReadStatus
  <2>1. Head(op.todo) \in Jobs
    BY <1>2, <1>5 DEF ReadStatus
  <2>2. file[Head(op.todo)] \in Status \cup {"torn", "unread"}
    BY <2>1 DEF TypeOK
  <2>3. [op EXCEPT !.read = file[Head(op.todo)]] \in Operation
    BY <1>1, <2>2 DEF Operation
  <2>4. QED  BY <1>5, <2>3 DEF ReadStatus
<1>6. CASE NextCandidate
  <2> DEFINE b == Head(op.pending)
  <2>1. b \in Bundles /\ Tail(op.pending) \in Seq(Bundles) /\ bundle[b].jobs \in Seq(Jobs)
    BY <1>2, <1>6 DEF NextCandidate
  <2>2. /\ [op EXCEPT !.at = b, !.todo = bundle[b].jobs] \in Operation
        /\ [op EXCEPT !.pending = Tail(op.pending)] \in Operation
    BY <1>1, <2>1, OperationTakes, OperationWaits
  <2>3. QED  BY <1>6, <2>2 DEF NextCandidate
<1>7. CASE StartFails
  BY <1>7, IdleType DEF StartFails
<1>8. CASE Launched
  <2> DEFINE s == NewestFirst({b \in Bundles : bundle[b].status # "absent"})
  <2>1. s \in Seq(Bundles)
    BY ListsOfBundles
  <2> HIDE DEF s
  <2>2. [op EXCEPT !.kind = "record", !.pending = s] \in Operation
    BY <1>1, <2>1 DEF Operation
  <2>3. QED  BY <1>8, <2>2, IdleType DEF Launched, s
<1>9. CASE NoneToReuse
  <2> DEFINE s == NewestFirst({b \in Bundles : bundle[b].status # "absent" /\ Matches(b)})
  <2>1. s \in Seq(Bundles)
    BY ListsOfBundles
  <2> HIDE DEF s
  <2>2. [op EXCEPT !.kind = "cancel", !.mark = "superseded", !.pending = s] \in Operation
    BY <1>1, <2>1 DEF Operation
  <2>3. QED  BY <1>9, <2>2 DEF NoneToReuse, s
<1>10. CASE Edit
  BY <1>10, BeginningType, ListsOfBundles DEF Edit
<1>11. QED  BY <1>3, <1>4, <1>5, <1>6, <1>7, <1>8, <1>9, <1>10 DEF OnlyOperation

-----------------------------------------------------------------------------
(* Steps.                                                                  *)

\* What an operation says of the records depends on its fields.
OnOperation == Course /\ Reads /\ Marks /\ Finds

LEMMA UnchangedRecords ==
  ASSUME IInv, op' \in Operation, OnOperation', UNCHANGED records
  PROVE  IInv'
<1>1. UNCHANGED <<windows, job, bundle, saved, failures, file, proc, outcome, ours, restarts>>
  BY DEF records, managerRest
<1>2. TypeOK'
  BY <1>1 DEF IInv, TypeOK
<1>3. Records' /\ Runners' /\ Verdicts' /\ OneRunPerCommand'
  BY <1>1 DEF IInv, Records, Sound, Settled, Told, Backed, Ahead, Runners, Verdicts, OneRunPerCommand
<1>4. QED  BY <1>2, <1>3 DEF IInv, OnOperation

\* An operation that has nothing in hand says nothing.
Vacant(o) == /\ o.kind \in {"idle", "job", "bundle", "ask", "cancel"} /\ o.read = "unread"
             /\ o.kind = "ask" => o.todo = <<>> /\ o.at = 0
             /\ o.kind = "cancel" => o.mark # "none" /\ o.at = 0 /\ o.todo = <<>>

LEMMA VacantOperation ==
  ASSUME Vacant(op') PROVE OnOperation'
  BY DEF Vacant, OnOperation, Course, Reads, Marks, Finds

LEMMA VacantBeginnings ==
  /\ Vacant(Idle)
  /\ \A j \in Jobs : Vacant([Idle EXCEPT !.kind = "job", !.todo = <<j>>])
  /\ \A b \in Bundles, s \in Seq(Jobs) : Vacant([Idle EXCEPT !.kind = "bundle", !.at = b, !.todo = s])
  /\ \A b \in Bundles : Vacant([Idle EXCEPT !.kind = "cancel", !.pending = <<b>>, !.mark = "canceled"])
  /\ \A s \in Seq(Bundles) : Vacant([Idle EXCEPT !.kind = "cancel", !.pending = s, !.mark = "stale"])
  /\ \A q \in Requests :
       Vacant([Idle EXCEPT !.kind = "ask", !.cmds = q.cmds, !.owner = q.owner, !.check = q.check])
  BY DEF Vacant, Idle

LEMMA NextCommandVacant ==
  ASSUME op \in Operation, op.at = 0, NEW j, NEW hook
  PROVE  Vacant(NextCommand(j, hook))
  BY VacantBeginnings DEF NextCommand, Vacant, Operation

LEMMA NextPendingVacant ==
  ASSUME op \in Operation, op.kind = "cancel", op.mark # "none", op.read = "unread"
  PROVE  Vacant(NextPending)
  BY VacantBeginnings DEF NextPending, Vacant, Operation

LEMMA OnlyOperationInv ==
  ASSUME IInv, OnlyOperation PROVE IInv'
<1>1. UNCHANGED records
  BY DEF OnlyOperation, BeginSyncJob, BeginSyncBundle, BeginCancelBundle, BeginLaunch, Ask,
         ReadStatus, NextCandidate, StartFails, Launched, NoneToReuse, Edit
<1>2. op' \in Operation
  BY OnlyOperationType DEF IInv
<1>3. SUFFICES OnOperation'
  BY <1>1, <1>2, UnchangedRecords
<1>4. UNCHANGED <<job, bundle, file, proc, ours>>
  BY <1>1 DEF records, managerRest
<1>5. op \in Operation /\ op.todo \in Seq(Jobs) /\ op.pending \in Seq(Bundles)
  BY DEF IInv, TypeOK, Operation
<1>6. \A b \in Bundles : bundle[b].jobs \in Seq(Jobs)
  BY DEF IInv, TypeOK, BundleRecord
<1>7. CASE \/ \E j \in Jobs : BeginSyncJob(j)
           \/ \E b \in Bundles : BeginSyncBundle(b) \/ BeginCancelBundle(b)
           \/ \E q \in Requests : BeginLaunch(q)
  <2>1. Vacant(op')
    BY <1>6, <1>7, VacantBeginnings DEF BeginSyncJob, BeginSyncBundle, BeginCancelBundle, BeginLaunch
  <2>2. QED  BY <2>1, VacantOperation
<1>8. ASSUME NEW a \in {"yes", "skip", "error"}, Ask(a) PROVE OnOperation'
  <2>1. CASE a = "yes"
    <3> DEFINE S == {j \in Jobs : job[j].status = "running"}
               s == NewestFirst(S)
    <3>1. Range(s) = S
      BY ListsOfJobs
    <3>2. op' = [op EXCEPT !.kind = "find", !.todo = s] /\ op.cmds # <<>> /\ op.kind = "ask"
      BY <1>8, <2>1 DEF Ask
    <3> HIDE DEF s, S
    <3>3. /\ op'.kind = "find" /\ op'.todo = s /\ op'.read = op.read /\ op'.cmds = op.cmds
          /\ op'.at = op.at
      BY <1>5, <3>2 DEF Operation
    <3>4. op.read = "unread" /\ op.at = 0
      BY <3>2 DEF IInv, Reads, Course
    <3>5. \A j \in ours : proc[j] = "working" => j \in S
      <4> SUFFICES ASSUME NEW j \in ours, proc[j] = "working" PROVE j \in S
        OBVIOUS
      <4>1. j \in Jobs /\ job[j].status \in Status
        BY DEF IInv, TypeOK, JobRecord
      <4>2. job[j].status \notin Final /\ job[j].status # "absent"
        BY <4>1 DEF IInv, Records, Sound, Settled, Verdicts, Alive
      <4>3. QED  BY <4>1, <4>2 DEF S, Status
    <3>6. QED  BY <1>4, <3>1, <3>2, <3>3, <3>4, <3>5 DEF OnOperation, Course, Reads, Marks, Finds
  <2>2. CASE a = "skip"
    <3>1. op.at = 0 /\ op' = NextCommand(0, TRUE)
      BY <1>8, <2>2 DEF Ask, IInv, Course
    <3>2. Vacant(op')
      BY <1>5, <3>1, NextCommandVacant
    <3>3. QED  BY <3>2, VacantOperation
  <2>3. CASE a = "error"
    BY <1>8, <2>3, VacantBeginnings, VacantOperation DEF Ask
  <2>4. QED  BY <2>1, <2>2, <2>3
<1>9. CASE ReadStatus
  <2> DEFINE j == Head(op.todo)
  <2>1. j \in Jobs /\ op.todo # <<>> /\ op.kind \in {"job", "bundle", "find", "record"}
    BY <1>5, <1>9 DEF ReadStatus
  <2>2. /\ op'.kind = op.kind /\ op'.todo = op.todo /\ op'.read = file[j] /\ op'.cmds = op.cmds
        /\ op'.pending = op.pending /\ op'.at = op.at /\ op'.mark = op.mark
    BY <1>5, <1>9 DEF ReadStatus, Operation
  <2>3. /\ proc[j] = "none" <=> file[j] = "absent"
        /\ proc[j] = "working" => file[j] = "running"
    BY <2>1 DEF IInv, Runners
  <2>4. Reads'
    BY <1>4, <2>1, <2>2, <2>3 DEF Reads
  <2>5. Course' /\ Marks' /\ Finds'
    BY <1>4, <2>1, <2>2 DEF IInv, Course, Marks, Finds
  <2>6. QED  BY <2>4, <2>5 DEF OnOperation
<1>10. CASE NextCandidate
  <2>1. /\ op.kind = "record" /\ op.at = 0 /\ op.pending # <<>> /\ op.todo = <<>>
    BY <1>10 DEF NextCandidate, IInv, Course
  <2>2. op.read = "unread"
    BY <2>1 DEF IInv, Reads
  <2>3. /\ op'.kind = "record" /\ op'.read = "unread"
        /\ \/ op'.pending = op.pending
           \/ op'.at = 0 /\ op'.todo = <<>>
    BY <1>5, <1>10, <2>1, <2>2 DEF NextCandidate, Operation
  <2>4. op'.at # 0 => op'.pending # <<>>
    BY <1>5, <1>10, <2>1, <2>3 DEF NextCandidate, Operation
  <2>5. op'.at = 0 => op'.todo = <<>>
    <3>1. CASE bundle[Head(op.pending)].status = "running"
      <4>1. Head(op.pending) \in Bundles /\ op'.at = Head(op.pending)
        BY <1>5, <1>10, <2>1, <3>1 DEF NextCandidate, Operation
      <4>2. QED  BY <4>1, BackgroundAssumption DEF Bundles
    <3>2. CASE bundle[Head(op.pending)].status # "running"
      BY <1>5, <1>10, <2>1, <3>2 DEF NextCandidate, Operation
    <3>3. QED  BY <3>1, <3>2
  <2>6. QED  BY <2>3, <2>4, <2>5 DEF OnOperation, Course, Reads, Marks, Finds
<1>11. CASE StartFails
  BY <1>11, VacantBeginnings, VacantOperation DEF StartFails
<1>12. CASE Launched
  <2>1. CASE op.batch = <<>>
    BY <1>12, <2>1, VacantBeginnings, VacantOperation DEF Launched
  <2>2. CASE op.batch # <<>>
    <3>1. op.kind = "ask" /\ op.todo = <<>> /\ op.read = "unread"
      BY <1>12 DEF Launched, IInv, Course, Reads
    <3>2. op'.kind = "record" /\ op'.todo = <<>> /\ op'.read = "unread" /\ op'.at = op.at
      BY <1>5, <1>12, <2>2, <3>1 DEF Launched, Operation
    <3>3. op.at = 0
      BY <3>1 DEF IInv, Course
    <3>4. QED  BY <3>2, <3>3 DEF OnOperation, Course, Reads, Marks, Finds
  <2>3. QED  BY <2>1, <2>2
<1>13. CASE NoneToReuse
  <2>1. op.kind = "record" /\ op.at = 0 /\ op.todo = <<>>
    BY <1>13 DEF NoneToReuse, IInv, Course
  <2>2. op.read = "unread"
    BY <2>1 DEF IInv, Reads
  <2>3. Vacant(op')
    BY <1>5, <1>13, <2>1, <2>2 DEF NoneToReuse, Operation, Vacant
  <2>4. QED  BY <2>3, VacantOperation
<1>14. CASE Edit
  <2>1. Vacant(op')
    BY <1>14, VacantBeginnings, ListsOfBundles DEF Edit
  <2>2. QED  BY <2>1, VacantOperation
<1>15. QED
  BY <1>7, <1>8, <1>9, <1>10, <1>11, <1>12, <1>13, <1>14 DEF OnlyOperation

\* A runner that is killed ends; one of this process leaves a zombie.
Ended(j) == IF windows \/ j \notin ours THEN "gone" ELSE "zombie"

LEMMA KilledIs ==
  ASSUME TypeOK, NEW S
  PROVE  /\ Killed(S) \in [Jobs -> {"none", "working", "writing", "zombie", "gone"}]
         /\ \A k \in Jobs : Killed(S)[k] = IF k \in S /\ proc[k] \in Alive THEN Ended(k) ELSE proc[k]
  BY DEF Killed, Live, Alive, EndOf, Ended, TypeOK

\* The runner of j gets on, or ends, and may have written its file.
LEMMA RunnerProgress ==
  ASSUME IInv, NEW j \in Jobs, proc[j] \in Alive, UNCHANGED runnerRest,
         proc' \in [Jobs -> {"none", "working", "writing", "zombie", "gone"}],
         file' \in [Jobs -> Status \cup {"torn"}],
         outcome' \in [Jobs -> {"unknown", "zero", "nonzero"}],
         \A k \in Jobs \ {j} : proc'[k] = proc[k] /\ file'[k] = file[k] /\ outcome'[k] = outcome[k],
         proc'[j] \in {"writing", Ended(j)}, file'[j] \in {file[j], "torn", "completed", "failed"},
         Runners'
  PROVE  IInv'
<1>1. UNCHANGED <<windows, job, bundle, saved, ours, op, failures, restarts>>
  BY DEF runnerRest
<1>2. TypeOK'
  BY <1>1 DEF IInv, TypeOK
<1>3. proc[j] \notin {"none", "gone", "zombie"} /\ proc'[j] \notin {"none", "working"}
  BY DEF Alive, Ended
<1>4. job[j].status \notin Final /\ saved.job[j].status \notin Final
  BY DEF IInv, Records, Sound, Settled
<1>5. Records'
  <2>1. ASSUME NEW jobs, NEW bundles, Sound(jobs, bundles, file, proc), jobs[j].status \notin Final
        PROVE  Sound(jobs, bundles, file', proc')
    <3>1. Settled(jobs, proc')
      BY <1>3, <2>1 DEF Sound, Settled
    <3>2. Told(jobs, file', proc')
      BY <2>1 DEF Sound, Told, Final
    <3>3. Backed(jobs, bundles, proc')
      <4>1. \A k \in Jobs : proc[k] = "gone" => proc'[k] = "gone"
        BY <1>3
      <4>2. QED  BY <2>1, <4>1 DEF Sound, Backed
    <3>4. QED  BY <3>1, <3>2, <3>3 DEF Sound
  <2>2. QED  BY <1>1, <1>4, <2>1 DEF IInv, Records, Ahead
<1>6. Verdicts'
  <2>1. \A k \in ours : k \in Jobs
    BY DEF IInv, TypeOK
  <2>2. QED  BY <1>1, <1>4, <2>1 DEF IInv, Verdicts
<1>7. Reads'
  <2>1. ASSUME op.read # "unread" PROVE Head(op.todo) \in Jobs
    <3>1. op.todo \in Seq(Jobs) /\ op.todo # <<>>
      BY <2>1 DEF IInv, TypeOK, Operation, Reads
    <3>2. QED  BY <3>1
  <2>2. file[j] \in {"running", "torn"}
    BY DEF IInv, Runners, Alive
  <2>3. QED  BY <1>1, <1>3, <1>4, <2>1, <2>2 DEF IInv, Reads, Final
<1>8. Course' /\ Marks'
  BY <1>1 DEF IInv, Course, Marks
<1>9. Finds' /\ OneRunPerCommand'
  <2>1. \A k \in ours : k \in Jobs /\ (proc'[k] = "working" => proc[k] = "working")
    BY <1>3 DEF IInv, TypeOK
  <2>2. QED  BY <1>1, <2>1 DEF IInv, Finds, OneRunPerCommand
<1>10. QED  BY <1>2, <1>5, <1>6, <1>7, <1>8, <1>9 DEF IInv

LEMMA RunnerInv ==
  ASSUME IInv, NEW j \in Jobs, RunnerStep(j) PROVE IInv'
<1>1. TypeOK /\ Runners
  BY DEF IInv
<1>2. ours' = ours /\ windows' = windows /\ UNCHANGED runnerRest
  BY DEF RunnerStep, CommandEnds, Reports, Dies, runnerRest
<1>3. ASSUME NEW r \in {"zero", "nonzero"}, CommandEnds(j, r) PROVE IInv'
  <2>1. /\ proc' \in [Jobs -> {"none", "working", "writing", "zombie", "gone"}]
        /\ file' \in [Jobs -> Status \cup {"torn"}]
        /\ outcome' \in [Jobs -> {"unknown", "zero", "nonzero"}]
        /\ \A k \in Jobs \ {j} : proc'[k] = proc[k] /\ file'[k] = file[k] /\ outcome'[k] = outcome[k]
        /\ proc[j] = "working" /\ proc'[j] = "writing" /\ file'[j] = "torn"
    BY <1>1, <1>3 DEF CommandEnds, TypeOK
  <2>2. Runners'
    BY <1>1, <1>2, <2>1 DEF Runners
  <2>3. QED  BY <1>2, <2>1, <2>2, RunnerProgress DEF Alive
<1>4. CASE Reports(j)
  <2>1. /\ proc' \in [Jobs -> {"none", "working", "writing", "zombie", "gone"}]
        /\ \A k \in Jobs \ {j} : proc'[k] = proc[k]
        /\ proc[j] = "writing" /\ proc'[j] = Ended(j)
    BY <1>1, <1>4, KilledIs DEF Reports, Alive
  <2>2. /\ file' \in [Jobs -> Status \cup {"torn"}]
        /\ outcome' = outcome /\ outcome \in [Jobs -> {"unknown", "zero", "nonzero"}]
        /\ \A k \in Jobs \ {j} : file'[k] = file[k]
        /\ file'[j] = IF outcome[j] = "zero" THEN "completed" ELSE "failed"
    BY <1>1, <1>4 DEF Reports, TypeOK, Status, Final
  <2>3. Runners'
    BY <1>1, <1>2, <2>1, <2>2 DEF Runners, Ended
  <2>4. QED  BY <1>2, <2>1, <2>2, <2>3, RunnerProgress DEF Alive
<1>5. CASE Dies(j)
  <2>1. /\ proc' \in [Jobs -> {"none", "working", "writing", "zombie", "gone"}]
        /\ \A k \in Jobs \ {j} : proc'[k] = proc[k]
        /\ proc[j] \in Alive /\ proc'[j] = Ended(j)
    BY <1>1, <1>5, KilledIs DEF Dies, Live, Alive
  <2>2. /\ file' = file /\ outcome' = outcome
        /\ file \in [Jobs -> Status \cup {"torn"}]
        /\ outcome \in [Jobs -> {"unknown", "zero", "nonzero"}]
    BY <1>1, <1>5 DEF Dies, TypeOK
  <2>3. Runners'
    BY <1>1, <1>2, <2>1, <2>2 DEF Runners, Ended, Alive
  <2>4. QED  BY <1>2, <2>1, <2>2, <2>3, RunnerProgress
<1>6. QED  BY <1>3, <1>4, <1>5 DEF RunnerStep

-----------------------------------------------------------------------------
(* What is written to the session file agrees.                             *)

LEMMA FailuresCounted ==
  ASSUME IInv, NEW jobs, NEW ok \in Outcomes, SaveWith(jobs, ok)
  PROVE  failures' \in 0..MaxFailures /\ Stored(jobs, ok)
<1>1. failures \in 0..MaxFailures /\ (~ok => failures < MaxFailures) /\ MaxFailures \in Nat
  BY BackgroundAssumption DEF IInv, TypeOK, Outcomes
<1>2. failures' = IF ok THEN failures ELSE failures + 1
  BY DEF SaveWith
<1>3. QED  BY <1>1, <1>2 DEF SaveWith

LEMMA SaveKeeps ==
  ASSUME IInv, NEW jobs \in [Jobs -> JobRecord], NEW ok, Stored(jobs, ok),
         bundle' \in [Bundles -> BundleRecord], Sound(jobs, bundle', file', proc'),
         Sound(saved.job, saved.bundle, file', proc'), Ahead(saved.job, job'),
         ok => Ahead(jobs, job')
  PROVE  /\ saved' \in [job : [Jobs -> JobRecord], bundle : [Bundles -> BundleRecord]]
         /\ Sound(saved'.job, saved'.bundle, file', proc') /\ Ahead(saved'.job, job')
<1>1. CASE saved' = saved
  BY <1>1 DEF IInv, TypeOK
<1>2. CASE ok /\ saved' = [job |-> jobs, bundle |-> bundle']
  BY <1>2
<1>3. QED  BY <1>1, <1>2 DEF Stored

\* The verdict of a bundle: it was given before, or its jobs have completed.
Given(bundles, b) == /\ bundles[b].status = "completed" /\ bundles[b].jobs = bundle[b].jobs
                     => \/ bundle[b].status = "completed"
                        \/ \A j \in Range(bundle[b].jobs) : job[j].status = "completed"

\* Records of bundles change, those of jobs do not.
LEMMA BundlesChange ==
  ASSUME IInv, UNCHANGED <<job, managerRest>>, op' \in Operation, OnOperation',
         bundle' \in [Bundles -> BundleRecord],
         \A b \in Bundles : /\ bundle'[b].status = "completed" => bundle'[b].jobs = bundle[b].jobs
                            /\ Given(bundle', b),
         \/ UNCHANGED <<saved, failures>>
         \/ \E ok \in Outcomes : Save(ok)
  PROVE  IInv'
<1>1. UNCHANGED <<windows, job, file, proc, outcome, ours, restarts>>
  BY DEF managerRest
<1>2. /\ Settled(job, proc) /\ Told(job, file, proc) /\ Backed(job, bundle, proc)
      /\ Sound(saved.job, saved.bundle, file', proc') /\ Ahead(saved.job, job')
  BY <1>1 DEF IInv, Records, Sound
<1>3. Backed(job, bundle', proc)
  <2> SUFFICES ASSUME NEW b \in Bundles, bundle'[b].status = "completed",
                      NEW j \in Jobs \cap Range(bundle[b].jobs)
               PROVE  job[j].status = "completed" \/ (job[j].status = "failed" /\ proc[j] = "gone")
    BY DEF Backed
  <2>1. \/ bundle[b].status = "completed"
        \/ job[j].status = "completed"
    BY DEF Given
  <2>2. QED  BY <1>2, <2>1 DEF Backed
<1>4. Sound(job', bundle', file', proc')
  BY <1>1, <1>2, <1>3 DEF Sound
<1>5. /\ failures' \in 0..MaxFailures
      /\ saved' \in [job : [Jobs -> JobRecord], bundle : [Bundles -> BundleRecord]]
      /\ Sound(saved'.job, saved'.bundle, file', proc') /\ Ahead(saved'.job, job')
  <2>1. CASE UNCHANGED <<saved, failures>>
    BY <1>2, <2>1 DEF IInv, TypeOK
  <2>2. ASSUME NEW ok \in Outcomes, Save(ok)
        PROVE  /\ failures' \in 0..MaxFailures
               /\ saved' \in [job : [Jobs -> JobRecord], bundle : [Bundles -> BundleRecord]]
               /\ Sound(saved'.job, saved'.bundle, file', proc') /\ Ahead(saved'.job, job')
    <3>1. SaveWith(job, ok) /\ job \in [Jobs -> JobRecord]
      BY <1>1, <2>2 DEF Save, IInv, TypeOK
    <3>2. failures' \in 0..MaxFailures /\ Stored(job, ok)
      BY <3>1, FailuresCounted
    <3>3. Ahead(job, job')
      BY <1>1 DEF Ahead
    <3>4. Sound(job, bundle', file', proc')
      BY <1>1, <1>4
    <3>5. QED  BY <1>2, <3>1, <3>2, <3>3, <3>4, SaveKeeps
  <2>3. QED  BY <2>1, <2>2
<1>6. TypeOK'
  BY <1>1, <1>5 DEF IInv, TypeOK
<1>7. Records'
  BY <1>4, <1>5 DEF Records
<1>8. Runners' /\ Verdicts' /\ OneRunPerCommand'
  BY <1>1 DEF IInv, Runners, Verdicts, OneRunPerCommand
<1>9. QED  BY <1>6, <1>7, <1>8 DEF IInv, OnOperation

BundleMarks == {"running", "completed", "failed", "canceled", "stale", "superseded", "preempted"}

LEMMA SummaryIs ==
  ASSUME NEW S
  PROVE  /\ Summary(S) \in {"running", "completed", "failed", "canceled"}
         /\ Summary(S) = "completed" => S = {"completed"}
  BY DEF Summary

\* A bundle gets another status.
LEMMA StatusChanges ==
  ASSUME TypeOK, NEW b \in Bundles \cup {0}, NEW st \in BundleMarks
  PROVE  LET changed == [bundle EXCEPT ![b].status = st]
         IN  /\ changed \in [Bundles -> BundleRecord]
             /\ \A c \in Bundles : /\ changed[c].status = IF c = b THEN st ELSE bundle[c].status
                                   /\ changed[c].jobs = bundle[c].jobs
<1>1. bundle \in [Bundles -> BundleRecord]
  BY DEF TypeOK
<1>2. CASE b \notin Bundles
  <2>1. [bundle EXCEPT ![b].status = st] = bundle
    BY <1>1, <1>2
  <2>2. QED  BY <1>1, <1>2, <2>1
<1>3. CASE b \in Bundles
  <2> DEFINE r == [bundle[b] EXCEPT !.status = st]
  <2>1. bundle[b] \in BundleRecord /\ st \in Overridden \cup {"absent", "running", "completed", "failed"}
    BY <1>1, <1>3 DEF BundleMarks, Overridden
  <2>2. r \in BundleRecord
    BY <2>1 DEF BundleRecord
  <2>3. r.status = st /\ r.jobs = bundle[b].jobs
    BY <2>1 DEF BundleRecord
  <2>4. [bundle EXCEPT ![b].status = st] = [bundle EXCEPT ![b] = r]
    OBVIOUS
  <2> HIDE DEF r
  <2>5. QED  BY <1>1, <1>3, <2>2, <2>3, <2>4
<1>4. QED  BY <1>2, <1>3

\* A bundle keeps its jobs.
SameJobs == \A b \in Bundles : bundle'[b].jobs = bundle[b].jobs

\* SyncBundle gives the bundle the verdict of its jobs.
LEMMA EndSyncBundleInv ==
  ASSUME IInv, NEW ok \in Outcomes, EndSyncBundle(ok)
  PROVE  /\ IInv'
         /\ SameJobs
         /\ \A b \in Bundles : bundle[b].status \in {"stale", "superseded"}
                                => bundle'[b].status = bundle[b].status
<1> DEFINE b == op.at
           S == {job[j].status : j \in Range(bundle[b].jobs)}
           st == IF bundle[b].status \in Overridden THEN bundle[b].status ELSE Summary(S)
<1>1. /\ op \in Operation /\ b \in Bundles /\ op.todo = <<>> /\ op.kind \in {"bundle", "record"}
      /\ bundle \in [Bundles -> BundleRecord]
  BY DEF EndSyncBundle, IInv, TypeOK, Operation
<1>2. /\ op.read = "unread" /\ (op.kind = "record" => op.pending # <<>>)
      /\ op.pending \in Seq(Bundles)
  <2>1. op.read = "unread"
    BY <1>1 DEF IInv, Reads
  <2>2. op.kind = "record" => op.pending # <<>>
    BY <1>1 DEF EndSyncBundle, IInv, Course
  <2>3. QED  BY <1>1, <2>1, <2>2 DEF Operation
<1>3. st \in BundleMarks /\ (st = "completed" => S = {"completed"})
  <2>1. /\ Summary(S) \in {"running", "completed", "failed", "canceled"}
        /\ Summary(S) = "completed" => S = {"completed"}
    BY SummaryIs
  <2> HIDE DEF S
  <2>2. QED  BY <2>1 DEF BundleMarks, Overridden
<1>4. bundle' = [bundle EXCEPT ![b].status = st]
  <2>1. CASE bundle[b].status \in Overridden
    <3>1. bundle' = [bundle EXCEPT ![b] = bundle[b]] /\ st = bundle[b].status
      BY <2>1 DEF EndSyncBundle, Synced
    <3>2. [bundle[b] EXCEPT !.status = st] = bundle[b]
      BY <1>1, <3>1 DEF BundleRecord
    <3>3. QED  BY <3>1, <3>2
  <2>2. CASE bundle[b].status \notin Overridden
    BY <2>2 DEF EndSyncBundle, Synced
  <2>3. QED  BY <2>1, <2>2
<1> HIDE DEF st
<1>5. /\ bundle' \in [Bundles -> BundleRecord]
      /\ \A c \in Bundles : /\ bundle'[c].status = IF c = b THEN st ELSE bundle[c].status
                            /\ bundle'[c].jobs = bundle[c].jobs
  BY <1>1, <1>3, <1>4, StatusChanges DEF IInv
<1>6. ASSUME NEW c \in Bundles PROVE Given(bundle', c)
  <2>1. CASE c = b
    BY <1>3, <1>5, <2>1 DEF Given
  <2>2. CASE c # b
    BY <1>5, <2>2 DEF Given
  <2>3. QED  BY <2>1, <2>2
<1>7. op' = AfterBundle(ok) /\ op' \in Operation
  BY <1>1, <1>2, AfterBundleType DEF EndSyncBundle
<1>8. bundle[b].status = "running" => st \notin Overridden \/ st = "canceled"
  BY SummaryIs DEF st, Overridden
<1>9. OnOperation'
  <2>1. CASE op.kind = "bundle"
    BY <1>7, <2>1, VacantBeginnings, VacantOperation DEF AfterBundle
  <2>2. CASE op.kind = "record" /\ op'.kind = "reuse"
    <3>1. op' = [op EXCEPT !.kind = "reuse", !.pending = <<>>, !.todo = <<>>]
          /\ (IF ok THEN bundle' ELSE bundle)[b].status = "running"
      BY <1>1, <1>7, <2>2 DEF AfterBundle, Operation
    <3>2. op'.kind = "reuse" /\ op'.at = b /\ op'.read = "unread"
      BY <1>1, <1>2, <3>1 DEF Operation
    <3>3. bundle'[b].status = st
      BY <1>1, <1>5
    <3>4. bundle[b].status = "running" \/ st = "running"
      BY <3>1, <3>3
    <3>5. bundle'[b].status \in {"running", "completed", "failed", "canceled"}
      BY <1>3, <1>8, <3>3, <3>4 DEF BundleMarks, Overridden
    <3>6. QED  BY <3>2, <3>5 DEF OnOperation, Course, Reads, Marks, Finds
  <2>3. CASE op.kind = "record" /\ op'.kind # "reuse"
    <3>1. op' = [op EXCEPT !.at = 0, !.pending = Tail(@), !.todo = <<>>]
      BY <1>1, <1>7, <2>3 DEF AfterBundle, Operation
    <3>2. op'.kind = "record" /\ op'.at = 0 /\ op'.todo = <<>> /\ op'.read = "unread"
      BY <1>1, <1>2, <2>3, <3>1 DEF Operation
    <3>3. QED  BY <3>2 DEF OnOperation, Course, Reads, Marks, Finds
  <2>4. QED  BY <1>1, <2>1, <2>2, <2>3
<1>10. IInv'
  BY <1>5, <1>6, <1>7, <1>9, BundlesChange DEF EndSyncBundle
<1>11. \A c \in Bundles : bundle[c].status \in {"stale", "superseded"}
                            => bundle'[c].status = bundle[c].status
  BY <1>5 DEF st, Overridden
<1>12. QED  BY <1>5, <1>10, <1>11 DEF SameJobs

\* A bundle that is reused, and a new one, run.
LEMMA ReuseInv ==
  ASSUME IInv, NEW ok \in Outcomes, Reuse(ok)
  PROVE  /\ IInv'
         /\ SameJobs
         /\ \A b \in Bundles : bundle[b].status \in {"stale", "superseded"}
                                => bundle'[b].status = bundle[b].status
<1> DEFINE b == op.at
           w == IF bundle[b].owner = NoOwner THEN op.owner ELSE bundle[b].owner
           u == bundle[b].check \/ op.check \/ ChecksAny(op.batch)
           r == [bundle[b] EXCEPT !.status = "running", !.owner = w, !.check = u]
<1>1. op \in Operation /\ b \in Bundles \cup {0} /\ bundle \in [Bundles -> BundleRecord]
  BY DEF IInv, TypeOK, Operation
<1>2. op' = Idle /\ OnOperation' /\ op' \in Operation
  BY VacantBeginnings, VacantOperation, IdleType DEF Reuse
<1>3. bundle[b].status \in {"running", "completed", "failed", "canceled"}
  BY DEF Reuse, IInv, Marks
<1>4. bundle' = [bundle EXCEPT ![b] = r]
  BY DEF Reuse
<1>5. b \in Bundles => r \in BundleRecord /\ r.status = "running" /\ r.jobs = bundle[b].jobs
  <2> SUFFICES ASSUME b \in Bundles
               PROVE  r \in BundleRecord /\ r.status = "running" /\ r.jobs = bundle[b].jobs
    OBVIOUS
  <2>1. bundle[b] \in BundleRecord  BY <1>1
  <2>2. w \in Owners  BY <1>1, <2>1 DEF BundleRecord, Operation
  <2>3. u \in BOOLEAN
    <3>1. bundle[b].check \in BOOLEAN /\ op.check \in BOOLEAN
      BY <1>1, <2>1, Zenon DEF BundleRecord, Operation
    <3>2. QED  BY <3>1
  <2> HIDE DEF w, u
  <2>4. r \in BundleRecord
    BY <2>1, <2>2, <2>3, Zenon DEF BundleRecord
  <2>5. r.status = "running" /\ r.jobs = bundle[b].jobs
    BY <2>1 DEF BundleRecord
  <2>6. QED  BY <2>4, <2>5
<1> HIDE DEF r
<1>6. bundle' \in [Bundles -> BundleRecord]
      /\ \A c \in Bundles : bundle'[c] = IF c = b THEN r ELSE bundle[c]
  BY <1>1, <1>4, <1>5
<1>7. \A c \in Bundles : /\ bundle'[c].status = "completed" => bundle'[c].jobs = bundle[c].jobs
                         /\ Given(bundle', c)
  BY <1>5, <1>6 DEF Given
<1>8. IInv'
  BY <1>2, <1>6, <1>7, BundlesChange DEF Reuse
<1>9. SameJobs
  BY <1>5, <1>6 DEF SameJobs
<1>10. QED  BY <1>3, <1>6, <1>8, <1>9

LEMMA RecordBundleInv ==
  ASSUME IInv, NEW ok \in Outcomes, RecordBundle(ok)
  PROVE  /\ IInv'
         /\ \A b \in Bundles : bundle'[b].jobs \in {bundle[b].jobs, op.batch}
         /\ \A b \in Bundles : bundle[b].status \in {"stale", "superseded"}
                                => bundle'[b].status = bundle[b].status
<1>1. op \in Operation /\ bundle \in [Bundles -> BundleRecord]
  BY DEF IInv, TypeOK
<1>2. op' = Idle /\ OnOperation' /\ op' \in Operation
  BY VacantBeginnings, VacantOperation, IdleType DEF RecordBundle
<1> DEFINE u == op.check \/ ChecksAny(op.batch)
           r == [status |-> "running", jobs |-> op.batch, owner |-> op.owner, check |-> u]
<1>3. PICK b \in Bundles : bundle[b].status = "absent" /\ bundle' = [bundle EXCEPT ![b] = r]
  BY DEF RecordBundle
<1>4. r \in BundleRecord /\ r.status = "running" /\ r.jobs = op.batch
  <2>1. op.batch \in Seq(Jobs) /\ op.owner \in Owners
    BY <1>1 DEF Operation
  <2>2. u \in BOOLEAN
    <3>1. op.check \in BOOLEAN  BY <1>1, Zenon DEF Operation
    <3>2. QED  BY <3>1
  <2> HIDE DEF u
  <2>3. QED  BY <2>1, <2>2 DEF BundleRecord
<1> HIDE DEF r
<1>5. bundle' \in [Bundles -> BundleRecord]
      /\ \A c \in Bundles : bundle'[c] = IF c = b THEN r ELSE bundle[c]
  BY <1>1, <1>3, <1>4
<1>6. \A c \in Bundles : /\ bundle'[c].status = "completed" => bundle'[c].jobs = bundle[c].jobs
                         /\ Given(bundle', c)
  BY <1>4, <1>5 DEF Given
<1>7. IInv'
  BY <1>2, <1>5, <1>6, BundlesChange DEF RecordBundle
<1>8. QED  BY <1>3, <1>4, <1>5, <1>7

\* A bundle is marked.
LEMMA MarkedInv ==
  ASSUME IInv, op.kind = "cancel", NEW b \in Bundles \cup {0}, bundle' = Marked(b),
         UNCHANGED <<job, managerRest>>, op' \in Operation, Vacant(op'),
         UNCHANGED <<saved, failures>> \/ \E ok \in Outcomes : Save(ok)
  PROVE  IInv'
<1>1. op.mark \in {"canceled", "stale", "superseded"}
  BY DEF IInv, TypeOK, Operation, Marks
<1>2. /\ bundle' \in [Bundles -> BundleRecord]
      /\ \A c \in Bundles : /\ bundle'[c].status = IF c = b THEN op.mark ELSE bundle[c].status
                            /\ bundle'[c].jobs = bundle[c].jobs
  <2>1. op.mark \in BundleMarks /\ TypeOK /\ bundle' = [bundle EXCEPT ![b].status = op.mark]
    BY <1>1 DEF IInv, Marked, BundleMarks
  <2>2. QED  BY <2>1, StatusChanges
<1>3. \A c \in Bundles : Given(bundle', c)
  BY <1>1, <1>2 DEF Given
<1>4. QED  BY <1>2, <1>3, VacantOperation, BundlesChange

\* Marking keeps what is overridden so.
LEMMA MarkedOverrides ==
  ASSUME IInv, op.kind = "cancel", NEW b \in Bundles \cup {0}, bundle' = Marked(b)
  PROVE  /\ SameJobs
         /\ \A c \in Bundles : bundle[c].status \in {"stale", "superseded"}
                                => bundle'[c].status \in Overridden
<1>1. op.mark \in {"canceled", "stale", "superseded"}
  BY DEF IInv, TypeOK, Operation, Marks
<1>2. /\ bundle' \in [Bundles -> BundleRecord]
      /\ \A c \in Bundles : /\ bundle'[c].status = IF c = b THEN op.mark ELSE bundle[c].status
                            /\ bundle'[c].jobs = bundle[c].jobs
  <2>1. op.mark \in BundleMarks /\ TypeOK /\ bundle' = [bundle EXCEPT ![b].status = op.mark]
    BY <1>1 DEF IInv, Marked, BundleMarks
  <2>2. QED  BY <2>1, StatusChanges
<1>3. QED  BY <1>1, <1>2 DEF Overridden, SameJobs

-----------------------------------------------------------------------------
(* Records of jobs change.                                                 *)

\* Bundles and operations speak of jobs that were started.
Started == {j \in Jobs : proc[j] # "none"}
Known == /\ \A b \in Bundles : /\ Range(bundle[b].jobs) \subseteq Started
                               /\ Range(saved.bundle[b].jobs) \subseteq Started
         /\ Range(op.todo) \subseteq Started /\ Range(op.batch) \subseteq Started

\* Job j is canceled, in the record, the file and the process.
LEMMA CancelInv ==
  ASSUME IInv, NEW j \in Started, job[j].status \notin Final, NEW st \in {"canceled", "preempted"},
         NEW ok \in Outcomes, Cancel(j, st, ok), op' \in Operation, OnOperation',
         bundle' \in [Bundles -> BundleRecord],
         \A b \in Bundles : /\ bundle'[b].jobs = bundle[b].jobs
                            /\ bundle'[b].status = "completed" => bundle[b].status = "completed"
  PROVE  IInv'
<1> DEFINE x == IF job[j].exit = "none" THEN "nonzero" ELSE job[j].exit
           r == [job[j] EXCEPT !.status = st, !.exit = x]
<1>1. /\ job \in [Jobs -> JobRecord] /\ j \in Jobs /\ file \in [Jobs -> Status \cup {"torn"}]
      /\ UNCHANGED <<windows, outcome, ours, restarts>> /\ ours \subseteq Jobs /\ proc[j] # "none"
  BY DEF IInv, TypeOK, Cancel, Started
<1>2. r \in JobRecord /\ r.status = st /\ r.cmd = job[j].cmd
  <2>1. job[j] \in JobRecord  BY <1>1
  <2>2. x \in {"none", "zero", "nonzero"} /\ st \in Status
    BY <2>1 DEF JobRecord, Status, Final
  <2> HIDE DEF x
  <2>3. r \in JobRecord  BY <2>1, <2>2, Zenon DEF JobRecord
  <2>4. QED  BY <2>1, <2>3 DEF JobRecord
<1>3. job' = [job EXCEPT ![j] = r]
  BY DEF Cancel
<1> HIDE DEF r
<1>4. job' \in [Jobs -> JobRecord] /\ \A k \in Jobs : job'[k] = IF k = j THEN r ELSE job[k]
  BY <1>1, <1>2, <1>3
<1>5. /\ proc' \in [Jobs -> {"none", "working", "writing", "zombie", "gone"}]
      /\ \A k \in Jobs : proc'[k] = IF k = j /\ proc[k] \in Alive THEN Ended(k) ELSE proc[k]
  <2>1. proc' = Killed({j})  BY DEF Cancel
  <2>2. QED  BY <2>1, KilledIs DEF IInv
<1>6. PICK left \in {st, file[j], "torn"} :
         /\ file' = [file EXCEPT ![j] = left]
         /\ failures' = failures + (IF ok THEN 0 ELSE 1) + (IF left = st THEN 0 ELSE 1)
         /\ failures' <= MaxFailures
  BY DEF Cancel
<1>7. /\ file' \in [Jobs -> Status \cup {"torn"}]
      /\ \A k \in Jobs : file'[k] = IF k = j THEN left ELSE file[k]
      /\ left # "absent" /\ (left = "completed" => file[j] = "completed")
  <2>1. file[j] # "absent"
    BY <1>1 DEF IInv, Runners
  <2>2. QED  BY <1>1, <1>6, <2>1 DEF Status, Final
<1>8. proc'[j] \notin Alive /\ proc'[j] # "none"
      /\ \A k \in Jobs : /\ proc'[k] \in Alive => proc'[k] = proc[k]
                         /\ proc'[k] = "none" <=> proc[k] = "none"
                         /\ proc[k] = "gone" => proc'[k] = "gone"
  BY <1>1, <1>5 DEF Ended, Alive
<1>9. ASSUME NEW jobs, NEW bundles, Sound(jobs, bundles, file, proc), jobs[j].status \notin Reported
      PROVE  Sound(jobs, bundles, file', proc')
  <2>1. Settled(jobs, proc')
    BY <1>8, <1>9 DEF Sound, Settled
  <2>2. Told(jobs, file', proc')
    BY <1>8, <1>9, <1>7 DEF Sound, Told, Reported
  <2>3. Backed(jobs, bundles, proc')
    BY <1>8, <1>9 DEF Sound, Backed
  <2>4. QED  BY <2>1, <2>2, <2>3 DEF Sound
<1>10. Sound(job, bundle, file', proc') /\ Sound(saved.job, saved.bundle, file', proc')
  <2>1. job[j].status \notin Reported
    BY DEF Reported, Final
  <2>2. saved.job[j].status \notin Reported
    BY <1>1, <2>1 DEF IInv, Records, Ahead
  <2>3. QED  BY <1>9, <2>1, <2>2 DEF IInv, Records
<1>11. Sound(job', bundle', file', proc')
  <2>1. Settled(job', proc')
    BY <1>2, <1>4, <1>8, <1>10 DEF Sound, Settled
  <2>2. Told(job', file', proc')
    BY <1>2, <1>4, <1>10 DEF Sound, Told
  <2>3. Backed(job', bundle', proc')
    <3> SUFFICES ASSUME NEW b \in Bundles, bundle'[b].status = "completed",
                        NEW k \in Jobs \cap Range(bundle[b].jobs)
                 PROVE  job'[k].status = "completed" \/ (job'[k].status = "failed" /\ proc'[k] = "gone")
      BY DEF Backed
    <3>1. job[k].status = "completed" \/ (job[k].status = "failed" /\ proc'[k] = "gone")
      BY <1>10 DEF Sound, Backed
    <3>2. k # j  BY <3>1 DEF Final
    <3>3. job'[k] = job[k]  BY <1>1, <1>3, <3>2
    <3>4. QED  BY <3>1, <3>3
  <2>4. QED  BY <2>1, <2>2, <2>3 DEF Sound
<1>12. Ahead(saved.job, job') /\ Ahead(job', job')
  <2>1. job[j].status \notin Reported
    BY DEF Reported, Final
  <2>2. QED  BY <1>1, <1>4, <2>1 DEF IInv, Records, Ahead
<1>13. /\ failures' \in 0..MaxFailures
       /\ saved' \in [job : [Jobs -> JobRecord], bundle : [Bundles -> BundleRecord]]
       /\ Sound(saved'.job, saved'.bundle, file', proc') /\ Ahead(saved'.job, job')
  <2>1. Stored(job', ok)  BY DEF Cancel
  <2>2. failures' \in 0..MaxFailures
    BY <1>6, BackgroundAssumption DEF IInv, TypeOK
  <2>3. QED  BY <1>4, <1>10, <1>11, <1>12, <2>1, <2>2, SaveKeeps
<1>14. TypeOK'
  BY <1>1, <1>4, <1>5, <1>7, <1>13 DEF IInv, TypeOK
<1>15. Records'
  BY <1>11, <1>13 DEF Records
<1>16. Runners'
  <2> SUFFICES ASSUME NEW k \in Jobs PROVE Runners!(k)'
    BY DEF Runners
  <2>1. Runners!(k)  BY DEF IInv, Runners
  <2>2. CASE k = j
    BY <1>1, <1>5, <1>7, <1>8, <2>1, <2>2 DEF Ended, Alive
  <2>3. CASE k # j
    BY <1>1, <1>5, <1>7, <2>1, <2>3
  <2>4. QED  BY <2>2, <2>3
<1>17. Verdicts'
  BY <1>1, <1>2, <1>4 DEF IInv, Verdicts
<1>18. OneRunPerCommand'
  <2>1. \A k \in Jobs : job'[k].cmd = job[k].cmd /\ (proc'[k] = "working" => proc[k] = "working")
    BY <1>2, <1>4, <1>8 DEF Alive
  <2>2. QED  BY <1>1, <2>1 DEF IInv, OneRunPerCommand
<1>19. QED  BY <1>14, <1>15, <1>16, <1>17, <1>18 DEF IInv, OnOperation

LEMMA TailRange ==
  ASSUME NEW S, NEW s \in Seq(S), s # <<>>
  PROVE  /\ Head(s) \in S /\ Head(s) \in Range(s) /\ Tail(s) \in Seq(S)
         /\ Range(Tail(s)) \subseteq Range(s)
         /\ \A x \in Range(s) : x = Head(s) \/ x \in Range(Tail(s))
<1>1. /\ Len(s) \in Nat /\ Len(s) > 0 /\ DOMAIN s = 1..Len(s) /\ Head(s) = s[1] /\ s[1] \in S
  OBVIOUS
<1> DEFINE e == Tail(s)
<1>2. e \in Seq(S) /\ DOMAIN e = 1..(Len(s) - 1) /\ \A i \in 1..(Len(s) - 1) : e[i] = s[i + 1]
  BY <1>1
<1> HIDE DEF e
<1>3. Head(s) \in Range(s)
  BY <1>1 DEF Range
<1>4. \A i \in DOMAIN e : e[i] \in Range(s)
  <2> SUFFICES ASSUME NEW i \in DOMAIN e PROVE e[i] \in Range(s)
    OBVIOUS
  <2>1. i + 1 \in DOMAIN s /\ e[i] = s[i + 1]  BY <1>1, <1>2
  <2>2. QED  BY <2>1 DEF Range
<1>5. \A i \in DOMAIN s : s[i] = Head(s) \/ s[i] \in Range(e)
  <2> SUFFICES ASSUME NEW i \in DOMAIN s, i # 1 PROVE s[i] \in Range(e)
    BY <1>1
  <2>1. i - 1 \in DOMAIN e /\ e[i - 1] = s[i]  BY <1>1, <1>2
  <2>2. QED  BY <2>1 DEF Range
<1>6. Range(e) \subseteq Range(s)
  BY <1>4 DEF Range
<1>7. \A x \in Range(s) : x = Head(s) \/ x \in Range(e)
  BY <1>5 DEF Range
<1>8. QED  BY <1>1, <1>2, <1>3, <1>6, <1>7 DEF e

LEMMA CancelJobInv ==
  ASSUME IInv, NEW j \in Jobs, NEW ok \in Outcomes, CancelJob(j, ok) PROVE IInv'
<1>1. op' = Idle /\ bundle' = bundle /\ bundle \in [Bundles -> BundleRecord]
  BY DEF CancelJob, IInv, TypeOK
<1>2. op' \in Operation /\ OnOperation'
  BY <1>1, IdleType, VacantBeginnings, VacantOperation
<1>3. j \in Started
  BY DEF CancelJob, Recorded, Started, IInv, Records, Sound, Settled
<1>4. Cancel(j, "canceled", ok) /\ job[j].status \notin Final
  BY DEF CancelJob
<1>5. QED  BY <1>1, <1>2, <1>3, <1>4, CancelInv

\* A cancellation has a bundle in hand, and others after it.
LEMMA Cancelling ==
  ASSUME IInv, op.kind = "cancel", op.todo # <<>> \/ op.at # 0 \/ op.pending # <<>>
  PROVE  /\ op \in Operation /\ op.read = "unread" /\ op.pending # <<>>
         /\ op.mark \in {"canceled", "stale", "superseded"}
         /\ op.todo # <<>> => op.at # 0
         /\ op.pending \in Seq(Bundles) /\ Head(op.pending) \in Bundles
         /\ op.todo \in Seq(Jobs) /\ op.at \in Bundles \cup {0}
<1>1. op \in Operation  BY DEF IInv, TypeOK
<1>2. op.read = "unread"  BY DEF IInv, Reads
<1>3. op.pending # <<>> /\ (op.todo # <<>> => op.at # 0)
  BY DEF IInv, Course
<1>4. op.mark \in {"canceled", "stale", "superseded"}
  BY <1>1 DEF Operation, IInv, Marks
<1>5. op.pending \in Seq(Bundles) /\ op.todo \in Seq(Jobs) /\ op.at \in Bundles \cup {0}
  BY <1>1 DEF Operation
<1>6. Head(op.pending) \in Bundles
  BY <1>3, <1>5
<1>7. QED  BY <1>1, <1>2, <1>3, <1>4, <1>5, <1>6

LEMMA NextToCancelInv ==
  ASSUME IInv, NextToCancel PROVE IInv'
<1> DEFINE b == Head(op.pending)
<1>1. op.kind = "cancel" /\ op.at = 0 /\ op.pending # <<>>
  BY DEF NextToCancel
<1>2. /\ op \in Operation /\ op.read = "unread" /\ b \in Bundles /\ op.mark # "none"
      /\ UNCHANGED <<job, managerRest>> /\ UNCHANGED <<saved, failures>>
      /\ bundle \in [Bundles -> BundleRecord]
  BY <1>1, Cancelling DEF NextToCancel, IInv, TypeOK
<1>3. CASE op.mark = "superseded" /\ bundle[b].status # "running"
  <2>1. bundle' = Marked(b) /\ op' = NextPending
    BY <1>3 DEF NextToCancel
  <2>2. op' \in Operation /\ Vacant(op')
    BY <1>1, <1>2, <2>1, NextPendingType, NextPendingVacant
  <2>3. QED  BY <1>1, <1>2, <2>1, <2>2, MarkedInv
<1>4. CASE ~(op.mark = "superseded" /\ bundle[b].status # "running")
  <2>1. bundle' = bundle /\ op' = [op EXCEPT !.at = b, !.todo = bundle[b].jobs]
    BY <1>4 DEF NextToCancel
  <2>2. bundle[b].jobs \in Seq(Jobs) /\ b # 0
    BY <1>2, BackgroundAssumption DEF BundleRecord, Bundles
  <2>3. op' \in Operation
    BY <1>2, <2>1, <2>2, OperationTakes
  <2>4. /\ op'.kind = "cancel" /\ op'.at = b /\ op'.read = "unread" /\ op'.mark = op.mark
        /\ op'.pending = op.pending
    BY <1>1, <1>2, <2>1 DEF Operation
  <2>5. OnOperation'
    BY <1>1, <1>2, <2>2, <2>4 DEF OnOperation, Course, Reads, Marks, Finds
  <2>6. \A c \in Bundles : Given(bundle', c)
    BY <2>1 DEF Given
  <2>7. QED  BY <1>2, <2>1, <2>3, <2>5, <2>6, BundlesChange
<1>5. QED  BY <1>3, <1>4

LEMMA EndCancelInv ==
  ASSUME IInv, NEW ok \in Outcomes, EndCancel(ok) PROVE IInv'
<1>1. /\ op.kind = "cancel" /\ op.at # 0 /\ bundle' = Marked(op.at) /\ op' = NextPending
      /\ UNCHANGED <<job, managerRest>> /\ Save(ok)
  BY DEF EndCancel
<1>2. op' \in Operation /\ Vacant(op') /\ op.at \in Bundles \cup {0}
  BY <1>1, Cancelling, NextPendingType, NextPendingVacant
<1>3. QED  BY <1>1, <1>2, MarkedInv

LEMMA CancelNextInv ==
  ASSUME IInv, Known, NEW ok \in Outcomes, CancelNext(ok) PROVE IInv'
<1> DEFINE j == Head(op.todo)
           o == [op EXCEPT !.todo = Tail(op.todo)]
<1>1. /\ op.kind = "cancel" /\ op.todo # <<>> /\ op \in Operation /\ op.read = "unread"
      /\ op.at # 0 /\ op.pending # <<>> /\ op.mark \in {"canceled", "stale", "superseded"}
      /\ op.todo \in Seq(Jobs) /\ op.at \in Bundles \cup {0}
  BY Cancelling DEF CancelNext
<1>2. j \in Started /\ Tail(op.todo) \in Seq(Jobs)
  BY <1>1, TailRange DEF Known
<1>3. o \in Operation
  BY <1>1, <1>2 DEF Operation
<1>4. op' = o => OnOperation'
  <2> SUFFICES ASSUME op' = o PROVE OnOperation'
    OBVIOUS
  <2>1. /\ op'.kind = "cancel" /\ op'.at = op.at /\ op'.read = "unread" /\ op'.mark = op.mark
        /\ op'.pending = op.pending
    BY <1>1 DEF Operation
  <2>2. QED  BY <1>1, <2>1 DEF OnOperation, Course, Reads, Marks, Finds
<1>5. CASE job[j].status \in Final
  <2>1. op' = o /\ UNCHANGED records
    BY <1>5 DEF CancelNext
  <2>2. QED  BY <1>3, <1>4, <2>1, UnchangedRecords
<1>6. CASE job[j].status \notin Final
  <2> DEFINE st == IF op.mark = "canceled" THEN "canceled" ELSE "preempted"
  <2>1. Cancel(j, st, ok) /\ st \in {"canceled", "preempted"}
    BY <1>6 DEF CancelNext
  <2> HIDE DEF st
  <2>2. op' \in Operation /\ OnOperation'
    <3>1. CASE op' = o
      BY <1>3, <1>4, <3>1
    <3>2. CASE op' = Idle
      BY <3>2, IdleType, VacantBeginnings, VacantOperation
    <3>3. CASE op' = NextPending
      <4>1. op' \in Operation /\ Vacant(op')
        BY <1>1, <3>3, NextPendingType, NextPendingVacant
      <4>2. QED  BY <4>1, VacantOperation
    <3>4. op' = o \/ op' = Idle \/ op' = NextPending
      BY <1>6 DEF CancelNext
    <3>5. QED  BY <3>1, <3>2, <3>3, <3>4
  <2>3. /\ bundle' \in [Bundles -> BundleRecord]
        /\ \A b \in Bundles : /\ bundle'[b].jobs = bundle[b].jobs
                              /\ bundle'[b].status = "completed" => bundle[b].status = "completed"
    <3>1. CASE bundle' = bundle
      BY <3>1 DEF IInv, TypeOK
    <3>2. CASE bundle' = Marked(op.at)
      <4>1. op.mark \in BundleMarks /\ TypeOK /\ bundle' = [bundle EXCEPT ![op.at].status = op.mark]
        BY <1>1, <3>2 DEF IInv, Marked, BundleMarks
      <4>2. /\ bundle' \in [Bundles -> BundleRecord]
            /\ \A c \in Bundles : /\ bundle'[c].status = IF c = op.at THEN op.mark ELSE bundle[c].status
                                  /\ bundle'[c].jobs = bundle[c].jobs
        BY <1>1, <4>1, StatusChanges
      <4>3. QED  BY <1>1, <4>2
    <3>3. QED  BY <1>6, <3>1, <3>2 DEF CancelNext
  <2>4. QED  BY <1>2, <1>6, <2>1, <2>2, <2>3, CancelInv
<1>7. QED  BY <1>5, <1>6

\* SyncJob: what the record becomes follows the status file, or the absence of
\* the process; st is the new status of a job, j.
Follows(j, st) ==
  /\ proc[j] = "none" => st = "absent"
  /\ st \in Final => proc[j] \notin Alive
  /\ st = "completed" => file[j] = "completed" \/ (proc[j] = "gone" /\ file[j] \in {"running", "torn", "failed"})
  /\ st = "failed" => file[j] = "failed"
  /\ job[j].status = "completed" => st = "completed" \/ (st = "failed" /\ proc[j] = "gone")
  /\ job[j].status = "failed" => st = "failed"
  /\ job[j].status \in Final /\ file[j] = job[j].status => st = job[j].status
  /\ j \in ours => st # "absent"

LEMMA StandingFollows ==
  ASSUME IInv, NEW j \in Jobs PROVE Follows(j, job[j].status)
<1>1. /\ job[j].status \in Final => proc[j] \notin Alive
      /\ proc[j] = "none" => job[j].status = "absent"
      /\ job[j].status = "completed" =>
           file[j] = "completed" \/ (proc[j] = "gone" /\ file[j] \in {"running", "torn", "failed"})
      /\ job[j].status = "failed" => file[j] = "failed"
  BY DEF IInv, Records, Sound, Settled, Told
<1>2. j \in ours => job[j].status # "absent"
  BY DEF IInv, Verdicts
<1>3. QED  BY <1>1, <1>2 DEF Follows

LEMMA SyncedIs ==
  ASSUME IInv, op.read # "unread", NEW j, j = Head(op.todo)
  PROVE  /\ j \in Jobs /\ op.todo \in Seq(Jobs) /\ op.todo # <<>>
         /\ SyncedJob(j) \in JobRecord
         /\ SyncedJob(j).cmd = job[j].cmd
         /\ Follows(j, SyncedJob(j).status)
         /\ proc[j] = "working" => SyncedJob(j).status = "running"
<1> DEFINE status == IF op.read = "torn" THEN job[j].status ELSE op.read
           exit == CASE op.read = "completed"            -> "zero"
                     [] op.read \in Final \ {"completed"} -> "nonzero"
                     [] OTHER                             -> job[j].exit
           visible == Live(j) \/ proc[j] = "zombie"
           x == IF status = "running" /\ ~visible /\ exit = "none" THEN "zero" ELSE exit
           st == IF status = "running" /\ ~visible THEN "completed" ELSE status
<1>1. op \in Operation /\ op.todo \in Seq(Jobs) /\ op.todo # <<>>
  BY DEF IInv, TypeOK, Operation, Reads
<1>2. j \in Jobs
  BY <1>1
<1>3. /\ job[j] \in JobRecord /\ op.read \in Status \cup {"torn"}
      /\ proc[j] \in {"none", "working", "writing", "zombie", "gone"}
  BY <1>1, <1>2 DEF IInv, TypeOK, Operation
<1>4. /\ op.read = "absent" <=> proc[j] = "none"
      /\ op.read \in Final => file[j] = op.read
      /\ proc[j] = "working" => op.read = "running"
      /\ op.read \in {"running", "torn"} => file[j] \in {"running", "torn", "completed", "failed"}
      /\ job[j].status \in Final => op.read = file[j]
  BY DEF IInv, Reads
<1>5. Follows(j, job[j].status)
  BY <1>2, StandingFollows
<1>6. /\ proc[j] \in Alive => file[j] \notin Final
      /\ j \in ours => proc[j] # "none"
  BY <1>2 DEF IInv, Runners, Alive, Final
<1>7. job[j].status \in Status /\ job[j].exit \in {"none", "zero", "nonzero"}
  BY <1>3 DEF JobRecord
<1>8. visible <=> proc[j] \in Alive \cup {"zombie"}
  BY DEF Live, Alive
<1> HIDE DEF visible
<1>9. SyncedJob(j) = [job[j] EXCEPT !.status = st, !.exit = x]
  BY DEF SyncedJob, visible
<1>10. st \in Status /\ x \in {"none", "zero", "nonzero"}
  BY <1>3, <1>7 DEF Status, Final
<1>11. Follows(j, st) /\ (proc[j] = "working" => st = "running")
  <2>1. CASE op.read = "torn"
    <3>1. CASE job[j].status = "running" /\ ~visible
      BY <1>3, <1>4, <1>5, <1>6, <1>8, <2>1, <3>1 DEF Status, Final, Alive, Follows
    <3>2. CASE ~(job[j].status = "running" /\ ~visible)
      <4>1. st = job[j].status
        BY <2>1, <3>2
      <4>2. QED  BY <1>4, <1>5, <2>1, <4>1
    <3>3. QED  BY <3>1, <3>2
  <2>2. CASE op.read = "running"
    <3>1. CASE visible
      BY <1>3, <1>4, <1>5, <1>6, <1>8, <2>2, <3>1 DEF Status, Final, Alive, Follows
    <3>2. CASE ~visible
      BY <1>3, <1>4, <1>5, <1>6, <1>8, <2>2, <3>2 DEF Status, Final, Alive, Follows
    <3>3. QED  BY <3>1, <3>2
  <2>3. CASE op.read = "absent"
    BY <1>3, <1>4, <1>5, <1>6, <2>3 DEF Status, Final, Alive, Follows
  <2>4. CASE op.read \in Final
    BY <1>3, <1>4, <1>5, <1>6, <2>4 DEF Status, Final, Alive, Follows
  <2>5. QED  BY <1>3, <2>1, <2>2, <2>3, <2>4 DEF Status
<1> HIDE DEF st, x
<1>12. SyncedJob(j) \in JobRecord
  BY <1>3, <1>9, <1>10, Zenon DEF JobRecord
<1>13. SyncedJob(j).status = st /\ SyncedJob(j).cmd = job[j].cmd
  BY <1>3, <1>9 DEF JobRecord
<1>14. QED  BY <1>1, <1>2, <1>11, <1>12, <1>13

\* A record of j that follows is as sound as the one before.
LEMMA FollowsSoundly ==
  ASSUME IInv, NEW j \in Jobs, NEW jobs, Follows(j, jobs[j].status),
         \A k : k # j => jobs[k] = job[k]
  PROVE  Sound(jobs, bundle, file, proc) /\ Ahead(job, jobs)
<1>1. Settled(job, proc) /\ Told(job, file, proc) /\ Backed(job, bundle, proc)
  BY DEF IInv, Records, Sound
<1>2. Settled(jobs, proc)
  <2> SUFFICES ASSUME NEW k \in Jobs PROVE Settled(jobs, proc)!(k)
    BY DEF Settled
  <2>1. CASE k = j  BY <2>1 DEF Follows
  <2>2. CASE k # j  BY <1>1, <2>2 DEF Settled
  <2>3. QED  BY <2>1, <2>2
<1>3. Told(jobs, file, proc)
  <2> SUFFICES ASSUME NEW k \in Jobs PROVE Told(jobs, file, proc)!(k)
    BY DEF Told
  <2>1. CASE k = j  BY <2>1 DEF Follows
  <2>2. CASE k # j  BY <1>1, <2>2 DEF Told
  <2>3. QED  BY <2>1, <2>2
<1>4. Backed(jobs, bundle, proc)
  <2> SUFFICES ASSUME NEW b \in Bundles, bundle[b].status = "completed", NEW k \in Jobs \cap Range(bundle[b].jobs)
               PROVE  jobs[k].status = "completed" \/ (jobs[k].status = "failed" /\ proc[k] = "gone")
    BY DEF Backed
  <2>1. job[k].status = "completed" \/ (job[k].status = "failed" /\ proc[k] = "gone")
    BY <1>1 DEF Backed
  <2>2. CASE k = j  BY <2>1, <2>2 DEF Follows
  <2>3. CASE k # j  BY <2>1, <2>3
  <2>4. QED  BY <2>2, <2>3
<1>5. Ahead(job, jobs)
  <2> SUFFICES ASSUME NEW k \in Jobs, job[k].status \in Reported PROVE jobs[k].status \in Reported
    BY DEF Ahead
  <2>1. CASE k = j  BY <2>1 DEF Follows, Reported
  <2>2. CASE k # j  BY <2>2
  <2>3. QED  BY <2>1, <2>2
<1>6. QED  BY <1>2, <1>3, <1>4, <1>5 DEF Sound

\* After an error SyncBundle gives up; the read copy is forgotten.
LEMMA GivesUp ==
  ASSUME IInv, op.read # "unread", op.kind \in {"bundle", "record"}, bundle' = bundle,
         op' = [AfterBundle(FALSE) EXCEPT !.read = "unread"]
  PROVE  op' \in Operation /\ OnOperation'
<1>1. op \in Operation /\ op.todo # <<>> /\ (op.kind = "record" => op.at # 0 /\ op.pending # <<>>)
  BY DEF IInv, TypeOK, Reads, Course
<1> DEFINE a == AfterBundle(FALSE)
<1>2. a \in Operation
  BY <1>1, AfterBundleType
<1>3. op' \in Operation
  BY <1>2 DEF Operation
<1>4. /\ op'.kind = a.kind /\ op'.todo = a.todo /\ op'.at = a.at /\ op'.pending = a.pending
      /\ op'.mark = a.mark /\ op'.read = "unread"
  BY <1>2 DEF Operation
<1>5. \/ a.kind = "idle"
      \/ a.kind = "reuse" /\ a.at = op.at /\ bundle[op.at].status = "running"
      \/ a.kind = "record" /\ a.at = 0 /\ a.todo = <<>>
  BY <1>1 DEF AfterBundle, Idle, Operation
<1>6. QED  BY <1>3, <1>4, <1>5 DEF OnOperation, Course, Reads, Marks, Finds

LEMMA ProbeInv ==
  ASSUME IInv, NEW ok \in Outcomes, NEW hook \in BOOLEAN, Probe(ok, hook)
  PROVE  /\ IInv'
         /\ \A k \in Jobs : job[k].status \in Final /\ file[k] = job[k].status
                             => job'[k].status = job[k].status
<1> DEFINE j == Head(op.todo)
           sy == SyncedJob(j)
           synced == [job EXCEPT ![j] = sy]
           r == IF Adopts(j, ok) THEN [Current(j, ok) EXCEPT !.owned = TRUE] ELSE sy
           rest == [op EXCEPT !.todo = Tail(op.todo), !.read = "unread"]
<1>1. /\ op.read # "unread" /\ UNCHANGED <<windows, bundle, file, outcome, ours, restarts>>
      /\ SaveWith(synced, ok) /\ job' = [job EXCEPT ![j] = r]
      /\ proc' = IF windows /\ j \in ours /\ synced[j].status \in Final THEN Killed({j}) ELSE proc
      /\ op' = CASE op.kind = "job"  -> Idle
                 [] op.kind = "find" -> IF Found(j, ok) THEN NextCommand(j, hook) ELSE rest
                 [] OTHER -> IF ok THEN rest ELSE [AfterBundle(FALSE) EXCEPT !.read = "unread"]
  BY DEF Probe
<1>2. /\ j \in Jobs /\ op.todo \in Seq(Jobs) /\ op.todo # <<>>
      /\ sy \in JobRecord /\ sy.cmd = job[j].cmd
      /\ Follows(j, sy.status) /\ Follows(j, job[j].status)
      /\ proc[j] = "working" => sy.status = "running"
  BY <1>1, SyncedIs, StandingFollows
<1>3. /\ job \in [Jobs -> JobRecord] /\ op \in Operation /\ ours \subseteq Jobs
      /\ proc \in [Jobs -> {"none", "working", "writing", "zombie", "gone"}]
      /\ bundle \in [Bundles -> BundleRecord]
  BY DEF IInv, TypeOK
<1>4. /\ r \in JobRecord /\ r.cmd = job[j].cmd /\ r.status \in {sy.status, job[j].status}
      /\ ok => r.status = sy.status
  <2>1. CASE Adopts(j, ok)
    <3> DEFINE c == Current(j, ok)
    <3>1. /\ c \in JobRecord /\ c.cmd = job[j].cmd /\ c.status \in {sy.status, job[j].status}
          /\ ok => c.status = sy.status
      BY <1>2, <1>3 DEF Current
    <3> HIDE DEF c
    <3>2. TRUE \in BOOLEAN  OBVIOUS
    <3>3. [c EXCEPT !.owned = TRUE] \in JobRecord
      BY <3>1, <3>2, Zenon DEF JobRecord
    <3>4. [c EXCEPT !.owned = TRUE].cmd = c.cmd /\ [c EXCEPT !.owned = TRUE].status = c.status
      BY <3>1 DEF JobRecord
    <3>5. r = [c EXCEPT !.owned = TRUE]
      BY <2>1 DEF c
    <3> HIDE DEF r, sy
    <3>6. QED  BY <3>1, <3>3, <3>4, <3>5
  <2>2. CASE ~Adopts(j, ok)
    BY <1>2, <2>2
  <2>3. QED  BY <2>1, <2>2
<1>5. Follows(j, r.status)
  <2> HIDE DEF r, sy
  <2>1. QED  BY <1>2, <1>4
<1> HIDE DEF r
<1>6. /\ synced \in [Jobs -> JobRecord] /\ synced[j] = sy
      /\ \A k : k # j => synced[k] = job[k]
  BY <1>2, <1>3
<1>7. job' \in [Jobs -> JobRecord] /\ job'[j] = r /\ \A k : k # j => job'[k] = job[k]
  BY <1>1, <1>2, <1>3, <1>4
<1>8. proc' = proc
  <2>1. CASE windows /\ j \in ours /\ synced[j].status \in Final
    <3>1. proc[j] \notin Alive
      BY <1>2, <1>6, <2>1 DEF Follows
    <3>2. /\ Killed({j}) \in [Jobs -> {"none", "working", "writing", "zombie", "gone"}]
          /\ \A k \in Jobs : Killed({j})[k] = IF k \in {j} /\ proc[k] \in Alive THEN Ended(k) ELSE proc[k]
      BY KilledIs DEF IInv
    <3>3. Killed({j}) = proc
      <4> DEFINE p == Killed({j})
      <4>1. p \in [Jobs -> {"none", "working", "writing", "zombie", "gone"}]
            /\ \A k \in Jobs : p[k] = proc[k]
        BY <3>1, <3>2
      <4> HIDE DEF p
      <4>2. p = proc
        BY <1>3, <4>1
      <4>3. QED  BY <4>2 DEF p
    <3>4. QED  BY <1>1, <2>1, <3>3
  <2>2. QED  BY <1>1, <2>1
<1> HIDE DEF sy, synced
<1>9. /\ Sound(synced, bundle', file', proc') /\ Sound(job', bundle', file', proc')
      /\ Sound(saved.job, saved.bundle, file', proc') /\ Ahead(job, job')
  <2>1. UNCHANGED <<bundle, file, proc>>
    BY <1>1, <1>8
  <2>2. Sound(synced, bundle, file, proc)
    BY <1>2, <1>6, FollowsSoundly
  <2>3. Sound(job', bundle, file, proc) /\ Ahead(job, job')
    BY <1>2, <1>5, <1>7, FollowsSoundly
  <2>4. Sound(saved.job, saved.bundle, file, proc)
    BY DEF IInv, Records
  <2>5. QED  BY <2>1, <2>2, <2>3, <2>4
<1>10. \A k \in Jobs : job[k].status \in Final /\ file[k] = job[k].status
                        => job'[k].status = job[k].status
  BY <1>5, <1>7 DEF Follows
<1>11. Ahead(saved.job, job') /\ (ok => Ahead(synced, job'))
  <2>1. Ahead(saved.job, job)
    BY DEF IInv, Records
  <2>2. ok => \A k : synced[k].status = job'[k].status
    BY <1>4, <1>6, <1>7
  <2>3. QED  BY <1>9, <2>1, <2>2 DEF Ahead
<1>12. /\ failures' \in 0..MaxFailures
       /\ saved' \in [job : [Jobs -> JobRecord], bundle : [Bundles -> BundleRecord]]
       /\ Sound(saved'.job, saved'.bundle, file', proc') /\ Ahead(saved'.job, job')
  <2>1. failures' \in 0..MaxFailures /\ Stored(synced, ok)
    BY <1>1, FailuresCounted
  <2>2. bundle' \in [Bundles -> BundleRecord]
    BY <1>1, <1>3
  <2>3. QED  BY <1>6, <1>9, <1>11, <2>1, <2>2, SaveKeeps
<1>13. Records'
  BY <1>9, <1>12 DEF Records
<1>14. Runners' /\ Verdicts' /\ OneRunPerCommand'
  <2>1. Runners'
    BY <1>1, <1>8 DEF IInv, Runners
  <2>2. Verdicts'
    <3> SUFFICES ASSUME NEW k \in ours PROVE job'[k].status # "absent"
      BY <1>1 DEF Verdicts
    <3>1. CASE k = j  BY <1>5, <1>7, <3>1 DEF Follows
    <3>2. CASE k # j  BY <1>7, <3>2 DEF IInv, Verdicts
    <3>3. QED  BY <3>1, <3>2
  <2>3. \A k \in Jobs : job'[k].cmd = job[k].cmd
    BY <1>4, <1>7
  <2>4. OneRunPerCommand'
    BY <1>1, <1>3, <1>8, <2>3 DEF IInv, OneRunPerCommand
  <2>5. QED  BY <2>1, <2>2, <2>4
<1>17. rest \in Operation
  <2>1. Tail(op.todo) \in Seq(Jobs)  BY <1>2, TailRange
  <2>2. QED  BY <1>3, <2>1, OperationReads
<1>18. op' = rest /\ ~(op.kind = "find" /\ Found(j, ok)) /\ op.kind # "job" => OnOperation'
  <2> SUFFICES ASSUME op' = rest, ~(op.kind = "find" /\ Found(j, ok)), op.kind # "job" PROVE OnOperation'
    OBVIOUS
  <2>1. /\ op'.kind = op.kind /\ op'.at = op.at /\ op'.read = "unread" /\ op'.pending = op.pending
        /\ op'.cmds = op.cmds /\ op'.todo = Tail(op.todo)
    BY <1>3 DEF Operation
  <2>2. op.kind \in {"bundle", "find", "record"}
    BY <1>1 DEF IInv, Reads
  <2>3. Course' /\ Reads' /\ Marks'
    <3>1. op.kind = "record" => op.at # 0 /\ op.pending # <<>>
      BY <1>2 DEF IInv, Course
    <3>2. op.kind = "find" => op.cmds # <<>> /\ op.at = 0
      BY DEF IInv, Course
    <3>3. QED  BY <2>1, <2>2, <3>1, <3>2 DEF Course, Reads, Marks
  <2>4. ASSUME op.kind = "find", NEW k \in ours, proc[k] = "working", job[k].cmd = Head(op.cmds)
        PROVE  k \in Range(Tail(op.todo))
    <3>1. k \in Range(op.todo)
      BY <2>4 DEF IInv, Finds
    <3>2. CASE k = j
      <4>1. sy.status = "running"
        BY <1>2, <2>4, <3>2
      <4>2. job[j].status = "running"
        <5>1. job[j].status \notin Final /\ job[j].status # "absent" /\ job[j].status \in Status
          BY <1>2, <1>3, <2>4, <3>2 DEF IInv, Records, Sound, Settled, Verdicts, Alive, JobRecord
        <5>2. QED  BY <5>1 DEF Status
      <4>3. Found(j, ok)
        BY <2>4, <3>2, <4>1, <4>2 DEF Found, Current, sy
      <4>4. QED  BY <2>4, <4>3
    <3>3. QED  BY <1>2, <3>1, <3>2, TailRange
  <2>5. Finds'
    <3>1. ours' = ours /\ proc' = proc /\ \A k \in ours : job'[k].cmd = job[k].cmd
      BY <1>1, <1>3, <1>4, <1>7, <1>8
    <3>2. QED  BY <2>1, <2>4, <3>1 DEF Finds
  <2>6. QED  BY <2>3, <2>5 DEF OnOperation
<1>19. op' \in Operation /\ OnOperation'
  <2>1. CASE op.kind = "job"
    <3>1. op' = Idle  BY <1>1, <2>1
    <3>2. QED  BY <3>1, IdleType, VacantBeginnings, VacantOperation
  <2>2. CASE op.kind = "find" /\ Found(j, ok)
    <3>1. op' = NextCommand(j, hook) /\ op.at = 0 /\ op.cmds # <<>>
      BY <1>1, <2>2 DEF IInv, Course
    <3>2. op' \in Operation /\ Vacant(op')
      BY <1>2, <1>3, <3>1, NextCommandType, NextCommandVacant
    <3>3. QED  BY <3>2, VacantOperation
  <2>3. CASE op.kind = "find" /\ ~Found(j, ok)
    <3>1. op' = rest  BY <1>1, <2>3
    <3>2. QED  BY <1>17, <1>18, <2>3, <3>1
  <2>4. CASE op.kind \in {"bundle", "record"} /\ ok
    <3>1. op' = rest  BY <1>1, <2>4
    <3>2. QED  BY <1>17, <1>18, <2>4, <3>1
  <2>5. CASE op.kind \in {"bundle", "record"} /\ ~ok
    <3>1. op' = [AfterBundle(FALSE) EXCEPT !.read = "unread"]  BY <1>1, <2>5
    <3>2. QED  BY <1>1, <2>5, <3>1, GivesUp
  <2>6. op.kind \in {"job", "bundle", "find", "record"}
    BY <1>1 DEF IInv, Reads
  <2>7. QED  BY <2>1, <2>2, <2>3, <2>4, <2>5, <2>6
<1>20. TypeOK'
  BY <1>1, <1>3, <1>7, <1>8, <1>12, <1>19 DEF IInv, TypeOK
<1>21. IInv'
  BY <1>13, <1>14, <1>19, <1>20 DEF IInv, OnOperation
<1>22. QED  BY <1>10, <1>21

\* A job gets a runner; the search has found none that works on its command.
LEMMA StartInv ==
  ASSUME IInv, NEW ok \in Outcomes, NEW hook \in BOOLEAN, Start(ok, hook)
  PROVE  /\ IInv'
         /\ \A k \in ours : job'[k] = job[k]
<1>1. /\ op.kind = "find" /\ op.todo = <<>> /\ UNCHANGED <<windows, bundle, outcome, restarts>> /\ Save(ok)
      /\ op \in Operation /\ op.cmds # <<>> /\ op.at = 0
  BY DEF Start, IInv, TypeOK, Course
<1> DEFINE u == op.owner # NoOwner
           r == [status |-> "running", exit |-> "none", cmd |-> Head(op.cmds), owned |-> u]
<1>2. PICK j \in Jobs : /\ proc[j] = "none"
                        /\ job' = [job EXCEPT ![j] = r]
                        /\ proc' = [proc EXCEPT ![j] = "working"]
                        /\ file' = [file EXCEPT ![j] = "running"]
                        /\ ours' = ours \cup {j}
                        /\ op' = NextCommand(j, ok /\ hook)
  BY DEF Start
<1>3. /\ job \in [Jobs -> JobRecord] /\ ours \subseteq Jobs
      /\ proc \in [Jobs -> {"none", "working", "writing", "zombie", "gone"}]
      /\ file \in [Jobs -> Status \cup {"torn"}]
      /\ outcome \in [Jobs -> {"unknown", "zero", "nonzero"}]
      /\ bundle \in [Bundles -> BundleRecord]
  BY DEF IInv, TypeOK
<1>4. r \in JobRecord /\ r.status = "running" /\ r.cmd = Head(op.cmds)
  <2>1. op.cmds \in Seq(Commands)  BY <1>1 DEF Operation
  <2>2. Head(op.cmds) \in Commands  BY <1>1, <2>1
  <2>3. u \in BOOLEAN  OBVIOUS
  <2> HIDE DEF u
  <2>4. QED  BY <2>2, <2>3 DEF JobRecord, Status
<1> HIDE DEF r
<1>5. /\ job' \in [Jobs -> JobRecord] /\ \A k \in Jobs : job'[k] = IF k = j THEN r ELSE job[k]
      /\ proc' \in [Jobs -> {"none", "working", "writing", "zombie", "gone"}]
      /\ \A k \in Jobs : proc'[k] = IF k = j THEN "working" ELSE proc[k]
      /\ file' \in [Jobs -> Status \cup {"torn"}]
      /\ \A k \in Jobs : file'[k] = IF k = j THEN "running" ELSE file[k]
  BY <1>2, <1>3, <1>4 DEF Status
<1>6. job[j].status = "absent" /\ saved.job[j].status = "absent" /\ outcome[j] = "unknown"
      /\ j \notin ours
  BY <1>2 DEF IInv, Records, Sound, Settled, Runners
<1>7. ASSUME NEW jobs, NEW bundles, Sound(jobs, bundles, file, proc), jobs[j].status = "absent"
      PROVE  Sound(jobs, bundles, file', proc')
  <2>1. Settled(jobs, proc')
    BY <1>5, <1>7 DEF Sound, Settled, Final
  <2>2. Told(jobs, file', proc')
    BY <1>5, <1>7 DEF Sound, Told
  <2>3. Backed(jobs, bundles, proc')
    BY <1>5, <1>7 DEF Sound, Backed
  <2>4. QED  BY <2>1, <2>2, <2>3 DEF Sound
<1>8. /\ Sound(job, bundle, file', proc') /\ Sound(saved.job, saved.bundle, file', proc')
  BY <1>6, <1>7 DEF IInv, Records
<1>9. Sound(job', bundle', file', proc') /\ Ahead(saved.job, job') /\ Ahead(job', job')
  <2>1. bundle' = bundle /\ \A k : k # j => job'[k] = job[k]
    BY <1>1, <1>2, <1>3
  <2>2. Settled(job', proc')
    BY <1>4, <1>5, <1>8 DEF Sound, Settled, Final
  <2>3. Told(job', file', proc')
    BY <1>4, <1>5, <1>8 DEF Sound, Told
  <2>4. Backed(job', bundle', proc')
    BY <1>6, <1>8, <2>1 DEF Sound, Backed
  <2>5. Ahead(saved.job, job') /\ Ahead(job', job')
    BY <1>5, <1>6 DEF IInv, Records, Ahead, Reported
  <2>6. QED  BY <2>2, <2>3, <2>4, <2>5 DEF Sound
<1>10. /\ failures' \in 0..MaxFailures
       /\ saved' \in [job : [Jobs -> JobRecord], bundle : [Bundles -> BundleRecord]]
       /\ Sound(saved'.job, saved'.bundle, file', proc') /\ Ahead(saved'.job, job')
  <2>1. bundle' \in [Bundles -> BundleRecord] /\ SaveWith(job', ok)
    BY <1>1, <1>3 DEF Save
  <2>2. failures' \in 0..MaxFailures /\ Stored(job', ok)
    BY <2>1, FailuresCounted
  <2>3. QED  BY <1>5, <1>8, <1>9, <2>1, <2>2, SaveKeeps
<1>11. Records'
  BY <1>9, <1>10 DEF Records
<1>12. Runners'
  <2> SUFFICES ASSUME NEW k \in Jobs PROVE Runners!(k)'
    BY DEF Runners
  <2>1. Runners!(k)  BY DEF IInv, Runners
  <2>2. CASE k = j
    BY <1>1, <1>2, <1>5, <1>6, <2>2
  <2>3. CASE k # j
    BY <1>1, <1>2, <1>5, <2>1, <2>3
  <2>4. QED  BY <2>2, <2>3
<1>13. Verdicts'
  <2>1. \A k \in ours' : k = j \/ (k \in ours /\ k \in Jobs /\ k # j)
    BY <1>2, <1>3, <1>6
  <2>2. QED  BY <1>4, <1>5, <2>1 DEF IInv, Verdicts, Final
<1>14. OneRunPerCommand'
  <2>1. \A k \in ours : proc[k] = "working" => job[k].cmd # Head(op.cmds)
    BY <1>1 DEF IInv, Finds, Range
  <2>2. \A k \in ours' : k = j \/ (k \in ours /\ k \in Jobs /\ k # j)
    BY <1>2, <1>3, <1>6
  <2>3. QED  BY <1>4, <1>5, <2>1, <2>2 DEF IInv, OneRunPerCommand
<1>15. op' \in Operation /\ OnOperation'
  <2>1. op' \in Operation /\ Vacant(op')
    BY <1>1, <1>2, NextCommandType, NextCommandVacant
  <2>2. QED  BY <2>1, VacantOperation
<1>16. TypeOK'
  BY <1>1, <1>2, <1>3, <1>5, <1>10, <1>15 DEF IInv, TypeOK
<1>17. \A k \in ours : job'[k] = job[k]
  BY <1>3, <1>5, <1>6
<1>18. QED
  BY <1>11, <1>12, <1>13, <1>14, <1>15, <1>16, <1>17 DEF IInv, OnOperation

LEMMA RestartInv ==
  ASSUME IInv, Restart PROVE IInv'
<1>1. /\ restarts < MaxRestarts /\ restarts' = restarts + 1
      /\ job' = saved.job /\ bundle' = saved.bundle /\ op' = Idle /\ ours' = {}
      /\ UNCHANGED <<windows, saved, failures, file, outcome>>
  BY DEF Restart
<1>2. /\ proc' \in [Jobs -> {"none", "working", "writing", "zombie", "gone"}]
      /\ \A k \in Jobs : \/ proc'[k] = proc[k] /\ proc[k] # "zombie"
                         \/ proc[k] \in Alive \cup {"zombie"} /\ proc'[k] = "gone"
  <2>1. CASE windows
    <3>1. /\ proc' \in [Jobs -> {"none", "working", "writing", "zombie", "gone"}]
          /\ \A k \in Jobs : proc'[k] = IF k \in ours /\ proc[k] \in Alive THEN Ended(k) ELSE proc[k]
      <4>1. proc' = Killed(ours)  BY <2>1 DEF Restart
      <4>2. QED  BY <4>1, KilledIs DEF IInv
    <3>2. \A k \in Jobs : proc[k] # "zombie"
      BY <2>1 DEF IInv, Runners
    <3>3. QED  BY <2>1, <3>1, <3>2 DEF Ended
  <2>2. CASE ~windows
    <3>1. proc' = [j \in Jobs |-> IF proc[j] = "zombie" THEN "gone" ELSE proc[j]]
      BY <2>2 DEF Restart
    <3>2. proc \in [Jobs -> {"none", "working", "writing", "zombie", "gone"}]
      BY DEF IInv, TypeOK
    <3>3. QED  BY <3>1, <3>2
  <2>3. QED  BY <2>1, <2>2
<1>3. TypeOK'
  <2>1. restarts' \in 0..MaxRestarts
    BY <1>1, BackgroundAssumption DEF IInv, TypeOK
  <2>2. QED  BY <1>1, <1>2, <2>1, IdleType DEF IInv, TypeOK
<1>4. Sound(saved.job, saved.bundle, file, proc')
  <2>1. Sound(saved.job, saved.bundle, file, proc)
    BY DEF IInv, Records
  <2>2. \A k \in Jobs : /\ proc'[k] \in Alive => proc[k] \in Alive
                        /\ proc'[k] = "none" => proc[k] = "none"
    BY <1>2 DEF Alive
  <2>3. \A k \in Jobs : proc[k] = "gone" => proc'[k] = "gone"
    BY <1>2 DEF Alive
  <2>4. Settled(saved.job, proc')
    BY <2>1, <2>2 DEF Sound, Settled
  <2>5. Told(saved.job, file, proc') /\ Backed(saved.job, saved.bundle, proc')
    BY <2>1, <2>3 DEF Sound, Told, Backed
  <2>6. QED  BY <2>4, <2>5 DEF Sound
<1>5. Records'
  <2>1. Ahead(saved.job, saved.job)  BY DEF Ahead
  <2>2. QED  BY <1>1, <1>4, <2>1 DEF Records
<1>6. Runners'
  BY <1>1, <1>2 DEF IInv, Runners, Alive
<1>7. Verdicts' /\ OneRunPerCommand'
  BY <1>1 DEF Verdicts, OneRunPerCommand
<1>8. OnOperation'
  BY <1>1, VacantBeginnings, VacantOperation
<1>9. QED  BY <1>3, <1>5, <1>6, <1>7, <1>8 DEF IInv, OnOperation

-----------------------------------------------------------------------------
(* Bundles and operations go on speaking of jobs that were started.        *)

OfStarted(o) == Range(o.todo) \subseteq Started /\ Range(o.batch) \subseteq Started

LEMMA EmptyRange == Range(<<>>) = {}
  BY DEF Range

LEMMA AppendRange ==
  ASSUME NEW S, NEW e \in Seq(S), NEW x \in S
  PROVE  Range(Append(e, x)) \subseteq Range(e) \cup {x}
<1> DEFINE a == Append(e, x)
<1>1. /\ DOMAIN e = 1 .. Len(e) /\ DOMAIN a = 1 .. (Len(e) + 1) /\ Len(e) \in Nat
      /\ \A i \in 1 .. Len(e) : a[i] = e[i]
      /\ a[Len(e) + 1] = x
  OBVIOUS
<1> HIDE DEF a
<1>2. \A i \in DOMAIN a : a[i] = x \/ (i \in DOMAIN e /\ a[i] = e[i])
  BY <1>1
<1>3. QED  BY <1>2 DEF a, Range

\* The jobs of an operation come from the records, or were there before.
LEMMA IdleOfStarted == OfStarted(Idle)
  BY EmptyRange DEF OfStarted, Idle

LEMMA NextCommandOfStarted ==
  ASSUME op \in Operation, OfStarted(op), NEW hook, NEW j \in Jobs \cup {0}
  PROVE  /\ j \in Started \cup {0} => OfStarted(NextCommand(j, hook))
         /\ Range(NextCommand(j, hook).todo) = {}
         /\ Range(NextCommand(j, hook).batch) \subseteq Started \cup {j}
<1>1. CASE ~hook
  <2>1. NextCommand(j, hook) = Idle  BY <1>1 DEF NextCommand
  <2>2. QED  BY <2>1, IdleOfStarted, EmptyRange DEF Idle
<1>2. CASE hook
  <2>1. /\ NextCommand(j, hook).todo = <<>>
        /\ NextCommand(j, hook).batch = IF j = 0 THEN op.batch ELSE Append(op.batch, j)
    BY <1>2 DEF NextCommand, Operation
  <2>2. op.batch \in Seq(Jobs)
    BY DEF Operation
  <2>3. j # 0 => Range(Append(op.batch, j)) \subseteq Range(op.batch) \cup {j}
    BY <2>2, AppendRange
  <2>4. Range(NextCommand(j, hook).batch) \subseteq Started \cup {j} /\ (j = 0 =>
        Range(NextCommand(j, hook).batch) \subseteq Started)
    BY <2>1, <2>3 DEF OfStarted
  <2>5. QED  BY <2>1, <2>4, EmptyRange DEF OfStarted
<1>3. QED  BY <1>1, <1>2

LEMMA RestOfStarted ==
  ASSUME op \in Operation, OfStarted(op)
  PROVE  /\ \A ok : OfStarted(AfterBundle(ok)) /\ OfStarted([AfterBundle(ok) EXCEPT !.read = "unread"])
         /\ OfStarted(NextPending)
         /\ op.todo # <<>> => /\ OfStarted([op EXCEPT !.todo = Tail(op.todo), !.read = "unread"])
                              /\ OfStarted([op EXCEPT !.todo = Tail(op.todo)])
<1>1. op.todo \in Seq(Jobs)
  BY DEF Operation
<1>2. ASSUME NEW ok PROVE AfterBundle(ok).todo = <<>> /\ AfterBundle(ok).batch \in {<<>>, op.batch}
                          /\ [AfterBundle(ok) EXCEPT !.read = "unread"].todo = <<>>
                          /\ [AfterBundle(ok) EXCEPT !.read = "unread"].batch \in {<<>>, op.batch}
  BY DEF AfterBundle, Idle, Operation
<1>3. NextPending.todo = <<>> /\ NextPending.batch \in {<<>>, op.batch}
  BY DEF NextPending, Idle, Operation
<1>4. op.todo # <<>> => Range(Tail(op.todo)) \subseteq Range(op.todo)
  BY <1>1, TailRange
<1>5. /\ [op EXCEPT !.todo = Tail(op.todo), !.read = "unread"].todo = Tail(op.todo)
      /\ [op EXCEPT !.todo = Tail(op.todo), !.read = "unread"].batch = op.batch
      /\ [op EXCEPT !.todo = Tail(op.todo)].todo = Tail(op.todo)
      /\ [op EXCEPT !.todo = Tail(op.todo)].batch = op.batch
  BY DEF Operation
<1>6. QED  BY <1>2, <1>3, <1>4, <1>5, EmptyRange DEF OfStarted

\* A step keeps what was started.
LEMMA StartedKept ==
  ASSUME IInv, Next PROVE Started \subseteq Started'
<1>1. Started' = {k \in Jobs : proc'[k] # "none"}
  BY DEF Started
<1>2. SUFFICES \A k \in Jobs : proc[k] # "none" => proc'[k] # "none"
  BY <1>1 DEF Started
<1>3. \A S : \A k \in Jobs : proc[k] # "none" => Killed(S)[k] # "none"
  BY DEF Killed, EndOf
<1>4. ASSUME NEW j \in Jobs, RunnerStep(j) PROVE \A k \in Jobs : proc[k] # "none" => proc'[k] # "none"
  BY <1>3, <1>4 DEF RunnerStep, CommandEnds, Reports, Dies, IInv, TypeOK
<1>5. CASE Restart
  BY <1>3, <1>5 DEF Restart
<1>6. CASE OnlyOperation
  <2>1. proc' = proc
    BY <1>6 DEF OnlyOperation, BeginSyncJob, BeginSyncBundle, BeginCancelBundle, BeginLaunch, Ask,
         ReadStatus, NextCandidate, StartFails, Launched, NoneToReuse, Edit, records, managerRest
  <2>2. QED  BY <2>1
<1>7. ASSUME NEW ok \in Outcomes, NEW hook \in BOOLEAN, Probe(ok, hook) \/ Start(ok, hook)
      PROVE  \A k \in Jobs : proc[k] # "none" => proc'[k] # "none"
  BY <1>3, <1>7 DEF Probe, Start, IInv, TypeOK
<1>8. ASSUME NEW ok \in Outcomes,
             \/ EndSyncBundle(ok) \/ Reuse(ok) \/ RecordBundle(ok) \/ EndCancel(ok) \/ NextToCancel
      PROVE  \A k \in Jobs : proc[k] # "none" => proc'[k] # "none"
  <2>1. proc' = proc
    BY <1>8 DEF EndSyncBundle, Reuse, RecordBundle, EndCancel, NextToCancel, managerRest
  <2>2. QED  BY <2>1
<1>9. ASSUME NEW ok \in Outcomes, CancelNext(ok) \/ \E j \in Jobs : CancelJob(j, ok)
      PROVE  \A k \in Jobs : proc[k] # "none" => proc'[k] # "none"
  <2>1. proc' = proc \/ \E S : proc' = Killed(S)
    BY <1>9 DEF CancelNext, CancelJob, Cancel, records, managerRest
  <2>2. QED  BY <1>3, <2>1
<1>10. CASE NextToCancel
  BY <1>10 DEF NextToCancel, managerRest
<1>11. QED
  BY <1>4, <1>5, <1>6, <1>7, <1>8, <1>9, <1>10 DEF Next, ManagerStep, OnlyOperation

\* Every operation: its jobs were started by the end of the step.
OperationKnown == Range(op'.todo) \subseteq Started' /\ Range(op'.batch) \subseteq Started'

LEMMA OnlyOperationKnown ==
  ASSUME IInv, Known, OnlyOperation PROVE OfStarted(op')
<1>1. op \in Operation /\ OfStarted(op)
  BY DEF IInv, TypeOK, Known, OfStarted
<1>2. \A b \in Bundles : Range(bundle[b].jobs) \subseteq Started
  BY DEF Known
<1>3. \A j \in Jobs : job[j].status # "absent" => j \in Started
  BY DEF IInv, Records, Sound, Settled, Started
<1>4. CASE \E j \in Jobs : BeginSyncJob(j)
  <2>1. PICK j \in Jobs : BeginSyncJob(j)  BY <1>4
  <2>2. op'.todo = <<j>> /\ op'.batch = <<>> /\ j \in Started
    BY <1>3, <2>1 DEF BeginSyncJob, Idle, Recorded
  <2>3. Range(<<j>>) = {j}  BY DEF Range
  <2>4. QED  BY <2>2, <2>3, EmptyRange DEF OfStarted
<1>5. CASE \/ \E b \in Bundles : BeginSyncBundle(b) \/ BeginCancelBundle(b)
           \/ \E q \in Requests : BeginLaunch(q)
           \/ Edit \/ StartFails
  <2>1. op'.batch = <<>> /\ (op'.todo = <<>> \/ \E b \in Bundles : op'.todo = bundle[b].jobs)
    <3>1. CASE \E b \in Bundles : BeginSyncBundle(b)
      BY <3>1 DEF BeginSyncBundle, Idle
    <3>2. CASE \E b \in Bundles : BeginCancelBundle(b)
      BY <3>2 DEF BeginCancelBundle, Idle
    <3>3. CASE \E q \in Requests : BeginLaunch(q)
      BY <3>3 DEF BeginLaunch, Idle
    <3>4. CASE Edit
      BY <3>4 DEF Edit, Idle
    <3>5. CASE StartFails
      BY <3>5 DEF StartFails, Idle
    <3>6. QED  BY <1>5, <3>1, <3>2, <3>3, <3>4, <3>5
  <2>2. QED  BY <1>2, <2>1, EmptyRange DEF OfStarted
<1>6. ASSUME NEW a \in {"yes", "skip", "error"}, Ask(a) PROVE OfStarted(op')
  <2>1. CASE a = "yes"
    <3> DEFINE S == {j \in Jobs : job[j].status = "running"}
               s == NewestFirst(S)
    <3>1. op' = [op EXCEPT !.kind = "find", !.todo = s]
      BY <1>6, <2>1 DEF Ask
    <3>2. Range(s) = S
      BY ListsOfJobs
    <3> HIDE DEF s
    <3>3. op'.todo = s /\ op'.batch = op.batch
      BY <1>1, <3>1 DEF Operation
    <3>4. QED  BY <1>1, <1>3, <3>2, <3>3 DEF OfStarted
  <2>2. CASE a = "skip"
    <3>1. op' = NextCommand(0, TRUE) /\ 0 \in Jobs \cup {0} /\ 0 \in Started \cup {0}
      BY <1>6, <2>2 DEF Ask
    <3>2. QED  BY <1>1, <3>1, NextCommandOfStarted
  <2>3. CASE a = "error"
    BY <1>6, <2>3, IdleOfStarted DEF Ask
  <2>4. QED  BY <2>1, <2>2, <2>3
<1>7. CASE ReadStatus
  <2>1. op'.todo = op.todo /\ op'.batch = op.batch
    BY <1>1, <1>7 DEF ReadStatus, Operation
  <2>2. QED  BY <1>1, <2>1 DEF OfStarted
<1>8. CASE NextCandidate
  <2>1. op.pending \in Seq(Bundles) /\ op.pending # <<>>
    BY <1>1, <1>8 DEF NextCandidate, Operation
  <2>2. Head(op.pending) \in Bundles
    BY <2>1
  <2>3. op'.batch = op.batch /\ op'.todo \in {op.todo, bundle[Head(op.pending)].jobs}
    BY <1>1, <1>8 DEF NextCandidate, Operation
  <2>4. QED  BY <1>1, <1>2, <2>2, <2>3 DEF OfStarted
<1>9. CASE Launched \/ NoneToReuse
  <2>1. op' = Idle \/ (op'.todo = op.todo /\ op'.batch = op.batch)
    BY <1>1, <1>9 DEF Launched, NoneToReuse, Operation
  <2>2. QED  BY <1>1, <2>1, IdleOfStarted DEF OfStarted
<1>10. QED
  BY <1>4, <1>5, <1>6, <1>7, <1>8, <1>9 DEF OnlyOperation

LEMMA KnownInv ==
  ASSUME IInv, Known, Next PROVE Known'
<1>1. Started \subseteq Started'
  BY StartedKept
<1>2. op \in Operation /\ OfStarted(op)
  BY DEF IInv, TypeOK, Known, OfStarted
<1>3. /\ \A b \in Bundles : /\ Range(bundle[b].jobs) \subseteq Started
                            /\ Range(saved.bundle[b].jobs) \subseteq Started
  BY DEF Known
<1>4. \A o : OfStarted(o) => Range(o.todo) \subseteq Started' /\ Range(o.batch) \subseteq Started'
  BY <1>1 DEF OfStarted
<1>5. OperationKnown
  <2>1. ASSUME NEW j \in Jobs, RunnerStep(j) PROVE OperationKnown
    <3>1. op' = op  BY <2>1 DEF RunnerStep, CommandEnds, Reports, Dies, runnerRest
    <3>2. QED  BY <1>2, <1>4, <3>1 DEF OperationKnown
  <2>2. CASE OnlyOperation
    BY <1>4, <2>2, OnlyOperationKnown DEF OperationKnown
  <2>3. ASSUME NEW ok \in Outcomes, NEW hook \in BOOLEAN, Probe(ok, hook) PROVE OperationKnown
    <3>1. op.todo # <<>>  BY <2>3 DEF Probe, IInv, Reads
    <3>2. \/ op' = Idle \/ op' = NextCommand(Head(op.todo), hook)
          \/ op' = [op EXCEPT !.todo = Tail(op.todo), !.read = "unread"]
          \/ op' = [AfterBundle(FALSE) EXCEPT !.read = "unread"]
      BY <2>3 DEF Probe
    <3>3. op.todo \in Seq(Jobs)  BY <1>2 DEF Operation
    <3>4. Head(op.todo) \in Jobs \cup {0} /\ Head(op.todo) \in Started
      BY <1>2, <3>1, <3>3, TailRange DEF OfStarted
    <3>5. OfStarted(NextCommand(Head(op.todo), hook))
      BY <1>2, <3>4, NextCommandOfStarted
    <3>6. OfStarted(op')
      BY <1>2, <3>1, <3>2, <3>5, IdleOfStarted, RestOfStarted
    <3>7. QED  BY <1>4, <3>6 DEF OperationKnown
  <2>4. ASSUME NEW ok \in Outcomes, NEW hook \in BOOLEAN, Start(ok, hook) PROVE OperationKnown
    <3>1. PICK j \in Jobs : /\ proc' = [proc EXCEPT ![j] = "working"]
                            /\ op' = NextCommand(j, ok /\ hook)
      BY <2>4 DEF Start
    <3>2. proc'[j] = "working"
      BY <3>1 DEF IInv, TypeOK
    <3>3. j \in Started'
      <4>1. Started' = {k \in Jobs : proc'[k] # "none"}  BY DEF Started
      <4>2. QED  BY <3>2, <4>1
    <3>4. Range(op'.todo) = {} /\ Range(op'.batch) \subseteq Started \cup {j}
      BY <1>2, <3>1, NextCommandOfStarted
    <3>5. QED  BY <1>1, <3>3, <3>4 DEF OperationKnown
  <2>5. ASSUME NEW ok \in Outcomes, EndSyncBundle(ok) \/ Reuse(ok) \/ RecordBundle(ok) \/ EndCancel(ok)
        PROVE  OperationKnown
    <3>1. op' = Idle \/ op' = AfterBundle(ok) \/ op' = NextPending
      BY <2>5 DEF EndSyncBundle, Reuse, RecordBundle, EndCancel
    <3>2. OfStarted(op')  BY <1>2, <3>1, IdleOfStarted, RestOfStarted
    <3>3. QED  BY <1>4, <3>2 DEF OperationKnown
  <2>6. ASSUME NEW ok \in Outcomes, CancelNext(ok) \/ \E j \in Jobs : CancelJob(j, ok)
        PROVE  OperationKnown
    <3>1. \/ op' = Idle \/ op' = op \/ op' = NextPending
          \/ op.todo # <<>> /\ op' = [op EXCEPT !.todo = Tail(op.todo)]
      BY <2>6 DEF CancelNext, CancelJob
    <3>2. OfStarted(op')  BY <1>2, <3>1, IdleOfStarted, RestOfStarted
    <3>3. QED  BY <1>4, <3>2 DEF OperationKnown
  <2>7. CASE NextToCancel
    <3>1. op.kind = "cancel" /\ op.pending # <<>>  BY <2>7 DEF NextToCancel
    <3>2. Head(op.pending) \in Bundles  BY <3>1, Cancelling
    <3>3. op' = NextPending \/ op' = [op EXCEPT !.at = Head(op.pending), !.todo = bundle[Head(op.pending)].jobs]
      BY <2>7 DEF NextToCancel
    <3>4. op' = NextPending \/ (op'.batch = op.batch /\ op'.todo = bundle[Head(op.pending)].jobs)
      BY <1>2, <3>3 DEF Operation
    <3>5. OfStarted(op')
      BY <1>2, <1>3, <3>2, <3>4, RestOfStarted DEF OfStarted
    <3>6. QED  BY <1>4, <3>5 DEF OperationKnown
  <2>8. CASE Restart
    <3>1. op' = Idle  BY <2>8 DEF Restart
    <3>2. QED  BY <1>4, <3>1, IdleOfStarted DEF OperationKnown
  <2>9. QED
    BY <2>1, <2>2, <2>3, <2>4, <2>5, <2>6, <2>7, <2>8 DEF Next, ManagerStep, OnlyOperation
<1>6. \A b \in Bundles : bundle'[b].jobs \in {bundle[b].jobs, op.batch, saved.bundle[b].jobs}
  <2>1. CASE bundle' = bundle
    BY <2>1
  <2>2. ASSUME NEW ok \in Outcomes, EndSyncBundle(ok) \/ Reuse(ok) \/ RecordBundle(ok)
        PROVE  \A b \in Bundles : bundle'[b].jobs \in {bundle[b].jobs, op.batch}
    BY <2>2, EndSyncBundleInv, ReuseInv, RecordBundleInv DEF SameJobs
  <2>3. ASSUME op.kind = "cancel", NEW b \in Bundles \cup {0}, bundle' = Marked(b)
        PROVE  \A c \in Bundles : bundle'[c].jobs = bundle[c].jobs
    BY <2>3, MarkedOverrides DEF SameJobs
  <2>4. ASSUME NEW ok \in Outcomes, EndCancel(ok) \/ CancelNext(ok)
        PROVE  \A c \in Bundles : bundle'[c].jobs = bundle[c].jobs
    <3>1. op.kind = "cancel" /\ op.at \in Bundles \cup {0}
      BY <1>2, <2>4 DEF EndCancel, CancelNext, Operation
    <3>2. bundle' = bundle \/ bundle' = Marked(op.at)
      BY <2>4 DEF EndCancel, CancelNext, records
    <3>3. QED  BY <2>3, <3>1, <3>2
  <2>5. CASE NextToCancel
    <3>1. op.kind = "cancel" /\ op.pending # <<>>  BY <2>5 DEF NextToCancel
    <3>2. Head(op.pending) \in Bundles  BY <3>1, Cancelling
    <3>3. bundle' = bundle \/ bundle' = Marked(Head(op.pending))
      BY <2>5 DEF NextToCancel
    <3>4. QED  BY <2>3, <3>1, <3>2, <3>3
  <2>6. CASE Restart
    BY <2>6 DEF Restart
  <2>7. ASSUME NEW j \in Jobs, RunnerStep(j) PROVE bundle' = bundle
    BY <2>7 DEF RunnerStep, CommandEnds, Reports, Dies, runnerRest
  <2>8. CASE OnlyOperation
    <3>1. bundle' = bundle
      BY <2>8 DEF OnlyOperation, BeginSyncJob, BeginSyncBundle, BeginCancelBundle, BeginLaunch, Ask,
         ReadStatus, NextCandidate, StartFails, Launched, NoneToReuse, Edit, records
    <3>2. QED  BY <2>1, <3>1
  <2>9. ASSUME NEW ok \in Outcomes, NEW hook \in BOOLEAN,
               Probe(ok, hook) \/ Start(ok, hook) \/ \E j \in Jobs : CancelJob(j, ok)
        PROVE  bundle' = bundle
    BY <2>9 DEF Probe, Start, CancelJob
  <2>10. QED
    BY <2>1, <2>2, <2>4, <2>5, <2>6, <2>7, <2>8, <2>9 DEF Next, ManagerStep, OnlyOperation
<1>7. saved' = saved \/ saved'.bundle = bundle'
  <2>1. ASSUME NEW jobs, NEW ok, SaveWith(jobs, ok) \/ Stored(jobs, ok)
        PROVE  saved' = saved \/ saved'.bundle = bundle'
    BY <2>1 DEF SaveWith, Stored
  <2>2. ASSUME NEW ok, Save(ok) PROVE saved' = saved \/ saved'.bundle = bundle'
    BY <2>1, <2>2 DEF Save
  <2>3. ASSUME NEW j \in Jobs, RunnerStep(j) PROVE saved' = saved
    BY <2>3 DEF RunnerStep, CommandEnds, Reports, Dies, runnerRest
  <2>4. CASE Restart \/ NextToCancel
    BY <2>4 DEF Restart, NextToCancel
  <2>5. CASE OnlyOperation
    BY <2>5 DEF OnlyOperation, BeginSyncJob, BeginSyncBundle, BeginCancelBundle, BeginLaunch, Ask,
         ReadStatus, NextCandidate, StartFails, Launched, NoneToReuse, Edit, records
  <2>6. ASSUME NEW ok \in Outcomes, NEW hook \in BOOLEAN, Probe(ok, hook) \/ Start(ok, hook)
        PROVE  saved' = saved \/ saved'.bundle = bundle'
    <3>1. CASE Probe(ok, hook)
      <4>1. \E jobs : SaveWith(jobs, ok)  BY <3>1 DEF Probe
      <4>2. QED  BY <2>1, <4>1
    <3>2. CASE Start(ok, hook)
      BY <2>2, <3>2 DEF Start
    <3>3. QED  BY <2>6, <3>1, <3>2
  <2>7. ASSUME NEW ok \in Outcomes,
               \/ EndSyncBundle(ok) \/ Reuse(ok) \/ RecordBundle(ok) \/ CancelNext(ok) \/ EndCancel(ok)
               \/ \E j \in Jobs : CancelJob(j, ok)
        PROVE  saved' = saved \/ saved'.bundle = bundle'
    <3>1. \/ saved' = saved
          \/ Save(ok)
          \/ Stored(job', ok)
      BY <2>7 DEF EndSyncBundle, Reuse, RecordBundle, CancelNext, EndCancel, CancelJob, Cancel, records
    <3>2. QED  BY <2>1, <2>2, <3>1
  <2>8. QED
    BY <2>3, <2>4, <2>5, <2>6, <2>7 DEF Next, ManagerStep, OnlyOperation
<1>8. \A b \in Bundles : Range(bundle'[b].jobs) \subseteq Started
  BY <1>2, <1>3, <1>6 DEF OfStarted
<1>9. \A b \in Bundles : Range(saved'.bundle[b].jobs) \subseteq Started
  BY <1>3, <1>7, <1>8
<1>10. \A b \in Bundles : Range(bundle'[b].jobs) \subseteq Started' /\ Range(saved'.bundle[b].jobs) \subseteq Started'
  BY <1>1, <1>8, <1>9
<1>11. QED  BY <1>5, <1>10 DEF Known, OperationKnown

-----------------------------------------------------------------------------
(* Theorems.                                                               *)

LEMMA InitInv == Init => IInv /\ Known
<1> SUFFICES ASSUME Init PROVE IInv /\ Known
  OBVIOUS
<1>1. NoJobYet \in JobRecord /\ NoBundleYet \in BundleRecord
  <2>1. FALSE \in BOOLEAN /\ <<>> \in Seq(Jobs)  OBVIOUS
  <2>2. QED  BY <2>1 DEF NoJobYet, NoBundleYet, JobRecord, BundleRecord, Status, Owners
<1>2. /\ job = [j \in Jobs |-> NoJobYet] /\ bundle = [b \in Bundles |-> NoBundleYet]
      /\ saved = [job |-> job, bundle |-> bundle]
      /\ file = [j \in Jobs |-> "absent"] /\ proc = [j \in Jobs |-> "none"]
      /\ outcome = [j \in Jobs |-> "unknown"] /\ ours = {} /\ op = Idle
      /\ failures = 0 /\ restarts = 0 /\ windows \in BOOLEAN
  BY DEF Init
<1>3. /\ \A j \in Jobs : job[j].status = "absent" /\ saved.job[j].status = "absent"
      /\ \A b \in Bundles : /\ bundle[b].status = "absent" /\ saved.bundle[b].status = "absent"
                            /\ bundle[b].jobs = <<>> /\ saved.bundle[b].jobs = <<>>
  BY <1>2 DEF NoJobYet, NoBundleYet
<1>4. TypeOK
  <2>1. failures \in 0..MaxFailures /\ restarts \in 0..MaxRestarts
    BY <1>2, BackgroundAssumption
  <2>2. job \in [Jobs -> JobRecord] /\ bundle \in [Bundles -> BundleRecord]
    BY <1>1, <1>2
  <2>3. saved \in [job : [Jobs -> JobRecord], bundle : [Bundles -> BundleRecord]]
    BY <1>2, <2>2
  <2>4. file \in [Jobs -> Status \cup {"torn"}]
    BY <1>2 DEF Status
  <2>5. QED  BY <1>2, <2>1, <2>2, <2>3, <2>4, IdleType DEF TypeOK
<1>5. Records
  BY <1>3 DEF Records, Sound, Settled, Told, Backed, Ahead, Final, Reported
<1>6. Runners /\ Verdicts /\ OneRunPerCommand
  BY <1>2, <1>3 DEF Runners, Verdicts, OneRunPerCommand
<1>7. Course /\ Reads /\ Marks /\ Finds
  BY <1>2 DEF Idle, Course, Reads, Marks, Finds
<1>8. Known
  <2>1. OfStarted(op)  BY <1>2, IdleOfStarted
  <2>2. QED  BY <1>3, <2>1, EmptyRange DEF Known, OfStarted
<1>9. QED  BY <1>4, <1>5, <1>6, <1>7, <1>8 DEF IInv

LEMMA StepInv == IInv /\ Known /\ [Next]_vars => IInv' /\ Known'
<1> SUFFICES ASSUME IInv, Known, [Next]_vars PROVE IInv' /\ Known'
  OBVIOUS
<1>1. CASE UNCHANGED vars
  <2>1. TypeOK' /\ Course'
    BY <1>1 DEF vars, IInv, TypeOK, Course
  <2>2. Records'
    BY <1>1 DEF vars, IInv, Records, Sound, Settled, Told, Backed, Ahead
  <2>3. Runners' /\ Verdicts' /\ Reads'
    BY <1>1 DEF vars, IInv, Runners, Verdicts, Reads
  <2>4. Marks'
    BY <1>1 DEF vars, IInv, Marks
  <2>5. Finds' /\ OneRunPerCommand'
    BY <1>1 DEF vars, IInv, Finds, OneRunPerCommand
  <2>6. Known'
    BY <1>1 DEF vars, Known, Started
  <2>7. QED  BY <2>1, <2>2, <2>3, <2>4, <2>5, <2>6 DEF IInv
<1>2. CASE Next
  <2> SUFFICES IInv'
    BY <1>2, KnownInv
  <2>1. CASE \E j \in Jobs : RunnerStep(j)
    BY <2>1, RunnerInv
  <2>2. CASE OnlyOperation
    BY <2>2, OnlyOperationInv
  <2>3. ASSUME NEW ok \in Outcomes, NEW hook \in BOOLEAN, Probe(ok, hook) \/ Start(ok, hook)
        PROVE  IInv'
    BY <2>3, ProbeInv, StartInv
  <2>4. ASSUME NEW ok \in Outcomes,
               \/ EndSyncBundle(ok) \/ Reuse(ok) \/ RecordBundle(ok) \/ CancelNext(ok) \/ EndCancel(ok)
               \/ \E j \in Jobs : CancelJob(j, ok)
        PROVE  IInv'
    BY <2>4, EndSyncBundleInv, ReuseInv, RecordBundleInv, CancelNextInv, EndCancelInv, CancelJobInv
  <2>5. CASE NextToCancel
    BY <2>5, NextToCancelInv
  <2>6. CASE Restart
    BY <2>6, RestartInv
  <2>7. QED
    BY <1>2, <2>1, <2>2, <2>3, <2>4, <2>5, <2>6 DEF Next, ManagerStep, OnlyOperation
<1>3. QED  BY <1>1, <1>2

\* Records of jobs and bundles, in the session and in its file, status files,
\* runners and the operation are what they should be.
THEOREM BackgroundTypes == Spec => []TypeOK
<1>1. IInv => TypeOK  BY DEF IInv
<1>2. QED  BY <1>1, InitInv, StepInv, PTL DEF Spec

\* Reuse works on every platform, for any number of jobs, launches, failed
\* saves and restarts: the runners a process has started never run one command
\* twice at a time.  (FindReusableShellJob, StartShellJob)
THEOREM OneRun == Spec => []OneRunPerCommand
<1>1. IInv => OneRunPerCommand  BY DEF IInv
<1>2. QED  BY <1>1, InitInv, StepInv, PTL DEF Spec

\* A check counts as passed only if its command ended with exit code zero, or
\* its runner has left no process entry and no success in its file: then SyncJob
\* has guessed, and what it guessed was never confirmed.
THEOREM EvidenceEarned == Spec => []EvidenceIsEarned
<1>1. IInv => EvidenceIsEarned
  <2> SUFFICES ASSUME IInv, NEW j \in Jobs, job[j].status = "completed"
               PROVE  outcome[j] = "zero" \/ (proc[j] = "gone" /\ file[j] \in {"running", "torn", "failed"})
    BY DEF EvidenceIsEarned
  <2>1. file[j] = "completed" \/ (proc[j] = "gone" /\ file[j] \in {"running", "torn", "failed"})
    BY DEF IInv, Records, Sound, Told
  <2>2. file[j] = "completed" => outcome[j] = "zero"
    BY DEF IInv, Runners
  <2>3. QED  BY <2>1, <2>2
<1>2. QED  BY <1>1, InitInv, StepInv, PTL DEF Spec

\* A bundle that is said to have completed has no job that runs or was canceled,
\* and none that failed but by a report that came late.  (summarizeBackgroundBundle)
THEOREM BundleVerdicts == Spec => []BundleVerdictAgrees
<1>1. IInv /\ Known => BundleVerdictAgrees
  <2> SUFFICES ASSUME IInv, Known, NEW b \in Bundles, bundle[b].status = "completed",
                      NEW j \in Range(bundle[b].jobs)
               PROVE  \/ job[j].status = "completed"
                      \/ job[j].status = "failed" /\ file[j] = "failed" /\ proc[j] = "gone"
    BY DEF BundleVerdictAgrees
  <2>1. j \in Jobs
    BY DEF Known, Started
  <2>2. job[j].status = "completed" \/ (job[j].status = "failed" /\ proc[j] = "gone")
    BY <2>1 DEF IInv, Records, Sound, Backed
  <2>3. job[j].status = "failed" => file[j] = "failed"
    BY <2>1 DEF IInv, Records, Sound, Told
  <2>4. QED  BY <2>2, <2>3
<1>2. QED  BY <1>1, InitInv, StepInv, PTL DEF Spec

\* A verdict on which the record and the status file agree is revised by no
\* runner, poll or cancellation.  (SyncJob, CancelJob, the runners)
THEOREM VerdictsAreFinal == Spec => VerdictIsFinal
<1> DEFINE Stands == restarts' = restarts =>
                       \A j \in Jobs : job[j].status \in Final /\ file[j] = job[j].status
                                         => /\ job'[j].status = job[j].status
                                            /\ file'[j] = file[j]
<1>1. IInv /\ Known /\ [Next]_vars => Stands
  <2> SUFFICES ASSUME IInv, [Next]_vars PROVE Stands
    OBVIOUS
  <2>1. CASE UNCHANGED <<job, file>>
    BY <2>1
  <2>2. ASSUME NEW ok \in Outcomes, NEW hook \in BOOLEAN, Probe(ok, hook)
        PROVE  Stands
    <3>1. file' = file  BY <2>2 DEF Probe
    <3>2. QED  BY <2>2, <3>1, ProbeInv
  <2>3. ASSUME NEW ok \in Outcomes, NEW hook \in BOOLEAN, Start(ok, hook)
        PROVE  Stands
    <3> SUFFICES ASSUME NEW k \in Jobs, job[k].status \in Final, file[k] = job[k].status
                 PROVE  job'[k].status = job[k].status /\ file'[k] = file[k]
      OBVIOUS
    <3>1. PICK j \in Jobs : /\ proc[j] = "none" /\ \E r : job' = [job EXCEPT ![j] = r]
                            /\ file' = [file EXCEPT ![j] = "running"]
      BY <2>3 DEF Start
    <3>2. k # j
      BY <3>1 DEF IInv, Records, Sound, Settled, Final
    <3>3. job \in [Jobs -> JobRecord] /\ file \in [Jobs -> Status \cup {"torn"}]
      BY DEF IInv, TypeOK
    <3>4. QED  BY <3>1, <3>2, <3>3
  <2>4. ASSUME NEW j, NEW st, NEW ok, Cancel(j, st, ok), job[j].status \notin Final
        PROVE  Stands
    <3> SUFFICES ASSUME NEW k \in Jobs, job[k].status \in Final, file[k] = job[k].status
                 PROVE  job'[k].status = job[k].status /\ file'[k] = file[k]
      OBVIOUS
    <3>1. k # j /\ job \in [Jobs -> JobRecord] /\ file \in [Jobs -> Status \cup {"torn"}]
      BY <2>4 DEF IInv, TypeOK
    <3>2. job'[k] = job[k] /\ file'[k] = file[k]
      BY <2>4, <3>1 DEF Cancel
    <3>3. QED  BY <3>2
  <2>5. ASSUME NEW ok \in Outcomes, CancelNext(ok) \/ \E j \in Jobs : CancelJob(j, ok)
        PROVE  Stands
    <3>1. \/ UNCHANGED <<job, file>>
          \/ \E j, st : Cancel(j, st, ok) /\ job[j].status \notin Final
      BY <2>5 DEF CancelNext, CancelJob, records, managerRest
    <3>2. QED  BY <2>1, <2>4, <3>1
  <2>6. CASE Restart
    <3>1. restarts' # restarts
      BY <2>6, BackgroundAssumption DEF Restart, IInv, TypeOK
    <3>2. QED  BY <3>1
  <2>7. ASSUME NEW ok \in Outcomes,
               EndSyncBundle(ok) \/ Reuse(ok) \/ RecordBundle(ok) \/ EndCancel(ok)
        PROVE  UNCHANGED <<job, file>>
    BY <2>7 DEF EndSyncBundle, Reuse, RecordBundle, EndCancel, managerRest
  <2>8. ASSUME NEW j \in Jobs, RunnerStep(j) PROVE Stands
    <3> SUFFICES ASSUME NEW k \in Jobs, job[k].status \in Final, file[k] = job[k].status
                 PROVE  job'[k].status = job[k].status /\ file'[k] = file[k]
      OBVIOUS
    <3>1. job' = job /\ (file' = file \/ \E s : proc[j] \in Alive /\ file' = [file EXCEPT ![j] = s])
      BY <2>8 DEF RunnerStep, CommandEnds, Reports, Dies, runnerRest, Alive
    <3>2. proc[k] \notin Alive
      BY DEF IInv, Records, Sound, Settled
    <3>3. file \in [Jobs -> Status \cup {"torn"}]
      BY DEF IInv, TypeOK
    <3>4. QED  BY <3>1, <3>2, <3>3
  <2>9. CASE NextToCancel
    BY <2>1, <2>9 DEF NextToCancel, managerRest
  <2>10. CASE OnlyOperation
    BY <2>1, <2>10 DEF OnlyOperation, BeginSyncJob, BeginSyncBundle, BeginCancelBundle, BeginLaunch, Ask,
         ReadStatus, NextCandidate, StartFails, Launched, NoneToReuse, Edit, records, managerRest
  <2>11. CASE UNCHANGED vars
    BY <2>1, <2>11 DEF vars
  <2>12. QED
    BY <2>1, <2>2, <2>3, <2>5, <2>6, <2>7, <2>8, <2>9, <2>10, <2>11
    DEF Next, ManagerStep, OnlyOperation
<1>2. QED  BY <1>1, InitInv, StepInv, PTL DEF Spec, VerdictIsFinal

\* A bundle that an edit or a newer one has overridden does not come back, on
\* any platform.  (SyncBundle, FindReusableShellBundle, StartBundle)
THEOREM OverridesStay == Spec => OverriddenStays
<1> DEFINE Stays == restarts' = restarts =>
                      \A b \in Bundles : bundle[b].status \in {"stale", "superseded"}
                                          => bundle'[b].status \in Overridden
<1>1. IInv /\ Known /\ [Next]_vars => Stays
  <2> SUFFICES ASSUME IInv, [Next]_vars PROVE Stays
    OBVIOUS
  <2>1. CASE UNCHANGED bundle
    BY <2>1 DEF Overridden
  <2>2. ASSUME NEW ok \in Outcomes, EndSyncBundle(ok) \/ Reuse(ok) \/ RecordBundle(ok)
        PROVE  Stays
    <3>1. \A b \in Bundles : bundle[b].status \in {"stale", "superseded"}
                              => bundle'[b].status = bundle[b].status
      BY <2>2, EndSyncBundleInv, ReuseInv, RecordBundleInv
    <3>2. QED  BY <3>1 DEF Overridden
  <2>3. ASSUME NEW ok \in Outcomes, EndCancel(ok) \/ CancelNext(ok) PROVE Stays
    <3>1. op.kind = "cancel" /\ op.at \in Bundles \cup {0}
      BY <2>3 DEF EndCancel, CancelNext, IInv, TypeOK, Operation
    <3>2. bundle' = bundle \/ bundle' = Marked(op.at)
      BY <2>3 DEF EndCancel, CancelNext, records
    <3>3. QED  BY <2>1, <3>1, <3>2, MarkedOverrides
  <2>4. CASE NextToCancel
    <3>1. op.kind = "cancel" /\ op.pending # <<>>  BY <2>4 DEF NextToCancel
    <3>2. Head(op.pending) \in Bundles  BY <3>1, Cancelling
    <3>3. bundle' = bundle \/ bundle' = Marked(Head(op.pending))
      BY <2>4 DEF NextToCancel
    <3>4. QED  BY <2>1, <3>1, <3>2, <3>3, MarkedOverrides
  <2>5. CASE Restart
    <3>1. restarts' # restarts
      BY <2>5, BackgroundAssumption DEF Restart, IInv, TypeOK
    <3>2. QED  BY <3>1
  <2>6. ASSUME NEW ok \in Outcomes, NEW hook \in BOOLEAN,
               Probe(ok, hook) \/ Start(ok, hook) \/ \E j \in Jobs : CancelJob(j, ok)
        PROVE  UNCHANGED bundle
    BY <2>6 DEF Probe, Start, CancelJob
  <2>7. ASSUME NEW j \in Jobs, RunnerStep(j) PROVE UNCHANGED bundle
    BY <2>7 DEF RunnerStep, CommandEnds, Reports, Dies, runnerRest
  <2>8. CASE OnlyOperation
    BY <2>1, <2>8 DEF OnlyOperation, BeginSyncJob, BeginSyncBundle, BeginCancelBundle, BeginLaunch, Ask,
         ReadStatus, NextCandidate, StartFails, Launched, NoneToReuse, Edit, records
  <2>9. CASE UNCHANGED vars
    BY <2>1, <2>9 DEF vars
  <2>10. QED
    BY <2>1, <2>2, <2>3, <2>4, <2>5, <2>6, <2>7, <2>8, <2>9 DEF Next, ManagerStep, OnlyOperation
<1>2. QED  BY <1>1, InitInv, StepInv, PTL DEF Spec, OverriddenStays
=============================================================================
