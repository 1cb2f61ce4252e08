----------------------- MODULE ProjectAnalysis_proofs -----------------------
(***************************************************************************)
(* Proofs about the analysis pipeline, for every set of files, every plan  *)
(* and its refinement chunks, every configuration, any number of workers,  *)
(* revision rounds, runs, edits and extra batches.                         *)
(*                                                                         *)
(* Inv says that reports and reviews stay at the position of their shard   *)
(* through every batch, and which files the shards still hold; Dated adds  *)
(* which texts the fingerprints and the reports are of.  The last section, *)
(* The end of a run, measures what a run has left (RunsAdvance).           *)
(***************************************************************************)
EXTENDS ProjectAnalysis, FiniteSetTheorems, SequenceTheorems, WellFoundedInduction, TLAPS

-----------------------------------------------------------------------------
(* The inductive invariant.                                                *)

Contents == [Files -> DOMAIN Shape]
Texts == UNION {[fs -> DOMAIN Shape] : fs \in SUBSET Files}
Shapes == UNION {[fs -> {Shape[text] : text \in DOMAIN Shape}] : fs \in SUBSET Files}
ShardRecord == [primary : SUBSET Files, reference : SUBSET Files,
                prints : [text : Texts \cup {None}, shape : Shapes]]
ReportRecord == [shard : SUBSET Files, kind : {"ok", "parse_failed", "provider_failed"},
                 saw : Texts \cup {None}, steady : BOOLEAN]
ReviewRecord == [shard : SUBSET Files,
                 status : {"approved", "model_review_skipped", "review_failed", "needs_revision"}]
Progress == [pc : {"waiting", "asked", "done", "failed"}, attempt : Nat,
             report : ReportRecord \cup {None}, review : ReviewRecord \cup {None}, reused : BOOLEAN]
Stages == {"idle", "base", "refined", "planning", "evidence", "gap", "saving"}

TypeOK ==
  /\ content \in Contents /\ scanned \in Contents
  /\ budget \in Nat /\ stage \in Stages
  /\ batch \in Seq(ShardRecord) /\ work \in [DOMAIN batch -> Progress] /\ wave \in Nat
  /\ shards \in Seq(ShardRecord) /\ reports \in Seq(ReportRecord) /\ reviews \in Seq(ReviewRecord)
  /\ replaced \subseteq DOMAIN Plan

\* A report and a review are about the shard; no review of a placeholder
\* counts as one.
Matches(shard, report, review) ==
  /\ report.shard = shard.primary /\ review.shard = shard.primary
  /\ report.kind = "provider_failed" => review.status = "review_failed"

\* A worker has a report from its first answer on, a review when it is done.
Worker(shard, w) ==
  /\ w.pc # "done" => ~w.reused
  /\ w.pc = "asked" => w.report \in ReportRecord /\ w.report.kind = "ok" /\ w.report.shard = shard.primary
  /\ w.pc = "done" => w.report \in ReportRecord /\ w.review \in ReviewRecord /\ Matches(shard, w.report, w.review)

\* The shards of earlier waves are done.
Workers == \A i \in DOMAIN batch : /\ Worker(batch[i], work[i])
                                   /\ i <= wave * Concurrency => work[i].pc = "done"

\* Reports and reviews are found by the position of their shard.
InStep(s, r, v) == /\ Len(r) = Len(s) /\ Len(v) = Len(s)
                   /\ \A i \in DOMAIN s : Matches(s[i], r[i], v[i])
Aligned == InStep(shards, reports, reviews)

\* What the run file keeps of an approved report.
Filed == store \notin {None, Torn} =>
  /\ DOMAIN store = {Plan[i].primary : i \in DOMAIN Plan}
  /\ \A fs \in DOMAIN store : store[fs] # None /\ store[fs].report # None =>
       /\ store[fs].report \in ReportRecord
       /\ store[fs].report.shard = fs /\ store[fs].report.kind # "provider_failed"

SameFiles(s) == /\ Len(s) = Len(Plan)
                /\ \A i \in DOMAIN Plan : s[i].primary = Plan[i].primary /\ s[i].reference = Plan[i].reference
PlanFiles == UNION {Plan[i].primary : i \in DOMAIN Plan}
FilesOf(s) == UNION {s[i].primary : i \in DOMAIN s}

\* No file of the plan is missing: not from the first batch, not from the
\* refined batch for the shards it replaces, not from the shards after it.
Complete ==
  /\ stage = "base" => SameFiles(batch)
  /\ stage = "refined" =>
       /\ SameFiles(shards)
       /\ (UNION {Plan[i].primary : i \in replaced}) \ CutOff \subseteq FilesOf(batch)
  /\ stage \in {"planning", "evidence", "gap", "saving"} => PlanFiles \ CutOff \subseteq FilesOf(shards)

Inv == TypeOK /\ Workers /\ Aligned /\ Filed /\ Complete

-----------------------------------------------------------------------------
(* Fingerprints, and what reports saw.                                     *)

Reads(s) == s.primary \cup s.reference
On(c, fs) == [f \in fs |-> c[f]]

\* A steady report saw what the fingerprints p are of: the text, or, if there
\* is no fingerprint of the text, texts of that shape.
Fits(p, report) ==
  report.steady => IF p.text = None
                     THEN p.shape = [f \in DOMAIN p.shape |-> Shape[report.saw[f]]]
                     ELSE report.saw = p.text

\* The fingerprints of the index are those of the scan; so are, in the first
\* batch and where a report is reused, those of the text.
BatchDated ==
  \A i \in DOMAIN batch :
    /\ batch[i].prints.shape = [f \in Reads(batch[i]) |-> Shape[scanned[f]]]
    /\ stage = "base" \/ work[i].reused => batch[i].prints.text \in {None, On(scanned, Reads(batch[i]))}
    /\ work[i].pc \in {"asked", "done"} => Fits(batch[i].prints, work[i].report)

ResultsDated(s, r) == \A i \in DOMAIN s : Fits(s[i].prints, r[i])

FileDated(kept) ==
  kept \notin {None, Torn} =>
    \A fs \in DOMAIN kept : kept[fs] # None /\ kept[fs].report # None =>
      Fits(kept[fs].prints, kept[fs].report)

Dated == BatchDated /\ ResultsDated(shards, reports) /\ FileDated(store)

-----------------------------------------------------------------------------
(* Sets of numbers: the least, the greatest, and the list in order.        *)

LEMMA LeastNat ==
  ASSUME NEW T \in SUBSET Nat, T # {}
  PROVE  \E m \in T : \A n \in T : m <= n
<1>1. PICK m \in T : \A n \in T : <<n, m>> \notin OpToRel(<, Nat)
  BY NatLessThanWellFounded, WFMin
<1>2. \A n \in T : ~(n < m)
  BY <1>1 DEF OpToRel
<1>3. QED  BY <1>2

LEMMA LastIsOne ==
  ASSUME NEW n \in Nat, NEW S \in SUBSET (1 .. n), S # {}
  PROVE  Max(S) \in S
<1> DEFINE T == {n - x : x \in S}
<1>1. T \in SUBSET Nat /\ T # {}
  <2>1. \A x \in S : x \in 1 .. n  OBVIOUS
  <2>2. \A x \in S : n - x \in Nat  BY <2>1
  <2>3. QED  BY <2>2
<1>2. PICK m \in T : \A k \in T : m <= k
  BY <1>1, LeastNat
<1>3. PICK x \in S : m = n - x
  OBVIOUS
<1>4. \A y \in S : x >= y
  <2> SUFFICES ASSUME NEW y \in S PROVE x >= y
    OBVIOUS
  <2>1. n - x <= n - y
    BY <1>2, <1>3
  <2>2. x \in Nat /\ y \in Nat
    OBVIOUS
  <2>3. QED  BY <2>1, <2>2
<1>5. \E z \in S : \A y \in S : z >= y
  BY <1>4
<1>6. QED  BY <1>5 DEF Max

LEMMA Smaller ==
  ASSUME NEW a \in Nat, NEW b \in Nat
  PROVE  Min({a, b}) \in {a, b} /\ Min({a, b}) <= a /\ Min({a, b}) <= b
<1>1. \E x \in {a, b} : \A y \in {a, b} : x =< y
  <2>1. CASE a <= b  BY <2>1
  <2>2. CASE b <= a  BY <2>2
  <2>3. QED  BY <2>1, <2>2
<1>2. QED  BY <1>1 DEF Min

Below(S, x) == {y \in S : y < x}
Rank(S) == [x \in S |-> Cardinality(Below(S, x)) + 1]

LEMMA RankIsInjective ==
  ASSUME NEW S, S \subseteq Nat, IsFiniteSet(S)
  PROVE  Rank(S) \in Injection(S, 1..Cardinality(S))
<1>1. ASSUME NEW x \in S
      PROVE  /\ IsFiniteSet(Below(S, x)) /\ Cardinality(Below(S, x)) \in Nat
             /\ Cardinality(Below(S, x)) + 1 \in 1..Cardinality(S)
  <2>1. Below(S, x) \in SUBSET (S \ {x}) /\ IsFiniteSet(S \ {x})
    BY FS_RemoveElement DEF Below
  <2>2. /\ IsFiniteSet(Below(S, x))
        /\ Cardinality(Below(S, x)) <= Cardinality(S \ {x})
    BY <2>1, FS_Subset
  <2>3. /\ Cardinality(S \ {x}) = Cardinality(S) - 1
        /\ Cardinality(S) \in Nat /\ Cardinality(Below(S, x)) \in Nat
    BY <2>2, FS_RemoveElement, FS_CardinalityType
  <2>4. QED  BY <2>2, <2>3
<1>2. ASSUME NEW x \in S, NEW y \in S, x < y, Rank(S)[x] = Rank(S)[y] PROVE FALSE
  <2>1. Below(S, x) \in SUBSET Below(S, y)
    <3>1. \A z \in S : z < x => z < y
      <4> SUFFICES ASSUME NEW z \in S, z < x PROVE z < y
        OBVIOUS
      <4>1. x \in Nat /\ y \in Nat /\ z \in Nat  OBVIOUS
      <4>2. QED  BY <1>2, <4>1
    <3>2. QED  BY <3>1 DEF Below
  <2>2. Cardinality(Below(S, x)) = Cardinality(Below(S, y))
    BY <1>1, <1>2 DEF Rank
  <2>3. Below(S, x) = Below(S, y)
    BY <1>1, <2>1, <2>2, FS_Subset
  <2>4. x \in Below(S, y) /\ x \notin Below(S, x)
    BY <1>2 DEF Below
  <2>5. QED  BY <2>3, <2>4
<1>3. \A x, y \in S : Rank(S)[x] = Rank(S)[y] => x = y
  <2> SUFFICES ASSUME NEW x \in S, NEW y \in S, Rank(S)[x] = Rank(S)[y], x # y PROVE FALSE
    OBVIOUS
  <2>1. x < y \/ y < x  OBVIOUS
  <2>2. QED  BY <1>2, <2>1
<1>4. Rank(S) \in [S -> 1..Cardinality(S)]
  BY <1>1 DEF Rank
<1>5. QED  BY <1>3, <1>4 DEF Injection, IsInjective

LEMMA AscendingLists ==
  ASSUME NEW S, S \subseteq Nat, IsFiniteSet(S)
  PROVE  Ascending(S) \in Seq(S) /\ Range(Ascending(S)) = S
<1> DEFINE n == Cardinality(S)
<1>1. n \in Nat /\ IsFiniteSet(1..n) /\ Cardinality(1..n) = n
  <2>1. n \in Nat  BY FS_CardinalityType
  <2>2. QED  BY <2>1, FS_Interval
<1> HIDE DEF n
<1>2. Rank(S) \in Injection(S, 1..n)
  BY RankIsInjective DEF n
<1>3. Rank(S) \in Surjection(S, 1..n)
  BY <1>1, <1>2, FS_Injection DEF n
<1>4. \A i \in 1..n : \E x \in S : Cardinality({y \in S : y < x}) = i - 1
  <2> SUFFICES ASSUME NEW i \in 1..n PROVE \E x \in S : Cardinality({y \in S : y < x}) = i - 1
    OBVIOUS
  <2>1. PICK x \in S : Rank(S)[x] = i
    BY <1>3 DEF Surjection
  <2>2. Cardinality(Below(S, x)) + 1 = i /\ Cardinality(Below(S, x)) \in Nat
    <3>1. Below(S, x) \in SUBSET S  BY DEF Below
    <3>2. IsFiniteSet(Below(S, x))  BY <3>1, FS_Subset
    <3>3. QED  BY <2>1, <3>2, FS_CardinalityType DEF Rank
  <2>3. Cardinality(Below(S, x)) = i - 1
    BY <1>1, <2>2
  <2>4. QED  BY <2>3 DEF Below
<1> DEFINE At(i) == CHOOSE x \in S : Cardinality({y \in S : y < x}) = i - 1
<1>5. \A i \in 1..n : At(i) \in S /\ Cardinality({y \in S : y < At(i)}) = i - 1
  BY <1>4
<1>6. Ascending(S) = [i \in 1..n |-> At(i)]
  BY Zenon DEF Ascending, n
<1> HIDE DEF At
<1>7. Ascending(S) = [i \in 1..n |-> Ascending(S)[i]]
  BY <1>6
<1>8. \A i \in 1..n : /\ Ascending(S)[i] \in S
                      /\ Cardinality({y \in S : y < Ascending(S)[i]}) = i - 1
  BY <1>5, <1>6
<1>9. \A x \in S : \E i \in 1..n : Ascending(S)[i] = x
  <2> SUFFICES ASSUME NEW x \in S PROVE \E i \in 1..n : Ascending(S)[i] = x
    OBVIOUS
  <2> DEFINE i == Rank(S)[x]
  <2>1. i \in 1..n
    BY <1>2 DEF Injection
  <2>2. IsFiniteSet(Below(S, x))
    <3>1. Below(S, x) \in SUBSET S  BY DEF Below
    <3>2. QED  BY <3>1, FS_Subset
  <2>3. Cardinality(Below(S, x)) \in Nat
    BY <2>2, FS_CardinalityType
  <2>4. i = Cardinality(Below(S, x)) + 1
    BY DEF Rank
  <2> DEFINE z == Ascending(S)[i]
  <2>5. z \in S /\ Cardinality(Below(S, z)) = i - 1
    BY <1>8, <2>1 DEF Below
  <2>6. Rank(S)[z] = Rank(S)[x]
    BY <2>3, <2>4, <2>5 DEF Rank
  <2>7. z = x
    BY <1>2, <2>5, <2>6 DEF Injection, IsInjective
  <2>8. QED  BY <2>1, <2>7
<1>10. Ascending(S) \in Seq(S)
  <2> DEFINE e == Ascending(S)
  <2>1. e = [i \in 1..n |-> e[i]] /\ \A i \in 1..n : e[i] \in S
    BY <1>7, <1>8
  <2> HIDE DEF e
  <2>2. e \in [1..n -> S]
    BY <2>1
  <2>3. e \in Seq(S)
    BY <1>1, <2>2
  <2>4. QED  BY <2>3 DEF e
<1>11. DOMAIN Ascending(S) = 1..n
  BY <1>7
<1>12. QED  BY <1>8, <1>9, <1>10, <1>11 DEF Range

-----------------------------------------------------------------------------
(* Lists of shards.                                                        *)

\* An element of a concatenation is one of the first list, or of the second.
LEMMA Joined ==
  ASSUME NEW S, NEW s \in Seq(S), NEW t \in Seq(S)
  PROVE  /\ s \o t \in Seq(S) /\ Len(s \o t) = Len(s) + Len(t)
         /\ \A i \in DOMAIN s : i \in DOMAIN (s \o t) /\ (s \o t)[i] = s[i]
         /\ \A i \in DOMAIN t : Len(s) + i \in DOMAIN (s \o t) /\ (s \o t)[Len(s) + i] = t[i]
         /\ \A i \in DOMAIN (s \o t) :
              \/ i \in DOMAIN s /\ (s \o t)[i] = s[i]
              \/ i \notin DOMAIN s /\ i - Len(s) \in DOMAIN t /\ (s \o t)[i] = t[i - Len(s)]
<1> DEFINE j == s \o t
<1>1. /\ j \in Seq(S) /\ Len(j) = Len(s) + Len(t)
      /\ \A i \in 1 .. Len(s) + Len(t) : j[i] = IF i <= Len(s) THEN s[i] ELSE t[i - Len(s)]
  BY ConcatProperties
<1>2. /\ Len(s) \in Nat /\ Len(t) \in Nat
      /\ DOMAIN s = 1 .. Len(s) /\ DOMAIN t = 1 .. Len(t) /\ DOMAIN j = 1 .. Len(s) + Len(t)
  BY <1>1
<1> HIDE DEF j
<1>3. \A i \in DOMAIN s : i \in DOMAIN j /\ j[i] = s[i]
  BY <1>1, <1>2
<1>4. \A i \in DOMAIN t : Len(s) + i \in DOMAIN j /\ j[Len(s) + i] = t[i]
  <2> SUFFICES ASSUME NEW i \in DOMAIN t PROVE Len(s) + i \in DOMAIN j /\ j[Len(s) + i] = t[i]
    OBVIOUS
  <2>1. Len(s) + i \in 1 .. Len(s) + Len(t) /\ ~(Len(s) + i <= Len(s)) /\ (Len(s) + i) - Len(s) = i
    BY <1>2
  <2>2. QED  BY <1>1, <1>2, <2>1
<1>5. \A i \in DOMAIN j :
        \/ i \in DOMAIN s /\ j[i] = s[i]
        \/ i \notin DOMAIN s /\ i - Len(s) \in DOMAIN t /\ j[i] = t[i - Len(s)]
  BY <1>1, <1>2
<1>6. QED  BY <1>1, <1>3, <1>4, <1>5 DEF j

LEMMA FilesJoined ==
  ASSUME NEW s \in Seq(ShardRecord), NEW t \in Seq(ShardRecord)
  PROVE  FilesOf(s) \cup FilesOf(t) \subseteq FilesOf(s \o t)
<1> DEFINE j == s \o t
<1>1. /\ \A i \in DOMAIN s : i \in DOMAIN j /\ j[i] = s[i]
      /\ \A i \in DOMAIN t : Len(s) + i \in DOMAIN j /\ j[Len(s) + i] = t[i]
  BY Joined
<1> HIDE DEF j
<1>2. \A i \in DOMAIN s : s[i].primary \subseteq FilesOf(j)
  BY <1>1 DEF FilesOf
<1>3. \A i \in DOMAIN t : t[i].primary \subseteq FilesOf(j)
  BY <1>1 DEF FilesOf
<1>4. QED  BY <1>2, <1>3 DEF FilesOf, j

\* mergeRefinedShardResults filters the three lists at the same positions.
LEMMA KeptOnes ==
  ASSUME NEW n \in Nat
  PROVE  LET kept == Ascending((1 .. n) \ replaced)
         IN  kept \in Seq(1 .. n) /\ Range(kept) = (1 .. n) \ replaced
<1> DEFINE S == (1 .. n) \ replaced
<1>1. S \subseteq Nat /\ IsFiniteSet(S) /\ S \subseteq 1 .. n
  <2>1. S \in SUBSET (1 .. n) /\ IsFiniteSet(1 .. n)
    BY FS_Interval
  <2>2. IsFiniteSet(S)
    BY <2>1, FS_Subset
  <2>3. QED  BY <2>1, <2>2
<1> HIDE DEF S
<1>2. Ascending(S) \in Seq(S) /\ Range(Ascending(S)) = S
  BY <1>1, AscendingLists
<1>3. Ascending(S) \in Seq(1 .. n)
  <2> DEFINE e == Ascending(S)
  <2>1. e \in Seq(S)  BY <1>2
  <2> HIDE DEF e
  <2>2. e \in [1 .. Len(e) -> S] /\ Len(e) \in Nat  BY <2>1
  <2>3. e \in [1 .. Len(e) -> 1 .. n]  BY <1>1, <2>2
  <2>4. e \in Seq(1 .. n)  BY <2>2, <2>3
  <2>5. QED  BY <2>4 DEF e
<1>4. QED  BY <1>2, <1>3 DEF S

LEMMA KeptIs ==
  ASSUME NEW S, NEW s \in Seq(S), NEW n \in Nat, n = Len(s)
  PROVE  LET kept == Ascending((1 .. n) \ replaced)
         IN  /\ Kept(s) \in Seq(S) /\ Len(Kept(s)) = Len(kept) /\ DOMAIN Kept(s) = DOMAIN kept
             /\ \A k \in DOMAIN kept : kept[k] \in DOMAIN s /\ Kept(s)[k] = s[kept[k]]
<1> DEFINE kept == Ascending((1 .. n) \ replaced)
<1>1. kept \in Seq(1 .. n)
  BY KeptOnes
<1>2. DOMAIN s = 1 .. n
  OBVIOUS
<1>3. Kept(s) = [k \in DOMAIN kept |-> s[kept[k]]]
  BY <1>2 DEF Kept
<1> HIDE DEF kept
<1>4. DOMAIN kept = 1 .. Len(kept) /\ Len(kept) \in Nat /\ \A k \in DOMAIN kept : kept[k] \in 1 .. n
  BY <1>1
<1>5. \A k \in DOMAIN kept : s[kept[k]] \in S
  BY <1>2, <1>4
<1>6. Kept(s) \in [1 .. Len(kept) -> S]
  BY <1>3, <1>4, <1>5
<1>7. Kept(s) \in Seq(S) /\ Len(Kept(s)) = Len(kept)
  BY <1>4, <1>6
<1>8. QED  BY <1>2, <1>3, <1>4, <1>7 DEF kept

-----------------------------------------------------------------------------
(* Refinement: its recursion has a solution, and every candidate it takes  *)
(* as a parent leaves its files to the children, but for those cut off.    *)

Nothing == [children |-> <<>>, parents |-> {}, full |-> FALSE]

Solves(f, order, n) ==
  f = [k \in 0 .. n |-> IF k = 0 THEN Nothing ELSE RefineOne(f[k - 1], order[k])]

LEMMA Solvable ==
  ASSUME NEW order, NEW l \in Nat
  PROVE  \A n \in 0 .. l : \E f : Solves(f, order, n)
<1> DEFINE Bad == {n \in 0 .. l : ~ \E f : Solves(f, order, n)}
<1> SUFFICES ASSUME Bad # {} PROVE FALSE
  OBVIOUS
<1>1. Bad \in SUBSET Nat
  OBVIOUS
<1>2. PICK m \in Bad : \A n \in Bad : m <= n
  BY <1>1, LeastNat
<1>3. CASE m = 0
  <2> DEFINE f == [k \in 0 .. 0 |-> Nothing]
  <2>1. Solves(f, order, 0)
    BY DEF Solves
  <2>2. QED  BY <1>2, <1>3, <2>1
<1>4. CASE m # 0
  <2>1. m \in Nat /\ m - 1 \in 0 .. l /\ m - 1 \notin Bad
    BY <1>1, <1>2, <1>4
  <2>2. PICK g : Solves(g, order, m - 1)
    BY <2>1
  <2> DEFINE last == RefineOne(g[m - 1], order[m])
             f == [k \in 0 .. m |-> IF k = m THEN last ELSE g[k]]
  <2>3. Solves(f, order, m)
    <3>1. \A k \in 0 .. m : k < m => f[k] = g[k]
      BY <2>1
    <3>2. \A k \in 0 .. (m - 1) : g[k] = IF k = 0 THEN Nothing ELSE RefineOne(g[k - 1], order[k])
      BY <2>2 DEF Solves
    <3>3. ASSUME NEW k \in 0 .. m
          PROVE  f[k] = IF k = 0 THEN Nothing ELSE RefineOne(f[k - 1], order[k])
      <4>1. CASE k = m
        <5>1. m - 1 \in 0 .. m /\ m - 1 # m  BY <1>4, <2>1
        <5>2. f[m - 1] = g[m - 1] /\ f[m] = last  BY <5>1
        <5>3. QED  BY <1>4, <4>1, <5>2
      <4>2. CASE k # m /\ k # 0
        <5>1. k \in 0 .. (m - 1) /\ k - 1 \in 0 .. m /\ k - 1 # m  BY <2>1, <4>2
        <5>2. f[k] = g[k] /\ f[k - 1] = g[k - 1]  BY <4>2, <5>1
        <5>3. QED  BY <3>2, <4>2, <5>1, <5>2
      <4>3. CASE k = 0
        <5>1. 0 \in 0 .. (m - 1)  BY <1>4, <2>1
        <5>2. f[0] = g[0]  BY <1>4, <2>1
        <5>3. QED  BY <3>2, <4>3, <5>1, <5>2
      <4>4. QED  BY <4>1, <4>2, <4>3
    <3>4. f = [k \in 0 .. m |-> f[k]]
      OBVIOUS
    <3> HIDE DEF f
    <3>5. [k \in 0 .. m |-> f[k]] = [k \in 0 .. m |-> IF k = 0 THEN Nothing
                                                      ELSE RefineOne(f[k - 1], order[k])]
      BY <3>3
    <3>6. QED  BY <3>4, <3>5 DEF Solves
  <2>4. QED  BY <1>2, <2>3
<1>5. QED  BY <1>3, <1>4

FilesBy(parents) == UNION {Plan[i].primary : i \in parents}

PlanRecord == [children : Seq(SUBSET Files), parents : SUBSET DOMAIN Plan, full : BOOLEAN]

LosesNothing(plan) ==
  /\ plan \in PlanRecord
  /\ FilesBy(plan.parents) \ CutOff \subseteq UNION Range(plan.children)

LEMMA JoinedRange ==
  ASSUME NEW S, NEW s \in Seq(S), NEW t \in Seq(S)
  PROVE  Range(s) \cup Range(t) \subseteq Range(s \o t)
<1> DEFINE j == s \o t
<1>1. /\ \A i \in DOMAIN s : i \in DOMAIN j /\ j[i] = s[i]
      /\ \A i \in DOMAIN t : Len(s) + i \in DOMAIN j /\ j[Len(s) + i] = t[i]
  BY Joined
<1> HIDE DEF j
<1>2. \A i \in DOMAIN s : s[i] \in Range(j)
  BY <1>1 DEF Range
<1>3. \A i \in DOMAIN t : t[i] \in Range(j)
  BY <1>1 DEF Range
<1>4. QED  BY <1>2, <1>3 DEF Range, j

LEMMA PlanTyped ==
  /\ Len(Plan) \in Nat /\ DOMAIN Plan = 1 .. Len(Plan)
  /\ \A i \in DOMAIN Plan : Plan[i].primary \subseteq Files /\ Plan[i].reference \subseteq Files
<1> DEFINE R == [primary : SUBSET Files, reference : SUBSET Files, merged : BOOLEAN]
<1>1. Plan \in Seq(R)
  BY PlanAssumption
<1>2. \A x \in R : x.primary \subseteq Files /\ x.reference \subseteq Files
  OBVIOUS
<1> HIDE DEF R
<1>3. Len(Plan) \in Nat /\ DOMAIN Plan = 1 .. Len(Plan) /\ \A i \in DOMAIN Plan : Plan[i] \in R
  BY <1>1
<1>4. QED  BY <1>2, <1>3

LEMMA ChunksOf ==
  ASSUME NEW i \in DOMAIN Plan, Len(Chunks[i]) >= 2
  PROVE  /\ Chunks[i] \in Seq(SUBSET Files) /\ Plan[i].primary \subseteq Files
         /\ Plan[i].primary = UNION Range(Chunks[i])
<1>1. Plan[i].primary \subseteq Files
  BY PlanTyped
<1>2. Chunks[i] \in Seq(SUBSET Plan[i].primary)
  BY PlanAssumption
<1>3. Chunks[i] # <<>>
  OBVIOUS
<1>4. Plan[i].primary = UNION Range(Chunks[i])
  BY <1>3, PlanAssumption
<1>5. Chunks[i] \in Seq(SUBSET Files)
  <2> DEFINE e == Chunks[i]
  <2> HIDE DEF e
  <2>1. e \in [1 .. Len(e) -> SUBSET Plan[i].primary] /\ Len(e) \in Nat  BY <1>2 DEF e
  <2>2. e \in [1 .. Len(e) -> SUBSET Files]  BY <1>1, <2>1
  <2>3. e \in Seq(SUBSET Files)  BY <2>1, <2>2
  <2>4. QED  BY <2>3 DEF e
<1>6. QED  BY <1>1, <1>4, <1>5

LEMMA TakeOne ==
  ASSUME NEW plan, LosesNothing(plan), NEW i \in Candidates, budget \in Nat
  PROVE  LosesNothing(RefineOne(plan, i))
<1> DEFINE stop == plan.full \/ (Len(plan.children) + Len(Chunks[i]) > budget /\ plan.children # <<>>)
           room == Min({Len(Chunks[i]), budget})
           taken == SubSeq(Chunks[i], 1, room)
           children == plan.children \o taken
           after == [children |-> children, parents |-> plan.parents \cup {i},
                     full |-> Len(children) >= budget]
<1>1. CASE stop
  <2>1. RefineOne(plan, i) = [plan EXCEPT !.full = TRUE]
    BY <1>1 DEF RefineOne
  <2> DEFINE e == [plan EXCEPT !.full = TRUE]
  <2>2. e \in PlanRecord
    BY Zenon DEF LosesNothing, PlanRecord
  <2>3. e.children = plan.children
    BY Zenon DEF LosesNothing, PlanRecord
  <2>4. e.parents = plan.parents
    BY Zenon DEF LosesNothing, PlanRecord
  <2> HIDE DEF e
  <2>5. LosesNothing(e)
    BY <2>2, <2>3, <2>4 DEF LosesNothing
  <2>6. QED  BY <2>1, <2>5 DEF e
<1>2. CASE ~stop
  <2>1. RefineOne(plan, i) = after
    BY <1>2 DEF RefineOne
  <2>2. i \in DOMAIN Plan /\ Len(Chunks[i]) >= 2
    BY DEF Candidates
  <2>3. /\ Chunks[i] \in Seq(SUBSET Files) /\ Plan[i].primary = UNION Range(Chunks[i])
    BY <2>2, ChunksOf
  <2>4. Len(Chunks[i]) \in Nat /\ DOMAIN Chunks[i] = 1 .. Len(Chunks[i])
    BY <2>3
  <2>5. room \in Nat /\ room <= Len(Chunks[i]) /\ (room = Len(Chunks[i]) \/ room = budget)
    BY <2>4, Smaller
  <2> HIDE DEF room
  <2>6. /\ taken \in Seq(SUBSET Files)
        /\ \A k \in 1 .. room : k \in DOMAIN taken /\ taken[k] = Chunks[i][k]
    BY <2>3, <2>4, <2>5
  <2>7. children \in Seq(SUBSET Files)
    BY <2>6, Joined DEF LosesNothing, PlanRecord
  <2>8. Range(plan.children) \cup Range(taken) \subseteq Range(children)
    BY <2>6, JoinedRange DEF LosesNothing, PlanRecord
  <2>9. \A k \in 1 .. room : Chunks[i][k] \in Range(taken)
    BY <2>6 DEF Range
  <2>10. \A k \in DOMAIN Chunks[i] : k \notin 1 .. room => Chunks[i][k] \subseteq CutOff
    <3> SUFFICES ASSUME NEW k \in DOMAIN Chunks[i], k \notin 1 .. room PROVE Chunks[i][k] \subseteq CutOff
      OBVIOUS
    <3>1. k \in budget + 1 .. Len(Chunks[i])
      BY <2>4, <2>5
    <3>2. QED  BY <2>2, <3>1 DEF CutOff
  <2> HIDE DEF taken, children
  <2>11. Plan[i].primary \ CutOff \subseteq UNION Range(children)
    <3> SUFFICES ASSUME NEW f \in Plan[i].primary, f \notin CutOff PROVE f \in UNION Range(children)
      OBVIOUS
    <3>1. PICK k \in DOMAIN Chunks[i] : f \in Chunks[i][k]
      BY <2>3 DEF Range
    <3>2. k \in 1 .. room
      BY <2>10, <3>1
    <3>3. QED  BY <2>8, <2>9, <3>1, <3>2
  <2>12. FilesBy(plan.parents \cup {i}) \ CutOff \subseteq UNION Range(children)
    BY <2>8, <2>11 DEF LosesNothing, FilesBy
  <2>13. LosesNothing(after)
    <3> DEFINE full == Len(children) >= budget
               parents == plan.parents \cup {i}
    <3>1. full \in BOOLEAN /\ parents \in SUBSET DOMAIN Plan
      BY <2>2 DEF LosesNothing, PlanRecord
    <3> HIDE DEF full, parents
    <3>2. [children |-> children, parents |-> parents, full |-> full] \in PlanRecord
      BY <2>7, <3>1, Zenon DEF PlanRecord
    <3>3. QED  BY <2>12, <3>2 DEF LosesNothing, full, parents
  <2>14. QED  BY <2>1, <2>13
<1>3. QED  BY <1>1, <1>2

LEMMA RefinementLosesNothing ==
  ASSUME NEW order \in Orders, budget \in Nat
  PROVE  LosesNothing(Refinement(order))
<1>1. PICK s \in SUBSET Candidates : order \in SetToSeqs(s)
  BY DEF Orders
<1>2. order \in [1 .. Cardinality(s) -> s]
  BY <1>1 DEF SetToSeqs
<1>3. Cardinality(s) \in Nat
  <2>1. s \in SUBSET DOMAIN Plan /\ DOMAIN Plan = 1 .. Len(Plan) /\ Len(Plan) \in Nat
    BY PlanAssumption DEF Candidates
  <2>2. IsFiniteSet(DOMAIN Plan)
    BY <2>1, FS_Interval
  <2>3. QED  BY <2>1, <2>2, FS_Subset, FS_CardinalityType
<1>4. order \in Seq(Candidates) /\ DOMAIN order = 1 .. Len(order) /\ Len(order) \in Nat
  BY <1>2, <1>3
<1> DEFINE l == Len(order)
           plan == CHOOSE f : Solves(f, order, l)
<1>5. Refinement(order) = plan[l]
  BY DEF Refinement, Solves, Nothing
<1>6. Solves(plan, order, l)
  <2>1. l \in Nat /\ l \in 0 .. l
    BY <1>4
  <2>2. \E f : Solves(f, order, l)
    BY <2>1, Solvable
  <2> HIDE DEF l
  <2>3. QED  BY <2>2
<1> HIDE DEF plan
<1>7. /\ plan[0] = Nothing
      /\ \A k \in 1 .. l : plan[k] = RefineOne(plan[k - 1], order[k])
  BY <1>4, <1>6 DEF Solves
<1> DEFINE Bad == {n \in 0 .. l : ~LosesNothing(plan[n])}
<1>8. Bad = {}
  <2> SUFFICES ASSUME Bad # {} PROVE FALSE
    OBVIOUS
  <2>1. Bad \in SUBSET Nat
    OBVIOUS
  <2>2. PICK m \in Bad : \A n \in Bad : m <= n
    BY <2>1, LeastNat
  <2>3. CASE m = 0
    <3>1. LosesNothing(Nothing)
      BY DEF LosesNothing, PlanRecord, Nothing, FilesBy
    <3>2. QED  BY <1>7, <2>2, <2>3, <3>1
  <2>4. CASE m # 0
    <3>1. m \in 1 .. l /\ m - 1 \in 0 .. l /\ ~(m <= m - 1)
      BY <1>4, <2>2, <2>4
    <3>2. m - 1 \notin Bad
      <4> HIDE DEF Bad
      <4>1. QED  BY <2>2, <3>1
    <3>3. LosesNothing(plan[m - 1]) /\ order[m] \in Candidates
      BY <1>4, <3>1, <3>2
    <3>4. LosesNothing(plan[m])
      BY <1>7, <3>1, <3>3, TakeOne
    <3>5. QED  BY <2>2, <3>4
  <2>5. QED  BY <2>3, <2>4
<1>9. QED  BY <1>4, <1>5, <1>8

-----------------------------------------------------------------------------
(* Shards and workers.                                                     *)

LEMMA PrintsTyped ==
  ASSUME NEW shard, shard.primary \subseteq Files, shard.reference \subseteq Files,
         content \in Contents, NEW indexed \in Contents
  PROVE  Planned(shard, indexed) \in ShardRecord
<1> DEFINE fs == shard.primary \cup shard.reference
           text == See(fs)
           shape == [f \in fs |-> Shape[indexed[f]]]
<1>1. \A f \in fs : content[f] \in DOMAIN Shape /\ indexed[f] \in DOMAIN Shape
  BY DEF Contents
<1>2. fs \in SUBSET Files
  OBVIOUS
<1> HIDE DEF fs
<1>3. text \in [fs -> DOMAIN Shape] /\ shape \in [fs -> {Shape[x] : x \in DOMAIN Shape}]
  BY <1>1 DEF See
<1>4. text \in Texts /\ shape \in Shapes
  BY <1>2, <1>3 DEF Texts, Shapes
<1>5. Prints(shard, indexed) = [text |-> IF shard.merged THEN None ELSE text, shape |-> shape]
  BY DEF Prints, fs
<1> HIDE DEF text, shape
<1>6. Prints(shard, indexed) \in [text : Texts \cup {None}, shape : Shapes]
  BY <1>4, <1>5
<1>7. QED  BY <1>6 DEF Planned, ShardRecord

LEMMA PlannedFiles ==
  ASSUME NEW shard, NEW indexed
  PROVE  /\ Planned(shard, indexed).primary = shard.primary
         /\ Planned(shard, indexed).reference = shard.reference
         /\ Planned(shard, indexed).prints = Prints(shard, indexed)
BY DEF Planned

LEMMA UnmergedFiles ==
  ASSUME NEW p, NEW q
  PROVE  Unmerged(p, q).primary = p /\ Unmerged(p, q).reference = q /\ Unmerged(p, q).merged = FALSE
BY DEF Unmerged

LEMMA ShardFiles ==
  ASSUME NEW shard \in ShardRecord
  PROVE  shard.primary \subseteq Files /\ shard.reference \subseteq Files
BY DEF ShardRecord

\* A batch begins with workers that wait.
LEMMA BatchStarts ==
  ASSUME NEW b \in Seq(ShardRecord), NEW what \in Stages, Execute(what, b)
  PROVE  /\ stage' = what /\ stage' \in Stages /\ batch' = b /\ batch' \in Seq(ShardRecord)
         /\ work' \in [DOMAIN batch' -> Progress] /\ wave' \in Nat
         /\ Workers' /\ \A i \in DOMAIN batch' : work'[i].pc = "waiting" /\ ~work'[i].reused
<1> DEFINE w == [pc |-> "waiting", attempt |-> 0, report |-> None, review |-> None, reused |-> FALSE]
<1>1. w \in Progress /\ w.pc = "waiting" /\ ~w.reused
  BY DEF Progress
<1>2. work' = [i \in DOMAIN b |-> w] /\ batch' = b /\ wave' = 0 /\ stage' = what
  BY DEF Execute, Waiting
<1> HIDE DEF w
<1>3. work' \in [DOMAIN batch' -> Progress] /\ \A i \in DOMAIN batch' : work'[i] = w
  BY <1>1, <1>2
<1>4. \A i \in DOMAIN batch' : ~(i <= wave' * Concurrency)
  <2>1. \A i \in DOMAIN batch' : i \in Nat /\ i > 0
    BY <1>2
  <2>2. wave' * Concurrency = 0
    BY <1>2, BoundsAssumption
  <2>3. QED  BY <2>1, <2>2
<1>5. Workers'
  BY <1>1, <1>3, <1>4 DEF Workers, Worker
<1>6. QED  BY <1>1, <1>2, <1>3, <1>5

\* What an update of a worker makes of it.
WithReport(w, n, r) == [w EXCEPT !.pc = "asked", !.attempt = n, !.report = r]
WithReused(w, r, v) == [w EXCEPT !.pc = "done", !.reused = TRUE, !.report = r, !.review = v]

LEMMA AskedWorker ==
  ASSUME NEW w \in Progress, NEW n \in Nat, NEW r \in ReportRecord
  PROVE  LET x == WithReport(w, n, r)
         IN  x \in Progress /\ x.pc = "asked" /\ x.report = r /\ x.reused = w.reused
<1> DEFINE x == [w EXCEPT !.pc = "asked", !.attempt = n, !.report = r]
<1>1. r \in ReportRecord \cup {None} /\ "asked" \in {"waiting", "asked", "done", "failed"}
  OBVIOUS
<1>2. x \in Progress
  BY <1>1, Zenon DEF Progress
<1>3. x.pc = "asked"
  BY Zenon DEF Progress
<1>4. x.report = r
  BY Zenon DEF Progress
<1>5. x.reused = w.reused
  BY Zenon DEF Progress
<1>6. QED  BY <1>2, <1>3, <1>4, <1>5 DEF WithReport

LEMMA FailedWorker ==
  ASSUME NEW w \in Progress
  PROVE  LET x == [w EXCEPT !.pc = "failed"]
         IN  x \in Progress /\ x.pc = "failed" /\ x.reused = w.reused
<1> DEFINE x == [w EXCEPT !.pc = "failed"]
<1>1. "failed" \in {"waiting", "asked", "done", "failed"}
  OBVIOUS
<1>2. x \in Progress
  BY <1>1, Zenon DEF Progress
<1>3. x.pc = "failed"
  BY Zenon DEF Progress
<1>4. x.reused = w.reused
  BY Zenon DEF Progress
<1>5. QED  BY <1>2, <1>3, <1>4

LEMMA ReusedWorker ==
  ASSUME NEW w \in Progress, NEW r \in ReportRecord, NEW v \in ReviewRecord
  PROVE  LET x == WithReused(w, r, v)
         IN  x \in Progress /\ x.pc = "done" /\ x.report = r /\ x.review = v
<1> DEFINE x == [w EXCEPT !.pc = "done", !.reused = TRUE, !.report = r, !.review = v]
<1>1. /\ r \in ReportRecord \cup {None} /\ v \in ReviewRecord \cup {None} /\ TRUE \in BOOLEAN
      /\ "done" \in {"waiting", "asked", "done", "failed"}
  OBVIOUS
<1>2. x \in Progress
  BY <1>1, Zenon DEF Progress
<1>3. x.pc = "done"
  BY Zenon DEF Progress
<1>4. x.report = r
  BY Zenon DEF Progress
<1>5. x.review = v
  BY Zenon DEF Progress
<1>6. QED  BY <1>2, <1>3, <1>4, <1>5 DEF WithReused

\* Done, spelled out: the report gets its kind, and keeps what it saw if it
\* was approved.
LEMMA DoneWorker ==
  ASSUME NEW i, NEW w \in Progress, w = work[i], w.report \in ReportRecord, batch[i] \in ShardRecord,
         NEW kind \in {"ok", "parse_failed", "provider_failed"},
         NEW verdict \in {"approved", "model_review_skipped", "review_failed", "needs_revision"}
  PROVE  LET x == Done(i, kind, verdict)
         IN  /\ x \in Progress /\ x.pc = "done" /\ x.reused = w.reused
             /\ x.report \in ReportRecord /\ x.report.shard = w.report.shard /\ x.report.kind = kind
             /\ x.report.steady => w.report.steady /\ x.report.saw = w.report.saw
             /\ x.review \in ReviewRecord /\ x.review.shard = batch[i].primary /\ x.review.status = verdict
<1> DEFINE x == Done(i, kind, verdict)
           r == w.report
           saw == IF verdict = "approved" THEN r.saw ELSE None
           steady == r.steady /\ verdict = "approved"
           v == [shard |-> batch[i].primary, status |-> verdict]
           q == [r EXCEPT !.kind = kind, !.saw = saw, !.steady = steady]
<1>1. v \in ReviewRecord /\ v.shard = batch[i].primary /\ v.status = verdict
  BY DEF ReviewRecord, ShardRecord
<1>2. steady \in BOOLEAN /\ saw \in Texts \cup {None}
  BY DEF ReportRecord
<1> HIDE DEF steady
<1>3. /\ q \in ReportRecord /\ q.shard = r.shard /\ q.kind = kind
      /\ q.saw = saw /\ q.steady = steady
  BY <1>2 DEF ReportRecord
<1>4. x = [w EXCEPT !.pc = "done", !.attempt = 0, !.report = q, !.review = v]
  BY Zenon DEF Done, Progress, ReportRecord, steady
<1> HIDE DEF x, q, v
<1>5. /\ q \in ReportRecord \cup {None} /\ v \in ReviewRecord \cup {None} /\ 0 \in Nat
      /\ "done" \in {"waiting", "asked", "done", "failed"}
  BY <1>1, <1>3
<1>6. x \in Progress
  BY <1>4, <1>5, Zenon DEF Progress
<1>7. x.pc = "done" /\ x.reused = w.reused
  <2>1. x.pc = "done"  BY <1>4, Zenon DEF Progress
  <2>2. x.reused = w.reused  BY <1>4, Zenon DEF Progress
  <2>3. QED  BY <2>1, <2>2
<1>8. x.report = q
  BY <1>4, Zenon DEF Progress
<1>9. x.review = v
  BY <1>4, Zenon DEF Progress
<1>10. x.report.steady => r.steady /\ x.report.saw = r.saw
  BY <1>3, <1>8 DEF steady
<1>11. QED  BY <1>1, <1>3, <1>6, <1>7, <1>8, <1>9, <1>10 DEF x

-----------------------------------------------------------------------------
(* A step of one worker.                                                   *)

\* What the steps of a worker leave alone.
besides == <<content, budget, stage, scanned, batch, wave, shards, reports, reviews, replaced, store>>

LEMMA BesidesKept ==
  ASSUME TypeOK, Aligned, Filed, Complete, UNCHANGED besides,
         work' \in [DOMAIN batch -> Progress]
  PROVE  TypeOK' /\ Aligned' /\ Filed' /\ Complete'
<1>1. TypeOK'
  BY DEF TypeOK, besides
<1>2. Aligned' /\ Filed'
  BY DEF Aligned, InStep, Filed, Matches, besides
<1>3. Complete'
  <2>1. CutOff' = CutOff
    BY DEF CutOff, besides
  <2>2. stage' = stage /\ batch' = batch /\ shards' = shards /\ replaced' = replaced
    BY DEF besides
  <2>3. SameFiles(batch)' = SameFiles(batch) /\ SameFiles(shards)' = SameFiles(shards)
    BY <2>2 DEF SameFiles
  <2>4. FilesOf(batch)' = FilesOf(batch) /\ FilesOf(shards)' = FilesOf(shards)
    BY <2>2 DEF FilesOf
  <2>5. QED  BY <2>1, <2>2, <2>3, <2>4 DEF Complete, PlanFiles
<1>4. QED  BY <1>1, <1>2, <1>3

LEMMA WorkerSteps ==
  ASSUME Inv, NEW i \in DOMAIN batch, NEW x \in Progress, Shard(i, x),
         work[i].pc # "done", Worker(batch[i], x)
  PROVE  Inv'
<1>1. UNCHANGED besides /\ work' = [work EXCEPT ![i] = x]
  BY DEF Shard, besides, config, result, bounds
<1>2. work \in [DOMAIN batch -> Progress]
  BY DEF Inv, TypeOK
<1>3. /\ work' \in [DOMAIN batch -> Progress] /\ work'[i] = x
      /\ \A k \in DOMAIN batch : k # i => work'[k] = work[k]
  BY <1>1, <1>2
<1>4. batch' = batch /\ wave' = wave
  BY <1>1 DEF besides
<1>5. Workers'
  <2> SUFFICES ASSUME NEW k \in DOMAIN batch
               PROVE  /\ Worker(batch[k], work'[k])
                      /\ k <= wave * Concurrency => work'[k].pc = "done"
    BY <1>4 DEF Workers, Worker
  <2>1. Worker(batch[k], work[k]) /\ (k <= wave * Concurrency => work[k].pc = "done")
    BY DEF Inv, Workers
  <2>2. CASE k = i  BY <1>3, <2>1, <2>2
  <2>3. CASE k # i  BY <1>3, <2>1, <2>3
  <2>4. QED  BY <2>2, <2>3
<1>6. TypeOK' /\ Aligned' /\ Filed' /\ Complete'
  BY <1>1, <1>3, BesidesKept DEF Inv
<1>7. QED  BY <1>5, <1>6 DEF Inv

LEMMA AskedReport ==
  ASSUME TypeOK, NEW i \in DOMAIN batch, NEW n \in Nat
  PROVE  /\ batch[i] \in ShardRecord
         /\ Asked(i, n) \in Progress /\ Asked(i, n).pc = "asked" /\ Asked(i, n).reused = work[i].reused
         /\ Asked(i, n).report \in ReportRecord /\ Asked(i, n).report.kind = "ok"
         /\ Asked(i, n).report.shard = batch[i].primary
         /\ Asked(i, n).report.steady <=>
              See(Reads(batch[i])) = IF batch[i].prints.text = None THEN Scanned(Reads(batch[i]))
                                                                    ELSE batch[i].prints.text
         /\ Asked(i, n).report.saw = See(Reads(batch[i]))
<1>1. batch[i] \in ShardRecord /\ work[i] \in Progress
  BY DEF TypeOK
<1> DEFINE saw == See(Reads(batch[i]))
           steady == saw = IF batch[i].prints.text = None THEN Scanned(Reads(batch[i]))
                                                          ELSE batch[i].prints.text
           r == [shard |-> batch[i].primary, kind |-> "ok", saw |-> saw, steady |-> steady]
<1>2. saw \in Texts
  <2>1. Reads(batch[i]) \in SUBSET Files
    BY <1>1, ShardFiles DEF Reads
  <2>2. saw \in [Reads(batch[i]) -> DOMAIN Shape]
    BY <2>1 DEF See, TypeOK, Contents
  <2>3. QED  BY <2>1, <2>2 DEF Texts
<1>3. Asked(i, n) = WithReport(work[i], n, r)
  BY DEF Asked, FilesRead, Reads, WithReport
<1>4. steady \in BOOLEAN
  OBVIOUS
<1> HIDE DEF steady
<1>5. /\ r \in ReportRecord /\ r.kind = "ok" /\ r.shard = batch[i].primary
      /\ r.saw = saw /\ r.steady = steady
  BY <1>1, <1>2, <1>4 DEF ReportRecord, ShardRecord
<1> HIDE DEF r, saw
<1>6. /\ Asked(i, n) \in Progress /\ Asked(i, n).pc = "asked" /\ Asked(i, n).report = r
      /\ Asked(i, n).reused = work[i].reused
  BY <1>1, <1>3, <1>5, AskedWorker
<1>7. QED  BY <1>1, <1>5, <1>6 DEF saw, steady

LEMMA PreviousReport ==
  ASSUME Inv, NEW i \in DOMAIN batch, Reusable(i)
  PROVE  /\ store \notin {None, Torn} /\ batch[i].primary \in DOMAIN store
         /\ Previous(i) = store[batch[i].primary] /\ Previous(i).report \in ReportRecord
         /\ Previous(i) # None /\ Previous(i).report # None
         /\ Previous(i).report.shard = batch[i].primary
         /\ Previous(i).report.kind # "provider_failed"
<1>1. stage = "base" /\ Previous(i) # None /\ Previous(i).report # None
  BY DEF Reusable
<1>2. store \notin {None, Torn} /\ Previous(i) = store[batch[i].primary]
  BY <1>1 DEF Previous
<1>3. batch[i].primary \in {Plan[k].primary : k \in DOMAIN Plan}
  <2>1. SameFiles(batch)
    BY <1>1 DEF Inv, Complete
  <2>2. batch \in Seq(ShardRecord)
    BY DEF Inv, TypeOK
  <2>3. i \in DOMAIN Plan
    BY <2>1, <2>2, PlanTyped DEF SameFiles
  <2>4. QED  BY <2>1, <2>3 DEF SameFiles
<1>4. batch[i].primary \in DOMAIN store
  BY <1>2, <1>3 DEF Inv, Filed
<1>5. QED  BY <1>1, <1>2, <1>4 DEF Inv, Filed

LEMMA StartKeeps ==
  ASSUME Inv, NEW i \in DOMAIN batch, StartShard(i)
  PROVE  Inv'
<1>1. work[i] \in Progress /\ batch[i] \in ShardRecord /\ TypeOK /\ Worker(batch[i], work[i])
  BY DEF Inv, TypeOK, Workers
<1>2. work[i].pc = "waiting"
  BY DEF StartShard
<1>3. CASE Reusable(i)
  <2> DEFINE r == Previous(i).report
             v == [shard |-> batch[i].primary, status |-> "approved"]
             x == WithReused(work[i], r, v)
  <2>1. r \in ReportRecord /\ r.shard = batch[i].primary /\ r.kind # "provider_failed"
    BY <1>3, PreviousReport
  <2>2. v \in ReviewRecord /\ v.shard = batch[i].primary
    BY <1>1 DEF ReviewRecord, ShardRecord
  <2>3. Shard(i, x)
    BY <1>3 DEF StartShard, WithReused
  <2> HIDE DEF r, v
  <2>4. x \in Progress /\ x.pc = "done" /\ x.report = r /\ x.review = v
    BY <1>1, <2>1, <2>2, ReusedWorker
  <2> HIDE DEF x
  <2>5. Worker(batch[i], x)
    BY <2>1, <2>2, <2>4 DEF Worker, Matches
  <2>6. QED  BY <1>2, <2>3, <2>4, <2>5, WorkerSteps
<1>4. CASE ~Reusable(i)
  <2>1. Shard(i, Asked(i, 0))
    BY <1>4 DEF StartShard
  <2>2. Worker(batch[i], Asked(i, 0)) /\ Asked(i, 0) \in Progress
    BY <1>1, <1>2, AskedReport DEF Worker
  <2>3. QED  BY <1>2, <2>1, <2>2, WorkerSteps
<1>5. QED  BY <1>3, <1>4

LEMMA FailKeeps ==
  ASSUME Inv, NEW i \in DOMAIN batch, WorkerFails(i)
  PROVE  Inv'
<1>1. work[i] \in Progress /\ batch[i] \in ShardRecord /\ TypeOK /\ Worker(batch[i], work[i])
  BY DEF Inv, TypeOK, Workers
<1>2. work[i].pc = "asked"
  BY DEF WorkerFails
<1>3. CASE canceled
  <2> DEFINE x == [work[i] EXCEPT !.pc = "failed"]
  <2>1. Shard(i, x)
    BY <1>3 DEF WorkerFails
  <2>2. x \in Progress /\ x.pc = "failed" /\ x.reused = work[i].reused
    BY <1>1, FailedWorker
  <2> HIDE DEF x
  <2>3. Worker(batch[i], x)
    BY <1>1, <1>2, <2>2 DEF Worker
  <2>4. QED  BY <1>2, <2>1, <2>2, <2>3, WorkerSteps
<1>4. CASE ~canceled
  <2> DEFINE x == Done(i, "provider_failed", "review_failed")
  <2>1. Shard(i, x)
    BY <1>4 DEF WorkerFails
  <2>2. /\ x \in Progress /\ x.pc = "done" /\ x.reused = work[i].reused
        /\ x.report \in ReportRecord /\ x.report.shard = work[i].report.shard
        /\ x.review \in ReviewRecord /\ x.review.shard = batch[i].primary
        /\ x.review.status = "review_failed"
    BY <1>1, <1>2, DoneWorker DEF Worker
  <2> HIDE DEF x
  <2>3. Worker(batch[i], x)
    BY <1>1, <1>2, <2>2 DEF Worker, Matches
  <2>4. QED  BY <1>2, <2>1, <2>2, <2>3, WorkerSteps
<1>5. QED  BY <1>3, <1>4

LEMMA ReportKeeps ==
  ASSUME Inv, NEW i \in DOMAIN batch, ShardReported(i)
  PROVE  Inv'
<1>1. work[i] \in Progress /\ batch[i] \in ShardRecord /\ TypeOK /\ Worker(batch[i], work[i])
  BY DEF Inv, TypeOK, Workers
<1>2. work[i].pc = "asked"
  BY DEF ShardReported
<1>3. PICK kind \in {"ok", "parse_failed"},
           verdict \in {"approved", "model_review_skipped", "review_failed", "needs_revision"} :
        Shard(i, Done(i, kind, verdict))
  BY DEF ShardReported
<1> DEFINE x == Done(i, kind, verdict)
<1>4. /\ x \in Progress /\ x.pc = "done"
      /\ x.report \in ReportRecord /\ x.report.shard = work[i].report.shard /\ x.report.kind = kind
      /\ x.review \in ReviewRecord /\ x.review.shard = batch[i].primary
  BY <1>1, <1>2, DoneWorker DEF Worker
<1>5. Shard(i, x)
  BY <1>3
<1> HIDE DEF x
<1>6. Worker(batch[i], x)
  BY <1>1, <1>2, <1>4 DEF Worker, Matches
<1>7. QED  BY <1>2, <1>4, <1>5, <1>6, WorkerSteps

LEMMA ReviseKeeps ==
  ASSUME Inv, NEW i \in DOMAIN batch, ShardRevised(i)
  PROVE  Inv'
<1>1. work[i] \in Progress /\ batch[i] \in ShardRecord /\ TypeOK /\ Worker(batch[i], work[i])
  BY DEF Inv, TypeOK, Workers
<1>2. work[i].pc = "asked"
  BY DEF ShardRevised
<1> DEFINE n == work[i].attempt + 1
<1>3. n \in Nat /\ Shard(i, Asked(i, n))
  BY <1>1 DEF ShardRevised, Progress
<1> HIDE DEF n
<1>4. Worker(batch[i], Asked(i, n)) /\ Asked(i, n) \in Progress
  BY <1>1, <1>2, <1>3, AskedReport DEF Worker
<1>5. QED  BY <1>2, <1>3, <1>4, WorkerSteps

-----------------------------------------------------------------------------
(* Batches and their results.                                              *)

\* When the last wave is over, every worker of the batch is done.
LEMMA AllDone ==
  ASSUME TypeOK, Workers, WaveOK, LastWave
  PROVE  \A i \in DOMAIN batch : work[i].pc = "done"
<1> SUFFICES ASSUME NEW i \in DOMAIN batch PROVE work[i].pc = "done"
  OBVIOUS
<1> DEFINE from == wave * Concurrency
<1>1. /\ from \in Nat /\ Concurrency \in Nat /\ wave \in Nat
      /\ (wave + 1) * Concurrency = from + Concurrency
  BY BoundsAssumption DEF TypeOK
<1>2. i \in Nat /\ i >= 1 /\ i <= Len(batch) /\ Len(batch) \in Nat
  BY DEF TypeOK
<1>3. i <= from + Concurrency
  BY <1>1, <1>2 DEF LastWave
<1> HIDE DEF from
<1>4. CASE i <= from
  BY <1>4 DEF Workers, from
<1>5. CASE ~(i <= from)
  <2>1. InWave(i)
    BY <1>1, <1>2, <1>3, <1>5 DEF InWave, from
  <2>2. QED  BY <2>1 DEF WaveOK, WaveOver
<1>6. QED  BY <1>4, <1>5

LEMMA BatchResults ==
  ASSUME TypeOK, Workers, WaveOK, LastWave
  PROVE  /\ BatchReports \in Seq(ReportRecord) /\ BatchReviews \in Seq(ReviewRecord)
         /\ InStep(batch, BatchReports, BatchReviews)
         /\ \A i \in DOMAIN batch : BatchReports[i] = work[i].report /\ BatchReviews[i] = work[i].review
<1>1. DOMAIN batch = 1 .. Len(batch) /\ Len(batch) \in Nat
  BY DEF TypeOK
<1>2. \A i \in DOMAIN batch : /\ work[i].report \in ReportRecord /\ work[i].review \in ReviewRecord
                              /\ Matches(batch[i], work[i].report, work[i].review)
  BY AllDone DEF Workers, Worker
<1>3. /\ BatchReports \in [1 .. Len(batch) -> ReportRecord]
      /\ BatchReviews \in [1 .. Len(batch) -> ReviewRecord]
      /\ \A i \in DOMAIN batch : BatchReports[i] = work[i].report /\ BatchReviews[i] = work[i].review
  BY <1>1, <1>2 DEF BatchReports, BatchReviews
<1>4. /\ BatchReports \in Seq(ReportRecord) /\ Len(BatchReports) = Len(batch)
      /\ BatchReviews \in Seq(ReviewRecord) /\ Len(BatchReviews) = Len(batch)
  BY <1>1, <1>3
<1>5. QED  BY <1>2, <1>3, <1>4 DEF InStep

\* Appending keeps reports and reviews in step with the shards.
LEMMA StepsJoined ==
  ASSUME NEW s \in Seq(ShardRecord), NEW r \in Seq(ReportRecord), NEW v \in Seq(ReviewRecord),
         NEW t \in Seq(ShardRecord), NEW q \in Seq(ReportRecord), NEW w \in Seq(ReviewRecord),
         InStep(s, r, v), InStep(t, q, w)
  PROVE  /\ s \o t \in Seq(ShardRecord) /\ r \o q \in Seq(ReportRecord) /\ v \o w \in Seq(ReviewRecord)
         /\ InStep(s \o t, r \o q, v \o w)
<1> DEFINE st == s \o t
           rq == r \o q
           vw == v \o w
<1>1. /\ Len(r) = Len(s) /\ Len(v) = Len(s) /\ Len(q) = Len(t) /\ Len(w) = Len(t)
      /\ DOMAIN r = DOMAIN s /\ DOMAIN v = DOMAIN s /\ DOMAIN q = DOMAIN t /\ DOMAIN w = DOMAIN t
  BY DEF InStep
<1>2. /\ st \in Seq(ShardRecord) /\ Len(st) = Len(s) + Len(t)
      /\ \A i \in DOMAIN st : \/ i \in DOMAIN s /\ st[i] = s[i]
                              \/ i \notin DOMAIN s /\ i - Len(s) \in DOMAIN t /\ st[i] = t[i - Len(s)]
  BY Joined
<1>3. /\ rq \in Seq(ReportRecord) /\ Len(rq) = Len(r) + Len(q)
      /\ \A i \in DOMAIN rq : \/ i \in DOMAIN r /\ rq[i] = r[i]
                              \/ i \notin DOMAIN r /\ i - Len(r) \in DOMAIN q /\ rq[i] = q[i - Len(r)]
  BY Joined
<1>4. /\ vw \in Seq(ReviewRecord) /\ Len(vw) = Len(v) + Len(w)
      /\ \A i \in DOMAIN vw : \/ i \in DOMAIN v /\ vw[i] = v[i]
                              \/ i \notin DOMAIN v /\ i - Len(v) \in DOMAIN w /\ vw[i] = w[i - Len(v)]
  BY Joined
<1> HIDE DEF st, rq, vw
<1>5. Len(rq) = Len(st) /\ Len(vw) = Len(st) /\ DOMAIN rq = DOMAIN st /\ DOMAIN vw = DOMAIN st
  BY <1>1, <1>2, <1>3, <1>4
<1>6. \A i \in DOMAIN st :
         \/ i \in DOMAIN s /\ st[i] = s[i] /\ rq[i] = r[i] /\ vw[i] = v[i]
         \/ i - Len(s) \in DOMAIN t /\ st[i] = t[i - Len(s)] /\ rq[i] = q[i - Len(s)] /\ vw[i] = w[i - Len(s)]
  BY <1>1, <1>2, <1>3, <1>4, <1>5
<1>7. \A i \in DOMAIN st : Matches(st[i], rq[i], vw[i])
  <2> SUFFICES ASSUME NEW i \in DOMAIN st PROVE Matches(st[i], rq[i], vw[i])
    OBVIOUS
  <2>1. CASE i \in DOMAIN s /\ st[i] = s[i] /\ rq[i] = r[i] /\ vw[i] = v[i]
    BY <2>1 DEF InStep
  <2>2. CASE /\ i - Len(s) \in DOMAIN t
             /\ st[i] = t[i - Len(s)] /\ rq[i] = q[i - Len(s)] /\ vw[i] = w[i - Len(s)]
    BY <2>2 DEF InStep
  <2>3. QED  BY <1>6, <2>1, <2>2
<1>8. InStep(st, rq, vw)
  BY <1>5, <1>7 DEF InStep
<1>9. QED  BY <1>2, <1>3, <1>4, <1>8 DEF st, rq, vw

\* Filtering keeps them in step, and loses the replaced shards only.
LEMMA StepsKept ==
  ASSUME NEW s \in Seq(ShardRecord), NEW r \in Seq(ReportRecord), NEW v \in Seq(ReviewRecord),
         InStep(s, r, v)
  PROVE  /\ Kept(s) \in Seq(ShardRecord) /\ Kept(r) \in Seq(ReportRecord) /\ Kept(v) \in Seq(ReviewRecord)
         /\ InStep(Kept(s), Kept(r), Kept(v))
         /\ \A i \in DOMAIN Kept(s) : \E k \in DOMAIN s :
              Kept(s)[i] = s[k] /\ Kept(r)[i] = r[k] /\ Kept(v)[i] = v[k]
         /\ \A k \in DOMAIN s \ replaced : \E i \in DOMAIN Kept(s) : Kept(s)[i] = s[k]
<1> DEFINE n == Len(s)
           kept == Ascending((1 .. n) \ replaced)
<1>1. n \in Nat /\ Len(r) = n /\ Len(v) = n /\ DOMAIN s = 1 .. n
  BY DEF InStep
<1> HIDE DEF n
<1>2. kept \in Seq(1 .. n) /\ Range(kept) = (1 .. n) \ replaced
  BY <1>1, KeptOnes
<1>3. /\ Kept(s) \in Seq(ShardRecord) /\ Len(Kept(s)) = Len(kept) /\ DOMAIN Kept(s) = DOMAIN kept
      /\ \A k \in DOMAIN kept : kept[k] \in DOMAIN s /\ Kept(s)[k] = s[kept[k]]
  BY <1>1, KeptIs DEF n
<1>4. /\ Kept(r) \in Seq(ReportRecord) /\ Len(Kept(r)) = Len(kept)
      /\ \A k \in DOMAIN kept : Kept(r)[k] = r[kept[k]]
  BY <1>1, KeptIs
<1>5. /\ Kept(v) \in Seq(ReviewRecord) /\ Len(Kept(v)) = Len(kept)
      /\ \A k \in DOMAIN kept : Kept(v)[k] = v[kept[k]]
  BY <1>1, KeptIs
<1> HIDE DEF kept
<1>6. InStep(Kept(s), Kept(r), Kept(v))
  BY <1>3, <1>4, <1>5 DEF InStep
<1>7. \A k \in DOMAIN s \ replaced : \E i \in DOMAIN kept : kept[i] = k
  BY <1>1, <1>2 DEF Range
<1>8. \A k \in DOMAIN s \ replaced : \E i \in DOMAIN Kept(s) : Kept(s)[i] = s[k]
  BY <1>3, <1>7
<1>9. QED  BY <1>3, <1>4, <1>5, <1>6, <1>8

-----------------------------------------------------------------------------
(* The steps of the run.                                                   *)

LEMMA EmptyBatch == <<>> \in Seq(ShardRecord) /\ <<>> \in Seq(ReportRecord) /\ <<>> \in Seq(ReviewRecord)
OBVIOUS

LEMMA InitInv == Init => Inv
<1> SUFFICES ASSUME Init PROVE Inv
  OBVIOUS
<1>1. content \in Contents /\ scanned \in Contents
  BY PlanAssumption DEF Init, Contents
<1>2. budget \in Nat
  BY BoundsAssumption DEF Init
<1>3. /\ batch = <<>> /\ work = <<>> /\ wave = 0 /\ stage = "idle" /\ replaced = {} /\ store = None
      /\ shards = <<>> /\ reports = <<>> /\ reviews = <<>>
  BY DEF Init
<1>4. TypeOK
  BY <1>1, <1>2, <1>3, EmptyBatch DEF TypeOK, Stages
<1>5. Workers /\ Aligned /\ Filed /\ Complete
  BY <1>3 DEF Workers, Aligned, InStep, Filed, Complete
<1>6. QED  BY <1>4, <1>5 DEF Inv

LEMMA SameCutOff == budget' = budget => CutOff' = CutOff
BY DEF CutOff

\* A step to the next stage: what is left to show is about the results.
LEMMA StageSteps ==
  ASSUME Inv, NEW what \in Stages, NEW b \in Seq(ShardRecord), Execute(what, b),
         UNCHANGED <<content, budget>>, scanned' \in Contents, Filed',
         shards' \in Seq(ShardRecord), reports' \in Seq(ReportRecord), reviews' \in Seq(ReviewRecord),
         InStep(shards', reports', reviews'), replaced' \subseteq DOMAIN Plan, Complete'
  PROVE  Inv'
<1>1. /\ stage' \in Stages /\ batch' \in Seq(ShardRecord)
      /\ work' \in [DOMAIN batch' -> Progress] /\ wave' \in Nat /\ Workers'
  BY BatchStarts
<1>2. TypeOK'
  BY <1>1 DEF Inv, TypeOK
<1>3. Aligned'
  BY DEF Aligned, InStep, Matches
<1>4. QED  BY <1>1, <1>2, <1>3 DEF Inv

LEMMA FiledKept == Filed /\ store' = store => Filed'
BY DEF Filed

LEMMA EditKeeps ==
  ASSUME Inv, NEW f \in Edited, Edit(f)
  PROVE  Inv'
<1>1. PICK text \in DOMAIN Shape : content' = [content EXCEPT ![f] = text]
  BY DEF Edit
<1>2. content' \in Contents
  BY <1>1 DEF Inv, TypeOK, Contents
<1>3. UNCHANGED <<budget, stage, scanned, batch, work, wave, shards, reports, reviews, replaced, store>>
  BY DEF Edit, config, running, result
<1>4. TypeOK'
  BY <1>2, <1>3 DEF Inv, TypeOK
<1>5. Workers' /\ Aligned' /\ Filed'
  BY <1>3 DEF Inv, Workers, Worker, Aligned, InStep, Matches, Filed
<1>6. Complete'
  BY <1>3, SameCutOff DEF Inv, Complete, SameFiles, FilesOf, PlanFiles
<1>7. QED  BY <1>4, <1>5, <1>6 DEF Inv

\* Steps that change none of the variables that Inv and Dated speak of.
spoken == <<content, budget, stage, scanned, batch, work, wave, shards, reports, reviews, replaced, store>>

LEMMA IdleKeeps == Inv /\ UNCHANGED spoken => Inv'
<1> SUFFICES ASSUME Inv, UNCHANGED spoken PROVE Inv'
  OBVIOUS
<1>1. UNCHANGED <<content, budget, stage, scanned, batch, work, wave, shards, reports, reviews, replaced, store>>
  BY DEF spoken
<1>2. TypeOK'
  BY <1>1 DEF Inv, TypeOK
<1>3. Workers' /\ Aligned' /\ Filed'
  BY <1>1 DEF Inv, Workers, Worker, Aligned, InStep, Matches, Filed
<1>4. Complete'
  BY <1>1, SameCutOff DEF Inv, Complete, SameFiles, FilesOf, PlanFiles
<1>5. QED  BY <1>2, <1>3, <1>4 DEF Inv

LEMMA FirstBatch ==
  ASSUME content \in Contents
  PROVE  LET b == [i \in DOMAIN Plan |-> Planned(Plan[i], content)]
         IN  /\ b \in Seq(ShardRecord) /\ Len(b) = Len(Plan)
             /\ SameFiles(b)
<1> DEFINE b == [i \in DOMAIN Plan |-> Planned(Plan[i], content)]
<1>1. \A i \in DOMAIN Plan : Planned(Plan[i], content) \in ShardRecord
  BY PrintsTyped, PlanTyped
<1>2. b \in [1 .. Len(Plan) -> ShardRecord] /\ Len(Plan) \in Nat
  BY <1>1, PlanTyped
<1>3. b \in Seq(ShardRecord) /\ Len(b) = Len(Plan)
  BY <1>2
<1>4. \A i \in DOMAIN Plan : b[i].primary = Plan[i].primary /\ b[i].reference = Plan[i].reference
  BY PlannedFiles
<1>5. QED  BY <1>3, <1>4 DEF SameFiles

LEMMA StartRunKeeps == Inv /\ StartRun => Inv'
<1> SUFFICES ASSUME Inv, StartRun PROVE Inv'
  OBVIOUS
<1> DEFINE b == [i \in DOMAIN Plan |-> Planned(Plan[i], content)]
<1>1. /\ scanned' = content /\ Execute("base", b)
      /\ UNCHANGED <<content, budget, shards, reports, reviews, replaced, store>>
  BY DEF StartRun, config, result
<1>2. content \in Contents
  BY DEF Inv, TypeOK
<1>3. b \in Seq(ShardRecord) /\ SameFiles(b)
  BY <1>2, FirstBatch
<1> HIDE DEF b
<1>4. stage' = "base" /\ batch' = b
  BY <1>1 DEF Execute
<1>5. Complete'
  BY <1>3, <1>4 DEF Complete, SameFiles
<1>6. "base" \in Stages /\ Filed'
  BY <1>1, FiledKept DEF Inv, Stages
<1>7. /\ shards' \in Seq(ShardRecord) /\ reports' \in Seq(ReportRecord) /\ reviews' \in Seq(ReviewRecord)
      /\ InStep(shards', reports', reviews') /\ replaced' \subseteq DOMAIN Plan
  BY <1>1 DEF Inv, TypeOK, Aligned
<1>8. QED  BY <1>1, <1>2, <1>3, <1>5, <1>6, <1>7, StageSteps

LEMMA NextWaveKeeps == Inv /\ NextWave => Inv'
<1> SUFFICES ASSUME Inv, NextWave PROVE Inv'
  OBVIOUS
<1>1. /\ wave' = wave + 1 /\ WaveOK
      /\ UNCHANGED <<content, budget, stage, scanned, batch, work, shards, reports, reviews, replaced, store>>
  BY DEF NextWave, config, result
<1>2. TypeOK'
  BY <1>1 DEF Inv, TypeOK
<1>3. Aligned' /\ Filed'
  BY <1>1 DEF Inv, Aligned, InStep, Matches, Filed
<1>4. Complete'
  BY <1>1, SameCutOff DEF Inv, Complete, SameFiles, FilesOf, PlanFiles
<1>5. Workers'
  <2> SUFFICES ASSUME NEW i \in DOMAIN batch
               PROVE  Worker(batch[i], work[i]) /\ (i <= (wave + 1) * Concurrency => work[i].pc = "done")
    BY <1>1 DEF Workers, Worker
  <2>1. Worker(batch[i], work[i]) /\ (i <= wave * Concurrency => work[i].pc = "done")
    BY DEF Inv, Workers
  <2> DEFINE from == wave * Concurrency
  <2>2. from \in Nat /\ (wave + 1) * Concurrency = from + Concurrency /\ i \in Nat /\ Concurrency \in Nat
    BY BoundsAssumption DEF Inv, TypeOK
  <2>3. i > from /\ i <= from + Concurrency => InWave(i)
    BY <2>2 DEF InWave
  <2> HIDE DEF from
  <2>4. InWave(i) => work[i].pc = "done"
    BY <1>1 DEF WaveOK, WaveOver
  <2>5. QED  BY <2>1, <2>2, <2>3, <2>4 DEF from
<1>6. QED  BY <1>2, <1>3, <1>4, <1>5 DEF Inv

LEMMA ReturnKeeps == Inv /\ Return /\ Filed' => Inv'
<1> SUFFICES ASSUME Inv, Return, Filed' PROVE Inv'
  OBVIOUS
<1>1. /\ Execute("idle", <<>>) /\ shards' = <<>> /\ reports' = <<>> /\ reviews' = <<>>
      /\ replaced' = {} /\ UNCHANGED <<content, budget, scanned>>
  BY DEF Return, Results, config
<1>2. stage' = "idle" /\ "idle" \in Stages
  BY <1>1 DEF Execute, Stages
<1>3. Complete'
  BY <1>2 DEF Complete
<1>4. InStep(shards', reports', reviews') /\ replaced' \subseteq DOMAIN Plan /\ scanned' \in Contents
  BY <1>1 DEF InStep, Inv, TypeOK
<1>5. QED  BY <1>1, <1>2, <1>3, <1>4, EmptyBatch, StageSteps

\* What Stored keeps for a set of files is an approved report of a shard.
LEMMA StoredShard ==
  ASSUME TypeOK, NEW fs \in DOMAIN Stored, Stored[fs] # None, Stored[fs].report # None
  PROVE  \E i \in DOMAIN shards :
           /\ shards[i].primary = fs /\ reviews[i].status = "approved"
           /\ Stored[fs].prints = shards[i].prints /\ Stored[fs].report = reports[i]
<1> DEFINE those == {i \in DOMAIN shards : shards[i].primary = fs}
           last == Max(those)
<1>1. Stored[fs] = IF those = {} THEN None
                   ELSE [prints |-> shards[last].prints,
                         report |-> IF reviews[last].status = "approved" THEN reports[last] ELSE None]
  BY DEF Stored
<1>2. those # {}
  BY <1>1
<1>3. DOMAIN shards = 1 .. Len(shards) /\ Len(shards) \in Nat
  BY DEF TypeOK
<1>4. last \in those
  BY <1>2, <1>3, LastIsOne
<1> HIDE DEF last
<1>5. QED  BY <1>1, <1>2, <1>4

LEMMA SaveKeeps == Inv /\ Save => Inv'
<1> SUFFICES ASSUME Inv, Save PROVE Inv'
  OBVIOUS
<1>1. Return /\ store' \in {store, Torn, Stored}
  BY DEF Save
<1>2. Filed'
  <2>1. CASE store' = store
    BY <2>1, FiledKept DEF Inv
  <2>2. CASE store' = Torn
    BY <2>2 DEF Filed
  <2>3. CASE store' = Stored
    <3>1. DOMAIN Stored = {Plan[i].primary : i \in DOMAIN Plan}
      BY DEF Stored
    <3>2. ASSUME NEW fs \in DOMAIN Stored, Stored[fs] # None, Stored[fs].report # None
          PROVE  /\ Stored[fs].report \in ReportRecord
                 /\ Stored[fs].report.shard = fs /\ Stored[fs].report.kind # "provider_failed"
      <4>1. PICK i \in DOMAIN shards :
              /\ shards[i].primary = fs /\ reviews[i].status = "approved" /\ Stored[fs].report = reports[i]
        BY <3>2, StoredShard DEF Inv
      <4>2. Matches(shards[i], reports[i], reviews[i]) /\ i \in DOMAIN reports
        BY DEF Inv, Aligned, InStep, TypeOK
      <4>3. reports[i] \in ReportRecord
        BY <4>2 DEF Inv, TypeOK
      <4>4. QED  BY <4>1, <4>2, <4>3 DEF Matches
    <3> DEFINE x == Stored
    <3> HIDE DEF x
    <3>3. QED  BY <2>3, <3>1, <3>2 DEF Filed, x
  <2>4. QED  BY <1>1, <2>1, <2>2, <2>3
<1>3. QED  BY <1>1, <1>2, ReturnKeeps

LEMMA RunFailsKeeps == Inv /\ RunFails => Inv'
<1> SUFFICES ASSUME Inv, RunFails PROVE Inv'
  OBVIOUS
<1>1. Return /\ store' = store
  BY DEF RunFails
<1>2. Filed'
  BY <1>1, FiledKept DEF Inv
<1>3. QED  BY <1>1, <1>2, ReturnKeeps

\* A child of a refined shard is planned over its own files.
LEMMA ChildPlanned ==
  ASSUME TypeOK, NEW p \in SUBSET Files
  PROVE  /\ Planned(Unmerged(p, {}), scanned) \in ShardRecord
         /\ Planned(Unmerged(p, {}), scanned).primary = p
<1> DEFINE u == Unmerged(p, {})
<1>1. u.primary = p
  BY DEF Unmerged
<1>2. u.reference = {}
  BY DEF Unmerged
<1>3. content \in Contents /\ scanned \in Contents
  BY DEF TypeOK
<1> HIDE DEF u
<1>4. Planned(u, scanned) \in ShardRecord
  BY <1>1, <1>2, <1>3, PrintsTyped
<1>5. Planned(u, scanned).primary = p
  BY <1>1, PlannedFiles
<1>6. QED  BY <1>4, <1>5 DEF u

\* The refined batch: a shard for every child.
LEMMA RefinedBatch ==
  ASSUME TypeOK, NEW children \in Seq(SUBSET Files)
  PROVE  LET b == [c \in DOMAIN children |-> Planned(Unmerged(children[c], {}), scanned)]
         IN  /\ b \in Seq(ShardRecord) /\ DOMAIN b = DOMAIN children
             /\ \A c \in DOMAIN children : b[c] = Planned(Unmerged(children[c], {}), scanned)
             /\ FilesOf(b) = UNION Range(children)
<1>1. DOMAIN children = 1 .. Len(children) /\ Len(children) \in Nat
  OBVIOUS
<1>2. ASSUME NEW c \in DOMAIN children
      PROVE  /\ Planned(Unmerged(children[c], {}), scanned) \in ShardRecord
             /\ Planned(Unmerged(children[c], {}), scanned).primary = children[c]
  <2>1. children[c] \in SUBSET Files
    OBVIOUS
  <2>2. QED  BY <2>1, ChildPlanned
<1> DEFINE b == [c \in DOMAIN children |-> Planned(Unmerged(children[c], {}), scanned)]
<1>3. b \in [1 .. Len(children) -> ShardRecord] /\ DOMAIN b = DOMAIN children
  BY <1>1, <1>2
<1>4. b \in Seq(ShardRecord)
  BY <1>1, <1>3
<1>5. \A c \in DOMAIN children : b[c].primary = children[c]
  BY <1>2
<1>6. \A c \in DOMAIN children : b[c] = Planned(Unmerged(children[c], {}), scanned)
  OBVIOUS
<1> HIDE DEF b
<1>7. FilesOf(b) = UNION Range(children)
  BY <1>3, <1>5 DEF FilesOf, Range
<1>8. QED  BY <1>3, <1>4, <1>6, <1>7 DEF b

LEMMA PlanFilesOf == \A s \in Seq(ShardRecord) : SameFiles(s) => FilesOf(s) = PlanFiles
<1> SUFFICES ASSUME NEW s \in Seq(ShardRecord), SameFiles(s) PROVE FilesOf(s) = PlanFiles
  OBVIOUS
<1>1. DOMAIN s = DOMAIN Plan
  BY PlanTyped DEF SameFiles
<1>2. \A i \in DOMAIN Plan : s[i].primary = Plan[i].primary
  BY DEF SameFiles
<1>3. QED  BY <1>1, <1>2 DEF FilesOf, PlanFiles

LEMMA FinishBaseKeeps == Inv /\ FinishBase => Inv'
<1> SUFFICES ASSUME Inv, FinishBase PROVE Inv'
  OBVIOUS
<1>1. PICK order \in Orders :
        LET plan == Refinement(order)
        IN  /\ Execute(IF plan.children = <<>> THEN "planning" ELSE "refined",
                       [c \in DOMAIN plan.children |-> Planned(Unmerged(plan.children[c], {}), scanned)])
            /\ replaced' = plan.parents
  BY DEF FinishBase
<1> DEFINE plan == Refinement(order)
           what == IF plan.children = <<>> THEN "planning" ELSE "refined"
           b == [c \in DOMAIN plan.children |-> Planned(Unmerged(plan.children[c], {}), scanned)]
<1>2. /\ stage = "base" /\ WaveOK /\ LastWave
      /\ shards' = batch /\ reports' = BatchReports /\ reviews' = BatchReviews
      /\ UNCHANGED <<content, budget, scanned, store>>
  BY DEF FinishBase, Results, config
<1>3. TypeOK /\ Workers /\ SameFiles(batch)
  BY <1>2 DEF Inv, Complete
<1>4. LosesNothing(plan)
  BY <1>3, RefinementLosesNothing DEF TypeOK
<1>5. /\ plan.children \in Seq(SUBSET Files) /\ plan.parents \subseteq DOMAIN Plan
      /\ FilesBy(plan.parents) \ CutOff \subseteq UNION Range(plan.children)
  BY <1>4 DEF LosesNothing, PlanRecord
<1>6. Execute(what, b) /\ replaced' = plan.parents
  BY <1>1
<1> HIDE DEF plan
<1>7. b \in Seq(ShardRecord) /\ FilesOf(b) = UNION Range(plan.children)
  BY <1>3, <1>5, RefinedBatch
<1>8. what \in Stages /\ what \in {"planning", "refined"}
  BY DEF Stages
<1> HIDE DEF what, b
<1>9. /\ shards' \in Seq(ShardRecord) /\ reports' \in Seq(ReportRecord) /\ reviews' \in Seq(ReviewRecord)
      /\ InStep(shards', reports', reviews')
  BY <1>2, <1>3, BatchResults DEF TypeOK
<1>10. Complete'
  <2>1. stage' = what /\ batch' = b
    BY <1>6 DEF Execute
  <2>2. SameFiles(shards')
    BY <1>2, <1>3
  <2>3. FilesOf(shards') = PlanFiles
    BY <1>9, <2>2, PlanFilesOf
  <2>4. FilesBy(replaced') \ CutOff \subseteq FilesOf(b)
    BY <1>5, <1>6, <1>7
  <2>5. CutOff' = CutOff
    BY <1>2, SameCutOff
  <2>6. stage' \notin {"base", "evidence", "gap", "saving"}
    BY <1>8, <2>1
  <2>7. SameFiles(shards)' /\ FilesOf(shards)' = PlanFiles /\ FilesOf(batch)' = FilesOf(b)
    BY <2>1, <2>2, <2>3 DEF SameFiles, FilesOf
  <2>8. (UNION {Plan[i].primary : i \in replaced'}) \ CutOff' \subseteq FilesOf(batch)'
    BY <2>4, <2>5, <2>7 DEF FilesBy
  <2>9. PlanFiles \ CutOff' \subseteq FilesOf(shards)'
    BY <2>7
  <2>10. QED  BY <2>6, <2>7, <2>8, <2>9 DEF Complete, PlanFiles
<1>11. Filed' /\ replaced' \subseteq DOMAIN Plan /\ scanned' \in Contents
  BY <1>2, <1>3, <1>5, <1>6, FiledKept DEF Inv, TypeOK
<1>12. QED  BY <1>2, <1>6, <1>7, <1>8, <1>9, <1>10, <1>11, StageSteps

\* After planning, no more shards are replaced.
LEMMA Covered ==
  ASSUME budget' = budget, PlanFiles \ CutOff \subseteq FilesOf(shards'),
         stage' \notin {"base", "refined"}
  PROVE  Complete'
<1>1. CutOff' = CutOff
  BY SameCutOff
<1>2. FilesOf(shards)' = FilesOf(shards')
  BY DEF FilesOf
<1>3. QED  BY <1>1, <1>2 DEF Complete, PlanFiles

LEMMA FinishRefinedKeeps == Inv /\ FinishRefined => Inv'
<1> SUFFICES ASSUME Inv, FinishRefined PROVE Inv'
  OBVIOUS
<1>1. /\ stage = "refined" /\ WaveOK /\ LastWave
      /\ shards' = Kept(shards) \o batch /\ reports' = Kept(reports) \o BatchReports
      /\ reviews' = Kept(reviews) \o BatchReviews /\ Execute("planning", <<>>)
      /\ UNCHANGED <<content, budget, scanned, replaced, store>>
  BY DEF FinishRefined, Results, config
<1>2. /\ TypeOK /\ Workers /\ InStep(shards, reports, reviews) /\ SameFiles(shards)
      /\ FilesBy(replaced) \ CutOff \subseteq FilesOf(batch)
  BY <1>1 DEF Inv, Aligned, Complete, FilesBy
<1>3. /\ batch \in Seq(ShardRecord) /\ BatchReports \in Seq(ReportRecord)
      /\ BatchReviews \in Seq(ReviewRecord) /\ InStep(batch, BatchReports, BatchReviews)
  BY <1>1, <1>2, BatchResults DEF TypeOK
<1>4. /\ Kept(shards) \in Seq(ShardRecord) /\ Kept(reports) \in Seq(ReportRecord)
      /\ Kept(reviews) \in Seq(ReviewRecord) /\ InStep(Kept(shards), Kept(reports), Kept(reviews))
      /\ \A k \in DOMAIN shards \ replaced : \E i \in DOMAIN Kept(shards) : Kept(shards)[i] = shards[k]
  BY <1>2, StepsKept DEF TypeOK
<1>5. /\ shards' \in Seq(ShardRecord) /\ reports' \in Seq(ReportRecord) /\ reviews' \in Seq(ReviewRecord)
      /\ InStep(shards', reports', reviews')
  BY <1>1, <1>3, <1>4, StepsJoined
<1>6. PlanFiles \ CutOff \subseteq FilesOf(shards')
  <2> SUFFICES ASSUME NEW f \in PlanFiles, f \notin CutOff PROVE f \in FilesOf(shards')
    OBVIOUS
  <2>1. PICK k \in DOMAIN Plan : f \in Plan[k].primary
    BY DEF PlanFiles
  <2>2. FilesOf(Kept(shards)) \cup FilesOf(batch) \subseteq FilesOf(shards')
    BY <1>1, <1>3, <1>4, FilesJoined
  <2>3. CASE k \in replaced
    BY <1>2, <2>1, <2>2, <2>3 DEF FilesBy
  <2>4. CASE k \notin replaced
    <3>1. k \in DOMAIN shards /\ f \in shards[k].primary
      BY <1>2, <2>1, PlanTyped DEF SameFiles, TypeOK
    <3>2. f \in FilesOf(Kept(shards))
      BY <1>4, <2>4, <3>1 DEF FilesOf
    <3>3. QED  BY <2>2, <3>2
  <2>5. QED  BY <2>3, <2>4
<1>7. stage' = "planning" /\ "planning" \in Stages
  BY <1>1 DEF Execute, Stages
<1>8. Complete'
  BY <1>1, <1>6, <1>7, Covered
<1>9. Filed' /\ replaced' \subseteq DOMAIN Plan /\ scanned' \in Contents
  BY <1>1, <1>2, FiledKept DEF Inv, TypeOK
<1>10. QED  BY <1>1, <1>5, <1>7, <1>8, <1>9, EmptyBatch, StageSteps

\* A step after planning that leaves the results alone.
LEMMA PlanningKeeps ==
  ASSUME Inv, stage = "planning", NEW what \in {"evidence", "gap", "saving"},
         NEW b \in Seq(ShardRecord), Execute(what, b),
         UNCHANGED <<content, budget, scanned, shards, reports, reviews, replaced, store>>
  PROVE  Inv'
<1>1. what \in Stages /\ stage' = what
  BY DEF Stages, Execute
<1>2. PlanFiles \ CutOff \subseteq FilesOf(shards')
  BY DEF Inv, Complete
<1>3. Complete'
  BY <1>1, <1>2, Covered
<1>4. /\ shards' \in Seq(ShardRecord) /\ reports' \in Seq(ReportRecord) /\ reviews' \in Seq(ReviewRecord)
      /\ InStep(shards', reports', reviews') /\ replaced' \subseteq DOMAIN Plan /\ scanned' \in Contents
  BY DEF Inv, TypeOK, Aligned
<1>5. Filed'
  BY FiledKept DEF Inv
<1>6. QED  BY <1>1, <1>3, <1>4, <1>5, StageSteps

\* One more shard, planned from the scan.
LEMMA ExtraShard ==
  ASSUME TypeOK, NEW p \in SUBSET Files, NEW q \in SUBSET Files
  PROVE  <<Planned(Unmerged(p, q), scanned)>> \in Seq(ShardRecord)
<1> DEFINE u == Unmerged(p, q)
<1>1. u.primary = p /\ u.reference = q
  BY UnmergedFiles
<1>2. content \in Contents /\ scanned \in Contents
  BY DEF TypeOK
<1> HIDE DEF u
<1>3. Planned(u, scanned) \in ShardRecord
  BY <1>1, <1>2, PrintsTyped
<1>4. QED  BY <1>3 DEF u

LEMMA EvidenceKeeps == Inv /\ PlanEvidence => Inv'
<1> SUFFICES ASSUME Inv, PlanEvidence PROVE Inv'
  OBVIOUS
<1>1. PICK fs \in SUBSET Files : Execute("evidence", <<Planned(Unmerged(fs, {}), scanned)>>)
  BY DEF PlanEvidence
<1>2. /\ stage = "planning"
      /\ UNCHANGED <<content, budget, scanned, shards, reports, reviews, replaced, store>>
  BY DEF PlanEvidence, config, result
<1>3. <<Planned(Unmerged(fs, {}), scanned)>> \in Seq(ShardRecord)
  BY ExtraShard DEF Inv
<1>4. QED  BY <1>1, <1>2, <1>3, PlanningKeeps

LEMMA GapKeeps == Inv /\ PlanGap => Inv'
<1> SUFFICES ASSUME Inv, PlanGap PROVE Inv'
  OBVIOUS
<1>1. /\ stage = "planning"
      /\ UNCHANGED <<content, budget, scanned, shards, reports, reviews, replaced, store>>
  BY DEF PlanGap, config, result
<1>2. CASE Execute("saving", <<>>)
  BY <1>1, <1>2, EmptyBatch, PlanningKeeps
<1>3. ASSUME NEW i \in DOMAIN shards,
             Execute("gap", <<Planned(Unmerged(shards[i].primary, shards[i].reference), scanned)>>)
      PROVE  Inv'
  <2>1. shards[i] \in ShardRecord
    BY DEF Inv, TypeOK
  <2>2. <<Planned(Unmerged(shards[i].primary, shards[i].reference), scanned)>> \in Seq(ShardRecord)
    BY <2>1, ShardFiles, ExtraShard DEF Inv
  <2>3. QED  BY <1>1, <1>3, <2>2, PlanningKeeps
<1>4. QED  BY <1>2, <1>3 DEF PlanGap

LEMMA FinishExtraKeeps == Inv /\ FinishExtra => Inv'
<1> SUFFICES ASSUME Inv, FinishExtra PROVE Inv'
  OBVIOUS
<1> DEFINE what == IF stage = "evidence" THEN "planning" ELSE "saving"
<1>1. /\ stage \in {"evidence", "gap"} /\ WaveOK /\ LastWave
      /\ shards' = shards \o batch /\ reports' = reports \o BatchReports
      /\ reviews' = reviews \o BatchReviews /\ Execute(what, <<>>)
      /\ UNCHANGED <<content, budget, scanned, replaced, store>>
  BY DEF FinishExtra, Results, config
<1>2. what \in {"planning", "saving"}
  OBVIOUS
<1> HIDE DEF what
<1>3. TypeOK /\ Workers /\ InStep(shards, reports, reviews) /\ PlanFiles \ CutOff \subseteq FilesOf(shards)
  BY <1>1 DEF Inv, Aligned, Complete
<1>4. /\ batch \in Seq(ShardRecord) /\ BatchReports \in Seq(ReportRecord)
      /\ BatchReviews \in Seq(ReviewRecord) /\ InStep(batch, BatchReports, BatchReviews)
  BY <1>1, <1>3, BatchResults DEF TypeOK
<1>5. /\ shards' \in Seq(ShardRecord) /\ reports' \in Seq(ReportRecord) /\ reviews' \in Seq(ReviewRecord)
      /\ InStep(shards', reports', reviews')
  BY <1>1, <1>3, <1>4, StepsJoined DEF TypeOK
<1>6. PlanFiles \ CutOff \subseteq FilesOf(shards')
  BY <1>1, <1>3, <1>4, FilesJoined DEF TypeOK
<1>7. stage' = what /\ what \in Stages
  BY <1>1, <1>2 DEF Execute, Stages
<1>8. Complete'
  BY <1>1, <1>2, <1>6, <1>7, Covered
<1>9. Filed' /\ replaced' \subseteq DOMAIN Plan /\ scanned' \in Contents
  BY <1>1, <1>3, FiledKept DEF Inv, TypeOK
<1>10. QED  BY <1>1, <1>5, <1>7, <1>8, <1>9, EmptyBatch, StageSteps

-----------------------------------------------------------------------------
(* The invariant, and what it says of a run that is about to be saved.     *)

LEMMA InvInductive == Inv /\ [Next]_vars => Inv'
<1> SUFFICES ASSUME Inv, [Next]_vars PROVE Inv'
  OBVIOUS
<1>1. CASE \E f \in Edited : Edit(f)
  BY <1>1, EditKeeps
<1>2. CASE Cancel
  <2>1. UNCHANGED spoken
    BY <1>2 DEF Cancel, spoken, config, running, result
  <2>2. QED  BY <2>1, IdleKeeps
<1>3. CASE StartRun
  BY <1>3, StartRunKeeps
<1>4. CASE \E i \in DOMAIN batch : ShardStep(i)
  BY <1>4, StartKeeps, FailKeeps, ReportKeeps, ReviseKeeps DEF ShardStep
<1>5. CASE Advance
  BY <1>5, NextWaveKeeps, RunFailsKeeps, FinishBaseKeeps, FinishRefinedKeeps, GapKeeps,
     FinishExtraKeeps, SaveKeeps DEF Advance
<1>6. CASE PlanEvidence
  BY <1>6, EvidenceKeeps
<1>7. CASE UNCHANGED vars
  <2>1. UNCHANGED spoken
    BY <1>7 DEF vars, spoken, config, running, result
  <2>2. QED  BY <2>1, IdleKeeps
<1>8. QED  BY <1>1, <1>2, <1>3, <1>4, <1>5, <1>6, <1>7 DEF Next

\* Every variable has its type: a worker's report and review are there when
\* the code reads them, and the three slices hold shards, reports and reviews.
THEOREM AnalysisTypes == Spec => []TypeOK
<1>1. Inv => TypeOK
  BY DEF Inv
<1>2. QED  BY <1>1, InitInv, InvInductive, PTL DEF Spec

\* Refinement replaces shards, and no file of the plan is lost on the way to
\* the run file, but for those cut off by the budget.
THEOREM NoFileIsDropped == Spec => []NothingDropped
<1>1. Inv => NothingDropped
  BY DEF Inv, Complete, NothingDropped, PlanFiles, FilesOf
<1>2. QED  BY <1>1, InitInv, InvInductive, PTL DEF Spec

\* A run is saved as "completed" only if every shard has its own parsed report
\* and its own review, none of which failed or asked for more.
THEOREM CompletedRunsAreReviewed == Spec => []CompletedIsReviewed
<1>1. Inv => CompletedIsReviewed
  <2> SUFFICES ASSUME Inv, Summary = "completed"
               PROVE  /\ \A i \in DOMAIN shards :
                           /\ reports[i].shard = shards[i].primary /\ reviews[i].shard = shards[i].primary
                           /\ reports[i].kind = "ok"
                           /\ reviews[i].status \in {"approved", "model_review_skipped"}
                      /\ \E i \in DOMAIN shards : reviews[i].status = "approved"
    BY DEF CompletedIsReviewed
  <2>1. /\ ~ \E i \in DOMAIN reports : reports[i].kind = "parse_failed"
        /\ Reviewed("approved") # {}
        /\ Reviewed("review_failed") \cup Reviewed("needs_revision") = {}
    BY DEF Summary
  <2>2. DOMAIN reports = DOMAIN shards /\ DOMAIN reviews = DOMAIN shards
    BY DEF Inv, Aligned, InStep, TypeOK
  <2>3. \E i \in DOMAIN shards : reviews[i].status = "approved"
    BY <2>1, <2>2 DEF Reviewed
  <2>4. ASSUME NEW i \in DOMAIN shards
        PROVE  /\ reports[i].shard = shards[i].primary /\ reviews[i].shard = shards[i].primary
               /\ reports[i].kind = "ok"
               /\ reviews[i].status \in {"approved", "model_review_skipped"}
    <3>1. reports[i] \in ReportRecord /\ reviews[i] \in ReviewRecord
      BY <2>2 DEF Inv, TypeOK
    <3>2. reviews[i].status \notin {"review_failed", "needs_revision"} /\ reports[i].kind # "parse_failed"
      BY <2>1, <2>2 DEF Reviewed
    <3>3. Matches(shards[i], reports[i], reviews[i])
      BY DEF Inv, Aligned, InStep
    <3>4. QED  BY <3>1, <3>2, <3>3 DEF Matches, ReportRecord, ReviewRecord
  <2>5. QED  BY <2>3, <2>4
<1>2. QED  BY <1>1, InitInv, InvInductive, PTL DEF Spec

-----------------------------------------------------------------------------
(* Which texts fingerprints and reports are of.                            *)

\* What the index prints is of the scan; what the text prints is of the files
\* as they are when the shard is planned.
LEMMA PlannedPrints ==
  ASSUME NEW shard, NEW indexed
  PROVE  LET s == Planned(shard, indexed)
         IN  /\ s.prints.shape = [f \in Reads(s) |-> Shape[indexed[f]]]
             /\ s.prints.text \in {None, See(Reads(s))}
<1> DEFINE s == Planned(shard, indexed)
           fs == shard.primary \cup shard.reference
<1>1. Reads(s) = fs /\ s.prints = Prints(shard, indexed)
  BY PlannedFiles DEF Reads
<1>2. /\ Prints(shard, indexed).shape = [f \in fs |-> Shape[indexed[f]]]
      /\ Prints(shard, indexed).text \in {None, See(fs)}
  BY DEF Prints
<1> HIDE DEF s, fs
<1>3. QED  BY <1>1, <1>2 DEF s

LEMMA InitDated == Init => Dated
BY DEF Init, Dated, BatchDated, ResultsDated, FileDated

LEMMA DatedKept ==
  ASSUME Dated, UNCHANGED <<stage, scanned, batch, work, shards, reports, store>>
  PROVE  Dated'
<1>1. BatchDated'
  BY DEF Dated, BatchDated
<1>2. ResultsDated(shards, reports)' /\ FileDated(store)'
  BY DEF Dated, ResultsDated, FileDated
<1>3. QED  BY <1>1, <1>2 DEF Dated

\* A step of one worker.
LEMMA WorkerStepDated ==
  ASSUME Inv, Dated, NEW i \in DOMAIN batch, NEW x \in Progress, Shard(i, x),
         x.reused => stage = "base" \/ work[i].reused,
         x.pc \in {"asked", "done"} => Fits(batch[i].prints, x.report)
  PROVE  Dated'
<1>1. UNCHANGED besides /\ work' = [work EXCEPT ![i] = x]
  BY DEF Shard, besides, config, result, bounds
<1>2. work \in [DOMAIN batch -> Progress]
  BY DEF Inv, TypeOK
<1>3. work'[i] = x /\ \A k \in DOMAIN batch : k # i => work'[k] = work[k]
  BY <1>1, <1>2
<1>4. UNCHANGED <<stage, scanned, batch, shards, reports, store>>
  BY <1>1 DEF besides
<1>5. ASSUME NEW k \in DOMAIN batch
      PROVE  /\ batch[k].prints.shape = [f \in Reads(batch[k]) |-> Shape[scanned[f]]]
             /\ stage = "base" \/ work'[k].reused => batch[k].prints.text \in {None, On(scanned, Reads(batch[k]))}
             /\ work'[k].pc \in {"asked", "done"} => Fits(batch[k].prints, work'[k].report)
  <2>1. /\ batch[k].prints.shape = [f \in Reads(batch[k]) |-> Shape[scanned[f]]]
        /\ stage = "base" \/ work[k].reused => batch[k].prints.text \in {None, On(scanned, Reads(batch[k]))}
        /\ work[k].pc \in {"asked", "done"} => Fits(batch[k].prints, work[k].report)
    BY DEF Dated, BatchDated
  <2>2. CASE k = i  BY <1>3, <2>1, <2>2
  <2>3. CASE k # i  BY <1>3, <2>1, <2>3
  <2>4. QED  BY <2>2, <2>3
<1>6. BatchDated'
  BY <1>4, <1>5 DEF BatchDated
<1>7. ResultsDated(shards, reports)' /\ FileDated(store)'
  BY <1>4 DEF Dated, ResultsDated, FileDated
<1>8. QED  BY <1>6, <1>7 DEF Dated

LEMMA AskedDated ==
  ASSUME Inv, Dated, NEW i \in DOMAIN batch, NEW n \in Nat, Shard(i, Asked(i, n))
  PROVE  Dated'
<1> DEFINE x == Asked(i, n)
           p == batch[i].prints
           fs == Reads(batch[i])
<1>1. /\ x \in Progress /\ x.reused = work[i].reused /\ x.report.saw = See(fs)
      /\ x.report.steady <=> See(fs) = IF p.text = None THEN Scanned(fs) ELSE p.text
  BY AskedReport DEF Inv
<1>2. p.shape = [f \in fs |-> Shape[scanned[f]]]
  BY DEF Dated, BatchDated
<1>3. Shard(i, x)
  OBVIOUS
<1> HIDE DEF x, p, fs
<1>4. Fits(p, x.report)
  <2> SUFFICES ASSUME x.report.steady
               PROVE  IF p.text = None THEN p.shape = [f \in DOMAIN p.shape |-> Shape[x.report.saw[f]]]
                                       ELSE x.report.saw = p.text
    BY DEF Fits
  <2>1. CASE p.text = None
    <3>1. DOMAIN p.shape = fs
      BY <1>2
    <3>2. \A f \in fs : x.report.saw[f] = scanned[f]
      BY <1>1, <2>1 DEF Scanned
    <3>3. QED  BY <1>2, <2>1, <3>1, <3>2
  <2>2. CASE p.text # None
    BY <1>1, <2>2
  <2>3. QED  BY <2>1, <2>2
<1>5. QED  BY <1>1, <1>3, <1>4, WorkerStepDated DEF p

\* A report that is done saw what it saw when it was asked for.
LEMMA DoneDated ==
  ASSUME Inv, Dated, NEW i \in DOMAIN batch, work[i].pc = "asked",
         NEW kind \in {"ok", "parse_failed", "provider_failed"},
         NEW verdict \in {"approved", "model_review_skipped", "review_failed", "needs_revision"},
         Shard(i, Done(i, kind, verdict))
  PROVE  Dated'
<1> DEFINE x == Done(i, kind, verdict)
<1>1. work[i] \in Progress /\ work[i].report \in ReportRecord /\ batch[i] \in ShardRecord
  BY DEF Inv, TypeOK, Workers, Worker
<1>2. /\ x \in Progress /\ x.reused = work[i].reused
      /\ x.report.steady => work[i].report.steady /\ x.report.saw = work[i].report.saw
  BY <1>1, DoneWorker
<1>3. Shard(i, x)
  OBVIOUS
<1> HIDE DEF x
<1>4. Fits(batch[i].prints, work[i].report)
  BY DEF Dated, BatchDated
<1>5. Fits(batch[i].prints, x.report)
  BY <1>2, <1>4 DEF Fits
<1>6. QED  BY <1>2, <1>3, <1>5, WorkerStepDated

LEMMA FailedDated ==
  ASSUME Inv, Dated, NEW i \in DOMAIN batch, Shard(i, [work[i] EXCEPT !.pc = "failed"])
  PROVE  Dated'
<1> DEFINE x == [work[i] EXCEPT !.pc = "failed"]
<1>1. x \in Progress /\ x.pc = "failed" /\ x.reused = work[i].reused
  BY FailedWorker DEF Inv, TypeOK
<1>2. Shard(i, x)
  OBVIOUS
<1> HIDE DEF x
<1>3. QED  BY <1>1, <1>2, WorkerStepDated

\* A report is reused: its fingerprints, in the file, are those of the shard.
LEMMA ReusedDated ==
  ASSUME Inv, Dated, NEW i \in DOMAIN batch, Reusable(i),
         Shard(i, [work[i] EXCEPT !.pc = "done", !.reused = TRUE, !.report = Previous(i).report,
                     !.review = [shard |-> batch[i].primary, status |-> "approved"]])
  PROVE  Dated'
<1> DEFINE e == Previous(i)
           v == [shard |-> batch[i].primary, status |-> "approved"]
           x == WithReused(work[i], e.report, v)
<1>1. work[i] \in Progress /\ batch[i] \in ShardRecord
  BY DEF Inv, TypeOK
<1>2. /\ store \notin {None, Torn} /\ batch[i].primary \in DOMAIN store /\ e = store[batch[i].primary]
      /\ e # None /\ e.report # None /\ e.report \in ReportRecord
  BY PreviousReport
<1>3. e.prints = batch[i].prints /\ stage = "base"
  BY DEF Reusable
<1>4. Fits(batch[i].prints, e.report)
  BY <1>2, <1>3 DEF Dated, FileDated
<1>5. v \in ReviewRecord
  BY <1>1 DEF ReviewRecord, ShardRecord
<1>6. Shard(i, x)
  BY DEF WithReused
<1> HIDE DEF e, v
<1>7. x \in Progress /\ x.report = e.report
  BY <1>1, <1>2, <1>5, ReusedWorker
<1> HIDE DEF x
<1>8. QED  BY <1>3, <1>4, <1>6, <1>7, WorkerStepDated

LEMMA ShardStepDated ==
  ASSUME Inv, Dated, NEW i \in DOMAIN batch, ShardStep(i)
  PROVE  Dated'
<1>1. CASE StartShard(i)
  <2>1. CASE Reusable(i)
    BY <1>1, <2>1, ReusedDated DEF StartShard
  <2>2. CASE ~Reusable(i)
    BY <1>1, <2>2, AskedDated DEF StartShard
  <2>3. QED  BY <2>1, <2>2
<1>2. CASE WorkerFails(i)
  <2>1. work[i].pc = "asked"
    BY <1>2 DEF WorkerFails
  <2>2. CASE canceled
    BY <1>2, <2>2, FailedDated DEF WorkerFails
  <2>3. CASE ~canceled
    BY <1>2, <2>1, <2>3, DoneDated DEF WorkerFails
  <2>4. QED  BY <2>2, <2>3
<1>3. CASE ShardReported(i)
  <2>1. PICK kind \in {"ok", "parse_failed"},
             verdict \in {"approved", "model_review_skipped", "review_failed", "needs_revision"} :
          work[i].pc = "asked" /\ Shard(i, Done(i, kind, verdict))
    BY <1>3 DEF ShardReported
  <2>2. QED  BY <2>1, DoneDated
<1>4. CASE ShardRevised(i)
  <2>1. Shard(i, Asked(i, work[i].attempt + 1))
    BY <1>4 DEF ShardRevised
  <2>2. work[i].attempt + 1 \in Nat
    BY DEF Inv, TypeOK, Progress
  <2>3. QED  BY <2>1, <2>2, AskedDated
<1>5. QED  BY <1>1, <1>2, <1>3, <1>4 DEF ShardStep

\* A step to the next stage, whose shards are planned from the scan.
LEMMA StageDated ==
  ASSUME NEW what \in Stages, NEW b \in Seq(ShardRecord), Execute(what, b),
         \A i \in DOMAIN b : /\ b[i].prints.shape = [f \in Reads(b[i]) |-> Shape[scanned'[f]]]
                             /\ what = "base" => b[i].prints.text \in {None, On(scanned', Reads(b[i]))},
         ResultsDated(shards', reports'), FileDated(store')
  PROVE  Dated'
<1>1. stage' = what /\ batch' = b /\ \A i \in DOMAIN batch' : work'[i].pc = "waiting" /\ ~work'[i].reused
  BY BatchStarts
<1>2. BatchDated'
  BY <1>1 DEF BatchDated
<1>3. ResultsDated(shards, reports)' /\ FileDated(store)'
  BY DEF ResultsDated, FileDated
<1>4. QED  BY <1>2, <1>3 DEF Dated

LEMMA EmptyStageDated ==
  ASSUME NEW what \in Stages, Execute(what, <<>>), ResultsDated(shards', reports'), FileDated(store')
  PROVE  Dated'
<1>1. \A i \in DOMAIN <<>> : FALSE
  OBVIOUS
<1>2. QED  BY <1>1, EmptyBatch, StageDated

LEMMA StartRunDated == Inv /\ Dated /\ StartRun => Dated'
<1> SUFFICES ASSUME Inv, Dated, StartRun PROVE Dated'
  OBVIOUS
<1> DEFINE b == [i \in DOMAIN Plan |-> Planned(Plan[i], content)]
<1>1. scanned' = content /\ Execute("base", b) /\ UNCHANGED <<shards, reports, store>>
  BY DEF StartRun, result
<1>2. b \in Seq(ShardRecord)
  BY FirstBatch DEF Inv, TypeOK
<1>3. \A i \in DOMAIN b : /\ b[i].prints.shape = [f \in Reads(b[i]) |-> Shape[content[f]]]
                          /\ b[i].prints.text \in {None, See(Reads(b[i]))}
  BY PlannedPrints
<1> HIDE DEF b
<1>4. \A i \in DOMAIN b : See(Reads(b[i])) = On(scanned', Reads(b[i]))
  BY <1>1 DEF See, On
<1>5. ResultsDated(shards', reports') /\ FileDated(store')
  BY <1>1 DEF Dated
<1>6. "base" \in Stages
  BY DEF Stages
<1>7. QED  BY <1>1, <1>2, <1>3, <1>4, <1>5, <1>6, StageDated

LEMMA ReturnDated ==
  ASSUME Return, FileDated(store')
  PROVE  Dated'
<1>1. Execute("idle", <<>>) /\ shards' = <<>>
  BY DEF Return, Results
<1>2. ResultsDated(shards', reports')
  BY <1>1 DEF ResultsDated
<1>3. "idle" \in Stages
  BY DEF Stages
<1>4. QED  BY <1>1, <1>2, <1>3, EmptyStageDated

LEMMA SaveDated == Inv /\ Dated /\ Save => Dated'
<1> SUFFICES ASSUME Inv, Dated, Save PROVE Dated'
  OBVIOUS
<1>1. Return /\ store' \in {store, Torn, Stored}
  BY DEF Save
<1>2. FileDated(Stored)
  <2>1. ASSUME NEW fs \in DOMAIN Stored, Stored[fs] # None, Stored[fs].report # None
        PROVE  Fits(Stored[fs].prints, Stored[fs].report)
    <3>1. PICK i \in DOMAIN shards :
            Stored[fs].prints = shards[i].prints /\ Stored[fs].report = reports[i]
      BY <2>1, StoredShard DEF Inv
    <3>2. QED  BY <3>1 DEF Dated, ResultsDated
  <2> DEFINE kept == Stored
  <2> HIDE DEF kept
  <2>2. FileDated(kept)
    BY <2>1 DEF FileDated, kept
  <2>3. QED  BY <2>2 DEF kept
<1>3. FileDated(store) /\ FileDated(Torn)
  BY DEF Dated, FileDated
<1>4. QED  BY <1>1, <1>2, <1>3, ReturnDated

\* The results of a batch: the reports fit their shards.
LEMMA BatchResultsDated ==
  ASSUME Inv, Dated, WaveOK, LastWave
  PROVE  ResultsDated(batch, BatchReports)
<1> SUFFICES ASSUME NEW i \in DOMAIN batch
             PROVE  Fits(batch[i].prints, BatchReports[i])
  BY DEF ResultsDated
<1>1. BatchReports[i] = work[i].report
  BY BatchResults DEF Inv
<1>2. work[i].pc = "done"
  BY AllDone DEF Inv
<1>3. QED  BY <1>1, <1>2 DEF Dated, BatchDated

LEMMA FinishBaseDated == Inv /\ Dated /\ FinishBase => Dated'
<1> SUFFICES ASSUME Inv, Dated, FinishBase PROVE Dated'
  OBVIOUS
<1>1. PICK order \in Orders :
        LET plan == Refinement(order)
        IN  /\ Execute(IF plan.children = <<>> THEN "planning" ELSE "refined",
                       [c \in DOMAIN plan.children |-> Planned(Unmerged(plan.children[c], {}), scanned)])
            /\ replaced' = plan.parents
  BY DEF FinishBase
<1> DEFINE children == Refinement(order).children
           what == IF children = <<>> THEN "planning" ELSE "refined"
           b == [c \in DOMAIN children |-> Planned(Unmerged(children[c], {}), scanned)]
<1>2. /\ WaveOK /\ LastWave
      /\ shards' = batch /\ reports' = BatchReports /\ UNCHANGED <<scanned, store>>
  BY DEF FinishBase, Results
<1>3. Execute(what, b)
  BY <1>1
<1>4. children \in Seq(SUBSET Files)
  BY RefinementLosesNothing DEF Inv, TypeOK, LosesNothing, PlanRecord
<1> HIDE DEF children
<1>5. b \in Seq(ShardRecord)
  BY <1>4, RefinedBatch DEF Inv
<1>6. what \in Stages /\ what # "base"
  BY DEF Stages
<1>7. \A c \in DOMAIN b : b[c].prints.shape = [f \in Reads(b[c]) |-> Shape[scanned[f]]]
  BY PlannedPrints
<1> HIDE DEF what, b
<1>8. ResultsDated(shards', reports') /\ FileDated(store')
  BY <1>2, BatchResultsDated DEF Dated
<1>9. QED  BY <1>2, <1>3, <1>5, <1>6, <1>7, <1>8, StageDated

\* Results that are extended by those of a batch.
LEMMA ResultsJoined ==
  ASSUME Inv, Dated, WaveOK, LastWave,
         NEW s \in Seq(ShardRecord), NEW r \in Seq(ReportRecord), Len(r) = Len(s), ResultsDated(s, r)
  PROVE  ResultsDated(s \o batch, r \o BatchReports)
<1> DEFINE st == s \o batch
           rq == r \o BatchReports
<1>1. /\ batch \in Seq(ShardRecord) /\ BatchReports \in Seq(ReportRecord)
      /\ Len(BatchReports) = Len(batch) /\ ResultsDated(batch, BatchReports)
  BY BatchResults, BatchResultsDated DEF Inv, TypeOK, InStep
<1>2. /\ DOMAIN r = DOMAIN s /\ DOMAIN BatchReports = DOMAIN batch
      /\ Len(st) = Len(s) + Len(batch) /\ st \in Seq(ShardRecord)
      /\ Len(rq) = Len(r) + Len(BatchReports) /\ rq \in Seq(ReportRecord)
  <2>1. DOMAIN r = DOMAIN s /\ DOMAIN BatchReports = DOMAIN batch
    BY <1>1
  <2>2. Len(st) = Len(s) + Len(batch) /\ st \in Seq(ShardRecord)
    BY <1>1, Joined
  <2>3. Len(rq) = Len(r) + Len(BatchReports) /\ rq \in Seq(ReportRecord)
    BY <1>1, Joined
  <2>4. QED  BY <2>1, <2>2, <2>3
<1>3. \A i \in DOMAIN st : \/ i \in DOMAIN s /\ st[i] = s[i]
                           \/ i \notin DOMAIN s /\ i - Len(s) \in DOMAIN batch /\ st[i] = batch[i - Len(s)]
  BY <1>1, Joined
<1>4. \A i \in DOMAIN rq : \/ i \in DOMAIN r /\ rq[i] = r[i]
                           \/ /\ i \notin DOMAIN r /\ i - Len(r) \in DOMAIN BatchReports
                              /\ rq[i] = BatchReports[i - Len(r)]
  BY <1>1, Joined
<1> HIDE DEF st, rq
<1>5. DOMAIN st = DOMAIN rq
  BY <1>1, <1>2
<1>6. ASSUME NEW i \in DOMAIN st PROVE Fits(st[i].prints, rq[i])
  <2>1. CASE i \in DOMAIN s
    BY <1>2, <1>3, <1>4, <1>5, <2>1 DEF ResultsDated
  <2>2. CASE i \notin DOMAIN s
    <3>1. i - Len(s) \in DOMAIN batch /\ st[i] = batch[i - Len(s)] /\ rq[i] = BatchReports[i - Len(s)]
      BY <1>2, <1>3, <1>4, <1>5, <2>2
    <3>2. QED  BY <1>1, <3>1 DEF ResultsDated
  <2>3. QED  BY <2>1, <2>2
<1>7. ResultsDated(st, rq)
  BY <1>6 DEF ResultsDated
<1>8. QED  BY <1>7 DEF st, rq

LEMMA FinishRefinedDated == Inv /\ Dated /\ FinishRefined => Dated'
<1> SUFFICES ASSUME Inv, Dated, FinishRefined PROVE Dated'
  OBVIOUS
<1>1. /\ WaveOK /\ LastWave /\ Execute("planning", <<>>) /\ store' = store
      /\ shards' = Kept(shards) \o batch /\ reports' = Kept(reports) \o BatchReports
  BY DEF FinishRefined, Results
<1>2. /\ Kept(shards) \in Seq(ShardRecord) /\ Kept(reports) \in Seq(ReportRecord)
      /\ Len(Kept(reports)) = Len(Kept(shards))
      /\ \A i \in DOMAIN Kept(shards) : \E k \in DOMAIN shards :
           Kept(shards)[i] = shards[k] /\ Kept(reports)[i] = reports[k]
  <2>1. /\ shards \in Seq(ShardRecord) /\ reports \in Seq(ReportRecord) /\ reviews \in Seq(ReviewRecord)
        /\ InStep(shards, reports, reviews)
    BY DEF Inv, TypeOK, Aligned
  <2>2. /\ Kept(shards) \in Seq(ShardRecord) /\ Kept(reports) \in Seq(ReportRecord)
        /\ InStep(Kept(shards), Kept(reports), Kept(reviews))
        /\ \A i \in DOMAIN Kept(shards) : \E k \in DOMAIN shards :
             Kept(shards)[i] = shards[k] /\ Kept(reports)[i] = reports[k] /\ Kept(reviews)[i] = reviews[k]
    BY <2>1, StepsKept
  <2>3. QED  BY <2>2 DEF InStep
<1>3. ResultsDated(Kept(shards), Kept(reports))
  BY <1>2 DEF Dated, ResultsDated
<1>4. ResultsDated(shards', reports')
  BY <1>1, <1>2, <1>3, ResultsJoined
<1>5. FileDated(store') /\ "planning" \in Stages
  BY <1>1 DEF Dated, Stages
<1>6. QED  BY <1>1, <1>4, <1>5, EmptyStageDated

LEMMA FinishExtraDated == Inv /\ Dated /\ FinishExtra => Dated'
<1> SUFFICES ASSUME Inv, Dated, FinishExtra PROVE Dated'
  OBVIOUS
<1> DEFINE what == IF stage = "evidence" THEN "planning" ELSE "saving"
<1>1. /\ WaveOK /\ LastWave /\ Execute(what, <<>>) /\ store' = store
      /\ shards' = shards \o batch /\ reports' = reports \o BatchReports
  BY DEF FinishExtra, Results
<1>2. what \in Stages
  BY DEF Stages
<1> HIDE DEF what
<1>3. /\ shards \in Seq(ShardRecord) /\ reports \in Seq(ReportRecord)
      /\ Len(reports) = Len(shards) /\ ResultsDated(shards, reports)
  BY DEF Inv, TypeOK, Aligned, InStep, Dated
<1>4. ResultsDated(shards', reports')
  BY <1>1, <1>3, ResultsJoined
<1>5. FileDated(store')
  BY <1>1 DEF Dated
<1>6. QED  BY <1>1, <1>2, <1>4, <1>5, EmptyStageDated

\* One more shard, planned from the scan.
LEMMA OneExtra ==
  ASSUME Inv, Dated, NEW what \in {"evidence", "gap"},
         NEW p \in SUBSET Files, NEW q \in SUBSET Files,
         Execute(what, <<Planned(Unmerged(p, q), scanned)>>),
         UNCHANGED <<scanned, shards, reports, store>>
  PROVE  Dated'
<1> DEFINE s == Planned(Unmerged(p, q), scanned)
<1>1. <<s>> \in Seq(ShardRecord)
  BY ExtraShard DEF Inv
<1>2. s.prints.shape = [f \in Reads(s) |-> Shape[scanned[f]]]
  BY PlannedPrints
<1>3. Execute(what, <<s>>)
  OBVIOUS
<1> HIDE DEF s
<1>4. \A i \in DOMAIN <<s>> : <<s>>[i].prints.shape = [f \in Reads(<<s>>[i]) |-> Shape[scanned'[f]]]
  BY <1>2
<1>5. what \in Stages /\ what # "base" /\ ResultsDated(shards', reports') /\ FileDated(store')
  BY DEF Stages, Dated
<1>6. QED  BY <1>1, <1>3, <1>4, <1>5, StageDated

LEMMA PlanEvidenceDated == Inv /\ Dated /\ PlanEvidence => Dated'
<1> SUFFICES ASSUME Inv, Dated, PlanEvidence PROVE Dated'
  OBVIOUS
<1>1. PICK fs \in SUBSET Files : Execute("evidence", <<Planned(Unmerged(fs, {}), scanned)>>)
  BY DEF PlanEvidence
<1>2. UNCHANGED <<scanned, shards, reports, store>>
  BY DEF PlanEvidence, result
<1>3. QED  BY <1>1, <1>2, OneExtra

LEMMA PlanGapDated == Inv /\ Dated /\ PlanGap => Dated'
<1> SUFFICES ASSUME Inv, Dated, PlanGap PROVE Dated'
  OBVIOUS
<1>1. UNCHANGED <<scanned, shards, reports, store>>
  BY DEF PlanGap, result
<1>2. CASE Execute("saving", <<>>)
  <2>1. "saving" \in Stages /\ ResultsDated(shards', reports') /\ FileDated(store')
    BY <1>1 DEF Stages, Dated
  <2>2. QED  BY <1>2, <2>1, EmptyStageDated
<1>3. ASSUME NEW i \in DOMAIN shards,
             Execute("gap", <<Planned(Unmerged(shards[i].primary, shards[i].reference), scanned)>>)
      PROVE  Dated'
  <2>1. shards[i].primary \in SUBSET Files /\ shards[i].reference \in SUBSET Files
    BY ShardFiles DEF Inv, TypeOK
  <2>2. QED  BY <1>1, <1>3, <2>1, OneExtra
<1>4. QED  BY <1>2, <1>3 DEF PlanGap

LEMMA DatedInductive == Inv /\ Dated /\ [Next]_vars => Dated'
<1> SUFFICES ASSUME Inv, Dated, [Next]_vars PROVE Dated'
  OBVIOUS
<1>1. CASE (\E f \in Edited : Edit(f)) \/ Cancel \/ NextWave \/ UNCHANGED vars
  <2>1. UNCHANGED <<stage, scanned, batch, work, shards, reports, store>>
    BY <1>1 DEF Edit, Cancel, NextWave, vars, config, running, result
  <2>2. QED  BY <2>1, DatedKept
<1>2. CASE StartRun
  BY <1>2, StartRunDated
<1>3. CASE \E i \in DOMAIN batch : ShardStep(i)
  BY <1>3, ShardStepDated
<1>4. CASE RunFails
  BY <1>4, ReturnDated DEF RunFails, Dated
<1>5. CASE FinishBase \/ FinishRefined \/ PlanGap \/ FinishExtra \/ Save
  BY <1>5, FinishBaseDated, FinishRefinedDated, PlanGapDated, FinishExtraDated, SaveDated
<1>6. CASE PlanEvidence
  BY <1>6, PlanEvidenceDated
<1>7. QED  BY <1>1, <1>2, <1>3, <1>4, <1>5, <1>6 DEF Next, Advance

\* A report that is reused saw what this run has scanned, whatever the user
\* edits and undoes and whenever, unless an edit came between the fingerprints
\* and its worker; for a shard that was merged, what it saw has the shape of
\* what this run has scanned.
THEOREM ReuseIsCurrent == Spec => []ReusedIsCurrent
<1>1. Inv /\ Dated /\ [Next]_vars => Inv' /\ Dated'
  BY InvInductive, DatedInductive
<1>2. Inv /\ Dated => ReusedIsCurrent
  <2> SUFFICES ASSUME Inv, Dated, NEW i \in DOMAIN work, work[i].reused, work[i].report.steady,
                      NEW f \in FilesRead(i)
               PROVE  IF batch[i].prints.text = None
                        THEN Shape[work[i].report.saw[f]] = Shape[scanned[f]]
                        ELSE work[i].report.saw[f] = scanned[f]
    BY DEF ReusedIsCurrent
  <2> DEFINE p == batch[i].prints
             r == work[i].report
  <2>1. i \in DOMAIN batch /\ work[i].pc = "done" /\ f \in Reads(batch[i])
    BY DEF Inv, TypeOK, Workers, Worker, FilesRead, Reads
  <2>2. /\ p.shape = [g \in Reads(batch[i]) |-> Shape[scanned[g]]]
        /\ p.text \in {None, On(scanned, Reads(batch[i]))} /\ Fits(p, r)
    BY <2>1 DEF Dated, BatchDated
  <2> HIDE DEF p, r
  <2>3. CASE p.text = None
    <3>1. p.shape = [g \in DOMAIN p.shape |-> Shape[r.saw[g]]] /\ f \in DOMAIN p.shape
      BY <2>1, <2>2, <2>3 DEF Fits, r
    <3>2. p.shape[f] = Shape[r.saw[f]] /\ p.shape[f] = Shape[scanned[f]]
      BY <2>1, <2>2, <3>1
    <3>3. QED  BY <2>3, <3>2 DEF p, r
  <2>4. CASE p.text # None
    <3>1. r.saw = On(scanned, Reads(batch[i]))
      BY <2>2, <2>4 DEF Fits, r
    <3>2. QED  BY <2>1, <2>4, <3>1 DEF On, p, r
  <2>5. QED  BY <2>3, <2>4
<1>3. QED  BY <1>1, <1>2, InitInv, InitDated, PTL DEF Spec

-----------------------------------------------------------------------------
(* The end of a run: how far it is from it, and every step brings it nearer. *)

\* How much of the run is to come after this batch; every evidence or gap
\* batch is one of at most MaxExtras.
Phase == CASE stage = "idle" -> 0
           [] stage = "saving" -> 1
           [] stage = "gap" -> 2
           [] stage = "planning" -> 3 + 2 * (MaxExtras - extras)
           [] stage = "evidence" -> 4 + 2 * (MaxExtras - extras)
           [] stage = "refined" -> 4 + 2 * MaxExtras
           [] stage = "base" -> 5 + 2 * MaxExtras

\* The waves of this batch.
WavesLeft == Len(batch) - wave

\* What a worker has left to do: its first request, and its revisions.
WorkLeft(w) == CASE w.pc = "waiting" -> MaxRevisionRounds + 2
                 [] w.pc = "asked" -> MaxRevisionRounds + 1 - w.attempt
                 [] OTHER -> 0

Counted ==
  /\ extras \in 0 .. MaxExtras
  /\ stage \in {"idle", "base", "refined"} => extras = 0
  /\ wave <= Len(batch)
  /\ \A i \in DOMAIN batch : work[i].pc = "asked" => work[i].attempt <= MaxRevisionRounds

LEMMA CountsTyped ==
  ASSUME Inv
  PROVE  /\ stage \in Stages /\ batch \in Seq(ShardRecord) /\ Len(batch) \in Nat /\ wave \in Nat
         /\ DOMAIN batch = 1 .. Len(batch) /\ work \in [DOMAIN batch -> Progress]
         /\ MaxExtras \in Nat /\ MaxRevisionRounds \in Nat
BY BoundsAssumption DEF Inv, TypeOK

LEMMA Asking ==
  ASSUME NEW i, work[i] \in Progress, NEW n \in Nat
  PROVE  Asked(i, n).pc = "asked" /\ Asked(i, n).attempt = n
<1>1. PICK r : Asked(i, n) = [work[i] EXCEPT !.pc = "asked", !.attempt = n, !.report = r]
  BY DEF Asked
<1>2. Asked(i, n).pc = "asked"
  BY <1>1, Zenon DEF Progress
<1>3. Asked(i, n).attempt = n
  BY <1>1, Zenon DEF Progress
<1>4. QED  BY <1>2, <1>3

\* A worker is asked once, revised at most MaxRevisionRounds times, and done.
Further(w, x) ==
  \/ w.pc \in {"waiting", "asked"} /\ x.pc \in {"done", "failed"}
  \/ w.pc = "waiting" /\ x.pc = "asked" /\ x.attempt = 0
  \/ w.pc = "asked" /\ x.pc = "asked" /\ w.attempt < MaxRevisionRounds /\ x.attempt = w.attempt + 1

LEMMA WorkerAdvances ==
  ASSUME Inv, NEW i \in DOMAIN batch, ShardStep(i)
  PROVE  \E x : Shard(i, x) /\ Further(work[i], x)
<1>1. work[i] \in Progress /\ work[i].attempt \in Nat
  BY CountsTyped DEF Progress
<1>2. CASE StartShard(i)
  <2>1. work[i].pc = "waiting"
    BY <1>2 DEF StartShard
  <2>2. CASE Reusable(i)
    <3> DEFINE x == WithReused(work[i], Previous(i).report,
                               [shard |-> batch[i].primary, status |-> "approved"])
    <3>1. Shard(i, x)
      BY <1>2, <2>2 DEF StartShard, WithReused
    <3>2. x.pc = "done"
      BY <1>1, Zenon DEF WithReused, Progress
    <3> HIDE DEF x
    <3>3. QED  BY <2>1, <3>1, <3>2 DEF Further
  <2>3. CASE ~Reusable(i)
    <3>1. Shard(i, Asked(i, 0))
      BY <1>2, <2>3 DEF StartShard
    <3>2. QED  BY <1>1, <2>1, <3>1, Asking DEF Further
  <2>4. QED  BY <2>2, <2>3
<1>3. CASE WorkerFails(i)
  <2>1. work[i].pc = "asked"
    BY <1>3 DEF WorkerFails
  <2>2. CASE canceled
    <3> DEFINE x == [work[i] EXCEPT !.pc = "failed"]
    <3>1. Shard(i, x)
      BY <1>3, <2>2 DEF WorkerFails
    <3>2. x.pc = "failed"
      BY <1>1, FailedWorker
    <3> HIDE DEF x
    <3>3. QED  BY <2>1, <3>1, <3>2 DEF Further
  <2>3. CASE ~canceled
    <3> DEFINE x == Done(i, "provider_failed", "review_failed")
    <3>1. Shard(i, x)
      BY <1>3, <2>3 DEF WorkerFails
    <3>2. x.pc = "done"
      BY <1>1, Zenon DEF Done, Progress
    <3> HIDE DEF x
    <3>3. QED  BY <2>1, <3>1, <3>2 DEF Further
  <2>4. QED  BY <2>2, <2>3
<1>4. CASE ShardReported(i)
  <2>1. work[i].pc = "asked"
    BY <1>4 DEF ShardReported
  <2>2. PICK kind, verdict : Shard(i, Done(i, kind, verdict))
    BY <1>4 DEF ShardReported
  <2> DEFINE x == Done(i, kind, verdict)
  <2>3. x.pc = "done" /\ Shard(i, x)
    <3>1. x.pc = "done"
      BY <1>1, Zenon DEF Done, Progress
    <3>2. QED  BY <2>2, <3>1
  <2> HIDE DEF x
  <2>4. QED  BY <2>1, <2>3 DEF Further
<1>5. CASE ShardRevised(i)
  <2>1. /\ work[i].pc = "asked" /\ work[i].attempt < MaxRevisionRounds
        /\ Shard(i, Asked(i, work[i].attempt + 1))
    BY <1>5 DEF ShardRevised
  <2>2. work[i].attempt + 1 \in Nat
    BY <1>1
  <2>3. QED  BY <1>1, <2>1, <2>2, Asking DEF Further
<1>6. QED  BY <1>2, <1>3, <1>4, <1>5 DEF ShardStep

\* A step of a worker leaves less of its work, and the rest of the run as it is.
OneNearer(i) == /\ UNCHANGED <<stage, extras, batch, wave>>
                /\ WorkLeft(work'[i]) < WorkLeft(work[i])
                /\ \A k \in DOMAIN batch : k # i => work'[k] = work[k]

LEMMA ShardStepNearer ==
  ASSUME Inv, Counted, NEW i \in DOMAIN batch, ShardStep(i)
  PROVE  OneNearer(i) /\ Counted'
<1>1. PICK x : Shard(i, x) /\ Further(work[i], x)
  BY WorkerAdvances
<1>2. UNCHANGED <<stage, extras, batch, wave>> /\ work' = [work EXCEPT ![i] = x]
  BY <1>1 DEF Shard
<1>3. work'[i] = x /\ \A k \in DOMAIN batch : k # i => work'[k] = work[k]
  BY <1>2, CountsTyped
<1>4. /\ work[i].attempt \in Nat /\ MaxRevisionRounds \in Nat
      /\ work[i].pc = "asked" => work[i].attempt <= MaxRevisionRounds
  BY CountsTyped DEF Counted, Progress
<1>5. WorkLeft(x) < WorkLeft(work[i]) /\ (x.pc = "asked" => x.attempt <= MaxRevisionRounds)
  BY <1>1, <1>4 DEF Further, WorkLeft
<1>6. Counted'
  <2>1. /\ extras' \in 0 .. MaxExtras /\ wave' <= Len(batch')
        /\ stage' \in {"idle", "base", "refined"} => extras' = 0
    BY <1>2 DEF Counted
  <2>2. \A k \in DOMAIN batch : work[k].pc = "asked" => work[k].attempt <= MaxRevisionRounds
    BY DEF Counted
  <2>3. ASSUME NEW k \in DOMAIN batch'
        PROVE  work'[k].pc = "asked" => work'[k].attempt <= MaxRevisionRounds
    BY <1>2, <1>3, <1>5, <2>2
  <2>4. QED  BY <2>1, <2>3 DEF Counted
<1>7. QED  BY <1>2, <1>3, <1>5, <1>6 DEF OneNearer

\* A new batch waits.
LEMMA BatchCounted ==
  ASSUME NEW what, NEW b, Execute(what, b), batch' \in Seq(ShardRecord), extras' \in 0 .. MaxExtras,
         what \in {"idle", "base", "refined"} => extras' = 0
  PROVE  stage' = what /\ Counted'
<1> DEFINE w == [pc |-> "waiting", attempt |-> 0, report |-> None, review |-> None, reused |-> FALSE]
<1>1. stage' = what /\ batch' = b /\ wave' = 0 /\ work' = [i \in DOMAIN b |-> w]
  BY DEF Execute, Waiting
<1>2. w.pc = "waiting"
  OBVIOUS
<1> HIDE DEF w
<1>3. \A i \in DOMAIN batch' : work'[i].pc = "waiting"
  BY <1>1, <1>2
<1>4. wave' <= Len(batch')
  <2>1. Len(batch') \in Nat
    OBVIOUS
  <2>2. QED  BY <1>1, <2>1
<1>5. QED  BY <1>1, <1>3, <1>4 DEF Counted

LEMMA NextWaveNearer ==
  ASSUME Inv, Counted, NextWave
  PROVE  UNCHANGED <<stage, extras, batch, work>> /\ WavesLeft' < WavesLeft /\ Counted'
<1>1. UNCHANGED <<stage, extras, batch, work>> /\ wave' = wave + 1 /\ ~LastWave
  BY DEF NextWave
<1> DEFINE n == Len(batch)
           next == wave + 1
<1>2. n \in Nat /\ next \in Nat /\ Concurrency \in Nat /\ Concurrency >= 1
  BY CountsTyped, BoundsAssumption
<1>3. next * Concurrency \in Int /\ next * Concurrency < n
  BY <1>1, <1>2 DEF LastWave
<1>4. next <= next * Concurrency
  <2> HIDE DEF n, next
  <2>1. \A a, c \in Nat : c >= 1 => a <= a * c
    OBVIOUS
  <2>2. QED  BY <1>2, <2>1
<1>5. wave + 1 < Len(batch) /\ wave \in Nat /\ Len(batch) \in Nat
  BY <1>2, <1>3, <1>4, CountsTyped
<1>6. WavesLeft' < WavesLeft
  BY <1>1, <1>5 DEF WavesLeft
<1>7. wave' <= Len(batch')
  BY <1>1, <1>5
<1>8. Counted'
  BY <1>1, <1>7 DEF Counted
<1>9. QED  BY <1>1, <1>6, <1>8

\* A step to another stage is a step towards the end.
Nearer == Phase' < Phase /\ Counted'

LEMMA PhaseRange ==
  ASSUME Inv, Counted
  PROVE  /\ MaxExtras \in Nat /\ extras \in Int /\ Phase \in 0 .. 5 + 2 * MaxExtras
         /\ stage # "idle" => Phase > 0
<1>1. MaxExtras \in Nat /\ stage \in Stages /\ extras \in 0 .. MaxExtras
  BY CountsTyped DEF Counted
<1>2. QED  BY <1>1 DEF Phase, Stages

LEMMA ReturnNearer ==
  ASSUME Inv, Inv', Counted, Return, stage # "idle"
  PROVE  Nearer
<1>1. Execute("idle", <<>>) /\ extras' = 0 /\ MaxExtras \in Nat /\ batch' \in Seq(ShardRecord)
  BY CountsTyped DEF Return, Inv, TypeOK
<1>2. stage' = "idle" /\ Counted'
  BY <1>1, BatchCounted
<1>3. Phase' = 0
  BY <1>2 DEF Phase
<1>4. QED  BY <1>2, <1>3, PhaseRange DEF Nearer

LEMMA FinishNearer ==
  ASSUME Inv, Inv', Counted, FinishBase \/ FinishRefined \/ FinishExtra
  PROVE  Nearer
<1>1. MaxExtras \in Nat /\ extras \in 0 .. MaxExtras /\ batch' \in Seq(ShardRecord)
  BY CountsTyped DEF Counted, Inv, TypeOK
<1>2. CASE FinishBase
  <2>1. PICK order \in Orders :
          LET plan == Refinement(order)
          IN  Execute(IF plan.children = <<>> THEN "planning" ELSE "refined",
                      [c \in DOMAIN plan.children |-> Planned(Unmerged(plan.children[c], {}), scanned)])
    BY <1>2 DEF FinishBase
  <2>2. PICK what \in {"planning", "refined"} : \E b : Execute(what, b)
    BY <2>1
  <2>3. stage = "base" /\ extras' = extras /\ extras = 0
    BY <1>2 DEF FinishBase, Counted
  <2>4. stage' = what /\ Counted'
    BY <1>1, <2>2, <2>3, BatchCounted
  <2>5. Phase = 5 + 2 * MaxExtras /\ Phase' <= 4 + 2 * MaxExtras
    BY <1>1, <2>3, <2>4 DEF Phase
  <2>6. Phase' \in Int
    BY <1>1, <2>3, <2>4 DEF Phase
  <2>7. QED  BY <1>1, <2>4, <2>5, <2>6 DEF Nearer
<1>3. CASE FinishRefined
  <2>1. stage = "refined" /\ Execute("planning", <<>>) /\ extras' = extras /\ extras = 0
    BY <1>3 DEF FinishRefined, Counted
  <2>2. stage' = "planning" /\ Counted'
    BY <1>1, <2>1, BatchCounted
  <2>3. Phase = 4 + 2 * MaxExtras /\ Phase' = 3 + 2 * (MaxExtras - extras)
    BY <2>1, <2>2 DEF Phase
  <2>4. QED  BY <1>1, <2>1, <2>2, <2>3 DEF Nearer
<1>4. CASE FinishExtra /\ stage = "evidence"
  <2>1. Execute("planning", <<>>) /\ extras' = extras
    BY <1>4 DEF FinishExtra
  <2>2. stage' = "planning" /\ Counted'
    BY <1>1, <2>1, BatchCounted
  <2>3. Phase = 4 + 2 * (MaxExtras - extras) /\ Phase' = 3 + 2 * (MaxExtras - extras)
    BY <1>4, <2>1, <2>2 DEF Phase
  <2>4. QED  BY <1>1, <2>2, <2>3 DEF Nearer
<1>5. CASE FinishExtra /\ stage = "gap"
  <2>1. Execute("saving", <<>>) /\ extras' = extras
    BY <1>5 DEF FinishExtra
  <2>2. stage' = "saving" /\ Counted'
    BY <1>1, <2>1, BatchCounted
  <2>3. Phase = 2 /\ Phase' = 1
    BY <1>5, <2>2 DEF Phase
  <2>4. QED  BY <2>2, <2>3 DEF Nearer
<1>6. FinishExtra => stage \in {"evidence", "gap"}
  BY DEF FinishExtra
<1>7. QED  BY <1>2, <1>3, <1>4, <1>5, <1>6

\* Planning ends, or takes one of the extra batches that are left.
LEMMA PlanNearer ==
  ASSUME Inv, Inv', Counted, PlanEvidence \/ PlanGap
  PROVE  Nearer
<1>1. /\ MaxExtras \in Nat /\ extras \in 0 .. MaxExtras /\ batch' \in Seq(ShardRecord)
      /\ stage = "planning"
  BY CountsTyped DEF Counted, Inv, TypeOK, PlanEvidence, PlanGap
<1>2. Phase = 3 + 2 * (MaxExtras - extras)
  BY <1>1 DEF Phase
<1>3. CASE PlanEvidence
  <2>1. extras' = extras + 1 /\ extras < MaxExtras /\ \E b : Execute("evidence", b)
    BY <1>3 DEF PlanEvidence
  <2>2. extras' \in 0 .. MaxExtras
    BY <1>1, <2>1
  <2>3. stage' = "evidence" /\ Counted'
    BY <1>1, <2>1, <2>2, BatchCounted
  <2>4. Phase' = 4 + 2 * (MaxExtras - extras')
    BY <2>3 DEF Phase
  <2>5. QED  BY <1>1, <1>2, <2>1, <2>3, <2>4 DEF Nearer
<1>4. CASE PlanGap
  <2>1. extras' = extras /\ \E b : Execute("saving", b) \/ Execute("gap", b)
    BY <1>4 DEF PlanGap
  <2>2. PICK what \in {"saving", "gap"} : \E b : Execute(what, b)
    BY <2>1
  <2>3. stage' = what /\ Counted'
    BY <1>1, <2>1, <2>2, BatchCounted
  <2>4. Phase' \in 1 .. 2
    BY <2>3 DEF Phase
  <2>5. QED  BY <1>1, <1>2, <2>3, <2>4 DEF Nearer
<1>5. QED  BY <1>3, <1>4

\* A step of the run that no worker makes goes to a later stage, or to the next
\* wave of the same batch; a step of a worker leaves it less to do, and the
\* rest as it is.  Neither the user nor a cancel ever adds to what is left.
RunAdvances ==
  [][/\ Advance \/ PlanEvidence =>
          \/ Phase' < Phase
          \/ UNCHANGED <<Phase, batch, work>> /\ WavesLeft' < WavesLeft
     /\ \A i \in DOMAIN batch : ShardStep(i) =>
          /\ UNCHANGED <<Phase, batch, WavesLeft>>
          /\ WorkLeft(work'[i]) < WorkLeft(work[i])
          /\ \A k \in DOMAIN batch : k # i => work'[k] = work[k]
     /\ Cancel \/ (\E f \in Edited : Edit(f)) => UNCHANGED <<Phase, batch, WavesLeft, work>>]_vars
LeftBounded ==
  /\ Phase \in 0 .. 5 + 2 * MaxExtras
  /\ WavesLeft \in 0 .. Len(batch)
  /\ \A i \in DOMAIN batch : WorkLeft(work[i]) \in 0 .. MaxRevisionRounds + 2

LEMMA UserKeepsLeft ==
  Cancel \/ (\E f \in Edited : Edit(f)) => UNCHANGED <<stage, extras, batch, wave, work>>
BY DEF Cancel, Edit, running

LEMMA LeftInRange == ASSUME Inv, Counted PROVE LeftBounded
<1>1. Phase \in 0 .. 5 + 2 * MaxExtras
  BY PhaseRange
<1>2. WavesLeft \in 0 .. Len(batch)
  <2>1. wave <= Len(batch) /\ wave \in Nat /\ Len(batch) \in Nat
    BY CountsTyped DEF Counted
  <2>2. QED  BY <2>1 DEF WavesLeft
<1>3. ASSUME NEW i \in DOMAIN batch
      PROVE  WorkLeft(work[i]) \in 0 .. MaxRevisionRounds + 2
  <2>1. /\ work[i].attempt \in Nat /\ MaxRevisionRounds \in Nat
        /\ work[i].pc = "asked" => work[i].attempt <= MaxRevisionRounds
    BY CountsTyped DEF Counted, Progress
  <2>2. QED  BY <2>1 DEF WorkLeft
<1>4. QED  BY <1>1, <1>2, <1>3 DEF LeftBounded

LEMMA AdvanceNearer ==
  ASSUME Inv, Inv', Counted, Advance \/ PlanEvidence
  PROVE  /\ Counted'
         /\ \/ Phase' < Phase
            \/ UNCHANGED <<Phase, batch, work>> /\ WavesLeft' < WavesLeft
<1>1. CASE NextWave
  <2>1. UNCHANGED <<stage, extras, batch, work>> /\ WavesLeft' < WavesLeft /\ Counted'
    BY <1>1, NextWaveNearer
  <2>2. Phase' = Phase
    BY <2>1 DEF Phase
  <2>3. QED  BY <2>1, <2>2
<1>2. CASE RunFails \/ Save
  <2>1. Return /\ stage # "idle"
    BY <1>2 DEF RunFails, Save, WaveOver, Executing
  <2>2. QED  BY <2>1, ReturnNearer DEF Nearer
<1>3. CASE FinishBase \/ FinishRefined \/ FinishExtra
  BY <1>3, FinishNearer DEF Nearer
<1>4. CASE PlanEvidence \/ PlanGap
  BY <1>4, PlanNearer DEF Nearer
<1>5. QED  BY <1>1, <1>2, <1>3, <1>4 DEF Advance

LEMMA CountedInductive == Inv /\ Counted /\ [Next]_vars => Counted'
<1> SUFFICES ASSUME Inv, Counted, [Next]_vars PROVE Counted'
  OBVIOUS
<1>1. Inv'
  BY InvInductive
<1>2. ASSUME UNCHANGED <<stage, extras, batch, wave, work>> PROVE Counted'
  BY <1>2 DEF Counted
<1>3. CASE Cancel \/ \E f \in Edited : Edit(f)
  BY <1>2, <1>3, UserKeepsLeft
<1>4. CASE StartRun
  <2>1. extras' = extras /\ stage = "idle" /\ extras = 0 /\ MaxExtras \in Nat
    BY <1>4, CountsTyped DEF StartRun, Counted
  <2>2. Execute("base", [i \in DOMAIN Plan |-> Planned(Plan[i], content)])
    BY <1>4 DEF StartRun
  <2>3. batch' \in Seq(ShardRecord)
    BY <1>1 DEF Inv, TypeOK
  <2>4. QED  BY <2>1, <2>2, <2>3, BatchCounted
<1>5. CASE \E i \in DOMAIN batch : ShardStep(i)
  BY <1>5, ShardStepNearer
<1>6. CASE Advance \/ PlanEvidence
  BY <1>1, <1>6, AdvanceNearer
<1>7. CASE UNCHANGED vars
  BY <1>2, <1>7 DEF vars, running
<1>8. QED  BY <1>3, <1>4, <1>5, <1>6, <1>7 DEF Next

\* Every step of a run brings its end nearer, whatever the models answer, the
\* user edits and whenever it is cancelled: no wave, revision, refinement,
\* evidence or gap batch is ever gone back to.
THEOREM RunsAdvance == Spec => RunAdvances /\ []LeftBounded
<1>1. Init => Counted
  BY BoundsAssumption DEF Init, Counted
<1>2. Inv /\ Inv' /\ Counted /\ Next =>
        /\ Advance \/ PlanEvidence =>
             \/ Phase' < Phase
             \/ UNCHANGED <<Phase, batch, work>> /\ WavesLeft' < WavesLeft
        /\ \A i \in DOMAIN batch : ShardStep(i) =>
             /\ UNCHANGED <<Phase, batch, WavesLeft>>
             /\ WorkLeft(work'[i]) < WorkLeft(work[i])
             /\ \A k \in DOMAIN batch : k # i => work'[k] = work[k]
        /\ Cancel \/ (\E f \in Edited : Edit(f)) => UNCHANGED <<Phase, batch, WavesLeft, work>>
  <2> SUFFICES ASSUME Inv, Inv', Counted
               PROVE  /\ Advance \/ PlanEvidence =>
                           \/ Phase' < Phase
                           \/ UNCHANGED <<Phase, batch, work>> /\ WavesLeft' < WavesLeft
                      /\ \A i \in DOMAIN batch : ShardStep(i) =>
                           /\ UNCHANGED <<Phase, batch, WavesLeft>>
                           /\ WorkLeft(work'[i]) < WorkLeft(work[i])
                           /\ \A k \in DOMAIN batch : k # i => work'[k] = work[k]
                      /\ Cancel \/ (\E f \in Edited : Edit(f)) =>
                           UNCHANGED <<Phase, batch, WavesLeft, work>>
    OBVIOUS
  <2>1. ASSUME UNCHANGED <<stage, extras, batch, wave>> PROVE UNCHANGED <<Phase, batch, WavesLeft>>
    BY <2>1 DEF Phase, WavesLeft
  <2>2. ASSUME NEW i \in DOMAIN batch, ShardStep(i)
        PROVE  /\ UNCHANGED <<Phase, batch, WavesLeft>>
               /\ WorkLeft(work'[i]) < WorkLeft(work[i])
               /\ \A k \in DOMAIN batch : k # i => work'[k] = work[k]
    <3>1. OneNearer(i)
      BY <2>2, ShardStepNearer
    <3>2. QED  BY <2>1, <3>1 DEF OneNearer
  <2>3. Cancel \/ (\E f \in Edited : Edit(f)) => UNCHANGED <<Phase, batch, WavesLeft, work>>
    BY <2>1, UserKeepsLeft
  <2>4. QED  BY <2>2, <2>3, AdvanceNearer
<1>3. Inv /\ Counted => LeftBounded
  BY LeftInRange
<1>4. QED  BY <1>1, <1>2, <1>3, InitInv, InvInductive, CountedInductive, PTL DEF Spec, RunAdvances
=============================================================================
