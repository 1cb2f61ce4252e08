----------------------- MODULE DaemonScheduler_proofs -----------------------
(***************************************************************************)
(* Proofs about the registry of scheduled jobs, for any schedules, any     *)
(* number of jobs, restarts and failing writes, and about the scheduler    *)
(* and its run guard on top of it.                                         *)
(*                                                                         *)
(* The first part is about the operators: the least element of a set of    *)
(* numbers, and the subsequences that order and the schedule file are made *)
(* of.  Statements about every length are proved by a least                *)
(* counterexample.                                                         *)
(***************************************************************************)
EXTENDS DaemonScheduler, FiniteSetTheorems, WellFoundedInduction, TLAPS

LEMMA LeastNat ==
  ASSUME NEW T \in SUBSET Nat, T # {}
  PROVE  \E m \in T : \A n \in T : m <= n
<1>1. IsWellFoundedOn(OpToRel(<, Nat), Nat)
  BY NatLessThanWellFounded
<1>2. PICK m \in T : \A n \in T : <<n, m>> \notin OpToRel(<, Nat)
  BY <1>1, WFMin
<1>3. \A n \in T : ~(n < m)
  BY <1>2 DEF OpToRel
<1>4. m \in Nat /\ \A n \in T : n \in Nat
  OBVIOUS
<1>5. \A n \in T : m <= n
  BY <1>3, <1>4
<1>6. QED  BY <1>5

LEMMA AppendRange ==
  ASSUME NEW S, NEW e \in Seq(S), NEW x \in S
  PROVE  Range(Append(e, x)) = Range(e) \cup {x}
<1> DEFINE a == Append(e, x)
<1>1. /\ DOMAIN e = 1 .. Len(e) /\ DOMAIN a = 1 .. (Len(e) + 1) /\ Len(e) \in Nat
      /\ \A i \in 1 .. Len(e) : a[i] = e[i]
      /\ a[Len(e) + 1] = x
  OBVIOUS
<1> HIDE DEF a
<1>2. \A y \in Range(a) : y \in Range(e) \cup {x}
  <2> SUFFICES ASSUME NEW i \in DOMAIN a PROVE a[i] \in Range(e) \cup {x}
    BY DEF Range
  <2>1. CASE i = Len(e) + 1  BY <1>1, <2>1
  <2>2. CASE i # Len(e) + 1
    <3>1. i \in DOMAIN e /\ a[i] = e[i]  BY <1>1, <2>2
    <3>2. QED  BY <3>1 DEF Range
  <2>3. QED  BY <2>1, <2>2
<1>3. \A y \in Range(e) \cup {x} : y \in Range(a)
  <2>1. x \in Range(a)
    <3>1. Len(e) + 1 \in DOMAIN a  BY <1>1
    <3>2. QED  BY <1>1, <3>1 DEF Range
  <2>2. \A i \in DOMAIN e : e[i] \in Range(a)
    <3> SUFFICES ASSUME NEW i \in DOMAIN e PROVE e[i] \in Range(a)
      OBVIOUS
    <3>1. i \in DOMAIN a /\ a[i] = e[i]  BY <1>1
    <3>2. QED  BY <3>1 DEF Range
  <2>3. QED  BY <2>1, <2>2 DEF Range
<1>4. QED  BY <1>2, <1>3 DEF a

\* Up to n, the recursion has a solution, with the values it should have.
Solves(f, s, P, n) ==
  f = [k \in 0 .. n |-> IF k = 0 THEN <<>>
                        ELSE IF k \in P THEN Append(f[k - 1], s[k]) ELSE f[k - 1]]

LEMMA Solvable ==
  ASSUME NEW S, NEW s \in Seq(S), NEW P
  PROVE  \A n \in 0 .. Len(s) : \E f : Solves(f, s, P, n)
<1> DEFINE Bad == {n \in 0 .. Len(s) : ~ \E f : Solves(f, s, P, n)}
<1> SUFFICES ASSUME Bad # {} PROVE FALSE
  OBVIOUS
<1>1. Bad \in SUBSET Nat
  OBVIOUS
<1>2. PICK m \in Bad : \A n \in Bad : m <= n
  BY <1>1, LeastNat
<1>3. CASE m = 0
  <2> DEFINE f == [k \in 0 .. 0 |-> <<>>]
  <2>1. Solves(f, s, P, 0)
    BY DEF Solves
  <2>2. QED  BY <1>2, <1>3, <2>1
<1>4. CASE m # 0
  <2>1. m \in Nat /\ m - 1 \in 0 .. Len(s) /\ m - 1 \notin Bad
    BY <1>1, <1>2, <1>4
  <2>2. PICK g : Solves(g, s, P, m - 1)
    BY <2>1
  <2> DEFINE last == IF m \in P THEN Append(g[m - 1], s[m]) ELSE g[m - 1]
             f == [k \in 0 .. m |-> IF k = m THEN last ELSE g[k]]
  <2>3. Solves(f, s, P, m)
    <3>1. \A k \in 0 .. m : k < m => f[k] = g[k]
      BY <2>1
    <3>2. \A k \in 0 .. (m - 1) : g[k] = IF k = 0 THEN <<>>
                          ELSE IF k \in P THEN Append(g[k - 1], s[k]) ELSE g[k - 1]
      BY <2>2 DEF Solves
    <3>3. ASSUME NEW k \in 0 .. m
          PROVE  f[k] = IF k = 0 THEN <<>>
                        ELSE IF k \in P THEN Append(f[k - 1], s[k]) ELSE f[k - 1]
      <4>1. CASE k = m
        <5>1. m - 1 \in 0 .. m /\ m - 1 # m  BY <1>4, <2>1
        <5>2. f[m - 1] = g[m - 1] /\ f[m] = last  BY <5>1
        <5>3. QED  BY <1>4, <4>1, <5>2
      <4>2. CASE k # m /\ k # 0
        <5>1. k \in 0 .. (m - 1) /\ k - 1 \in 0 .. m /\ k - 1 # m  BY <2>1, <4>2
        <5>2. f[k] = g[k] /\ f[k - 1] = g[k - 1]  BY <4>2, <5>1
        <5>3. QED  BY <3>2, <4>2, <5>1, <5>2
      <4>3. CASE k = 0
        <5>1. 0 \in 0 .. (m - 1)  BY <1>4, <2>1
        <5>2. f[0] = g[0]  BY <1>4, <2>1
        <5>3. QED  BY <3>2, <4>3, <5>1, <5>2
      <4>4. QED  BY <4>1, <4>2, <4>3
    <3>4. f = [k \in 0 .. m |-> f[k]]
      OBVIOUS
    <3> HIDE DEF f
    <3>5. [k \in 0 .. m |-> f[k]] = [k \in 0 .. m |-> IF k = 0 THEN <<>>
                        ELSE IF k \in P THEN Append(f[k - 1], s[k]) ELSE f[k - 1]]
      BY <3>3
    <3>6. QED  BY <3>4, <3>5 DEF Solves
  <2>4. QED  BY <1>2, <2>3
<1>5. QED  BY <1>3, <1>4

\* The sequence e holds the elements of s at the positions of P up to n.
Collects(e, S, s, P, n) == e \in Seq(S) /\ Range(e) = {s[k] : k \in (1 .. n) \cap P}

LEMMA SolutionRange ==
  ASSUME NEW S, NEW s \in Seq(S), NEW P, NEW f, Solves(f, s, P, Len(s))
  PROVE  \A n \in 0 .. Len(s) : Collects(f[n], S, s, P, n)
<1> USE DEF Collects
<1> DEFINE Bad == {n \in 0 .. Len(s) : ~(/\ f[n] \in Seq(S)
                                         /\ Range(f[n]) = {s[k] : k \in (1 .. n) \cap P})}
<1> SUFFICES ASSUME Bad # {} PROVE FALSE
  OBVIOUS
<1>1. Bad \in SUBSET Nat
  OBVIOUS
<1>2. PICK m \in Bad : \A n \in Bad : m <= n
  BY <1>1, LeastNat
<1>3. m \in Nat /\ m \in 0 .. Len(s) /\ Len(s) \in Nat
  BY <1>2
<1>4. \A k \in 0 .. Len(s) : f[k] = IF k = 0 THEN <<>>
                        ELSE IF k \in P THEN Append(f[k - 1], s[k]) ELSE f[k - 1]
  BY DEF Solves
<1>5. CASE m = 0
  <2>1. f[m] = <<>>  BY <1>3, <1>4, <1>5
  <2>2. <<>> \in Seq(S) /\ Range(<<>>) = {}  BY DEF Range
  <2>3. {s[k] : k \in (1 .. m) \cap P} = {}  BY <1>5
  <2>4. QED  BY <1>2, <2>1, <2>2, <2>3
<1>6. CASE m # 0
  <2> DEFINE e == f[m - 1]
  <2>1. m - 1 \in 0 .. Len(s) /\ m - 1 \notin Bad
    <3>1. m - 1 \in 0 .. Len(s) /\ ~(m <= m - 1)  BY <1>3, <1>6
    <3> HIDE DEF Bad
    <3>2. QED  BY <1>2, <3>1
  <2>2. e \in Seq(S) /\ Range(e) = {s[k] : k \in (1 .. (m - 1)) \cap P}
    BY <2>1
  <2>3. f[m] = IF m \in P THEN Append(e, s[m]) ELSE e
    BY <1>3, <1>4, <1>6
  <2> HIDE DEF e
  <2>4. s[m] \in S  BY <1>3, <1>6
  <2>5. CASE m \in P
    <3>1. Append(e, s[m]) \in Seq(S)  BY <2>2, <2>4
    <3>2. Range(Append(e, s[m])) = Range(e) \cup {s[m]}
      BY <2>2, <2>4, AppendRange
    <3>3. (1 .. m) \cap P = ((1 .. (m - 1)) \cap P) \cup {m}
      BY <1>3, <1>6, <2>5
    <3>4. {s[k] : k \in (1 .. m) \cap P} = {s[k] : k \in (1 .. (m - 1)) \cap P} \cup {s[m]}
      BY <3>3
    <3>5. QED  BY <1>2, <2>2, <2>3, <2>5, <3>1, <3>2, <3>4
  <2>6. CASE m \notin P
    <3>1. (1 .. m) \cap P = (1 .. (m - 1)) \cap P
      BY <1>3, <1>6, <2>6
    <3>2. QED  BY <1>2, <2>2, <2>3, <2>6, <3>1
  <2>7. QED  BY <2>5, <2>6
<1>7. QED  BY <1>5, <1>6

LEMMA PickedRange ==
  ASSUME NEW S, NEW s \in Seq(S), NEW P \in SUBSET DOMAIN s
  PROVE  /\ Picked(s, P) \in Seq(S)
         /\ Range(Picked(s, P)) = {s[k] : k \in P}
<1> DEFINE f == CHOOSE f : Solves(f, s, P, Len(s))
<1>1. Len(s) \in 0 .. Len(s)
  OBVIOUS
<1>2. Solves(f, s, P, Len(s))
  BY <1>1, Solvable
<1>3. Picked(s, P) = f[Len(s)]
  BY DEF Picked, Solves
<1>4. (1 .. Len(s)) \cap P = P
  OBVIOUS
<1> HIDE DEF f
<1>5. Collects(f[Len(s)], S, s, P, Len(s))
  BY <1>1, <1>2, SolutionRange
<1>6. QED  BY <1>3, <1>4, <1>5 DEF Collects

LEMMA KeepRange ==
  ASSUME NEW S, NEW s \in Seq(S), NEW good
  PROVE  Keep(s, good) \in Seq(S) /\ Range(Keep(s, good)) = Range(s) \cap good
<1> DEFINE P == {i \in DOMAIN s : s[i] \in good}
<1>1. P \in SUBSET DOMAIN s
  OBVIOUS
<1>2. Keep(s, good) \in Seq(S) /\ Range(Keep(s, good)) = {s[k] : k \in P}
  BY <1>1, PickedRange DEF Keep
<1>3. QED  BY <1>2 DEF Range

LEMMA DistinctRange ==
  ASSUME NEW S, NEW s \in Seq(S)
  PROVE  Distinct(s) \in Seq(S) /\ Range(Distinct(s)) = Range(s)
<1> DEFINE P == {i \in DOMAIN s : \A k \in 1 .. (i - 1) : s[k] # s[i]}
<1>1. P \in SUBSET DOMAIN s
  OBVIOUS
<1>2. Distinct(s) \in Seq(S) /\ Range(Distinct(s)) = {s[k] : k \in P}
  BY <1>1, PickedRange DEF Distinct
<1>3. ASSUME NEW i \in DOMAIN s PROVE \E k \in P : s[k] = s[i]
  <2> DEFINE T == {k \in DOMAIN s : s[k] = s[i]}
  <2>1. T \in SUBSET Nat /\ i \in T
    OBVIOUS
  <2>2. PICK m \in T : \A n \in T : m <= n
    BY <2>1, LeastNat
  <2>3. \A k \in 1 .. (m - 1) : k \in DOMAIN s /\ ~(m <= k)
    BY <2>2
  <2>4. \A k \in 1 .. (m - 1) : s[k] # s[m]
    BY <2>2, <2>3
  <2>5. QED  BY <2>2, <2>4
<1>4. {s[k] : k \in P} = Range(s)
  BY <1>1, <1>3 DEF Range
<1>5. QED  BY <1>2, <1>4
-----------------------------------------------------------------------------
\* Schedules: the slot after t is a number, and past t.
LEMMA SlotType ==
  ASSUME NEW s \in Schedules, NEW last \in Nat, NEW t \in Nat
  PROVE  LET n == NextScheduleRun(s, last, t)
         IN  /\ n \in Nat
             /\ n # 0 => n > t
             /\ s.every > 0 => n = IF last # 0 /\ last + s.every > t THEN last + s.every
                                                                     ELSE t + s.every
             /\ s.every = 0 => n = 0 \/ /\ n \in s.at /\ n <= t + Horizon
                                        /\ \A u \in s.at : t < u /\ u <= t + Horizon => n <= u
             /\ s.every = 0 /\ n = 0 => \A u \in s.at : ~(t < u /\ u <= t + Horizon)
<1> DEFINE base == IF last = 0 THEN t ELSE last
           hits == {u \in s.at : t < u /\ u <= t + Horizon}
<1>1. s.every \in Nat /\ s.at \subseteq Nat /\ Horizon \in Nat
  BY SchedulesAssumption, RegistryBounds
<1>2. CASE s.every > 0
  <2>1. NextScheduleRun(s, last, t) = IF base + s.every > t THEN base + s.every ELSE t + s.every
    BY <1>1, <1>2 DEF NextScheduleRun
  <2>2. QED  BY <1>1, <1>2, <2>1
<1>3. CASE s.every = 0 /\ hits = {}
  <2>1. NextScheduleRun(s, last, t) = 0
    BY <1>1, <1>3 DEF NextScheduleRun
  <2>2. QED  BY <1>1, <1>3, <2>1
<1>4. CASE s.every = 0 /\ hits # {}
  <2>1. NextScheduleRun(s, last, t) = Min(hits)
    BY <1>1, <1>4 DEF NextScheduleRun
  <2>2. hits \in SUBSET Nat
    BY <1>1
  <2>3. Min(hits) \in hits /\ \A u \in hits : Min(hits) <= u
    <3>1. \E m \in hits : \A u \in hits : m <= u
      BY <1>4, <2>2, LeastNat
    <3> HIDE DEF hits
    <3>2. QED  BY <3>1 DEF Min
  <2>4. QED  BY <1>1, <1>4, <2>1, <2>2, <2>3
<1>5. QED  BY <1>1, <1>2, <1>3, <1>4

\* The slot after a time, which may be before the clock began.
LEMMA SlotAfter ==
  ASSUME NEW s \in Schedules, NEW a \in Int
  PROVE  LET m == NextScheduleRun(s, a, a)
         IN  /\ m \in Int
             /\ s.every > 0 => m = a + s.every
             /\ s.every = 0 => m = 0 \/ /\ m <= a + Horizon
                                        /\ \A u \in s.at : a < u /\ u <= a + Horizon => m <= u
<1> DEFINE hits == {u \in s.at : a < u /\ u <= a + Horizon}
<1>1. s.every \in Nat /\ s.at \subseteq Nat /\ Horizon \in Nat
  BY SchedulesAssumption, RegistryBounds
<1>2. CASE s.every > 0
  <2>1. NextScheduleRun(s, a, a) = a + s.every
    BY <1>1, <1>2 DEF NextScheduleRun
  <2>2. QED  BY <1>1, <1>2, <2>1
<1>3. CASE s.every = 0 /\ hits = {}
  <2>1. NextScheduleRun(s, a, a) = 0
    BY <1>1, <1>3 DEF NextScheduleRun
  <2>2. QED  BY <1>3, <2>1
<1>4. CASE s.every = 0 /\ hits # {}
  <2>1. NextScheduleRun(s, a, a) = Min(hits)
    BY <1>1, <1>4 DEF NextScheduleRun
  <2>2. hits \in SUBSET Nat
    BY <1>1
  <2>3. Min(hits) \in hits /\ \A u \in hits : Min(hits) <= u
    <3>1. \E m \in hits : \A u \in hits : m <= u
      BY <1>4, <2>2, LeastNat
    <3> HIDE DEF hits
    <3>2. QED  BY <3>1 DEF Min
  <2>4. QED  BY <1>1, <1>4, <2>1, <2>2, <2>3
<1>5. QED  BY <1>1, <1>2, <1>3, <1>4

\* What is known of a job's last run when Poll fired it at f: there is none,
\* it is not older, or it was a whole interval ago, all up to MaxLag.
LastKnown(j, f) == f > 0 /\ j.sched.every > 0 =>
                     \/ j.last = 0
                     \/ j.last >= f - MaxLag
                     \/ j.last + j.sched.every <= f + MaxLag

\* Whatever last run the schedule starts from, the next slot is not before the
\* one that belongs to the firing at f.
LEMMA SlotNotEarlier ==
  ASSUME NEW s \in Schedules, NEW last \in Nat, NEW t \in Nat, NEW f \in Nat, f - MaxLag <= t,
         s.every > 0 => last = 0 \/ last >= f - MaxLag \/ last + s.every <= f + MaxLag,
         NextScheduleRun(s, last, t) # 0
  PROVE  /\ NextScheduleRun(s, last, t) > f - MaxLag
         /\ \/ NextScheduleRun(s, last, t) >= NextScheduleRun(s, f - MaxLag, f - MaxLag)
            \/ NextScheduleRun(s, last, t) <= f + MaxLag
<1> DEFINE n == NextScheduleRun(s, last, t)
           a == f - MaxLag
           m == NextScheduleRun(s, a, a)
<1>1. s.every \in Nat /\ s.at \subseteq Nat /\ Horizon \in Nat /\ MaxLag \in Nat /\ a \in Int
  BY SchedulesAssumption, RegistryBounds
<1>2. /\ n \in Nat /\ n > t
      /\ s.every > 0 => n = IF last # 0 /\ last + s.every > t THEN last + s.every ELSE t + s.every
      /\ s.every = 0 => n \in s.at
  BY SlotType
<1>3. /\ a <= t
      /\ s.every > 0 => last = 0 \/ last >= a \/ last + s.every <= f + MaxLag
  OBVIOUS
<1> HIDE DEF a
<1>4. /\ m \in Int
      /\ s.every > 0 => m = a + s.every
      /\ s.every = 0 => m = 0 \/ /\ m <= a + Horizon
                                 /\ \A u \in s.at : a < u /\ u <= a + Horizon => m <= u
  BY <1>1, SlotAfter
<1> HIDE DEF n, m
<1>5. n > a
  BY <1>1, <1>2, <1>3
<1>6. CASE s.every > 0
  <2>1. n >= m \/ n <= f + MaxLag
    BY <1>1, <1>2, <1>3, <1>4, <1>6
  <2>2. QED  BY <1>5, <2>1 DEF n, m, a
<1>7. CASE s.every = 0
  <2>1. m <= n
    <3>1. CASE n <= a + Horizon  BY <1>1, <1>2, <1>4, <1>5, <1>7, <3>1
    <3>2. CASE ~(n <= a + Horizon)  BY <1>1, <1>2, <1>4, <1>7, <3>2
    <3>3. QED  BY <3>1, <3>2
  <2>2. QED  BY <1>1, <1>2, <1>4, <1>5, <2>1 DEF n, m, a
<1>8. QED  BY <1>1, <1>6, <1>7
-----------------------------------------------------------------------------
\* The registry.  What applyScheduleLocked and snapshotLocked return.
HasSlot(j) == j.enabled => /\ j.next > 0
                           /\ j.sched.every > 0 /\ j.last > 0 => j.next >= j.last + j.sched.every

LEMMA ApplyJob ==
  ASSUME NEW job \in Job, NEW t \in Nat
  PROVE  LET a == ApplySchedule(job, t)
         IN  /\ a \in Job /\ HasSlot(a)
             /\ a.sched = job.sched /\ a.last = job.last
             /\ a.next = NextScheduleRun(job.sched, job.last, t)
             /\ a.enabled => a.next # 0
<1> DEFINE n == NextScheduleRun(job.sched, job.last, t)
           b == job.enabled /\ n # 0
           e == [job EXCEPT !.enabled = b]
           a == [e EXCEPT !.next = n]
<1>1. job.sched \in Schedules /\ job.last \in Nat /\ job.sched.every \in Nat
  BY SchedulesAssumption DEF Job
<1>2. /\ n \in Nat
      /\ job.sched.every > 0 /\ job.last > 0 => n >= job.last + job.sched.every
  <2>1. /\ n \in Nat
        /\ job.sched.every > 0 => n = IF job.last # 0 /\ job.last + job.sched.every > t
                                        THEN job.last + job.sched.every ELSE t + job.sched.every
    BY <1>1, SlotType
  <2> HIDE DEF n
  <2>2. QED  BY <1>1, <2>1
<1>3. b \in BOOLEAN
  BY DEF Job
<1>4. ApplySchedule(job, t) = a
  BY DEF ApplySchedule
<1>5. b => n # 0
  OBVIOUS
<1> HIDE DEF n, b
<1>6. e \in Job /\ e.sched = job.sched /\ e.last = job.last /\ e.enabled = b
  BY <1>3 DEF Job
<1> HIDE DEF e
<1>7. /\ a \in Job /\ a.sched = job.sched /\ a.last = job.last /\ a.enabled = b /\ a.next = n
  BY <1>2, <1>6 DEF Job
<1> HIDE DEF a
<1>8. HasSlot(a)
  BY <1>2, <1>5, <1>7 DEF HasSlot
<1>9. QED  BY <1>4, <1>5, <1>7, <1>8 DEF n

LEMMA RanJob ==
  ASSUME NEW job \in Job, NEW t \in 0 .. MaxTime
  PROVE  [job EXCEPT !.last = t] \in Job /\ [job EXCEPT !.last = t].sched = job.sched
         /\ [job EXCEPT !.last = t].last = t
  BY DEF Job

LEMMA FileOf ==
  ASSUME NEW j, NEW o \in Seq(Ids), IsRegistry(j)
  PROVE  /\ IsRegistry(File(j, o).jobs) /\ File(j, o).order \in Seq(Ids) /\ File(j, o).torn = FALSE
         /\ DOMAIN File(j, o).jobs = Range(o) \cap DOMAIN j
         /\ Range(File(j, o).order) = Range(o) \cap DOMAIN j
         /\ \A id \in DOMAIN File(j, o).jobs : File(j, o).jobs[id] = j[id]
<1>1. Keep(o, DOMAIN j) \in Seq(Ids) /\ Range(Keep(o, DOMAIN j)) = Range(o) \cap DOMAIN j
  BY KeepRange
<1>2. QED  BY <1>1 DEF File, Restrict, IsRegistry

LEMMA TornFile == /\ IsRegistry(Torn.jobs) /\ Torn.order \in Seq(Ids) /\ Torn.torn = TRUE
                  /\ DOMAIN Torn.jobs = {}
  BY DEF Torn, NoJobs, IsRegistry

LEMMA Persisted ==
  ASSUME NEW w \in Writes, Persist(w)
  PROVE  disk' = File(jobs', order') \/ disk' = disk \/ disk' = Torn
  BY RegistryBounds DEF Persist

\* A file that is read back.
IsFile(d) == IsRegistry(d.jobs) /\ d.order \in Seq(Ids) /\ d.torn \in BOOLEAN

LEMMA PersistedFile ==
  ASSUME IsFile(disk), IsRegistry(jobs'), order' \in Seq(Ids),
         disk' = File(jobs', order') \/ disk' = disk \/ disk' = Torn
  PROVE  IsFile(disk')
<1>1. IsFile(File(jobs', order'))  BY FileOf DEF IsFile
<1>2. IsFile(Torn)  BY TornFile DEF IsFile
<1>3. QED  BY <1>1, <1>2

\* Every step leaves a registry whose jobs were there, were scheduled in the
\* step, or come from the file.
LEMMA ReadTime ==
  ASSUME RegistryTypeOK, Up, NEW t \in Read
  PROVE  t \in 1 .. now /\ t \in 0 .. MaxTime /\ t \in Nat
  BY RegistryBounds DEF RegistryTypeOK, Up, Read

\* The parts of RegistryTypeOK.
Clocks == now \in 1 .. MaxTime /\ boot \in 0 .. now /\ restarts \in 0 .. MaxRestarts
Stored == IsRegistry(jobs) /\ order \in Seq(Ids) /\ IsFile(disk)
Histories == acked \subseteq Ids /\ lost \subseteq Ids /\ fired \in [Ids -> 0 .. MaxTime]

LEMMA TypeParts == RegistryTypeOK <=> Clocks /\ Stored /\ Histories
  BY DEF RegistryTypeOK, Clocks, Stored, Histories, IsFile

LEMMA TypePartsAfter == Clocks' /\ Stored' /\ Histories' => RegistryTypeOK'
  BY DEF RegistryTypeOK, Clocks, Stored, Histories, IsFile

\* The registry with one job stored.
LEMMA StoredJob ==
  ASSUME IsRegistry(jobs), NEW id \in Ids, NEW job \in Job
  PROVE  IsRegistry([k \in DOMAIN jobs \cup {id} |-> IF k = id THEN job ELSE jobs[k]])
  BY DEF IsRegistry

LEMMA NewJob ==
  ASSUME NEW name \in Names, NEW s \in Schedules, NEW t \in Nat
  PROVE  LET job == [name |-> name, sched |-> s, enabled |-> TRUE, last |-> 0, next |-> 0]
         IN  /\ job \in Job
             /\ ApplySchedule(job, t) \in Job /\ HasSlot(ApplySchedule(job, t))
             /\ ApplySchedule(job, t).last = 0
<1> DEFINE job == [name |-> name, sched |-> s, enabled |-> TRUE, last |-> 0, next |-> 0]
<1>1. job \in Job /\ job.last = 0
  BY RegistryBounds DEF Job
<1> HIDE DEF job
<1>2. QED  BY <1>1, ApplyJob DEF job

\* All jobs of the registry have a slot that follows their last run.
Slots == \A id \in DOMAIN jobs : HasSlot(jobs[id])

LEMMA AddStored ==
  ASSUME RegistryTypeOK, NEW id \in Ids, NEW name \in Names, NEW s \in Schedules,
         NEW t \in Read, NEW w \in Writes, Add(id, name, s, t, w)
  PROVE  Stored' /\ (Slots => Slots')
<1> DEFINE job == ApplySchedule([name |-> name, sched |-> s, enabled |-> TRUE,
                                 last |-> 0, next |-> 0], t)
           stored == [k \in DOMAIN jobs \cup {id} |-> IF k = id THEN job ELSE jobs[k]]
<1>1. t \in Nat
  BY ReadTime DEF Add
<1>2. job \in Job /\ HasSlot(job)
  BY <1>1, NewJob
<1>3. IsRegistry(jobs) /\ order \in Seq(Ids) /\ IsFile(disk)
  BY TypeParts DEF Stored
<1>4. CASE w = "ok"
  <2>1. jobs' = stored /\ order' = Append(order, id) /\ disk' = File(jobs', order')
    BY <1>4 DEF Add
  <2> HIDE DEF job
  <2>2. IsRegistry(jobs')  BY <1>2, <1>3, <2>1, StoredJob
  <2>3. order' \in Seq(Ids)  BY <1>3, <2>1
  <2>4. IsFile(disk')  BY <1>3, <2>1, <2>2, <2>3, PersistedFile
  <2>5. Slots => Slots'  BY <1>2, <2>1 DEF Slots
  <2>6. QED  BY <2>2, <2>3, <2>4, <2>5 DEF Stored
<1>5. CASE w # "ok"
  <2>1. /\ jobs' = Restrict(jobs, DOMAIN jobs \ {id}) /\ order' = order
        /\ disk' = disk \/ disk' = Torn
    BY <1>5 DEF Add
  <2>2. IsRegistry(jobs') /\ (Slots => Slots')
    BY <1>3, <2>1 DEF Restrict, IsRegistry, Slots
  <2>3. IsFile(disk')  BY <1>3, <2>1, <2>2, PersistedFile
  <2>4. QED  BY <1>3, <2>1, <2>2, <2>3 DEF Stored
<1>6. QED  BY <1>4, <1>5

LEMMA RemoveStored ==
  ASSUME RegistryTypeOK, NEW id \in Ids, NEW w \in Writes, RemoveJob(id, w)
  PROVE  Stored' /\ (Slots => Slots')
<1>1. IsRegistry(jobs) /\ order \in Seq(Ids) /\ IsFile(disk)
  BY TypeParts DEF Stored
<1>2. /\ jobs' = Restrict(jobs, DOMAIN jobs \ {id}) /\ order' = Keep(order, Range(order) \ {id})
      /\ Persist(w)
  BY DEF RemoveJob
<1>3. IsRegistry(jobs') /\ (Slots => Slots')
  BY <1>1, <1>2 DEF Restrict, IsRegistry, Slots
<1>4. order' \in Seq(Ids)
  BY <1>1, <1>2, KeepRange
<1>5. IsFile(disk')  BY <1>1, <1>2, <1>3, <1>4, Persisted, PersistedFile
<1>6. QED  BY <1>3, <1>4, <1>5 DEF Stored

LEMMA RunNowStored ==
  ASSUME RegistryTypeOK, NEW id \in Ids, NEW t \in Read, NEW w \in Writes, RunNow(id, t, w)
  PROVE  Stored' /\ (Slots => Slots')
<1> DEFINE ran == [jobs[id] EXCEPT !.last = t]
<1>1. IsRegistry(jobs) /\ order \in Seq(Ids) /\ IsFile(disk)
  BY TypeParts DEF Stored
<1>2. t \in Nat /\ t \in 0 .. MaxTime /\ id \in DOMAIN jobs
  BY ReadTime DEF RunNow
<1>3. ran \in Job
  BY <1>1, <1>2, RanJob DEF IsRegistry
<1>4. ApplySchedule(ran, t) \in Job /\ HasSlot(ApplySchedule(ran, t))
  BY <1>2, <1>3, ApplyJob
<1>5. jobs' = [jobs EXCEPT ![id] = ApplySchedule(ran, t)] /\ order' = order /\ Persist(w)
  BY DEF RunNow
<1> HIDE DEF ran
<1>6. IsRegistry(jobs') /\ (Slots => Slots')
  BY <1>1, <1>2, <1>4, <1>5 DEF IsRegistry, Slots
<1>7. IsFile(disk')  BY <1>1, <1>5, <1>6, Persisted, PersistedFile
<1>8. QED  BY <1>1, <1>5, <1>6, <1>7 DEF Stored

LEMMA PollStored ==
  ASSUME RegistryTypeOK, NEW t \in Read, NEW w \in Writes, Poll(t, w)
  PROVE  Stored' /\ (Slots => Slots')
<1>1. IsRegistry(jobs) /\ order \in Seq(Ids) /\ IsFile(disk)
  BY TypeParts DEF Stored
<1>2. t \in Nat /\ t \in 0 .. MaxTime
  BY ReadTime DEF Poll
<1>3. /\ jobs' = [id \in DOMAIN jobs |->
                    IF id \in Due(t) THEN ApplySchedule([jobs[id] EXCEPT !.last = t], t) ELSE jobs[id]]
      /\ order' = order /\ (disk' = disk \/ Persist(w))
  BY DEF Poll
<1>4. ASSUME NEW id \in DOMAIN jobs
      PROVE  LET a == ApplySchedule([jobs[id] EXCEPT !.last = t], t) IN a \in Job /\ HasSlot(a)
  <2>1. jobs[id] \in Job  BY <1>1 DEF IsRegistry
  <2>2. [jobs[id] EXCEPT !.last = t] \in Job  BY <1>2, <2>1, RanJob
  <2>3. QED  BY <1>2, <2>2, ApplyJob
<1>5. IsRegistry(jobs') /\ (Slots => Slots')
  BY <1>1, <1>3, <1>4 DEF IsRegistry, Slots
<1>6. IsFile(disk')  BY <1>1, <1>3, <1>5, Persisted, PersistedFile
<1>7. QED  BY <1>1, <1>3, <1>5, <1>6 DEF Stored

LEMMA LoadStored ==
  ASSUME RegistryTypeOK, Load
  PROVE  Stored' /\ (Slots => Slots')
<1>1. IsRegistry(disk.jobs) /\ disk.order \in Seq(Ids) /\ IsFile(disk) /\ now \in Nat
  BY TypeParts, RegistryBounds DEF Stored, IsFile, Clocks
<1>2. /\ jobs' = [id \in DOMAIN disk.jobs |-> ApplySchedule(disk.jobs[id], now)]
      /\ order' = Distinct(disk.order) /\ disk' = disk
  BY DEF Load
<1>3. \A id \in DOMAIN disk.jobs : /\ ApplySchedule(disk.jobs[id], now) \in Job
                                   /\ HasSlot(ApplySchedule(disk.jobs[id], now))
  BY <1>1, ApplyJob DEF IsRegistry
<1>4. IsRegistry(jobs') /\ Slots'
  BY <1>1, <1>2, <1>3 DEF IsRegistry, Slots
<1>5. QED  BY <1>1, <1>2, <1>4, DistinctRange DEF Stored

LEMMA RegistryInductive ==
  /\ RegistryInit => RegistryTypeOK /\ Slots
  /\ RegistryTypeOK /\ Slots /\ [RegistryNext]_registryVars => RegistryTypeOK' /\ Slots'
<1>1. ASSUME RegistryInit PROVE RegistryTypeOK /\ Slots
  <2>1. <<>> \in Seq(Ids) /\ IsRegistry(NoJobs)
    BY DEF IsRegistry, NoJobs
  <2>2. IsFile(File(NoJobs, <<>>))
    BY <2>1, FileOf DEF IsFile
  <2>3. Stored /\ Slots
    BY <1>1, <2>1, <2>2 DEF RegistryInit, Stored, Slots, NoJobs
  <2>4. Clocks /\ Histories
    BY <1>1, RegistryBounds DEF RegistryInit, Clocks, Histories
  <2>5. QED  BY <2>3, <2>4, TypeParts
<1>2. ASSUME RegistryTypeOK, Slots, [RegistryNext]_registryVars PROVE RegistryTypeOK' /\ Slots'
  <2> USE <1>2
  <2>1. CASE Load
    <3>1. Clocks' /\ Histories'
      BY <2>1, RegistryBounds, TypeParts DEF Load, Clocks, Histories
    <3>2. QED  BY <2>1, <3>1, LoadStored, TypePartsAfter
  <2>2. CASE ProcessEnds
    <3>1. Clocks' /\ Histories'
      BY <2>2, RegistryBounds, TypeParts DEF ProcessEnds, Clocks, Histories
    <3>2. IsRegistry(jobs') /\ Slots' /\ order' \in Seq(Ids)
      BY <2>2 DEF ProcessEnds, IsRegistry, NoJobs, Slots
    <3>3. IsFile(disk')
      <4>1. disk' = disk \/ disk' = Torn
        BY <2>2 DEF ProcessEnds
      <4>2. QED  BY <3>2, <4>1, PersistedFile, TypeParts DEF Stored
    <3>4. QED  BY <3>1, <3>2, <3>3, TypePartsAfter DEF Stored
  <2>3. CASE TimePasses
    <3>1. UNCHANGED <<boot, restarts, registry>> /\ UNCHANGED <<jobs, order, disk, acked, lost, fired>>
      BY <2>3 DEF TimePasses, registry
    <3>2. Stored'
      BY <3>1, TypeParts DEF Stored, IsFile
    <3>3. Clocks' /\ Histories'
      BY <2>3, <3>1, RegistryBounds, TypeParts DEF TimePasses, Clocks, Histories
    <3>4. Slots'
      BY <3>1 DEF Slots
    <3>5. QED  BY <3>2, <3>3, <3>4, TypePartsAfter
  <2>4. ASSUME NEW w \in Writes, NEW id \in Ids, NEW name \in Names, NEW s \in Schedules,
               NEW t \in Read, Add(id, name, s, t, w)
        PROVE  RegistryTypeOK' /\ Slots'
    <3>1. Clocks' /\ Histories'
      BY <2>4, RegistryBounds, TypeParts DEF Add, Clocks, Histories
    <3>2. QED  BY <2>4, <3>1, AddStored, TypePartsAfter
  <2>5. ASSUME NEW w \in Writes, NEW id \in Ids, RemoveJob(id, w) PROVE RegistryTypeOK' /\ Slots'
    <3>1. Clocks' /\ Histories'
      BY <2>5, TypeParts DEF RemoveJob, Clocks, Histories
    <3>2. QED  BY <2>5, <3>1, RemoveStored, TypePartsAfter
  <2>6. ASSUME NEW w \in Writes, NEW id \in Ids, NEW t \in Read, RunNow(id, t, w)
        PROVE  RegistryTypeOK' /\ Slots'
    <3>1. Clocks' /\ Histories'
      BY <2>6, TypeParts DEF RunNow, Clocks, Histories
    <3>2. QED  BY <2>6, <3>1, RunNowStored, TypePartsAfter
  <2>7. ASSUME NEW w \in Writes, NEW id \in Ids, RecordRunError(id, w) PROVE RegistryTypeOK' /\ Slots'
    <3>1. Clocks' /\ Histories' /\ Slots' /\ IsRegistry(jobs') /\ order' \in Seq(Ids)
      BY <2>7, TypeParts DEF RecordRunError, Clocks, Histories, Slots, Stored
    <3>2. IsFile(disk')
      <4>1. disk' = disk \/ Persist(w)
        BY <2>7 DEF RecordRunError
      <4>2. QED  BY <2>7, <3>1, <4>1, Persisted, PersistedFile, TypeParts DEF Stored
    <3>3. QED  BY <3>1, <3>2, TypePartsAfter DEF Stored
  <2>8. ASSUME NEW w \in Writes, NEW t \in Read, Poll(t, w) PROVE RegistryTypeOK' /\ Slots'
    <3>1. t \in 0 .. MaxTime
      BY <2>8, ReadTime DEF Poll
    <3>2. Clocks' /\ Histories'
      BY <2>8, <3>1, TypeParts DEF Poll, Clocks, Histories
    <3>3. QED  BY <2>8, <3>2, PollStored, TypePartsAfter
  <2>9. CASE UNCHANGED registryVars
    <3>1. Clocks' /\ Histories' /\ Stored'
      BY <2>9, TypeParts DEF registryVars, registry, Clocks, Histories, Stored, IsFile
    <3>2. QED  BY <2>9, <3>1, TypePartsAfter DEF registryVars, registry, Slots
  <2>10. QED
    BY <2>1, <2>2, <2>3, <2>4, <2>5, <2>6, <2>7, <2>8, <2>9 DEF RegistryNext, Request
<1>3. QED  BY <1>1, <1>2

\* Every job that Load, Add, RunNow, Poll and their rollbacks leave in the
\* registry or the file is a job, and order names jobs only.
THEOREM RegistryTypes == RegistrySpec => []RegistryTypeOK
  BY RegistryInductive, PTL DEF RegistrySpec

\* Whatever is added, run, removed, fails to be written and is loaded again, an
\* enabled job has a slot to come, an interval after its last run.
\* (applyScheduleLocked, called by Load, Add, RunNow and Poll)
THEOREM SlotsFollowTheRuns == RegistrySpec => []SlotsFollowRuns
<1>1. Slots => SlotsFollowRuns
  BY DEF Slots, HasSlot, SlotsFollowRuns
<1>2. QED  BY <1>1, RegistryInductive, PTL DEF RegistrySpec
-----------------------------------------------------------------------------
\* Firings.  The next run of a job is the slot after its last firing or a
\* later one.  A restart computes it from the file, which may have missed that
\* firing, and the runs before it; so the file's last run is followed as well.
\* It may be ahead of the memory, when a run that waited long for the lock came
\* last and was not written.
Timely(j, f, t) == j.last <= t /\ LastKnown(j, f)
Waits(j, f) == j.enabled /\ f > 0 =>
                 /\ j.next > f - MaxLag
                 /\ \/ j.next >= NextScheduleRun(j.sched, f - MaxLag, f - MaxLag)
                    \/ j.next <= f + MaxLag
Behind(d, j) == d.sched = j.sched /\ d.last <= j.last + MaxLag /\ (j.last = 0 => d.last = 0)

FiredBefore == \A id \in Ids : fired[id] <= now
JobsWait == \A id \in DOMAIN jobs : Timely(jobs[id], fired[id], now) /\ Waits(jobs[id], fired[id])
FileBehind == /\ \A id \in DOMAIN disk.jobs : Timely(disk.jobs[id], fired[id], now)
              /\ \A id \in DOMAIN disk.jobs \cap DOMAIN jobs : Behind(disk.jobs[id], jobs[id])
FiredInv == FiredBefore /\ JobsWait /\ FileBehind

LEMMA NumbersOfJob ==
  ASSUME NEW j \in Job
  PROVE  j.last \in Nat /\ j.next \in Nat /\ j.sched \in Schedules /\ j.sched.every \in Nat
  BY SchedulesAssumption DEF Job

\* What is known after a step of a file that was written in it.
LEMMA WrittenFile ==
  ASSUME IsRegistry(jobs'), order' \in Seq(Ids), JobsWait',
         disk' = File(jobs', order') \/ disk' = Torn
  PROVE  FileBehind'
<1>1. CASE disk' = Torn
  BY <1>1, TornFile DEF FileBehind
<1>2. CASE disk' = File(jobs', order')
  <2>1. /\ DOMAIN disk'.jobs \subseteq DOMAIN jobs'
        /\ \A id \in DOMAIN disk'.jobs : disk'.jobs[id] = jobs'[id]
    <3> DEFINE F == File(jobs', order')
    <3>1. DOMAIN F.jobs \subseteq DOMAIN jobs' /\ \A id \in DOMAIN F.jobs : F.jobs[id] = jobs'[id]
      <4>1. DOMAIN F.jobs = Range(order') \cap DOMAIN jobs'
        BY FileOf
      <4>2. \A id \in DOMAIN F.jobs : F.jobs[id] = jobs'[id]
        BY FileOf
      <4>3. QED  BY <4>1, <4>2
    <3>2. QED  BY <1>2, <3>1
  <2>2. \A id \in DOMAIN jobs' : jobs'[id].last \in Nat
    BY NumbersOfJob DEF IsRegistry
  <2>3. QED  BY <2>1, <2>2, RegistryBounds DEF FileBehind, JobsWait, Behind
<1>3. QED  BY <1>1, <1>2

\* A schedule applied at t to a job that Poll fired at f.
LEMMA AppliedWaits ==
  ASSUME NEW job \in Job, NEW t \in Nat, NEW f \in Nat, f - MaxLag <= t, LastKnown(job, f)
  PROVE  LET a == ApplySchedule(job, t)
         IN  LastKnown(a, f) /\ Waits(a, f) /\ a.last = job.last /\ a.sched = job.sched
<1> DEFINE a == ApplySchedule(job, t)
<1>1. /\ a.sched = job.sched /\ a.last = job.last
      /\ a.next = NextScheduleRun(job.sched, job.last, t) /\ (a.enabled => a.next # 0)
  BY ApplyJob
<1>2. job.sched \in Schedules /\ job.last \in Nat
  BY NumbersOfJob
<1> HIDE DEF a
<1>3. LastKnown(a, f)
  BY <1>1 DEF LastKnown
<1>4. Waits(a, f)
  <2> SUFFICES ASSUME a.enabled, f > 0
               PROVE  /\ a.next > f - MaxLag
                      /\ \/ a.next >= NextScheduleRun(a.sched, f - MaxLag, f - MaxLag)
                         \/ a.next <= f + MaxLag
    BY DEF Waits
  <2>1. job.sched.every > 0 => \/ job.last = 0
                               \/ job.last >= f - MaxLag
                               \/ job.last + job.sched.every <= f + MaxLag
    BY DEF LastKnown
  <2>2. NextScheduleRun(job.sched, job.last, t) # 0
    BY <1>1
  <2>3. /\ NextScheduleRun(job.sched, job.last, t) > f - MaxLag
        /\ \/ NextScheduleRun(job.sched, job.last, t)
                >= NextScheduleRun(job.sched, f - MaxLag, f - MaxLag)
           \/ NextScheduleRun(job.sched, job.last, t) <= f + MaxLag
    BY <1>2, <2>1, <2>2, SlotNotEarlier
  <2>4. QED  BY <1>1, <2>3
<1>5. QED  BY <1>1, <1>3, <1>4 DEF a

\* A job that runs at t is known to have.
LEMMA RanWaits ==
  ASSUME NEW job \in Job, NEW t \in 1 .. MaxTime, NEW f \in Nat, f - MaxLag <= t
  PROVE  LET a == ApplySchedule([job EXCEPT !.last = t], t)
         IN  LastKnown(a, f) /\ Waits(a, f) /\ a.last = t /\ a.sched = job.sched
<1> DEFINE ran == [job EXCEPT !.last = t]
<1>1. t \in Nat /\ t \in 0 .. MaxTime
  BY RegistryBounds
<1>2. ran \in Job /\ ran.sched = job.sched /\ ran.last = t
  BY <1>1, RanJob
<1> HIDE DEF ran
<1>3. LastKnown(ran, f)
  BY <1>1, <1>2 DEF LastKnown
<1> DEFINE a == ApplySchedule(ran, t)
<1>4. LastKnown(a, f) /\ Waits(a, f) /\ a.last = t /\ a.sched = job.sched
  BY <1>1, <1>2, <1>3, AppliedWaits
<1>5. QED  BY <1>4 DEF ran

LEMMA ReadAge ==
  ASSUME RegistryTypeOK, Up, NEW t \in Read
  PROVE  /\ t \in 1 .. MaxTime /\ t \in Nat /\ now \in Nat /\ MaxLag \in Nat
         /\ t <= now /\ now <= t + MaxLag
  BY RegistryBounds DEF RegistryTypeOK, Up, Read

LEMMA LoadFired ==
  ASSUME RegistryTypeOK, FiredInv, Load
  PROVE  FiredInv'
<1>1. /\ jobs' = [id \in DOMAIN disk.jobs |-> ApplySchedule(disk.jobs[id], now)]
      /\ disk' = disk /\ fired' = fired /\ now' = now /\ now \in Nat
      /\ IsRegistry(disk.jobs) /\ fired \in [Ids -> Nat]
  BY RegistryBounds, TypeParts DEF Load, Clocks, Stored, IsFile, Histories
<1>2. ASSUME NEW id \in DOMAIN disk.jobs
      PROVE  /\ Timely(jobs'[id], fired[id], now) /\ Waits(jobs'[id], fired[id])
             /\ Behind(disk.jobs[id], jobs'[id])
  <2>1. id \in Ids /\ disk.jobs[id] \in Job /\ fired[id] \in Nat /\ fired[id] - MaxLag <= now
    BY <1>1, RegistryBounds DEF IsRegistry, FiredInv, FiredBefore
  <2>2. disk.jobs[id].last <= now /\ LastKnown(disk.jobs[id], fired[id])
    BY DEF FiredInv, FileBehind, Timely
  <2>3. jobs'[id] = ApplySchedule(disk.jobs[id], now)
    BY <1>1
  <2>4. /\ LastKnown(jobs'[id], fired[id]) /\ Waits(jobs'[id], fired[id])
        /\ jobs'[id].last = disk.jobs[id].last /\ jobs'[id].sched = disk.jobs[id].sched
    BY <1>1, <2>1, <2>2, <2>3, AppliedWaits
  <2>5. Timely(jobs'[id], fired[id], now) /\ Behind(disk.jobs[id], jobs'[id])
    <3>1. disk.jobs[id].last \in Nat
      BY <2>1, NumbersOfJob
    <3>2. QED  BY <2>2, <2>4, <3>1, RegistryBounds DEF Timely, Behind
  <2>6. QED  BY <2>4, <2>5
<1>3. JobsWait' /\ FileBehind'
  BY <1>1, <1>2 DEF JobsWait, FileBehind, FiredInv
<1>4. QED  BY <1>1, <1>3 DEF FiredInv, FiredBefore

\* Fewer jobs, or the same, and nothing fired but forgotten.
LEMMA FewerJobs ==
  ASSUME RegistryTypeOK, FiredInv, Stored', now' = now,
         \A id \in Ids : fired'[id] \in {fired[id], 0},
         DOMAIN jobs' \subseteq DOMAIN jobs, \A id \in DOMAIN jobs' : jobs'[id] = jobs[id],
         disk' = File(jobs', order') \/ disk' = disk \/ disk' = Torn
  PROVE  FiredInv'
<1>1. now \in Nat /\ IsRegistry(jobs) /\ IsRegistry(disk.jobs) /\ fired \in [Ids -> Nat]
  BY RegistryBounds, TypeParts DEF Clocks, Stored, IsFile, Histories
<1>2. FiredBefore'
  BY <1>1 DEF FiredInv, FiredBefore
<1>3. ASSUME NEW j, NEW id \in Ids, Timely(j, fired[id], now) PROVE Timely(j, fired'[id], now')
  BY <1>1, <1>3 DEF Timely, LastKnown
<1>4. ASSUME NEW j, NEW id \in Ids, Waits(j, fired[id]) PROVE Waits(j, fired'[id])
  BY <1>1, <1>4 DEF Waits
<1>5. JobsWait'
  BY <1>1, <1>3, <1>4 DEF JobsWait, FiredInv, IsRegistry
<1>6. CASE disk' = disk
  <2>1. FileBehind'
    BY <1>1, <1>3, <1>6 DEF FileBehind, FiredInv, IsRegistry
  <2>2. QED  BY <1>2, <1>5, <2>1 DEF FiredInv
<1>7. CASE disk' = File(jobs', order') \/ disk' = Torn
  BY <1>2, <1>5, <1>7, WrittenFile DEF FiredInv, Stored
<1>8. QED  BY <1>6, <1>7

LEMMA AddFired ==
  ASSUME RegistryTypeOK, FiredInv, NEW id \in Ids, NEW name \in Names, NEW s \in Schedules,
         NEW t \in Read, NEW w \in Writes, Add(id, name, s, t, w)
  PROVE  FiredInv'
<1> DEFINE job == ApplySchedule([name |-> name, sched |-> s, enabled |-> TRUE,
                                 last |-> 0, next |-> 0], t)
           stored == [k \in DOMAIN jobs \cup {id} |-> IF k = id THEN job ELSE jobs[k]]
<1>1. Stored'
  BY AddStored
<1>2. /\ fired' = [fired EXCEPT ![id] = 0] /\ fired \in [Ids -> Nat] /\ now' = now /\ now \in Nat
      /\ IsRegistry(jobs)
  BY RegistryBounds, TypeParts DEF Add, Clocks, Stored, Histories
<1>3. CASE w = "ok"
  <2>1. jobs' = stored /\ disk' = File(jobs', order')
    BY <1>3 DEF Add
  <2>2. t \in Nat
    BY ReadTime DEF Add
  <2>3. job.last = 0 /\ job \in Job
    BY <2>2, NewJob
  <2> HIDE DEF job
  <2>4. JobsWait'
    <3> SUFFICES ASSUME NEW k \in DOMAIN jobs'
                 PROVE  Timely(jobs'[k], fired'[k], now') /\ Waits(jobs'[k], fired'[k])
      BY DEF JobsWait
    <3>1. CASE k = id
      <4>1. jobs'[k] = job /\ fired'[k] = 0  BY <1>2, <2>1, <3>1
      <4>2. QED  BY <1>2, <2>3, <4>1 DEF Timely, LastKnown, Waits
    <3>2. CASE k # id
      <4>1. k \in DOMAIN jobs /\ k \in Ids  BY <1>2, <2>1, <3>2 DEF IsRegistry
      <4>2. jobs'[k] = jobs[k] /\ fired'[k] = fired[k]  BY <1>2, <2>1, <3>2, <4>1
      <4>3. QED  BY <1>2, <4>1, <4>2 DEF FiredInv, JobsWait
    <3>3. QED  BY <3>1, <3>2
  <2>5. FiredBefore'
    BY <1>2 DEF FiredInv, FiredBefore
  <2>6. QED  BY <1>1, <2>1, <2>4, <2>5, WrittenFile DEF FiredInv, Stored
<1>4. CASE w # "ok"
  <2>1. jobs' = Restrict(jobs, DOMAIN jobs \ {id}) /\ (disk' = disk \/ disk' = Torn)
    BY <1>4 DEF Add
  <2>2. DOMAIN jobs' \subseteq DOMAIN jobs /\ \A k \in DOMAIN jobs' : jobs'[k] = jobs[k]
    BY <2>1 DEF Restrict
  <2>3. QED  BY <1>1, <1>2, <2>1, <2>2, FewerJobs
<1>5. QED  BY <1>3, <1>4

LEMMA RunNowFired ==
  ASSUME RegistryTypeOK, FiredInv, NEW id \in Ids, NEW t \in Read, NEW w \in Writes,
         RunNow(id, t, w)
  PROVE  FiredInv'
<1> DEFINE a == ApplySchedule([jobs[id] EXCEPT !.last = t], t)
<1>1. Stored'
  BY RunNowStored
<1>2. /\ t \in 1 .. MaxTime /\ t \in Nat /\ t <= now /\ now <= t + MaxLag
      /\ now' = now /\ now \in Nat /\ MaxLag \in Nat
      /\ fired' = fired /\ fired \in [Ids -> Nat] /\ id \in DOMAIN jobs
      /\ IsRegistry(jobs) /\ IsRegistry(disk.jobs)
  BY RegistryBounds, TypeParts, ReadAge DEF RunNow, Stored, IsFile, Histories
<1>3. jobs' = [jobs EXCEPT ![id] = a] /\ Persist(w)
  BY DEF RunNow
<1>4. jobs[id] \in Job /\ fired[id] \in Nat /\ fired[id] - MaxLag <= t
  BY <1>2 DEF IsRegistry, FiredInv, FiredBefore
<1>5. LastKnown(a, fired[id]) /\ Waits(a, fired[id]) /\ a.last = t /\ a.sched = jobs[id].sched
  BY <1>2, <1>4, RanWaits
<1> HIDE DEF a
<1>6. JobsWait'
  BY <1>2, <1>3, <1>5 DEF FiredInv, JobsWait, Timely
<1>7. FiredBefore'
  BY <1>2 DEF FiredInv, FiredBefore
<1>8. CASE disk' = disk
  <2>1. \A k \in DOMAIN disk.jobs : disk.jobs[k].last <= now
    BY DEF FiredInv, FileBehind, Timely
  <2>2. ASSUME NEW k \in DOMAIN disk.jobs \cap DOMAIN jobs PROVE Behind(disk.jobs[k], jobs'[k])
    <3>1. Behind(disk.jobs[k], jobs[k])
      BY DEF FiredInv, FileBehind
    <3>2. CASE k = id
      <4>1. jobs'[k] = a /\ disk.jobs[k] \in Job
        BY <1>2, <1>3, <3>2 DEF IsRegistry
      <4>2. disk.jobs[k].last \in Nat /\ disk.jobs[k].last <= now
        BY <2>1, <4>1, NumbersOfJob
      <4>3. QED
        BY <1>2, <1>5, <3>1, <3>2, <4>1, <4>2 DEF Behind
    <3>3. CASE k # id
      BY <1>3, <3>1, <3>3
    <3>4. QED  BY <3>2, <3>3
  <2>3. FileBehind'
    BY <1>2, <1>3, <1>8, <2>2 DEF FiredInv, FileBehind
  <2>4. QED  BY <1>6, <1>7, <2>3 DEF FiredInv
<1>9. QED  BY <1>1, <1>3, <1>6, <1>7, <1>8, Persisted, WrittenFile DEF FiredInv, Stored

LEMMA PollFired ==
  ASSUME RegistryTypeOK, Slots, FiredInv, NEW t \in Read, NEW w \in Writes, Poll(t, w)
  PROVE  FiredInv'
<1>1. Stored'
  BY PollStored
<1>2. /\ t \in 1 .. MaxTime /\ t \in Nat /\ t <= now /\ now <= t + MaxLag
      /\ now' = now /\ now \in Nat /\ MaxLag \in Nat
      /\ fired \in [Ids -> Nat] /\ IsRegistry(jobs) /\ IsRegistry(disk.jobs)
  BY RegistryBounds, TypeParts, ReadAge DEF Poll, Stored, IsFile, Histories
<1>3. /\ jobs' = [id \in DOMAIN jobs |->
                    IF id \in Due(t) THEN ApplySchedule([jobs[id] EXCEPT !.last = t], t) ELSE jobs[id]]
      /\ fired' = [id \in Ids |-> IF id \in Due(t) THEN t ELSE fired[id]]
      /\ disk' = disk \/ Persist(w)
  BY DEF Poll
<1>4. FiredBefore'
  BY <1>2, <1>3 DEF FiredInv, FiredBefore
<1>5. ASSUME NEW id \in DOMAIN jobs, id \in Due(t)
      PROVE  /\ Timely(jobs'[id], t, now) /\ Waits(jobs'[id], t)
             /\ jobs'[id].last = t /\ jobs'[id].sched = jobs[id].sched /\ fired'[id] = t
  <2>1. jobs[id] \in Job /\ id \in Ids
    BY <1>2 DEF IsRegistry
  <2>2. jobs'[id] = ApplySchedule([jobs[id] EXCEPT !.last = t], t) /\ fired'[id] = t
    BY <1>2, <1>3, <1>5, <2>1
  <2>3. t - MaxLag <= t
    BY <1>2
  <2>4. /\ LastKnown(jobs'[id], t) /\ Waits(jobs'[id], t)
        /\ jobs'[id].last = t /\ jobs'[id].sched = jobs[id].sched
    BY <1>2, <2>1, <2>2, <2>3, RanWaits
  <2>5. QED  BY <1>2, <2>2, <2>4 DEF Timely
<1>6. ASSUME NEW id \in Ids, id \notin Due(t)
      PROVE  fired'[id] = fired[id] /\ (id \in DOMAIN jobs => jobs'[id] = jobs[id])
  BY <1>3, <1>6
<1>7. JobsWait'
  <2> SUFFICES ASSUME NEW id \in DOMAIN jobs'
               PROVE  Timely(jobs'[id], fired'[id], now') /\ Waits(jobs'[id], fired'[id])
    BY DEF JobsWait
  <2>1. id \in DOMAIN jobs /\ id \in Ids
    BY <1>2, <1>3 DEF IsRegistry
  <2>2. QED  BY <1>2, <1>5, <1>6, <2>1 DEF FiredInv, JobsWait
<1>8. CASE disk' = disk
  <2>1. ASSUME NEW id \in DOMAIN disk.jobs PROVE Timely(disk.jobs[id], fired'[id], now)
    <3>1. Timely(disk.jobs[id], fired[id], now) /\ disk.jobs[id] \in Job /\ id \in Ids
      BY <1>2 DEF FiredInv, FileBehind, IsRegistry
    <3>2. CASE id \in Due(t)
      <4>1. id \in DOMAIN jobs /\ jobs[id].enabled /\ jobs[id].next <= t
        BY <1>2, <3>2 DEF Due, IsDue
      <4>2. jobs[id] \in Job /\ fired'[id] = t
        BY <1>2, <1>5, <3>2, <4>1 DEF IsRegistry
      <4>3. Behind(disk.jobs[id], jobs[id]) /\ HasSlot(jobs[id])
        BY <4>1 DEF FiredInv, FileBehind, Slots
      <4>4. /\ disk.jobs[id].last \in Nat /\ jobs[id].last \in Nat /\ jobs[id].next \in Nat
            /\ jobs[id].sched.every \in Nat
        BY <3>1, <4>2, NumbersOfJob
      <4>5. QED
        BY <1>2, <3>1, <4>1, <4>2, <4>3, <4>4 DEF Timely, LastKnown, Behind, HasSlot
    <3>3. CASE id \notin Due(t)
      BY <1>6, <3>1, <3>3
    <3>4. QED  BY <3>2, <3>3
  <2>2. ASSUME NEW id \in DOMAIN disk.jobs \cap DOMAIN jobs PROVE Behind(disk.jobs[id], jobs'[id])
    <3>1. Behind(disk.jobs[id], jobs[id]) /\ id \in Ids /\ disk.jobs[id].last <= now
      BY <1>2 DEF FiredInv, FileBehind, Timely, IsRegistry
    <3>2. CASE id \in Due(t)
      <4>1. disk.jobs[id].last \in Nat
        BY <1>2, NumbersOfJob DEF IsRegistry
      <4>2. jobs'[id].last = t /\ jobs'[id].sched = jobs[id].sched
        BY <1>5, <3>2
      <4>3. QED
        BY <1>2, <3>1, <4>1, <4>2 DEF Behind
    <3>3. CASE id \notin Due(t)
      BY <1>6, <3>1, <3>3
    <3>4. QED  BY <3>2, <3>3
  <2>3. FileBehind'
    BY <1>2, <1>3, <1>8, <2>1, <2>2 DEF FileBehind
  <2>4. QED  BY <1>4, <1>7, <2>3 DEF FiredInv
<1>9. QED  BY <1>1, <1>3, <1>4, <1>7, <1>8, Persisted, WrittenFile DEF FiredInv, Stored

LEMMA FiredInductive ==
  /\ RegistryInit => FiredInv
  /\ RegistryTypeOK /\ Slots /\ FiredInv /\ RegistryTypeOK' /\ [RegistryNext]_registryVars
       => FiredInv'
<1>1. ASSUME RegistryInit PROVE FiredInv
  <2>1. DOMAIN NoJobs = {} /\ <<>> \in Seq(Ids) /\ IsRegistry(NoJobs)
    BY DEF NoJobs, IsRegistry
  <2>2. DOMAIN File(NoJobs, <<>>).jobs = {}
    BY <2>1, FileOf
  <2>3. QED  BY <1>1, <2>1, <2>2 DEF RegistryInit, FiredInv, FiredBefore, JobsWait, FileBehind
<1>2. ASSUME RegistryTypeOK, Slots, FiredInv, RegistryTypeOK', [RegistryNext]_registryVars
      PROVE  FiredInv'
  <2> USE <1>2
  <2>1. Stored'
    BY DEF RegistryTypeOK, Stored, IsFile
  <2>2. CASE ProcessEnds
    <3>1. DOMAIN jobs' = {} /\ fired' = fired /\ now' = now /\ (disk' = disk \/ disk' = Torn)
      BY <2>2 DEF ProcessEnds, NoJobs
    <3>2. QED  BY <2>1, <3>1, FewerJobs
  <2>3. CASE TimePasses
    <3>1. now' = now + 1 /\ now \in Nat /\ UNCHANGED registry
      BY <2>3, RegistryBounds, TypeParts DEF TimePasses, Clocks
    <3>2. /\ fired \in [Ids -> Nat]
          /\ \A id \in DOMAIN jobs : jobs[id].last \in Nat
          /\ \A id \in DOMAIN disk.jobs : disk.jobs[id].last \in Nat
      BY RegistryBounds, TypeParts, NumbersOfJob DEF Histories, Stored, IsFile, IsRegistry
    <3>3. FiredBefore'
      BY <3>1, <3>2 DEF registry, FiredInv, FiredBefore
    <3>4. JobsWait' /\ FileBehind'
      BY <3>1, <3>2 DEF registry, FiredInv, JobsWait, FileBehind, Timely
    <3>5. QED  BY <3>3, <3>4 DEF FiredInv
  <2>4. ASSUME NEW w \in Writes, NEW id \in Ids, RemoveJob(id, w) PROVE FiredInv'
    <3>1. jobs' = Restrict(jobs, DOMAIN jobs \ {id}) /\ Persist(w) /\ fired' = fired /\ now' = now
      BY <2>4 DEF RemoveJob
    <3>2. DOMAIN jobs' \subseteq DOMAIN jobs /\ \A k \in DOMAIN jobs' : jobs'[k] = jobs[k]
      BY <3>1 DEF Restrict
    <3>3. QED  BY <2>1, <3>1, <3>2, Persisted, FewerJobs
  <2>5. ASSUME NEW w \in Writes, NEW id \in Ids, RecordRunError(id, w) PROVE FiredInv'
    <3>1. jobs' = jobs /\ (disk' = disk \/ Persist(w)) /\ fired' = fired /\ now' = now
      BY <2>5 DEF RecordRunError
    <3>2. QED  BY <2>1, <3>1, Persisted, FewerJobs
  <2>6. CASE UNCHANGED registryVars
    <3>1. jobs' = jobs /\ disk' = disk /\ fired' = fired /\ now' = now
      BY <2>6 DEF registryVars, registry
    <3>2. QED  BY <2>1, <3>1, FewerJobs
  <2>7. QED
    BY <2>2, <2>3, <2>4, <2>5, <2>6, LoadFired, AddFired, RunNowFired, PollFired
       DEF RegistryNext, Request
<1>3. QED  BY <1>1, <1>2

\* However long an operation waits for the lock with the time it has read, a job
\* that Poll fired gets a slot that follows the firing, up to that wait, whatever
\* restarts and failed or torn writes do in between.
\* (Poll, RunNow and Load with applyScheduleLocked)
THEOREM SlotsAreRespected == RegistrySpec => []SlotsRespected
<1>1. FiredInv => SlotsRespected
  BY DEF FiredInv, JobsWait, Waits, SlotsRespected
<1>2. QED  BY <1>1, RegistryInductive, FiredInductive, PTL DEF RegistrySpec
-----------------------------------------------------------------------------
\* Acknowledged jobs.  What a restart brings back is the file's map, and what
\* the next write puts there is what order lists: a job that was not lost has to
\* be in all four, unless the file is torn.
Kept == acked \ lost
AckInv == /\ ~disk.torn => Kept \subseteq DOMAIN disk.jobs /\ Kept \subseteq Range(disk.order)
          /\ Up => Kept \subseteq DOMAIN jobs /\ Kept \subseteq Range(order)

LEMMA AckWritten ==
  ASSUME IsRegistry(jobs'), order' \in Seq(Ids), Up', AckInv,
         Kept' \subseteq DOMAIN jobs', Kept' \subseteq Range(order'),
         disk' = File(jobs', order') \/ (disk' = disk /\ Kept' \subseteq Kept) \/ disk' = Torn
  PROVE  AckInv'
<1>1. CASE disk' = File(jobs', order')
  <2> DEFINE F == File(jobs', order')
  <2>1. DOMAIN F.jobs = Range(order') \cap DOMAIN jobs'
    BY FileOf
  <2>2. Range(F.order) = Range(order') \cap DOMAIN jobs'
    BY FileOf
  <2> HIDE DEF F
  <2>3. Kept' \subseteq DOMAIN F.jobs /\ Kept' \subseteq Range(F.order)
    BY <2>1, <2>2
  <2>4. disk' = F
    BY <1>1 DEF F
  <2>5. Kept' \subseteq DOMAIN disk'.jobs /\ Kept' \subseteq Range(disk'.order)
    BY <2>3, <2>4
  <2>6. QED  BY <2>5 DEF AckInv
<1>2. CASE disk' = disk /\ Kept' \subseteq Kept
  BY <1>2 DEF AckInv
<1>3. CASE disk' = Torn
  BY <1>3, TornFile DEF AckInv
<1>4. QED  BY <1>1, <1>2, <1>3

LEMMA AckInductive ==
  /\ RegistryInit => AckInv
  /\ RegistryTypeOK /\ AckInv /\ RegistryTypeOK' /\ [RegistryNext]_registryVars => AckInv'
<1>1. RegistryInit => AckInv
  BY DEF RegistryInit, AckInv, Kept
<1>2. ASSUME RegistryTypeOK, AckInv, RegistryTypeOK', [RegistryNext]_registryVars
      PROVE  AckInv'
  <2> USE <1>2
  <2>1. Stored' /\ Stored
    BY DEF RegistryTypeOK, Stored, IsFile
  <2>2. IsRegistry(jobs') /\ order' \in Seq(Ids) /\ order \in Seq(Ids) /\ disk.order \in Seq(Ids)
    BY <2>1 DEF Stored, IsFile
  <2>3. CASE Load
    <3>1. /\ DOMAIN jobs' = DOMAIN disk.jobs /\ Range(order') = Range(disk.order)
          /\ disk' = disk /\ Kept' = IF disk.torn THEN {} ELSE Kept
      BY <2>2, <2>3, DistinctRange DEF Load, Kept
    <3>2. QED  BY <3>1 DEF AckInv
  <2>4. CASE ProcessEnds
    <3>1. (disk' = disk \/ disk' = Torn) /\ Kept' = Kept /\ ~Up'
      BY <2>4 DEF ProcessEnds, Up, Kept
    <3>2. QED  BY <3>1, TornFile DEF AckInv
  <2>5. CASE TimePasses \/ UNCHANGED registryVars
    <3>1. UNCHANGED <<boot, jobs, order, disk, acked, lost>>
      BY <2>5 DEF TimePasses, registryVars, registry
    <3>2. QED  BY <3>1 DEF AckInv, Up, Kept
  <2>6. ASSUME NEW w \in Writes, NEW id \in Ids, NEW name \in Names, NEW s \in Schedules,
               NEW t \in Read, Add(id, name, s, t, w)
        PROVE  AckInv'
    <3>1. Up /\ Up'
      BY <2>6 DEF Add, Up
    <3>2. CASE w = "ok"
      <4>1. /\ DOMAIN jobs' = DOMAIN jobs \cup {id} /\ order' = Append(order, id)
            /\ disk' = File(jobs', order') /\ Kept' \subseteq Kept \cup {id}
        BY <2>6, <3>2 DEF Add, Kept
      <4>2. Range(order') = Range(order) \cup {id}
        BY <2>2, <4>1, AppendRange
      <4>3. QED  BY <2>2, <3>1, <4>1, <4>2, AckWritten DEF AckInv
    <3>3. CASE w # "ok"
      <4>1. /\ DOMAIN jobs' = DOMAIN jobs \ {id} /\ order' = order /\ (disk' = disk \/ disk' = Torn)
            /\ Kept' = Kept \ {id}
        BY <2>6, <3>3 DEF Add, Restrict, Kept
      <4>2. QED  BY <2>2, <3>1, <4>1, AckWritten DEF AckInv
    <3>4. QED  BY <3>2, <3>3
  <2>7. ASSUME NEW w \in Writes, NEW id \in Ids, RemoveJob(id, w) PROVE AckInv'
    <3>1. /\ DOMAIN jobs' = DOMAIN jobs \ {id} /\ order' = Keep(order, Range(order) \ {id})
          /\ Kept' = Kept \ {id} /\ Up /\ Up' /\ Persist(w)
      BY <2>7 DEF RemoveJob, Restrict, Up, Kept
    <3>2. Range(order') = Range(order) \ {id}
      BY <2>2, <3>1, KeepRange
    <3>3. QED  BY <2>2, <3>1, <3>2, Persisted, AckWritten DEF AckInv
  <2>8. ASSUME NEW w \in Writes, DOMAIN jobs' = DOMAIN jobs, order' = order, Up, Up',
               acked' = acked, lost' = lost, disk' = disk \/ Persist(w)
        PROVE  AckInv'
    <3>1. Kept' = Kept
      BY <2>8 DEF Kept
    <3>2. QED  BY <2>2, <2>8, <3>1, Persisted, AckWritten DEF AckInv
  <2>9. ASSUME NEW w \in Writes, NEW id \in Ids, NEW t \in Read, RunNow(id, t, w) PROVE AckInv'
    BY <2>8, <2>9 DEF RunNow, Up
  <2>10. ASSUME NEW w \in Writes, NEW id \in Ids, RecordRunError(id, w) PROVE AckInv'
    BY <2>8, <2>10 DEF RecordRunError, Up
  <2>11. ASSUME NEW w \in Writes, NEW t \in Read, Poll(t, w) PROVE AckInv'
    BY <2>8, <2>11 DEF Poll, Up
  <2>12. QED
    BY <2>3, <2>4, <2>5, <2>6, <2>7, <2>9, <2>10, <2>11 DEF RegistryNext, Request
<1>3. QED  BY <1>1, <1>2

\* Whatever writes fail or are cut short and whoever brings identifiers, only
\* a start on a torn file and a failed addition under its identifier take an
\* acknowledged job from a daemon.
\* (Add's rollback, persistLocked, snapshotLocked and Load)
THEOREM AcknowledgedJobsSurvive == RegistrySpec => []AcknowledgedSurvive
<1>1. AckInv => AcknowledgedSurvive
  BY DEF AckInv, Kept, AcknowledgedSurvive
<1>2. QED  BY <1>1, RegistryInductive, AckInductive, PTL DEF RegistrySpec
-----------------------------------------------------------------------------
\* The scheduler uses the registry by its operations only.
LEMMA SchedulerStep == [Next]_vars => [RegistryNext]_registryVars
<1> SUFFICES ASSUME [Next]_vars PROVE [RegistryNext]_registryVars
  OBVIOUS
<1>1. CASE Boot \/ Halt \/ Clock
  BY <1>1 DEF Boot, Halt, Clock, RegistryNext
<1>2. CASE \E w \in Writes : AddRequest(w) \/ RemoveRequest(w)
  BY <1>2 DEF AddRequest, RemoveRequest, RegistryNext, Request
<1>3. CASE \E c \in Callers, w \in Writes : RunRequest(c, w)
  BY <1>3 DEF RunRequest, RegistryNext, Request
<1>4. CASE PollStep
  BY <1>4 DEF PollStep, PollCaptures, PollDispatches, RegistryNext
<1>5. CASE (\E c \in Callers : RunDispatches(c)) \/ Tick \/ StopCloses \/ LoopExits \/ StopReturns
  BY <1>5 DEF RunDispatches, Tick, StopCloses, LoopExits, StopReturns
<1>6. CASE \E id \in Ids : RunStep(id)
  BY <1>6 DEF RunStep, RunSucceeds, RunFails, ReleaseRun, RegistryNext, Request
<1>7. CASE UNCHANGED vars
  BY <1>7 DEF vars
<1>8. QED  BY <1>1, <1>2, <1>3, <1>4, <1>5, <1>6, <1>7 DEF Next

\* Polls, requests, runs and their errors are operations of the registry, so
\* what is proved of it holds under the scheduler.
THEOREM SchedulerRefinesRegistry == Spec => RegistrySpec
  BY SchedulerStep, PTL DEF Spec, RegistrySpec, Init

\* The guard.
GuardTypes == /\ IsFiniteSet(inFlight) /\ active \in Nat /\ cap \in Nat
              /\ running \in [Ids -> Nat] /\ ending \in [Ids -> Nat]
GuardInv == GuardTypes /\ GuardExact

LEMMA DispatchInv ==
  ASSUME GuardInv, NEW id, Dispatch(id) PROVE GuardInv'
<1>1. CASE ~Admits(id)
  <2>1. UNCHANGED guardVars  BY <1>1 DEF Dispatch
  <2>2. QED  BY <2>1 DEF guardVars, GuardInv, GuardTypes, GuardExact
<1>2. CASE Admits(id)
  <2>1. /\ inFlight' = inFlight \cup {id} /\ active' = active + 1
        /\ running' = [running EXCEPT ![id] = @ + 1] /\ ending' = ending /\ cap' = cap
        /\ id \notin inFlight /\ active < cap
    BY <1>2 DEF Dispatch, Admits
  <2>2. IsFiniteSet(inFlight') /\ Cardinality(inFlight') = Cardinality(inFlight) + 1
    BY <2>1, FS_AddElement DEF GuardInv, GuardTypes
  <2>3. GuardTypes'
    <3>1. running \in [Ids -> Nat] /\ ending \in [Ids -> Nat] /\ active \in Nat /\ cap \in Nat
      BY DEF GuardInv, GuardTypes
    <3>2. \A k \in Ids : running[k] + 1 \in Nat
      BY <3>1
    <3>3. running' \in [Ids -> Nat]
      BY <2>1, <3>1, <3>2
    <3>4. active' \in Nat /\ cap' \in Nat /\ ending' \in [Ids -> Nat]
      BY <2>1, <3>1
    <3>5. QED  BY <2>2, <3>3, <3>4 DEF GuardTypes
  <2>4. \A k \in Ids : running'[k] + ending'[k] = IF k \in inFlight' THEN 1 ELSE 0
    <3> SUFFICES ASSUME NEW k \in Ids
                 PROVE  running'[k] + ending'[k] = IF k \in inFlight' THEN 1 ELSE 0
      OBVIOUS
    <3>1. /\ running[k] + ending[k] = IF k \in inFlight THEN 1 ELSE 0
          /\ running[k] \in Nat /\ ending[k] \in Nat
      BY DEF GuardInv, GuardTypes, GuardExact
    <3>2. running'[k] = IF k = id THEN running[k] + 1 ELSE running[k]
      BY <2>1 DEF GuardInv, GuardTypes
    <3>3. QED  BY <2>1, <3>1, <3>2
  <2>5. QED  BY <2>1, <2>2, <2>3, <2>4 DEF GuardInv, GuardTypes, GuardExact
<1>3. QED  BY <1>1, <1>2

LEMMA ReleaseInv ==
  ASSUME GuardInv, NEW id \in Ids, ReleaseRun(id) PROVE GuardInv'
<1>1. /\ ending[id] > 0 /\ ending' = [ending EXCEPT ![id] = @ - 1] /\ inFlight' = inFlight \ {id}
      /\ active' = IF active > 0 THEN active - 1 ELSE 0
      /\ running' = running /\ cap' = cap
  BY DEF ReleaseRun
<1>2. /\ running[id] \in Nat /\ ending[id] \in Nat
      /\ running[id] + ending[id] = IF id \in inFlight THEN 1 ELSE 0
      /\ active = Cardinality(inFlight) /\ active \in Nat /\ active <= cap /\ cap \in Nat
      /\ IsFiniteSet(inFlight)
  BY DEF GuardInv, GuardTypes, GuardExact
<1>3. id \in inFlight /\ running[id] = 0 /\ ending[id] = 1
  BY <1>1, <1>2
<1>4. IsFiniteSet(inFlight') /\ Cardinality(inFlight') = Cardinality(inFlight) - 1
  BY <1>1, <1>2, <1>3, FS_RemoveElement
<1>5. Cardinality(inFlight') \in Nat
  BY <1>4, FS_CardinalityType
<1>6. active' = Cardinality(inFlight') /\ active' \in Nat /\ active' <= cap'
  BY <1>1, <1>2, <1>4, <1>5
<1>7. GuardTypes'
  BY <1>1, <1>2, <1>3, <1>4, <1>6 DEF GuardInv, GuardTypes
<1>8. \A k \in Ids : running'[k] + ending'[k] = IF k \in inFlight' THEN 1 ELSE 0
  <2> SUFFICES ASSUME NEW k \in Ids
               PROVE  running'[k] + ending'[k] = IF k \in inFlight' THEN 1 ELSE 0
    OBVIOUS
  <2>1. /\ running[k] + ending[k] = IF k \in inFlight THEN 1 ELSE 0
        /\ ending'[k] = IF k = id THEN 0 ELSE ending[k]
    BY <1>1, <1>3 DEF GuardInv, GuardTypes, GuardExact
  <2>2. QED  BY <1>1, <1>3, <2>1
<1>9. QED  BY <1>6, <1>7, <1>8 DEF GuardInv, GuardExact

LEMMA RunEndsInv ==
  ASSUME GuardInv, NEW id \in Ids, RunEnds(id) PROVE GuardInv'
<1>1. /\ running[id] > 0 /\ running' = [running EXCEPT ![id] = @ - 1]
      /\ ending' = [ending EXCEPT ![id] = @ + 1]
      /\ inFlight' = inFlight /\ active' = active /\ cap' = cap
  BY DEF RunEnds
<1>2. GuardTypes'
  BY <1>1 DEF GuardInv, GuardTypes
<1>3. \A k \in Ids : running'[k] + ending'[k] = IF k \in inFlight' THEN 1 ELSE 0
  <2> SUFFICES ASSUME NEW k \in Ids
               PROVE  running'[k] + ending'[k] = IF k \in inFlight' THEN 1 ELSE 0
    OBVIOUS
  <2>1. /\ running[k] \in Nat /\ ending[k] \in Nat
        /\ running[k] + ending[k] = IF k \in inFlight THEN 1 ELSE 0
        /\ running'[k] = IF k = id THEN running[k] - 1 ELSE running[k]
        /\ ending'[k] = IF k = id THEN ending[k] + 1 ELSE ending[k]
    BY <1>1 DEF GuardInv, GuardTypes, GuardExact
  <2>2. QED  BY <1>1, <2>1
<1>4. QED  BY <1>1, <1>2, <1>3 DEF GuardInv, GuardExact

LEMMA GuardInductive == /\ Init => GuardInv
                        /\ GuardInv /\ [Next]_vars => GuardInv'
<1>1. ASSUME inFlight = {}, active = 0, cap \in Nat,
             running = [id \in Ids |-> 0], ending = [id \in Ids |-> 0]
      PROVE  GuardInv
  BY <1>1, FS_EmptySet DEF GuardInv, GuardTypes, GuardExact
<1>2. Init => GuardInv
  BY <1>1, SchedulerBounds DEF Init
<1>3. ASSUME GuardInv, [Next]_vars PROVE GuardInv'
  <2>1. UNCHANGED guardVars => GuardInv'
    BY <1>3 DEF guardVars, GuardInv, GuardTypes, GuardExact
  <2>2. CASE Halt
    <3>1. /\ inFlight' = {} /\ active' = 0 /\ cap' = cap /\ cap \in Nat
          /\ running' = [id \in Ids |-> 0] /\ ending' = [id \in Ids |-> 0]
      BY <1>3, <2>2 DEF Halt, Idle, GuardInv, GuardTypes
    <3>2. QED  BY <3>1, FS_EmptySet DEF GuardInv, GuardTypes, GuardExact
  <2>3. CASE \/ Boot \/ Clock \/ Tick \/ StopCloses \/ LoopExits \/ StopReturns
             \/ (\E w \in Writes : AddRequest(w) \/ RemoveRequest(w))
             \/ (\E c \in Callers, w \in Writes : RunRequest(c, w))
             \/ (\E t \in Read, w \in Writes : PollCaptures(t, w))
             \/ UNCHANGED vars
    BY <2>1, <2>3
       DEF Boot, Clock, Tick, StopCloses, LoopExits, StopReturns, AddRequest, RemoveRequest,
           RunRequest, PollCaptures, vars
  <2>4. CASE (\E c \in Callers : RunDispatches(c)) \/ PollDispatches
    BY <1>3, <2>4, DispatchInv DEF RunDispatches, PollDispatches
  <2>5. CASE \E id \in Ids : RunStep(id)
    BY <1>3, <2>5, RunEndsInv, ReleaseInv DEF RunStep, RunSucceeds, RunFails
  <2>6. QED  BY <1>3, <2>2, <2>3, <2>4, <2>5 DEF Next, PollStep
<1>4. QED  BY <1>2, <1>3

\* The guard counts exactly the runs that have not released it, for any number
\* of jobs and slots: no job runs beside itself, the cap holds and no slot is
\* lost.  (tryAcquire, release and runScheduledJob)
THEOREM GuardIsExact == Spec => []GuardExact
<1>1. GuardInv => GuardExact
  BY DEF GuardInv
<1>2. QED  BY <1>1, GuardInductive, PTL DEF Spec
=============================================================================
