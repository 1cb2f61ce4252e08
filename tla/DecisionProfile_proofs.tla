------------------------ MODULE DecisionProfile_proofs ------------------------
(***************************************************************************)
(* Proofs about the decision store, for any number of clients, decisions   *)
(* and revisions.  First the files: they implement the journal, and the    *)
(* history can be read.  Then the agents and the dashboard, which use the  *)
(* store only by its operations, so that what is proved of the store holds *)
(* for them, and the profile that is rebuilt from it.                      *)
(***************************************************************************)
EXTENDS DecisionProfile, TLAPS

Ops == [at : {"put", "revise", "archived"}, d : Decisions, expected : Nat, text : Texts]

TypeOK == /\ record \in [Decisions -> [rev : 0 .. MaxRevision, text : Texts \cup {None}]]
          /\ history \in [Decisions -> [Revisions -> Texts \cup {None}]]
          /\ op \in [Clients -> Ops \cup {NoOp}]

\* A record that exists has a text.
Written == \A d \in Decisions : record[d].rev > 0 => record[d].text \in Texts

\* The lock: two clients in the store are at different decisions.
Exclusive == \A c, e \in Clients : op[c] # NoOp /\ op[e] # NoOp /\ op[c].d = op[e].d => c = e

\* What a client read under the lock still holds.
Fresh == \A c \in Clients : op[c] # NoOp =>
  LET d == op[c].d
  IN  /\ op[c].at = "put" => record[d].rev = 0
      /\ op[c].at \in {"revise", "archived"} =>
           /\ record[d].rev = op[c].expected
           /\ op[c].expected \in Revisions /\ op[c].expected < MaxRevision
      /\ op[c].at = "archived" => history[d][op[c].expected] = record[d].text

IInv == TypeOK /\ Written /\ Exclusive /\ Fresh /\ HistoryComplete

\* The initial state.
LEMMA InitInv == StoreInit => IInv
<1> SUFFICES ASSUME StoreInit PROVE IInv
  OBVIOUS
<1> USE StoreAssumption DEF StoreInit, Revisions
<1>1. TypeOK
  BY DEF TypeOK
<1>2. Written /\ Exclusive /\ Fresh /\ HistoryComplete
  BY DEF Written, Exclusive, Fresh, HistoryComplete
<1> QED
  BY <1>1, <1>2 DEF IInv

\* The beginning of Put and of Revise: the lock was free, so the client is
\* alone at its decision.
LEMMA EnterInv ==
  ASSUME IInv, NEW c \in Clients, NEW at \in {"put", "revise"}, NEW d \in Decisions,
         NEW e \in Nat, NEW t \in Texts,
         Enter(c, at, d, e, t), UNCHANGED <<record, history>>,
         record[d].rev = e,
         at = "put" => e = 0,
         at = "revise" => e \in Revisions /\ e < MaxRevision
  PROVE  IInv'
<1> DEFINE o == [at |-> at, d |-> d, expected |-> e, text |-> t]
<1>1. op' = [op EXCEPT ![c] = o] /\ o \in Ops /\ o # NoOp
  BY StoreAssumption DEF Enter, Ops
<1>2. \A x \in Clients : op[x] # NoOp => op[x].d # d
  BY DEF Enter, Unlocked
<1>3. \A x \in Clients : op'[x] = IF x = c THEN o ELSE op[x]
  BY <1>1 DEF IInv, TypeOK
<1> HIDE DEF o
<1>4. o.at = at /\ o.d = d /\ o.expected = e
  BY DEF o
<1>5. TypeOK'
  BY <1>1 DEF IInv, TypeOK
<1>6. Exclusive'
  BY <1>2, <1>3, <1>4 DEF IInv, Exclusive
<1>7. Fresh'
  BY <1>3, <1>4 DEF IInv, Fresh
<1>8. Written' /\ HistoryComplete'
  BY DEF IInv, Written, HistoryComplete
<1> QED
  BY <1>5, <1>6, <1>7, <1>8 DEF IInv

\* The end of a write, or of one that failed.
LEMMA LeaveInv ==
  ASSUME IInv, NEW c \in Clients, op[c] # NoOp, Leave(c)
  PROVE  /\ op' \in [Clients -> Ops \cup {NoOp}]
         /\ Exclusive'
         /\ \A x \in Clients : op'[x] # NoOp => x # c /\ op'[x] = op[x] /\ op[x].d # op[c].d
<1>1. \A x \in Clients : op'[x] = IF x = c THEN NoOp ELSE op[x]
  BY DEF Leave, IInv, TypeOK
<1>2. op' \in [Clients -> Ops \cup {NoOp}]
  BY DEF Leave, IInv, TypeOK
<1>3. \A x \in Clients : op'[x] # NoOp => x # c /\ op'[x] = op[x] /\ op[x].d # op[c].d
  BY <1>1 DEF IInv, Exclusive
<1>4. Exclusive'
  BY <1>1 DEF IInv, Exclusive
<1> QED
  BY <1>2, <1>3, <1>4

\* Put's write.
LEMMA WriteNewInv ==
  ASSUME IInv, NEW c \in Clients, WriteNew(c)
  PROVE  IInv'
<1> DEFINE d == op[c].d
<1>1. /\ d \in Decisions /\ op[c].text \in Texts /\ op[c] # NoOp /\ op[c].at = "put"
      /\ record[d].rev = 0
  BY DEF WriteNew, IInv, TypeOK, Ops, Fresh
<1>2. /\ \A x \in Decisions : record'[x] = IF x = d THEN [rev |-> 1, text |-> op[c].text] ELSE record[x]
      /\ history' = history
  BY <1>1 DEF WriteNew, IInv, TypeOK
<1>3. /\ op' \in [Clients -> Ops \cup {NoOp}]
      /\ Exclusive'
      /\ \A x \in Clients : op'[x] # NoOp => x # c /\ op'[x] = op[x] /\ op[x].d # d
  BY <1>1, LeaveInv DEF WriteNew
<1>4. TypeOK'
  BY <1>1, <1>2, <1>3, StoreAssumption DEF WriteNew, IInv, TypeOK
<1> HIDE DEF d
<1>5. Fresh'
  BY <1>2, <1>3 DEF IInv, Fresh, TypeOK, Ops
<1>6. Written'
  BY <1>1, <1>2 DEF IInv, Written
<1>7. HistoryComplete'
  BY <1>1, <1>2, StoreAssumption DEF IInv, HistoryComplete, Revisions
<1> QED
  BY <1>3, <1>4, <1>5, <1>6, <1>7 DEF IInv

\* Revise's write of the history.
LEMMA ArchiveInv ==
  ASSUME IInv, NEW c \in Clients, Archive(c)
  PROVE  IInv'
<1> DEFINE d == op[c].d
           r == record[d].rev
<1>1. /\ d \in Decisions /\ op[c] \in Ops /\ op[c].at = "revise" /\ op[c] # NoOp
      /\ r = op[c].expected /\ r \in Revisions /\ r < MaxRevision
  BY DEF Archive, IInv, TypeOK, Ops, Fresh
<1>2. record[d].text \in Texts
  BY <1>1, StoreAssumption DEF IInv, Written, Revisions
<1>3. history' = [history EXCEPT ![d][r] = record[d].text] /\ record' = record
  BY DEF Archive
<1>4. \A x \in Decisions : \A q \in Revisions :
        history'[x][q] = IF x = d /\ q = r THEN record[d].text ELSE history[x][q]
  BY <1>1, <1>3 DEF IInv, TypeOK
<1>5. /\ op'[c] \in Ops /\ op'[c] # NoOp /\ op'[c].at = "archived"
      /\ op'[c].d = d /\ op'[c].expected = r
  BY <1>1, StoreAssumption DEF Archive, IInv, TypeOK, Ops
<1>6. \A x \in Clients : x # c => op'[x] = op[x]
  BY DEF Archive, IInv, TypeOK
<1>7. TypeOK'
  <2>1. history' \in [Decisions -> [Revisions -> Texts \cup {None}]]
    BY <1>1, <1>2, <1>3 DEF IInv, TypeOK
  <2>2. op' \in [Clients -> Ops \cup {NoOp}]
    BY <1>5 DEF Archive, IInv, TypeOK
  <2> QED
    BY <1>3, <2>1, <2>2 DEF IInv, TypeOK
<1>8. Exclusive'
  BY <1>1, <1>5, <1>6 DEF IInv, Exclusive
<1> HIDE DEF d, r
<1>9. Fresh'
  <2> SUFFICES ASSUME NEW x \in Clients, op'[x] # NoOp
               PROVE  /\ op'[x].at = "put" => record'[op'[x].d].rev = 0
                      /\ op'[x].at \in {"revise", "archived"} =>
                           /\ record'[op'[x].d].rev = op'[x].expected
                           /\ op'[x].expected \in Revisions /\ op'[x].expected < MaxRevision
                      /\ op'[x].at = "archived" =>
                           history'[op'[x].d][op'[x].expected] = record'[op'[x].d].text
    BY DEF Fresh
  <2>1. CASE x = c
    BY <1>1, <1>3, <1>4, <1>5, <2>1 DEF r
  <2>2. CASE x # c
    <3>1. op'[x] = op[x] /\ op[x] \in Ops /\ op[x].d # d
      BY <1>1, <1>6, <2>2 DEF IInv, Exclusive, TypeOK, d
    <3>2. op[x].d \in Decisions
      BY <3>1 DEF Ops
    <3> QED
      BY <1>3, <1>4, <3>1, <3>2 DEF IInv, Fresh
  <2> QED
    BY <2>1, <2>2
<1>10. Written'
  BY <1>3 DEF IInv, Written
<1>11. HistoryComplete'
  BY <1>1, <1>2, <1>3, <1>4, StoreAssumption DEF IInv, HistoryComplete, Revisions, TypeOK, r
<1> QED
  BY <1>7, <1>8, <1>9, <1>10, <1>11 DEF IInv

\* Revise's write of the record.
LEMMA WriteRevisionInv ==
  ASSUME IInv, NEW c \in Clients, WriteRevision(c)
  PROVE  IInv'
<1> DEFINE d == op[c].d
           e == op[c].expected
<1>1. /\ d \in Decisions /\ op[c].text \in Texts /\ op[c] # NoOp
      /\ record[d].rev = e /\ e \in Revisions /\ e < MaxRevision
      /\ history[d][e] = record[d].text
  BY DEF WriteRevision, IInv, TypeOK, Ops, Fresh
<1>2. record' = [record EXCEPT ![d] = [rev |-> e + 1, text |-> op[c].text]] /\ history' = history
  BY DEF WriteRevision
<1>3. \A x \in Decisions : record'[x] = IF x = d THEN [rev |-> e + 1, text |-> op[c].text] ELSE record[x]
  BY <1>1, <1>2 DEF IInv, TypeOK
<1>4. /\ op' \in [Clients -> Ops \cup {NoOp}]
      /\ Exclusive'
      /\ \A x \in Clients : op'[x] # NoOp => x # c /\ op'[x] = op[x] /\ op[x].d # d
  BY <1>1, LeaveInv DEF WriteRevision
<1> HIDE DEF d, e
<1>5. e + 1 \in 0 .. MaxRevision
  BY <1>1, StoreAssumption DEF Revisions
<1>6. TypeOK'
  BY <1>1, <1>2, <1>4, <1>5 DEF IInv, TypeOK
<1>7. Fresh'
  BY <1>2, <1>3, <1>4 DEF IInv, Fresh, TypeOK, Ops
<1>8. Written'
  BY <1>1, <1>3 DEF IInv, Written
<1>9. HistoryComplete'
  BY <1>1, <1>2, <1>3, <1>5, <1>8, StoreAssumption DEF IInv, HistoryComplete, Written, Revisions, TypeOK
<1> QED
  BY <1>4, <1>6, <1>7, <1>8, <1>9 DEF IInv

\* An error.
LEMMA AbortInv ==
  ASSUME IInv, NEW c \in Clients, Abort(c)
  PROVE  IInv'
<1>1. /\ op' \in [Clients -> Ops \cup {NoOp}]
      /\ Exclusive'
      /\ \A x \in Clients : op'[x] # NoOp => op'[x] = op[x]
  BY LeaveInv DEF Abort
<1>2. record' = record /\ history' = history
  BY DEF Abort
<1>3. TypeOK' /\ Written' /\ HistoryComplete'
  BY <1>1, <1>2 DEF IInv, TypeOK, Written, HistoryComplete
<1>4. Fresh'
  BY <1>1, <1>2 DEF IInv, Fresh
<1> QED
  BY <1>1, <1>3, <1>4 DEF IInv

\* The end of a process.
LEMMA DieInv ==
  ASSUME IInv, NEW clients \in SUBSET Clients, Die(clients)
  PROVE  IInv'
<1>1. /\ op' \in [Clients -> Ops \cup {NoOp}]
      /\ \A x \in Clients : op'[x] # NoOp => op'[x] = op[x]
  BY DEF Die, IInv, TypeOK
<1>2. record' = record /\ history' = history
  BY DEF Die
<1>3. TypeOK' /\ Written' /\ HistoryComplete'
  BY <1>1, <1>2 DEF IInv, TypeOK, Written, HistoryComplete
<1>4. Fresh'
  BY <1>1, <1>2 DEF IInv, Fresh
<1>5. Exclusive'
  BY <1>1 DEF IInv, Exclusive
<1> QED
  BY <1>3, <1>4, <1>5 DEF IInv

-----------------------------------------------------------------------------
\* Every step keeps the invariant.
LEMMA NextInv == IInv /\ [StoreNext]_storeVars => IInv'
<1> SUFFICES ASSUME IInv, [StoreNext]_storeVars PROVE IInv'
  OBVIOUS
<1>1. ASSUME NEW c \in Clients, NEW d \in Decisions, NEW t \in Texts, BeginPut(c, d, t)
      PROVE  IInv'
  <2>1. /\ Enter(c, "put", d, 0, t) /\ UNCHANGED <<record, history>>
        /\ record[d].rev = 0
    BY <1>1 DEF BeginPut
  <2> QED
    BY <2>1, EnterInv
<1>2. ASSUME NEW c \in Clients, NEW d \in Decisions, NEW t \in Texts, NEW e \in Revisions,
             BeginRevise(c, d, e, t)
      PROVE  IInv'
  <2>1. /\ Enter(c, "revise", d, e, t) /\ UNCHANGED <<record, history>>
        /\ record[d].rev = e /\ e < MaxRevision /\ e \in Nat
    BY <1>2 DEF BeginRevise, Revisions
  <2> QED
    BY <2>1, EnterInv
<1>3. CASE \E c \in Clients : WriteNew(c) \/ Archive(c) \/ WriteRevision(c) \/ Abort(c)
  BY <1>3, WriteNewInv, ArchiveInv, WriteRevisionInv, AbortInv
<1>4. CASE \E clients \in SUBSET Clients : Die(clients)
  BY <1>4, DieInv
<1>5. CASE UNCHANGED storeVars
  BY <1>5 DEF storeVars, IInv, TypeOK, Written, Exclusive, Fresh, HistoryComplete
<1> QED
  BY <1>1, <1>2, <1>3, <1>4, <1>5 DEF StoreNext

\* Type correctness of the store and the exclusion that its lock gives, with
\* what a client under the lock may rely on.  (lockFilePath,
\* lockImplementationDecisionFile)
THEOREM StoreInvariant == StoreSpec => []IInv
BY InitInv, NextInv, PTL DEF StoreSpec

\* History can be read in every state, whatever failed and whoever died.
\* (Revise, writeHistoryRecord, History)
THEOREM HistoryIsComplete == StoreSpec => []HistoryComplete
<1>1. IInv => HistoryComplete
  BY DEF IInv
<1> QED
  BY <1>1, StoreInvariant, PTL

-----------------------------------------------------------------------------
\* The journal is a sequence of texts per decision, as long as its revision.
LEMMA JournalIsLog ==
  ASSUME IInv, NEW d \in Decisions
  PROVE  Journal[d] \in Seq(Texts) /\ Len(Journal[d]) = record[d].rev
<1> DEFINE n == record[d].rev
           f == [r \in 1 .. n |-> IF r = n THEN record[d].text ELSE history[d][r]]
<1>1. Journal[d] = f
  BY DEF Journal
<1>2. n \in 0 .. MaxRevision
  BY DEF IInv, TypeOK
<1>3. ASSUME NEW r \in 1 .. n PROVE f[r] \in Texts
  <2>1. r \in Revisions
    BY <1>2, StoreAssumption DEF Revisions
  <2>2. CASE r = n
    BY <1>2, <2>2 DEF IInv, Written
  <2>3. CASE r < n
    BY <1>2, <2>1, <2>3 DEF IInv, TypeOK, HistoryComplete
  <2> QED
    BY <1>2, <2>2, <2>3
<1>4. n \in Nat
  BY <1>2, StoreAssumption
<1>5. f = [r \in 1 .. n |-> f[r]]
  OBVIOUS
<1> HIDE DEF f, n
<1>6. f \in [1 .. n -> Texts]
  BY <1>3, <1>5
<1>7. f \in Seq(Texts) /\ Len(f) = n
  BY <1>4, <1>6
<1> QED
  BY <1>1, <1>7 DEF n

\* A journal is a function on decisions.
LEMMA JournalShape == /\ Journal = [d \in Decisions |-> Journal[d]]
                      /\ Journal' = [d \in Decisions |-> Journal'[d]]
BY DEF Journal

\* Put appends the first revision.
LEMMA NewCommits ==
  ASSUME IInv, NEW c \in Clients, WriteNew(c)
  PROVE  Abstract!Next
<1> DEFINE d == op[c].d
           t == op[c].text
<1>1. d \in Decisions /\ t \in Texts /\ record[d].rev = 0
  BY DEF WriteNew, IInv, TypeOK, Ops, Fresh
<1>2. \A x \in Decisions : record'[x] = IF x = d THEN [rev |-> 1, text |-> t] ELSE record[x]
  BY <1>1 DEF WriteNew, IInv, TypeOK
<1>3. history' = history
  BY DEF WriteNew
<1> HIDE DEF d, t
<1>4. Journal[d] = <<>>
  BY <1>1, JournalIsLog
<1>5. Journal'[d] = [r \in 1 .. 1 |-> t]
  BY <1>1, <1>2 DEF Journal
<1>6. Journal'[d] = Append(Journal[d], t)
  BY <1>4, <1>5
<1>7. \A x \in Decisions : x # d => Journal'[x] = Journal[x]
  BY <1>2, <1>3 DEF Journal
<1>8. Journal' = [Journal EXCEPT ![d] = Append(@, t)]
  BY <1>6, <1>7, JournalShape
<1> QED
  BY <1>1, <1>8 DEF Abstract!Next, Abstract!Commit

\* Revise appends one revision: the history has the one it replaces.
LEMMA RevisionCommits ==
  ASSUME IInv, NEW c \in Clients, WriteRevision(c)
  PROVE  Abstract!Next
<1> DEFINE d == op[c].d
           t == op[c].text
           e == op[c].expected
<1>1. /\ d \in Decisions /\ t \in Texts /\ record[d].rev = e /\ e \in Revisions
      /\ history[d][e] = record[d].text
  BY DEF WriteRevision, IInv, TypeOK, Ops, Fresh
<1>2. \A x \in Decisions : record'[x] = IF x = d THEN [rev |-> e + 1, text |-> t] ELSE record[x]
  BY <1>1 DEF WriteRevision, IInv, TypeOK
<1>3. history' = history
  BY DEF WriteRevision
<1> HIDE DEF d, t, e
<1>4. Journal[d] \in Seq(Texts) /\ Len(Journal[d]) = e
  BY <1>1, JournalIsLog
<1>5. e \in Nat
  BY <1>1 DEF Revisions
<1>6. Journal'[d] = [r \in 1 .. e + 1 |-> IF r = e + 1 THEN t ELSE history[d][r]]
  BY <1>1, <1>2, <1>3 DEF Journal
<1>7. \A r \in 1 .. e : Journal[d][r] = history[d][r]
  BY <1>1 DEF Journal
<1>8. Journal'[d] = Append(Journal[d], t)
  BY <1>4, <1>5, <1>6, <1>7
<1>9. \A x \in Decisions : x # d => Journal'[x] = Journal[x]
  BY <1>2, <1>3 DEF Journal
<1>10. Journal' = [Journal EXCEPT ![d] = Append(@, t)]
  BY <1>8, <1>9, JournalShape
<1> QED
  BY <1>1, <1>10 DEF Abstract!Next, Abstract!Commit

\* Writing the history changes nothing of the journal yet.
LEMMA ArchiveStutters ==
  ASSUME IInv, NEW c \in Clients, Archive(c)
  PROVE  UNCHANGED Journal
<1> DEFINE d == op[c].d
           r == record[d].rev
<1>1. d \in Decisions /\ r \in Revisions
  BY DEF Archive, IInv, TypeOK, Ops, Fresh
<1>2. history' = [history EXCEPT ![d][r] = record[d].text] /\ record' = record
  BY DEF Archive
<1>3. \A x \in Decisions : \A q \in Revisions : x # d \/ q # r => history'[x][q] = history[x][q]
  BY <1>1, <1>2 DEF IInv, TypeOK
<1>4. \A x \in Decisions : \A q \in 1 .. record[x].rev : q \in Revisions
  BY StoreAssumption DEF IInv, TypeOK, Revisions
<1>5. \A x \in Decisions : \A q \in 1 .. record[x].rev :
        (IF q = record[x].rev THEN record[x].text ELSE history'[x][q])
          = IF q = record[x].rev THEN record[x].text ELSE history[x][q]
  <2> SUFFICES ASSUME NEW x \in Decisions, NEW q \in 1 .. record[x].rev
               PROVE  q = record[x].rev \/ history'[x][q] = history[x][q]
    OBVIOUS
  <2>1. CASE x = d /\ q = r
    BY <2>1
  <2>2. CASE ~(x = d /\ q = r)
    BY <1>3, <1>4, <2>2
  <2>3. QED  BY <2>1, <2>2
<1>6. QED
  BY <1>2, <1>5 DEF Journal

\* Every step of the store leaves the journal alone or adds a revision.
LEMMA StepCommits ==
  ASSUME IInv, [StoreNext]_storeVars
  PROVE  Abstract!Next \/ UNCHANGED Journal
<1>1. CASE UNCHANGED <<record, history>>
  BY <1>1 DEF Journal
<1>2. CASE \E c \in Clients : WriteNew(c) \/ WriteRevision(c)
  BY <1>2, NewCommits, RevisionCommits
<1>3. CASE \E c \in Clients : Archive(c)
  BY <1>3, ArchiveStutters
<1> QED
  BY <1>1, <1>2, <1>3 DEF StoreNext, BeginPut, BeginRevise, Abort, Die, storeVars

\* The store implements the journal: no accepted revision is lost, skipped or
\* rewritten, however many processes write, fail and die.  (Put, Revise)
THEOREM StoreRefinesJournal == StoreSpec => ImplementsJournal
<1>1. StoreInit => Abstract!Init
  <2> SUFFICES ASSUME StoreInit PROVE Journal = [d \in Decisions |-> <<>>]
    BY DEF Abstract!Init
  <2>1. ASSUME NEW d \in Decisions PROVE Journal[d] = <<>>
    BY <2>1, InitInv, JournalIsLog DEF StoreInit
  <2> QED
    BY <2>1 DEF Journal
<1>2. IInv /\ [StoreNext]_storeVars => [Abstract!Next]_Journal
  BY StepCommits
<1> QED
  BY <1>1, <1>2, StoreInvariant, PTL DEF StoreSpec, ImplementsJournal, Abstract!Spec

-----------------------------------------------------------------------------
(* The agents and the dashboard.                                           *)

\* A process that ends is a set of clients of the store.
LEMMA ClientsOfTheStore == /\ \A a \in Agents : a \in Clients /\ {a} \in SUBSET Clients
                           /\ \A q \in Requests : q \in Clients
                           /\ Requests \in SUBSET Clients
BY ProfileAssumption

\* A step of an agent is a step of the store, or leaves it alone.
LEMMA AgentStep ==
  ASSUME NEW a \in Agents,
         \/ \E d \in Decisions : PresentRecorded(a, d) \/ Present(a, d)
         \/ NoAnswer(a) \/ PutEnds(a) \/ Clear(a) \/ AgentCrashes(a)
  PROVE  [StoreNext]_storeVars
BY ClientsOfTheStore DEF PresentRecorded, Present, NoAnswer, PutEnds, Clear, AgentCrashes, StoreNext

\* The answer of the user: a Put that writes, or one that finds the record.
LEMMA AnswerStep ==
  ASSUME NEW a \in Agents, NEW d \in Decisions, NEW t \in Texts, Answer(a, d, t)
  PROVE  [StoreNext]_storeVars
BY ClientsOfTheStore DEF Answer, StoreNext

\* A step of a request.
LEMMA RequestStep ==
  ASSUME NEW q \in Requests,
         \/ \E d \in Decisions, e \in Revisions, t \in Texts : AskRevise(q, d, e, t)
         \/ \E e \in 1 .. MaxProfile, n \in Notes : AskNote(q, e, n)
         \/ ReviseStep(q) \/ Schedule(q) \/ AskRebuild(q) \/ Note(q)
         \/ AskBootstrap(q) \/ LoadProfile(q) \/ ReportClean(q) \/ Respond(q)
  PROVE  [StoreNext]_storeVars
BY ClientsOfTheStore
   DEF AskRevise, AskNote, ReviseStep, Schedule, AskRebuild, Note, AskBootstrap, LoadProfile,
       ReportClean, Respond, StoreNext

\* A step of a rebuild, of the dashboard's thread, or its end.
LEMMA RebuildStep ==
  ASSUME NEW t \in Threads,
         \/ Lock(t) \/ ListOne(t) \/ ReadPrevious(t) \/ Save(t) \/ RebuildFails(t)
         \/ BeginRebuild(t) \/ Publish(t) \/ Again
  PROVE  UNCHANGED storeVars
BY DEF Lock, ListOne, ReadPrevious, Save, RebuildFails, BeginRebuild, Publish, Again

\* Whatever they do is a step of the store, or leaves it alone.
LEMMA StoreSteps == [Next]_vars => [StoreNext]_storeVars
<1> SUFFICES ASSUME [Next]_vars PROVE [StoreNext]_storeVars
  OBVIOUS
<1>1. CASE \E t \in Threads : \/ Lock(t) \/ ListOne(t) \/ ReadPrevious(t) \/ Save(t)
                              \/ RebuildFails(t)
  BY <1>1, RebuildStep
<1>2. CASE \E a \in Agents :
             \/ \E d \in Decisions : \/ PresentRecorded(a, d) \/ Present(a, d)
                                    \/ \E t \in Texts : Answer(a, d, t)
             \/ NoAnswer(a) \/ PutEnds(a) \/ Clear(a) \/ AgentCrashes(a)
  BY <1>2, AgentStep, AnswerStep
<1>3. CASE \E q \in Requests :
             \/ \E d \in Decisions, e \in Revisions, t \in Texts : AskRevise(q, d, e, t)
             \/ \E e \in 1 .. MaxProfile, n \in Notes : AskNote(q, e, n)
             \/ ReviseStep(q) \/ Schedule(q) \/ AskRebuild(q) \/ Note(q)
             \/ AskBootstrap(q) \/ LoadProfile(q) \/ ReportClean(q) \/ Respond(q)
  BY <1>3, RequestStep
<1>4. CASE (\E t \in Dashboard : BeginRebuild(t) \/ Publish(t)) \/ Again
  <2>1. Dashboard \subseteq Threads
    BY ProfileAssumption DEF Dashboard, Threads
  <2> QED
    BY <1>4, <2>1, RebuildStep DEF Again
<1>5. CASE DashboardCrashes
  BY <1>5, ClientsOfTheStore DEF DashboardCrashes, StoreNext
<1>6. CASE UNCHANGED vars
  BY <1>6 DEF vars
<1> QED
  BY <1>1, <1>2, <1>3, <1>4, <1>5, <1>6 DEF Next

\* The agents and the dashboard behave as clients of the store.
THEOREM ProfileRefinesStore == Spec => StoreSpec
<1>1. Init => StoreInit
  BY DEF Init
<1>2. [Next]_vars => [StoreNext]_storeVars
  BY StoreSteps
<1> QED
  BY <1>1, <1>2, PTL DEF Spec, StoreSpec

\* Whatever agents and dashboard do, fail at and die of, the journal only grows.
\* (the tool and the dashboard use the store by Put and Revise)
THEOREM ProfileKeepsJournal == Spec => ImplementsJournal
BY ProfileRefinesStore, StoreRefinesJournal

\* And its history can be read.  (History)
THEOREM ProfileKeepsHistory == Spec => []HistoryComplete
BY ProfileRefinesStore, HistoryIsComplete
-----------------------------------------------------------------------------
(* What the threads keep, and the invariants of profile and pages.         *)

\* What a thread keeps: where it is, the listing it makes and the records it
\* has seen, the profile it read, the decision it changes, and of a page
\* under way whether the status has stayed and what was recorded at the start.
Places == {"idle", "waiting", "rebuild", "listing", "saving", "rebuilt", "failed", "again", "noting",
           "asking", "putting", "stored", "revising", "changed", "booting", "loaded", "clean"}
Entry == [rev : Nat, text : Texts \cup {None}]
Listing == [Decisions -> Entry]
Numbers == [Decisions -> Nat]
Work == [at : Places, todo : SUBSET Decisions, seen : Listing,
         prev : [rev : Nat, note : Notes \cup {None}], d : Decisions \cup {None},
         stable : BOOLEAN, start : Numbers, issues : SUBSET Decisions]

ProfileTypes ==
  /\ profile \in [rev : Nat, listed : Listing, note : Notes \cup {None}]
  /\ session \in [Agents -> [pending : Decisions \cup {None}, saved : Decisions \cup {None}]]
  /\ dash \in [dirty : BOOLEAN, run : BOOLEAN, req : BOOLEAN]
  /\ work \in [Threads -> Work]
  /\ scheduled \in Numbers

\* No file, no text.
Blank(listed, d) == listed[d].rev = 0 => listed[d].text = None
Unwritten == \A d \in Decisions : Blank(record, d)

\* An answer is recorded as the decision that is pending.
Recording(a) ==
  /\ At(a, "putting") /\ op[a] # NoOp => op[a].at = "put" /\ op[a].d = Pending(a)
  /\ At(a, "stored") => Pending(a) \in Decisions /\ record[Pending(a)].rev > 0
AnswersArePending == \A a \in Agents : Recording(a)

\* The lock of the profile, and what its holder read under it.
OneHolder == \A s, t \in Threads :
  work[s].at \in HoldProfile /\ work[t].at \in HoldProfile => s = t

Between(listed, d) == profile.listed[d].rev <= listed[d].rev /\ listed[d].rev <= record[d].rev /\ Blank(listed, d)
Holding(t) ==
  /\ At(t, "listing") => \A d \in Decisions \ work[t].todo : Between(work[t].seen, d)
  /\ At(t, "saving") => /\ \A d \in Decisions : Between(work[t].seen, d)
                        /\ work[t].prev.rev = profile.rev /\ work[t].prev.note = profile.note
  /\ At(t, "noting") => work[t].prev.rev = profile.rev
ProfileBehind == /\ \A d \in Decisions : Between(profile.listed, d)
                 /\ profile.rev = 0 => \A d \in Decisions : profile.listed[d].rev = 0

SerialInv == OneHolder /\ ProfileBehind /\ \A t \in Threads : Holding(t)

\* The dashboard's rebuilds are one at a time; when no change waits for one,
\* the rebuild in progress, or else the profile that is called clean, has all
\* the changes that were scheduled.
OneRebuild == \A s, t \in Dashboard :
  work[s].at \in Rebuilding /\ work[t].at \in Rebuilding => s = t

Covers(listed, d) == listed[d].rev >= scheduled[d]
Settled == ~dash.run \/ (At(Background, "again") /\ ~dash.req)
Catching(t) ==
  Settled \/ (t = Background /\ ~dash.req) =>
    /\ At(t, "listing") => \A d \in Decisions \ work[t].todo : Covers(work[t].seen, d)
    /\ At(t, "saving") => \A d \in Decisions : Covers(work[t].seen, d)
    /\ At(t, "rebuilt") => \A d \in Decisions : Covers(profile.listed, d)

CleanInv == /\ OneRebuild
            /\ \A d \in Decisions : scheduled[d] <= record[d].rev
            /\ Settled /\ ~dash.dirty => \A d \in Decisions : Covers(profile.listed, d)
            /\ \A t \in Dashboard : Catching(t)

\* A page under way has records of the journal, none older than its start.
Genuine(listed, d) ==
  listed[d].rev > 0 => listed[d].rev <= record[d].rev /\ Journal[d][listed[d].rev] = listed[d].text
Paging(q) ==
  /\ At(q, "booting") => \A d \in Decisions \ (work[q].todo \cup work[q].issues) :
                            work[q].seen[d].rev >= work[q].start[d] /\ Genuine(work[q].seen, d)
  /\ At(q, "loaded") => \A d \in Decisions \ work[q].issues :
                           Shows(work[q].seen, d, work[q].start[d])
  /\ work[q].at \in {"booting", "loaded"} =>
       \A d \in Decisions : /\ work[q].start[d] <= record[d].rev
                            /\ work[q].stable => scheduled[d] <= work[q].start[d]
PageInv == \A q \in Requests : Paging(q)

-----------------------------------------------------------------------------
(* One step changes what one thread keeps; the others at most lose a       *)
(* status that has stayed.                                                 *)

Moved(w, a) == [w EXCEPT !.at = a]
Started(a) == [Idle EXCEPT !.at = a]
Locked(w) == [w EXCEPT !.at = "listing", !.todo = Decisions]
Looked(w, d) == [w EXCEPT !.todo = @ \ {d}, !.seen[d] = record[d]]
Missed(w, d) == [w EXCEPT !.todo = @ \ {d}, !.issues = @ \cup {d}]
Noted(w, a, p) == [w EXCEPT !.at = a, !.prev = p]
Revising(w, d) == [w EXCEPT !.at = "revising", !.d = d]
Opened == [Idle EXCEPT !.at = "booting", !.todo = Decisions, !.start = [d \in Decisions |-> record[d].rev]]
Loaded(w) == [w EXCEPT !.at = "loaded", !.seen = profile.listed]
Unsettled(w) == [w EXCEPT !.stable = FALSE]

Alike(v, w) == /\ v.todo = w.todo /\ v.seen = w.seen /\ v.prev = w.prev
               /\ v.d = w.d /\ v.start = w.start /\ v.issues = w.issues

LEMMA MovedWork ==
  ASSUME NEW w \in Work, NEW a \in Places
  PROVE  /\ Moved(w, a) \in Work /\ Moved(w, a).at = a
         /\ Alike(Moved(w, a), w) /\ Moved(w, a).stable = w.stable
<1>1. Moved(w, a) \in Work
  BY DEF Moved, Work
<1>2. Moved(w, a).at = a /\ Moved(w, a).stable = w.stable
  BY DEF Moved, Work
<1>3. Alike(Moved(w, a), w)
  BY DEF Moved, Work, Alike
<1> QED
  BY <1>1, <1>2, <1>3

LEMMA IdleWork == Idle \in Work /\ Idle.at = "idle"
BY DEF Work, Idle, Nothing, Unread, Listing, Entry, Numbers, Places

LEMMA StartedWork ==
  ASSUME NEW a \in Places
  PROVE  Started(a) \in Work /\ Started(a).at = a
<1>1. Started(a) = Moved(Idle, a)
  BY DEF Started, Moved
<1> QED
  BY <1>1, IdleWork, MovedWork

LEMMA LockedWork ==
  ASSUME NEW w \in Work
  PROVE  Locked(w) \in Work /\ Locked(w).at = "listing" /\ Locked(w).todo = Decisions
BY DEF Locked, Work, Places

LEMMA LookedWork ==
  ASSUME NEW w \in Work, NEW d \in Decisions, record[d] \in Entry
  PROVE  /\ Looked(w, d) \in Work
         /\ Looked(w, d).at = w.at /\ Looked(w, d).todo = w.todo \ {d}
         /\ Looked(w, d).seen[d] = record[d]
         /\ \A x \in Decisions : x # d => Looked(w, d).seen[x] = w.seen[x]
         /\ Looked(w, d).prev = w.prev /\ Looked(w, d).start = w.start
         /\ Looked(w, d).stable = w.stable /\ Looked(w, d).issues = w.issues
<1>1. Looked(w, d) \in Work
  BY DEF Looked, Work, Listing
<1>2. /\ Looked(w, d).at = w.at /\ Looked(w, d).todo = w.todo \ {d}
      /\ Looked(w, d).prev = w.prev /\ Looked(w, d).start = w.start
  BY DEF Looked, Work
<1>3. Looked(w, d).seen = [w.seen EXCEPT ![d] = record[d]]
  BY DEF Looked, Work
<1>4. Looked(w, d).stable = w.stable /\ Looked(w, d).issues = w.issues
  BY DEF Looked, Work
<1>5. w.seen \in [Decisions -> Entry]
  BY DEF Work, Listing
<1> QED
  BY <1>1, <1>2, <1>3, <1>4, <1>5

LEMMA MissedWork ==
  ASSUME NEW w \in Work, NEW d \in Decisions
  PROVE  /\ Missed(w, d) \in Work
         /\ Missed(w, d).at = w.at /\ Missed(w, d).todo = w.todo \ {d}
         /\ Missed(w, d).seen = w.seen /\ Missed(w, d).issues = w.issues \cup {d}
         /\ Missed(w, d).prev = w.prev /\ Missed(w, d).start = w.start
         /\ Missed(w, d).stable = w.stable
<1>1. Missed(w, d) \in Work
  BY DEF Missed, Work
<1>2. /\ Missed(w, d).at = w.at /\ Missed(w, d).todo = w.todo \ {d}
      /\ Missed(w, d).seen = w.seen /\ Missed(w, d).issues = w.issues \cup {d}
  BY DEF Missed, Work
<1>3. /\ Missed(w, d).prev = w.prev /\ Missed(w, d).start = w.start
      /\ Missed(w, d).stable = w.stable
  BY DEF Missed, Work
<1> QED
  BY <1>1, <1>2, <1>3

LEMMA NotedWork ==
  ASSUME NEW w \in Work, NEW a \in Places, NEW p \in [rev : Nat, note : Notes \cup {None}]
  PROVE  /\ Noted(w, a, p) \in Work /\ Noted(w, a, p).at = a /\ Noted(w, a, p).prev = p
         /\ Noted(w, a, p).seen = w.seen /\ Noted(w, a, p).todo = w.todo
BY DEF Noted, Work

LEMMA RevisingWork ==
  ASSUME NEW w \in Work, NEW d \in Decisions
  PROVE  Revising(w, d) \in Work /\ Revising(w, d).at = "revising"
BY DEF Revising, Work, Places

LEMMA OpenedWork ==
  ASSUME \A d \in Decisions : record[d].rev \in Nat
  PROVE  /\ Opened \in Work /\ Opened.at = "booting" /\ Opened.todo = Decisions
         /\ \A d \in Decisions : Opened.start[d] = record[d].rev
BY IdleWork DEF Opened, Work, Places, Numbers

LEMMA LoadedWork ==
  ASSUME NEW w \in Work, profile.listed \in Listing
  PROVE  /\ Loaded(w) \in Work /\ Loaded(w).at = "loaded" /\ Loaded(w).seen = profile.listed
         /\ Loaded(w).start = w.start /\ Loaded(w).stable = w.stable
         /\ Loaded(w).issues = w.issues
<1>1. Loaded(w) \in Work /\ Loaded(w).at = "loaded" /\ Loaded(w).seen = profile.listed
  BY DEF Loaded, Work, Places
<1>2. Loaded(w).start = w.start /\ Loaded(w).stable = w.stable /\ Loaded(w).issues = w.issues
  BY DEF Loaded, Work
<1> QED
  BY <1>1, <1>2

LEMMA UnsettledWork ==
  ASSUME NEW w \in Work
  PROVE  /\ Unsettled(w) \in Work /\ Unsettled(w).at = w.at /\ Alike(Unsettled(w), w)
         /\ Unsettled(w).stable = FALSE
<1>1. Unsettled(w) \in Work
  BY DEF Unsettled, Work
<1>2. Unsettled(w).at = w.at /\ Alike(Unsettled(w), w)
  BY DEF Unsettled, Work, Alike
<1>3. Unsettled(w).stable = FALSE
  BY DEF Unsettled, Work
<1> QED
  BY <1>1, <1>2, <1>3

\* What a step leaves of a thread that it is not about.
Undisturbed(x) == /\ work'[x].at = work[x].at
                  /\ Alike(work'[x], work[x])
                  /\ work'[x].stable => work[x].stable
Only(t) == \A x \in Threads \ {t} : Undisturbed(x)
Becomes(t, w) == work' = [work EXCEPT ![t] = w]

LEMMA Becoming ==
  ASSUME work \in [Threads -> Work], NEW t \in Threads, NEW w \in Work, Becomes(t, w)
  PROVE  work' \in [Threads -> Work] /\ work'[t] = w /\ Only(t)
<1>1. work' \in [Threads -> Work] /\ work'[t] = w
  BY DEF Becomes
<1>2. \A x \in Threads \ {t} : work'[x] = work[x]
  BY DEF Becomes
<1> QED
  BY <1>1, <1>2 DEF Only, Undisturbed, Alike

LEMMA Going ==
  ASSUME work \in [Threads -> Work], NEW t \in Threads, NEW a \in Places, Go(t, a)
  PROVE  /\ work' \in [Threads -> Work] /\ Only(t)
         /\ work'[t].at = a /\ Alike(work'[t], work[t])
<1>1. Becomes(t, Moved(work[t], a))
  BY DEF Go, Becomes, Moved
<1> QED
  BY <1>1, MovedWork, Becoming

LEMMA Resting ==
  ASSUME work \in [Threads -> Work], NEW t \in Threads, Rest(t)
  PROVE  work' \in [Threads -> Work] /\ Only(t) /\ work'[t].at = "idle"
<1>1. Becomes(t, Idle)
  BY DEF Rest, Becomes
<1> QED
  BY <1>1, IdleWork, Becoming

LEMMA StartingOver ==
  ASSUME work \in [Threads -> Work], NEW t \in Threads, NEW a \in Places, StartOver(t, a)
  PROVE  work' \in [Threads -> Work] /\ Only(t) /\ work'[t].at = a
<1>1. Becomes(t, Started(a))
  BY DEF StartOver, Becomes, Started
<1> QED
  BY <1>1, StartedWork, Becoming

\* A bump unsettles the pages under way.
LEMMA Bumping ==
  ASSUME NEW w \in [Threads -> Work]
  PROVE  /\ Bump(w) \in [Threads -> Work]
         /\ \A x \in Threads : /\ Bump(w)[x].at = w[x].at /\ Alike(Bump(w)[x], w[x])
                               /\ Bump(w)[x].stable => w[x].stable
                               /\ w[x].at \in {"booting", "loaded"} => Bump(w)[x].stable = FALSE
<1>1. \A x \in Threads : Bump(w)[x] = IF w[x].at \in {"booting", "loading", "loaded"}
                                        THEN Unsettled(w[x]) ELSE w[x]
  BY DEF Bump, Unsettled
<1>2. Bump(w) = [x \in Threads |-> Bump(w)[x]]
  BY DEF Bump
<1>3. ASSUME NEW x \in Threads
      PROVE  /\ Bump(w)[x] \in Work
             /\ Bump(w)[x].at = w[x].at /\ Alike(Bump(w)[x], w[x])
             /\ Bump(w)[x].stable => w[x].stable
             /\ w[x].at \in {"booting", "loaded"} => Bump(w)[x].stable = FALSE
  <2>1. CASE w[x].at \in {"booting", "loading", "loaded"}
    <3>1. Bump(w)[x] = Unsettled(w[x]) /\ w[x] \in Work
      BY <1>1, <2>1
    <3>2. /\ Bump(w)[x] \in Work /\ Bump(w)[x].at = w[x].at /\ Alike(Bump(w)[x], w[x])
          /\ Bump(w)[x].stable = FALSE
      BY <3>1, UnsettledWork
    <3>3. Bump(w)[x].stable => w[x].stable
      BY <3>2
    <3> QED
      BY <3>2, <3>3
  <2>2. CASE w[x].at \notin {"booting", "loading", "loaded"}
    <3>1. Bump(w)[x] = w[x]
      BY <1>1, <2>2
    <3> QED
      BY <2>2, <3>1 DEF Alike
  <2> QED
    BY <2>1, <2>2
<1> QED
  BY <1>2, <1>3

-----------------------------------------------------------------------------
(* The steps, one by one.                                                  *)

\* The places a step may be about.
Quiet == {"idle", "waiting", "asking", "putting", "stored", "revising", "changed", "clean"}

LEMMA ThreadKinds ==
  /\ \A a \in Agents : a \in Threads /\ a \notin Dashboard /\ a \in Clients
  /\ \A q \in Requests : q \in Threads /\ q \in Dashboard /\ q \in Clients /\ q \notin Agents
  /\ Background \in Threads /\ Background \in Dashboard /\ Background \notin Clients
  /\ Dashboard \subseteq Threads
  /\ \A t \in Threads : t \in Dashboard \/ t \in Agents
BY ProfileAssumption DEF Threads, Dashboard

LEMMA LockStep ==
  ASSUME ProfileTypes, NEW t \in Threads, Lock(t)
  PROVE  /\ work' \in [Threads -> Work] /\ Only(t)
         /\ work'[t].at = "listing" /\ work'[t].todo = Decisions
<1>1. Becomes(t, Locked(work[t]))
  BY DEF Lock, Becomes, Locked, ProfileTypes
<1> QED
  BY <1>1, LockedWork, Becoming DEF ProfileTypes

LEMMA ListOneStep ==
  ASSUME IInv, ProfileTypes, NEW t \in Threads, ListOne(t)
  PROVE  /\ work' \in [Threads -> Work] /\ Only(t)
         /\ work'[t].at = work[t].at /\ work'[t].prev = work[t].prev
         /\ work'[t].start = work[t].start /\ work'[t].stable = work[t].stable
         /\ \E d \in work[t].todo :
              /\ work'[t].todo = work[t].todo \ {d}
              /\ \A x \in Decisions : x # d => work'[t].seen[x] = work[t].seen[x]
              /\ \/ work'[t].seen[d] = record[d] /\ work'[t].issues = work[t].issues
                 \/ At(t, "booting") /\ work'[t].issues = work[t].issues \cup {d}
<1>1. PICK d \in work[t].todo :
        \/ work' = [work EXCEPT ![t].todo = @ \ {d}, ![t].seen[d] = record[d]]
        \/ /\ At(t, "booting")
           /\ work' = [work EXCEPT ![t].todo = @ \ {d}, ![t].issues = @ \cup {d}]
  BY DEF ListOne
<1>2. d \in Decisions /\ work[t] \in Work /\ work \in [Threads -> Work]
  BY DEF ProfileTypes, Work
<1>3. CASE work' = [work EXCEPT ![t].todo = @ \ {d}, ![t].seen[d] = record[d]]
  <2>1. record[d] \in Entry
    BY <1>2, StoreAssumption DEF IInv, TypeOK, Entry
  <2>2. Becomes(t, Looked(work[t], d))
    BY <1>2, <1>3 DEF Becomes, Looked
  <2>3. Looked(work[t], d) \in Work
    BY <1>2, <2>1, LookedWork
  <2>4. work' \in [Threads -> Work] /\ Only(t) /\ work'[t] = Looked(work[t], d)
    BY <1>2, <2>2, <2>3, Becoming
  <2> QED
    BY <1>2, <2>1, <2>4, LookedWork
<1>4. CASE At(t, "booting") /\ work' = [work EXCEPT ![t].todo = @ \ {d}, ![t].issues = @ \cup {d}]
  <2>1. Becomes(t, Missed(work[t], d))
    BY <1>2, <1>4 DEF Becomes, Missed
  <2>2. Missed(work[t], d) \in Work
    BY <1>2, MissedWork
  <2>3. work' \in [Threads -> Work] /\ Only(t) /\ work'[t] = Missed(work[t], d)
    BY <1>2, <2>1, <2>2, Becoming
  <2> QED
    BY <1>2, <1>4, <2>3, MissedWork
<1> QED
  BY <1>1, <1>3, <1>4

LEMMA ReadPreviousStep ==
  ASSUME ProfileTypes, NEW t \in Threads, ReadPrevious(t)
  PROVE  /\ work' \in [Threads -> Work] /\ Only(t)
         /\ work'[t].at = "saving" /\ work'[t].seen = work[t].seen
         /\ work'[t].prev.rev = profile.rev /\ work'[t].prev.note = profile.note
<1> DEFINE p == [rev |-> profile.rev, note |-> profile.note]
<1>1. p \in [rev : Nat, note : Notes \cup {None}]
  BY DEF ProfileTypes
<1>2. Becomes(t, Noted(work[t], "saving", p))
  BY DEF ReadPrevious, Becomes, Noted, ProfileTypes
<1>3. "saving" \in Places /\ work[t] \in Work /\ work \in [Threads -> Work]
  BY DEF Places, ProfileTypes
<1>4. p.rev = profile.rev /\ p.note = profile.note
  OBVIOUS
<1> HIDE DEF p
<1> QED
  BY <1>1, <1>2, <1>3, <1>4, NotedWork, Becoming

\* The end of a rebuild that was saved or failed.
LEMMA RebuiltStep ==
  ASSUME ProfileTypes, NEW t \in Threads, NEW ok \in BOOLEAN, Rebuilt(t, ok)
  PROVE  /\ work' \in [Threads -> Work] /\ Only(t)
         /\ work'[t].at = IF t \in Agents THEN "idle" ELSE IF ok THEN "rebuilt" ELSE "failed"
<1>1. CASE t \in Agents
  BY <1>1, Resting DEF Rebuilt, ProfileTypes
<1>2. CASE t \notin Agents
  <2>1. "rebuilt" \in Places /\ "failed" \in Places
    BY DEF Places
  <2>2. CASE ok
    BY <1>2, <2>1, <2>2, StartingOver DEF Rebuilt, ProfileTypes
  <2>3. CASE ~ok
    BY <1>2, <2>1, <2>3, StartingOver DEF Rebuilt, ProfileTypes
  <2> QED
    BY <2>2, <2>3
<1> QED
  BY <1>1, <1>2

\* An agent at its tool, and a request that neither lists, saves nor pages.
Quietly(t, places) == /\ work' \in [Threads -> Work] /\ Only(t)
                      /\ work'[t].at \in places \/ work' = work

AgentActs(a) == \/ \E d \in Decisions : \/ PresentRecorded(a, d) \/ Present(a, d)
                                         \/ \E t \in Texts : Answer(a, d, t)
                \/ NoAnswer(a) \/ PutEnds(a) \/ Clear(a) \/ AgentCrashes(a)

RequestActs(q) == \/ \E d \in Decisions, e \in Revisions, t \in Texts : AskRevise(q, d, e, t)
                  \/ ReviseStep(q) \/ AskRebuild(q) \/ ReportClean(q) \/ Respond(q)

LEMMA AgentMoves ==
  ASSUME ProfileTypes, NEW a \in Agents, AgentActs(a)
  PROVE  Quietly(a, Quiet \cup {"rebuild"})
<1> DEFINE P == Quiet \cup {"rebuild"}
<1>1. a \in Threads /\ work \in [Threads -> Work]
  BY ThreadKinds DEF ProfileTypes
<1>2. P \subseteq Places
  BY DEF Quiet, Places
<1>3. /\ "asking" \in P /\ "idle" \in P /\ "putting" \in P /\ "stored" \in P /\ "rebuild" \in P
  BY DEF Quiet
<1> HIDE DEF P
<1>4. ASSUME NEW b \in P, Go(a, b) PROVE Quietly(a, P)
  BY <1>1, <1>2, <1>4, Going DEF Quietly
<1>5. ASSUME Rest(a) PROVE Quietly(a, P)
  BY <1>1, <1>3, <1>5, Resting DEF Quietly
<1>6. ASSUME NEW d \in Decisions, PresentRecorded(a, d) PROVE Quietly(a, P)
  BY <1>1, <1>6 DEF PresentRecorded, Quietly, Only, Undisturbed, Alike
<1>7. ASSUME NEW d \in Decisions, Present(a, d) PROVE Quietly(a, P)
  <2>1. Go(a, "asking") \/ Go(a, "idle")
    BY <1>7 DEF Present, Go
  <2> QED
    BY <1>3, <1>4, <2>1
<1>8. ASSUME NEW d \in Decisions, NEW t \in Texts, Answer(a, d, t) PROVE Quietly(a, P)
  BY <1>3, <1>4, <1>5, <1>8 DEF Answer
<1>9. CASE NoAnswer(a) \/ AgentCrashes(a)
  BY <1>5, <1>9 DEF NoAnswer, AgentCrashes, P
<1>10. CASE PutEnds(a)
  BY <1>3, <1>4, <1>5, <1>10 DEF PutEnds, P
<1>11. CASE Clear(a)
  <2>1. Go(a, "rebuild") \/ Go(a, "idle")
    BY <1>11 DEF Clear, Go
  <2> QED
    BY <1>3, <1>4, <2>1 DEF P
<1> QED
  BY <1>6, <1>7, <1>8, <1>9, <1>10, <1>11 DEF P, AgentActs

LEMMA RequestMoves ==
  ASSUME ProfileTypes, NEW q \in Requests, RequestActs(q)
  PROVE  Quietly(q, Quiet)
<1>1. q \in Threads /\ work \in [Threads -> Work]
  BY ThreadKinds DEF ProfileTypes
<1>2. Quiet \subseteq Places
  BY DEF Quiet, Places
<1>3. /\ "revising" \in Quiet /\ "idle" \in Quiet /\ "changed" \in Quiet /\ "clean" \in Quiet
      /\ "waiting" \in Quiet
  BY DEF Quiet
<1>4. ASSUME NEW b \in Quiet, Go(q, b) PROVE Quietly(q, Quiet)
  BY <1>1, <1>2, <1>4, Going DEF Quietly
<1>5. ASSUME Rest(q) PROVE Quietly(q, Quiet)
  BY <1>1, <1>3, <1>5, Resting DEF Quietly
<1>6. ASSUME NEW d \in Decisions, NEW e \in Revisions, NEW t \in Texts, AskRevise(q, d, e, t)
      PROVE  Quietly(q, Quiet)
  <2>1. Becomes(q, Revising(work[q], d))
    BY <1>1, <1>6 DEF AskRevise, Becomes, Revising
  <2>2. work[q] \in Work
    BY <1>1
  <2>3. Revising(work[q], d) \in Work /\ Revising(work[q], d).at = "revising"
    BY <2>2, RevisingWork
  <2>4. work' \in [Threads -> Work] /\ Only(q) /\ work'[q].at = "revising"
    BY <1>1, <2>1, <2>3, Becoming
  <2> QED
    BY <1>3, <2>4 DEF Quietly
<1>7. CASE ReviseStep(q)
  <2>1. CASE UNCHANGED work
    BY <1>1, <2>1 DEF Quietly, Only, Undisturbed, Alike
  <2>2. CASE Go(q, "changed") \/ Rest(q)
    BY <1>3, <1>4, <1>5, <2>2
  <2> QED
    BY <1>7, <2>1, <2>2 DEF ReviseStep
<1>8. CASE AskRebuild(q)
  BY <1>3, <1>4, <1>8 DEF AskRebuild
<1>9. CASE ReportClean(q)
  <2>1. StartOver(q, "clean")
    BY <1>9 DEF ReportClean
  <2> QED
    BY <1>1, <1>2, <1>3, <2>1, StartingOver DEF Quietly
<1>10. CASE Respond(q)
  BY <1>5, <1>10 DEF Respond
<1> QED
  BY <1>6, <1>7, <1>8, <1>9, <1>10 DEF RequestActs

LEMMA NoteStep ==
  ASSUME ProfileTypes, NEW q \in Requests, Note(q)
  PROVE  /\ work' \in [Threads -> Work] /\ Only(q) /\ work'[q].at = "idle"
BY ThreadKinds, Resting DEF Note, ProfileTypes

LEMMA AskNoteStep ==
  ASSUME ProfileTypes, NEW q \in Requests, NEW e \in 1 .. MaxProfile, NEW n \in Notes, AskNote(q, e, n)
  PROVE  /\ work' \in [Threads -> Work] /\ Only(q)
         /\ work'[q].at = "noting" /\ work'[q].prev.rev = profile.rev
<1> DEFINE p == [rev |-> e, note |-> n]
<1>1. p \in [rev : Nat, note : Notes \cup {None}] /\ p.rev = e
  OBVIOUS
<1>2. "noting" \in Places /\ work[q] \in Work /\ work \in [Threads -> Work] /\ q \in Threads
  BY ThreadKinds DEF Places, ProfileTypes
<1>3. Becomes(q, Noted(work[q], "noting", p)) /\ profile.rev = e
  BY DEF AskNote, Becomes, Noted, ProfileTypes
<1> HIDE DEF p
<1>4. Noted(work[q], "noting", p) \in Work /\ Noted(work[q], "noting", p).at = "noting"
      /\ Noted(work[q], "noting", p).prev = p
  BY <1>1, <1>2, NotedWork
<1>5. work' \in [Threads -> Work] /\ Only(q) /\ work'[q] = Noted(work[q], "noting", p)
  BY <1>2, <1>3, <1>4, Becoming
<1> QED
  BY <1>1, <1>3, <1>4, <1>5

LEMMA AskBootstrapStep ==
  ASSUME IInv, ProfileTypes, NEW q \in Requests, AskBootstrap(q)
  PROVE  /\ work' \in [Threads -> Work] /\ Only(q)
         /\ work'[q].at = "booting" /\ work'[q].todo = Decisions
         /\ \A d \in Decisions : work'[q].start[d] = record[d].rev
<1>1. Becomes(q, Opened)
  BY DEF AskBootstrap, Becomes, Opened
<1>2. \A d \in Decisions : record[d].rev \in Nat
  BY StoreAssumption DEF IInv, TypeOK
<1>3. q \in Threads /\ work \in [Threads -> Work]
  BY ThreadKinds DEF ProfileTypes
<1>4. Opened \in Work
  BY <1>2, OpenedWork
<1>5. work' \in [Threads -> Work] /\ Only(q) /\ work'[q] = Opened
  BY <1>1, <1>3, <1>4, Becoming
<1> QED
  BY <1>2, <1>5, OpenedWork

LEMMA LoadProfileStep ==
  ASSUME ProfileTypes, NEW q \in Requests, LoadProfile(q)
  PROVE  /\ work' \in [Threads -> Work] /\ Only(q)
         /\ \/ work'[q].at = "idle"
            \/ /\ work'[q].at = "loaded" /\ work'[q].seen = profile.listed
               /\ work'[q].start = work[q].start /\ work'[q].stable = work[q].stable
               /\ work'[q].issues = work[q].issues
               /\ Matches(profile, work[q].seen)
<1>1. q \in Threads /\ work \in [Threads -> Work] /\ work[q] \in Work
  BY ThreadKinds DEF ProfileTypes
<1>2. CASE Matches(profile, work[q].seen)
  <2>1. Becomes(q, Loaded(work[q]))
    BY <1>1, <1>2 DEF LoadProfile, Becomes, Loaded
  <2>2. profile.listed \in Listing
    BY DEF ProfileTypes
  <2>3. Loaded(work[q]) \in Work
    BY <1>1, <2>2, LoadedWork
  <2>4. work' \in [Threads -> Work] /\ Only(q) /\ work'[q] = Loaded(work[q])
    BY <1>1, <2>1, <2>3, Becoming
  <2>5. /\ Loaded(work[q]).at = "loaded" /\ Loaded(work[q]).seen = profile.listed
        /\ Loaded(work[q]).start = work[q].start /\ Loaded(work[q]).stable = work[q].stable
        /\ Loaded(work[q]).issues = work[q].issues
    BY <1>1, <2>2, LoadedWork
  <2> QED
    BY <1>2, <2>4, <2>5
<1>3. CASE ~Matches(profile, work[q].seen)
  <2>1. Becomes(q, Idle)
    BY <1>3 DEF LoadProfile, Becomes
  <2> QED
    BY <1>1, <2>1, IdleWork, Becoming
<1> QED
  BY <1>2, <1>3

LEMMA BeginRebuildStep ==
  ASSUME ProfileTypes, NEW t \in Dashboard, BeginRebuild(t)
  PROVE  /\ work' \in [Threads -> Work] /\ Only(t) /\ work'[t].at = "rebuild"
<1>1. t \in Threads /\ "rebuild" \in Places
  BY ThreadKinds DEF Places
<1> QED
  BY <1>1, StartingOver DEF BeginRebuild, ProfileTypes

LEMMA PublishStep ==
  ASSUME ProfileTypes, NEW t \in Dashboard, Publish(t)
  PROVE  /\ work' \in [Threads -> Work] /\ Only(t)
         /\ work'[t].at = IF t = Background THEN "again" ELSE "idle"
<1> DEFINE v == IF t = Background THEN Started("again") ELSE Idle
           w == [work EXCEPT ![t] = v]
<1>1. work' = Bump(w)
  BY DEF Publish, Started
<1>2. "again" \in Places /\ t \in Threads
  BY ThreadKinds DEF Places
<1>3. v \in Work /\ v.at = IF t = Background THEN "again" ELSE "idle"
  BY <1>2, StartedWork, IdleWork
<1> HIDE DEF v
<1>4. w \in [Threads -> Work] /\ w[t] = v /\ \A x \in Threads \ {t} : w[x] = work[x]
  BY <1>2, <1>3 DEF ProfileTypes
<1> HIDE DEF w
<1>5. work' \in [Threads -> Work] /\ work'[t].at = v.at
  BY <1>1, <1>2, <1>4, Bumping
<1>6. ASSUME NEW x \in Threads \ {t} PROVE Undisturbed(x)
  <2>1. w[x] = work[x] /\ x \in Threads
    BY <1>4
  <2>2. /\ Bump(w)[x].at = w[x].at /\ Alike(Bump(w)[x], w[x])
        /\ Bump(w)[x].stable => w[x].stable
    BY <1>4, <2>1, Bumping
  <2> QED
    BY <1>1, <2>1, <2>2 DEF Undisturbed
<1> QED
  BY <1>3, <1>5, <1>6 DEF Only

LEMMA ScheduleStep ==
  ASSUME ProfileTypes, NEW q \in Requests, Schedule(q)
  PROVE  /\ work' \in [Threads -> Work]
         /\ work'[q].at = "idle"
         /\ \A x \in Threads \ {q, Background} : Undisturbed(x)
         /\ (dash.run /\ Undisturbed(Background)) \/ (~dash.run /\ work'[Background].at = "waiting")
         /\ \A x \in Threads : work'[x].at \in {"booting", "loaded"} => work'[x].stable = FALSE
<1> DEFINE b == Moved(work[Background], IF dash.run THEN work[Background].at ELSE "waiting")
           w == [[work EXCEPT ![q] = Idle] EXCEPT ![Background] = b]
<1>1. q \in Threads /\ Background \in Threads /\ q # Background
  BY ThreadKinds
<1>2. work' = Bump(w)
  BY <1>1 DEF Schedule, Moved, ProfileTypes
<1>3. work[Background] \in Work /\ "waiting" \in Places /\ work[Background].at \in Places
  BY <1>1 DEF ProfileTypes, Places, Work
<1>4. /\ b \in Work
      /\ \/ /\ dash.run /\ b.at = work[Background].at
            /\ Alike(b, work[Background]) /\ b.stable = work[Background].stable
         \/ ~dash.run /\ b.at = "waiting"
  <2>1. CASE dash.run
    BY <1>3, <2>1, MovedWork
  <2>2. CASE ~dash.run
    BY <1>3, <2>2, MovedWork
  <2> QED
    BY <2>1, <2>2
<1> HIDE DEF b
<1>5. /\ w \in [Threads -> Work] /\ w[q] = Idle /\ w[Background] = b
      /\ \A x \in Threads \ {q, Background} : w[x] = work[x]
  BY <1>1, <1>4, IdleWork DEF ProfileTypes
<1> HIDE DEF w
<1>6. work' \in [Threads -> Work] /\ work'[q].at = "idle"
  BY <1>1, <1>2, <1>5, Bumping, IdleWork
<1>7. ASSUME NEW x \in Threads
      PROVE  /\ work'[x].at = w[x].at /\ Alike(work'[x], w[x])
             /\ work'[x].stable => w[x].stable
             /\ w[x].at \in {"booting", "loaded"} => work'[x].stable = FALSE
  BY <1>2, <1>5, Bumping
<1>8. ASSUME NEW x \in Threads \ {q, Background} PROVE Undisturbed(x)
  <2>1. w[x] = work[x]
    BY <1>5
  <2> QED
    BY <1>7, <2>1 DEF Undisturbed
<1>9. (dash.run /\ Undisturbed(Background)) \/ (~dash.run /\ work'[Background].at = "waiting")
  <2>1. CASE ~dash.run /\ b.at = "waiting"
    BY <1>1, <1>5, <1>7, <2>1
  <2>2. CASE /\ dash.run /\ b.at = work[Background].at
             /\ Alike(b, work[Background]) /\ b.stable = work[Background].stable
    <3>1. /\ work'[Background].at = b.at /\ Alike(work'[Background], b)
          /\ work'[Background].stable => b.stable
      BY <1>1, <1>5, <1>7
    <3> QED
      BY <2>2, <3>1 DEF Undisturbed, Alike
  <2> QED
    BY <1>4, <2>1, <2>2
<1>10. ASSUME NEW x \in Threads, work'[x].at \in {"booting", "loaded"} PROVE work'[x].stable = FALSE
  BY <1>7, <1>10
<1> QED
  BY <1>6, <1>8, <1>9, <1>10

LEMMA AgainStep ==
  ASSUME ProfileTypes, Again
  PROVE  /\ work' \in [Threads -> Work] /\ Only(Background)
         /\ work'[Background].at \in {"waiting", "idle"}
<1>1. Background \in Threads /\ "waiting" \in Places /\ "idle" \in Places
  BY ThreadKinds DEF Places
<1>2. Go(Background, "waiting") \/ Go(Background, "idle")
  BY DEF Again
<1> QED
  BY <1>1, <1>2, Going DEF ProfileTypes

LEMMA CrashStep ==
  ASSUME ProfileTypes, DashboardCrashes
  PROVE  /\ work' \in [Threads -> Work]
         /\ \A x \in Dashboard : work'[x].at = "idle"
         /\ \A x \in Agents : work'[x] = work[x]
BY ThreadKinds, IdleWork DEF DashboardCrashes, ProfileTypes

-----------------------------------------------------------------------------
\* The types of profile, session and status.
LEMMA TypesInit == Init => ProfileTypes
<1> SUFFICES ASSUME Init PROVE ProfileTypes
  OBVIOUS
<1>1. Nothing \in Listing
  BY DEF Nothing, Unread, Listing, Entry
<1>2. profile \in [rev : Nat, listed : Listing, note : Notes \cup {None}]
  BY <1>1 DEF Init, ProfileInit
<1>3. session \in [Agents -> [pending : Decisions \cup {None}, saved : Decisions \cup {None}]]
  BY DEF Init, ProfileInit
<1>4. dash \in [dirty : BOOLEAN, run : BOOLEAN, req : BOOLEAN]
  BY DEF Init, ProfileInit
<1>5. work \in [Threads -> Work] /\ scheduled \in Numbers
  BY IdleWork DEF Init, ProfileInit, Numbers
<1> QED
  BY <1>2, <1>3, <1>4, <1>5 DEF ProfileTypes

LEMMA KeptSession ==
  ASSUME ProfileTypes, NEW a \in Agents, NEW d \in Decisions \cup {None}, Keep(a, d)
  PROVE  /\ session' \in [Agents -> [pending : Decisions \cup {None}, saved : Decisions \cup {None}]]
         /\ session'[a].pending = d
         /\ \A b \in Agents : b # a => session'[b] = session[b]
<1>1. PICK ok \in BOOLEAN :
        session' = [session EXCEPT ![a] = [pending |-> d, saved |-> IF ok THEN d ELSE @.saved]]
  BY DEF Keep
<1> QED
  BY <1>1 DEF ProfileTypes

LEMMA SavedProfile ==
  ASSUME ProfileTypes, NEW t \in Threads, Save(t)
  PROVE  /\ profile' \in [rev : Nat, listed : Listing, note : Notes \cup {None}]
         /\ profile'.rev = work[t].prev.rev + 1 /\ profile'.listed = work[t].seen
         /\ profile'.note = work[t].prev.note
<1>1. /\ work[t].prev \in [rev : Nat, note : Notes \cup {None}]
      /\ work[t].seen \in Listing
  BY DEF ProfileTypes, Work
<1>2. profile' = [rev |-> work[t].prev.rev + 1, listed |-> work[t].seen, note |-> work[t].prev.note]
  BY DEF Save
<1> QED
  BY <1>1, <1>2

LEMMA NotedProfile ==
  ASSUME ProfileTypes, NEW q \in Requests, Note(q)
  PROVE  /\ profile' \in [rev : Nat, listed : Listing, note : Notes \cup {None}]
         /\ \/ profile' = profile
            \/ profile'.rev = work[q].prev.rev + 1 /\ profile'.listed = profile.listed
<1>1. work[q].prev \in [rev : Nat, note : Notes \cup {None}]
  BY ThreadKinds DEF ProfileTypes, Work
<1>2. profile \in [rev : Nat, listed : Listing, note : Notes \cup {None}]
  BY DEF ProfileTypes
<1>3. CASE profile' = [profile EXCEPT !.rev = work[q].prev.rev + 1, !.note = work[q].prev.note]
  <2>1. work[q].prev.rev + 1 \in Nat /\ work[q].prev.note \in Notes \cup {None}
    BY <1>1
  <2>2. profile' \in [rev : Nat, listed : Listing, note : Notes \cup {None}]
    BY <1>2, <1>3, <2>1
  <2>3. profile'.rev = work[q].prev.rev + 1 /\ profile'.listed = profile.listed
    BY <1>2, <1>3, <2>1
  <2> QED
    BY <2>2, <2>3
<1>4. CASE UNCHANGED profile
  BY <1>2, <1>4
<1> QED
  BY <1>3, <1>4 DEF Note

Status == [dirty : BOOLEAN, run : BOOLEAN, req : BOOLEAN]

LEMMA StatusMoves ==
  ASSUME NEW s \in Status, NEW b \in BOOLEAN
  PROVE  /\ [s EXCEPT !.dirty = b] \in Status /\ [s EXCEPT !.dirty = b].dirty = b
         /\ [s EXCEPT !.dirty = b].run = s.run /\ [s EXCEPT !.dirty = b].req = s.req
         /\ [s EXCEPT !.run = b] \in Status /\ [s EXCEPT !.run = b].run = b
         /\ [s EXCEPT !.run = b].dirty = s.dirty /\ [s EXCEPT !.run = b].req = s.req
         /\ [s EXCEPT !.req = b] \in Status /\ [s EXCEPT !.req = b].req = b
         /\ [s EXCEPT !.req = b].dirty = s.dirty /\ [s EXCEPT !.req = b].run = s.run
<1>1. /\ [s EXCEPT !.dirty = b] \in Status /\ [s EXCEPT !.run = b] \in Status
      /\ [s EXCEPT !.req = b] \in Status
  BY DEF Status
<1>2. /\ [s EXCEPT !.dirty = b].dirty = b
      /\ [s EXCEPT !.dirty = b].run = s.run /\ [s EXCEPT !.dirty = b].req = s.req
  BY DEF Status
<1>3. /\ [s EXCEPT !.run = b].run = b
      /\ [s EXCEPT !.run = b].dirty = s.dirty /\ [s EXCEPT !.run = b].req = s.req
  BY DEF Status
<1>4. /\ [s EXCEPT !.req = b].req = b
      /\ [s EXCEPT !.req = b].dirty = s.dirty /\ [s EXCEPT !.req = b].run = s.run
  BY DEF Status
<1> QED
  BY <1>1, <1>2, <1>3, <1>4

LEMMA ScheduledStatus ==
  ASSUME IInv, ProfileTypes, NEW q \in Requests, Schedule(q)
  PROVE  /\ dash' \in Status /\ dash'.dirty = TRUE /\ dash'.run = TRUE /\ dash'.req = dash.run
         /\ scheduled' \in Numbers
         /\ \A d \in Decisions : scheduled'[d] = scheduled[d] \/ scheduled'[d] = record[d].rev
<1>1. dash' = [dirty |-> TRUE, run |-> TRUE, req |-> dash.run]
  BY DEF Schedule
<1>2. dash.run \in BOOLEAN
  BY DEF ProfileTypes
<1>3. dash' \in Status
  BY <1>1, <1>2 DEF Status
<1>4. dash'.dirty = TRUE /\ dash'.run = TRUE /\ dash'.req = dash.run
  BY <1>1
<1>5. scheduled' = [scheduled EXCEPT ![work[q].d] = record[work[q].d].rev]
  BY DEF Schedule
<1>6. \A d \in Decisions : record[d].rev \in Nat
  BY StoreAssumption DEF IInv, TypeOK
<1>7. scheduled \in [Decisions -> Nat]
  BY DEF ProfileTypes, Numbers
<1>8. \A d \in Decisions : scheduled'[d] = IF d = work[q].d THEN record[d].rev ELSE scheduled[d]
  BY <1>5, <1>7
<1>9. scheduled' \in [Decisions -> Nat]
  BY <1>5, <1>6, <1>7
<1> QED
  BY <1>3, <1>4, <1>8, <1>9 DEF Numbers

LEMMA PublishedStatus ==
  ASSUME ProfileTypes, NEW t \in Dashboard, Publish(t)
  PROVE  /\ dash' \in Status /\ dash'.dirty = At(t, "failed")
         /\ dash'.run = dash.run /\ dash'.req = dash.req
<1>1. dash \in Status /\ At(t, "failed") \in BOOLEAN
  BY DEF At, ProfileTypes, Status
<1>2. dash' = [dash EXCEPT !.dirty = At(t, "failed")]
  BY DEF Publish
<1>3. CASE At(t, "failed") = TRUE
  <2>1. dash' = [dash EXCEPT !.dirty = TRUE]
    BY <1>2, <1>3, Zenon
  <2>2. dash' \in Status /\ dash'.dirty = TRUE /\ dash'.run = dash.run /\ dash'.req = dash.req
    BY <1>1, <2>1, StatusMoves
  <2> QED
    BY <1>3, <2>2, Zenon
<1>4. CASE At(t, "failed") = FALSE
  <2>1. dash' = [dash EXCEPT !.dirty = FALSE]
    BY <1>2, <1>4, Zenon
  <2>2. dash' \in Status /\ dash'.dirty = FALSE /\ dash'.run = dash.run /\ dash'.req = dash.req
    BY <1>1, <2>1, StatusMoves
  <2> QED
    BY <1>4, <2>2, Zenon
<1> QED
  BY <1>1, <1>3, <1>4

LEMMA AgainStatus ==
  ASSUME ProfileTypes, Again
  PROVE  /\ dash' \in Status /\ dash'.dirty = dash.dirty
         /\ dash.req => dash'.run = dash.run /\ work'[Background].at = "waiting"
         /\ ~dash.req => dash'.req = dash.req
<1>1. dash \in Status
  BY DEF ProfileTypes, Status
<1>2. CASE dash.req
  <2>1. dash' = [dash EXCEPT !.req = FALSE] /\ Go(Background, "waiting")
    BY <1>2 DEF Again
  <2>2. work'[Background].at = "waiting"
    BY <2>1, ThreadKinds, Going DEF ProfileTypes, Places
  <2> QED
    BY <1>1, <1>2, <2>1, <2>2, StatusMoves
<1>3. CASE ~dash.req
  <2>1. dash' = [dash EXCEPT !.run = FALSE]
    BY <1>3 DEF Again
  <2> QED
    BY <1>1, <1>3, <2>1, StatusMoves
<1> QED
  BY <1>2, <1>3

\* The actions of Next, sorted by what they are about.
LEMMA KindsOfSteps ==
  ASSUME [Next]_vars
  PROVE  \/ \E a \in Agents : AgentActs(a)
         \/ \E q \in Requests : RequestActs(q)
         \/ \E t \in Threads : Lock(t) \/ ListOne(t) \/ ReadPrevious(t) \/ Save(t) \/ RebuildFails(t)
         \/ \E q \in Requests : \/ \E e \in 1 .. MaxProfile, n \in Notes : AskNote(q, e, n)
                                \/ Note(q) \/ Schedule(q) \/ AskBootstrap(q) \/ LoadProfile(q)
         \/ \E t \in Dashboard : BeginRebuild(t) \/ Publish(t)
         \/ Again \/ DashboardCrashes \/ UNCHANGED vars
BY DEF Next, AgentActs, RequestActs

LEMMA TypesNext ==
  ASSUME IInv, ProfileTypes, [Next]_vars
  PROVE  ProfileTypes'
<1> DEFINE S == [Agents -> [pending : Decisions \cup {None}, saved : Decisions \cup {None}]]
           P == [rev : Nat, listed : Listing, note : Notes \cup {None}]
<1> USE DEF ProfileTypes, Status
<1>1. ASSUME NEW a \in Agents, AgentActs(a) PROVE ProfileTypes'
  <2>1. work' \in [Threads -> Work]
    BY <1>1, AgentMoves DEF Quietly
  <2>2. UNCHANGED <<profile, dash, scheduled>>
    BY <1>1 DEF AgentActs, PresentRecorded, Present, Answer, NoAnswer, PutEnds, Clear, AgentCrashes
  <2>3. session' \in S
    <3>1. CASE UNCHANGED session
      BY <3>1
    <3>2. CASE \E d \in Decisions \cup {None} : Keep(a, d)
      BY <3>2, KeptSession
    <3>3. CASE AgentCrashes(a)
      <4>1. session' = [session EXCEPT ![a].pending = session[a].saved]
        BY <3>3 DEF AgentCrashes
      <4> QED
        BY <4>1
    <3> QED
      BY <1>1, <3>1, <3>2, <3>3
         DEF AgentActs, PresentRecorded, Present, Answer, NoAnswer, PutEnds, Clear
  <2> QED
    BY <2>1, <2>2, <2>3
<1>2. ASSUME NEW q \in Requests, RequestActs(q) PROVE ProfileTypes'
  <2>1. work' \in [Threads -> Work]
    BY <1>2, RequestMoves DEF Quietly
  <2>2. UNCHANGED <<profile, session, dash, scheduled>>
    BY <1>2 DEF RequestActs, AskRevise, ReviseStep, AskRebuild, ReportClean, Respond
  <2> QED
    BY <2>1, <2>2
<1>3. ASSUME NEW t \in Threads, Lock(t) \/ ListOne(t) \/ ReadPrevious(t) \/ RebuildFails(t)
      PROVE  ProfileTypes'
  <2>1. work' \in [Threads -> Work]
    BY <1>3, LockStep, ListOneStep, ReadPreviousStep, RebuiltStep DEF RebuildFails
  <2>2. UNCHANGED <<profile, session, dash, scheduled>>
    BY <1>3 DEF Lock, ListOne, ReadPrevious, RebuildFails
  <2> QED
    BY <2>1, <2>2
<1>4. ASSUME NEW t \in Threads, Save(t) PROVE ProfileTypes'
  <2>1. work' \in [Threads -> Work]
    BY <1>4, RebuiltStep DEF Save
  <2>2. profile' \in P
    BY <1>4, SavedProfile
  <2> QED
    BY <1>4, <2>1, <2>2 DEF Save
<1>5. ASSUME NEW q \in Requests, Note(q) PROVE ProfileTypes'
  <2>1. work' \in [Threads -> Work] /\ profile' \in P
    BY <1>5, NoteStep, NotedProfile
  <2> QED
    BY <1>5, <2>1 DEF Note
<1>6. ASSUME NEW q \in Requests, NEW e \in 1 .. MaxProfile, NEW n \in Notes, AskNote(q, e, n)
      PROVE  ProfileTypes'
  BY <1>6, AskNoteStep DEF AskNote
<1>7. ASSUME NEW q \in Requests, AskBootstrap(q) \/ LoadProfile(q) PROVE ProfileTypes'
  <2>1. work' \in [Threads -> Work]
    BY <1>7, AskBootstrapStep, LoadProfileStep
  <2> QED
    BY <1>7, <2>1 DEF AskBootstrap, LoadProfile
<1>8. ASSUME NEW q \in Requests, Schedule(q) PROVE ProfileTypes'
  <2>1. work' \in [Threads -> Work] /\ dash' \in Status /\ scheduled' \in Numbers
    BY <1>8, ScheduleStep, ScheduledStatus
  <2> QED
    BY <1>8, <2>1 DEF Schedule
<1>9. ASSUME NEW t \in Dashboard, BeginRebuild(t) PROVE ProfileTypes'
  BY <1>9, BeginRebuildStep DEF BeginRebuild
<1>10. ASSUME NEW t \in Dashboard, Publish(t) PROVE ProfileTypes'
  <2>1. work' \in [Threads -> Work] /\ dash' \in Status
    BY <1>10, PublishStep, PublishedStatus
  <2> QED
    BY <1>10, <2>1 DEF Publish
<1>11. CASE Again
  <2>1. work' \in [Threads -> Work] /\ dash' \in Status
    BY <1>11, AgainStep, AgainStatus
  <2> QED
    BY <1>11, <2>1 DEF Again
<1>12. CASE DashboardCrashes
  <2>1. work' \in [Threads -> Work]
    BY <1>12, CrashStep
  <2>2. dash' \in Status /\ scheduled' \in Numbers
    BY <1>12 DEF DashboardCrashes, Numbers
  <2> QED
    BY <1>12, <2>1, <2>2 DEF DashboardCrashes
<1>13. CASE UNCHANGED vars
  BY <1>13 DEF vars, profileVars
<1> QED
  BY <1>1, <1>2, <1>3, <1>4, <1>5, <1>6, <1>7, <1>8, <1>9, <1>10, <1>11, <1>12, <1>13, KindsOfSteps

-----------------------------------------------------------------------------
(* The records only move on.                                               *)

Grows == \A d \in Decisions :
  /\ record[d].rev \in Nat /\ record'[d].rev \in Nat
  /\ record'[d].rev >= record[d].rev
  /\ \A r \in 1 .. record[d].rev : Journal'[d][r] = Journal[d][r]

LEMMA RevisionsGrow ==
  ASSUME IInv, IInv', [StoreNext]_storeVars, NEW d \in Decisions
  PROVE  record'[d].rev >= record[d].rev
<1>1. record[d].rev \in Nat /\ record'[d].rev \in Nat
  BY StoreAssumption DEF IInv, TypeOK
<1>2. CASE UNCHANGED record
  BY <1>1, <1>2
<1>3. ASSUME NEW c \in Clients, WriteNew(c) PROVE record'[d].rev >= record[d].rev
  <2>1. op[c].d \in Decisions /\ record[op[c].d].rev = 0
    BY <1>3 DEF WriteNew, IInv, TypeOK, Ops, Fresh
  <2> QED
    BY <1>1, <1>3, <2>1 DEF WriteNew, IInv, TypeOK
<1>4. ASSUME NEW c \in Clients, WriteRevision(c) PROVE record'[d].rev >= record[d].rev
  <2>1. /\ op[c].d \in Decisions /\ op[c].expected \in Nat
        /\ record[op[c].d].rev = op[c].expected
    BY <1>4 DEF WriteRevision, IInv, TypeOK, Ops, Fresh
  <2> QED
    BY <1>1, <1>4, <2>1 DEF WriteRevision, IInv, TypeOK
<1> QED
  BY <1>2, <1>3, <1>4 DEF StoreNext, BeginPut, BeginRevise, Archive, Abort, Die, storeVars

LEMMA JournalGrows ==
  ASSUME IInv, [StoreNext]_storeVars, NEW d \in Decisions, NEW r \in 1 .. record[d].rev
  PROVE  Journal'[d][r] = Journal[d][r]
<1>1. CASE UNCHANGED Journal
  BY <1>1
<1>2. CASE Abstract!Next
  <2>1. PICK x \in Decisions, t \in Texts : Journal' = [Journal EXCEPT ![x] = Append(@, t)]
    BY <1>2 DEF Abstract!Next, Abstract!Commit
  <2>2. Journal[d] \in Seq(Texts) /\ Len(Journal[d]) = record[d].rev
    BY JournalIsLog
  <2>3. Journal'[d] = Journal[d] \/ Journal'[d] = Append(Journal[d], t)
    BY <2>1, JournalShape
  <2> QED
    BY <2>2, <2>3
<1> QED
  BY <1>1, <1>2, StepCommits

LEMMA RecordsGrow == IInv /\ IInv' /\ [StoreNext]_storeVars => Grows
<1> SUFFICES ASSUME IInv, IInv', [StoreNext]_storeVars, NEW d \in Decisions
             PROVE  /\ record[d].rev \in Nat /\ record'[d].rev \in Nat
                    /\ record'[d].rev >= record[d].rev
                    /\ \A r \in 1 .. record[d].rev : Journal'[d][r] = Journal[d][r]
  BY DEF Grows
<1>1. record[d].rev \in Nat /\ record'[d].rev \in Nat
  BY StoreAssumption DEF IInv, TypeOK
<1> QED
  BY <1>1, RevisionsGrow, JournalGrows

LEMMA UnwrittenNext == IInv /\ Unwritten /\ [StoreNext]_storeVars => Unwritten'
<1> SUFFICES ASSUME IInv, Unwritten, [StoreNext]_storeVars PROVE Unwritten'
  OBVIOUS
<1> USE DEF Unwritten, Blank
<1>1. CASE UNCHANGED record
  BY <1>1
<1>2. ASSUME NEW c \in Clients, WriteNew(c) PROVE Unwritten'
  BY <1>2 DEF WriteNew, IInv, TypeOK
<1>3. ASSUME NEW c \in Clients, WriteRevision(c) PROVE Unwritten'
  <2>1. op[c].expected \in Nat
    BY <1>3 DEF WriteRevision, IInv, TypeOK, Ops
  <2> QED
    BY <1>3, <2>1 DEF WriteRevision, IInv, TypeOK
<1> QED
  BY <1>1, <1>2, <1>3 DEF StoreNext, BeginPut, BeginRevise, Archive, Abort, Die, storeVars

-----------------------------------------------------------------------------
(* The decision an agent has presented stays pending until it is recorded. *)

\* What others do leaves an agent's operation, session and place alone.
LEMMA RecordingKept ==
  ASSUME Grows, NEW a \in Agents, Recording(a), op'[a] = op[a], session'[a] = session[a],
         work'[a].at = work[a].at
  PROVE  Recording(a)'
BY DEF Grows, Recording, At, Pending

\* Others are the other agents, the requests and the rebuilding thread.
LEMMA OthersOps ==
  ASSUME IInv, NEW a \in Agents, NEW t \in Threads, t # a,
         \/ t \in Agents /\ AgentActs(t)
         \/ t \in Requests /\ RequestActs(t)
  PROVE  op'[a] = op[a]
<1>1. a \in Clients /\ op \in [Clients -> Ops \cup {NoOp}]
  BY ThreadKinds DEF IInv, TypeOK
<1>2. CASE t \in Agents /\ AgentActs(t)
  BY <1>1, <1>2 DEF AgentActs, PresentRecorded, Present, Answer, NoAnswer, PutEnds, Clear,
                    AgentCrashes, BeginPut, Enter, WriteNew, Abort, Leave, Die, storeVars
<1>3. CASE t \in Requests /\ RequestActs(t)
  BY <1>1, <1>3 DEF RequestActs, AskRevise, ReviseStep, AskRebuild, ReportClean, Respond,
                    BeginRevise, Enter, Archive, WriteRevision, Abort, Leave, storeVars
<1> QED
  BY <1>2, <1>3

LEMMA OthersSessions ==
  ASSUME ProfileTypes, NEW a \in Agents, NEW b \in Agents, a # b, AgentActs(b)
  PROVE  session'[a] = session[a]
<1>1. CASE UNCHANGED session
  BY <1>1
<1>2. CASE \E d \in Decisions \cup {None} : Keep(b, d)
  BY <1>2, KeptSession
<1>3. CASE AgentCrashes(b)
  BY <1>3 DEF AgentCrashes, ProfileTypes
<1> QED
  BY <1>1, <1>2, <1>3 DEF AgentActs, PresentRecorded, Present, Answer, NoAnswer, PutEnds, Clear

\* The agent's own steps.
LEMMA OwnRecording ==
  ASSUME IInv, ProfileTypes, Grows, NEW a \in Agents, Recording(a), AgentActs(a)
  PROVE  Recording(a)'
<1>1. a \in Threads /\ a \in Clients /\ work \in [Threads -> Work] /\ op \in [Clients -> Ops \cup {NoOp}]
  BY ThreadKinds DEF ProfileTypes, IInv, TypeOK
<1>2. "idle" \in Places /\ "asking" \in Places /\ "putting" \in Places /\ "stored" \in Places
      /\ "rebuild" \in Places
  BY DEF Places
<1>3. ASSUME work'[a].at \notin {"putting", "stored"} PROVE Recording(a)'
  BY <1>3 DEF Recording, At
<1>4. CASE Rest(a)
  BY <1>1, <1>3, <1>4, Resting
<1>5. ASSUME NEW d \in Decisions, PresentRecorded(a, d) PROVE Recording(a)'
  BY <1>3, <1>5 DEF PresentRecorded, At
<1>6. ASSUME NEW d \in Decisions, Present(a, d) PROVE Recording(a)'
  <2>1. Go(a, "asking") \/ Go(a, "idle")
    BY <1>6 DEF Present, Go
  <2>2. work'[a].at \in {"asking", "idle"}
    BY <1>1, <1>2, <2>1, Going
  <2> QED
    BY <1>3, <2>2
<1>7. ASSUME NEW d \in Decisions, NEW t \in Texts, Answer(a, d, t) PROVE Recording(a)'
  <2>1. Pending(a) = d /\ session' = session
    BY <1>7 DEF Answer
  <2>2. CASE BeginPut(a, d, t) /\ Go(a, "putting")
    <3>1. op'[a].at = "put" /\ op'[a].d = d
      BY <1>1, <2>2 DEF BeginPut, Enter
    <3>2. work'[a].at = "putting"
      BY <1>1, <1>2, <2>2, Going
    <3> QED
      BY <2>1, <3>1, <3>2 DEF Recording, At, Pending
  <2>3. CASE PutExists(d, t) /\ Go(a, "stored") /\ UNCHANGED storeVars
    <3>1. record'[d].rev = 1
      BY <2>3 DEF PutExists, storeVars
    <3>2. work'[a].at = "stored"
      BY <1>1, <1>2, <2>3, Going
    <3> QED
      BY <2>1, <3>1, <3>2 DEF Recording, At, Pending
  <2> QED
    BY <1>4, <1>7, <2>2, <2>3 DEF Answer
<1>8. CASE PutEnds(a)
  <2>1. CASE WriteNew(a) /\ Go(a, "stored")
    <3>1. Pending(a) \in Decisions /\ op[a].d = Pending(a)
      BY <1>1, <1>8, <2>1 DEF PutEnds, WriteNew, Recording, Ops
    <3>2. record'[Pending(a)].rev = 1
      BY <2>1, <3>1 DEF WriteNew, IInv, TypeOK
    <3>3. work'[a].at = "stored" /\ session' = session
      BY <1>1, <1>2, <1>8, <2>1, Going DEF PutEnds
    <3> QED
      BY <3>1, <3>2, <3>3 DEF Recording, At, Pending
  <2> QED
    BY <1>4, <1>8, <2>1 DEF PutEnds
<1>9. CASE Clear(a)
  <2>1. Go(a, "rebuild") \/ Go(a, "idle")
    BY <1>9 DEF Clear, Go
  <2>2. work'[a].at \in {"rebuild", "idle"}
    BY <1>1, <1>2, <2>1, Going
  <2> QED
    BY <1>3, <2>2
<1> QED
  BY <1>4, <1>5, <1>6, <1>7, <1>8, <1>9 DEF AgentActs, NoAnswer, AgentCrashes

LEMMA AnswersNext ==
  ASSUME IInv, ProfileTypes, Grows, AnswersArePending, [Next]_vars
  PROVE  AnswersArePending'
<1> SUFFICES ASSUME NEW a \in Agents PROVE Recording(a)'
  BY DEF AnswersArePending
<1>1. Recording(a) /\ a \in Threads /\ a \in Clients
  BY ThreadKinds DEF AnswersArePending
<1>2. ASSUME NEW t \in Threads, t # a, Only(t), op'[a] = op[a], session'[a] = session[a]
      PROVE  Recording(a)'
  BY <1>1, <1>2, RecordingKept DEF Only, Undisturbed
<1>3. ASSUME NEW b \in Agents, AgentActs(b) PROVE Recording(a)'
  <2>1. CASE b = a
    BY <1>1, <1>3, <2>1, OwnRecording
  <2>2. CASE b # a
    <3>1. b \in Threads /\ Only(b)
      BY <1>3, AgentMoves, ThreadKinds DEF Quietly
    <3> QED
      BY <1>2, <1>3, <2>2, <3>1, OthersOps, OthersSessions
  <2> QED
    BY <2>1, <2>2
<1>4. ASSUME NEW q \in Requests, RequestActs(q) PROVE Recording(a)'
  <2>1. q \in Threads /\ q # a /\ Only(q)
    BY <1>4, RequestMoves, ThreadKinds DEF Quietly
  <2>2. op'[a] = op[a]
    BY <1>4, <2>1, OthersOps
  <2>3. session' = session
    BY <1>4 DEF RequestActs, AskRevise, ReviseStep, AskRebuild, ReportClean, Respond
  <2> QED
    BY <1>2, <2>1, <2>2, <2>3
<1>5. ASSUME NEW t \in Threads, Lock(t) \/ ListOne(t) \/ ReadPrevious(t) \/ Save(t) \/ RebuildFails(t)
      PROVE  Recording(a)'
  <2>1. Only(t)
    BY <1>5, LockStep, ListOneStep, ReadPreviousStep, RebuiltStep DEF Save, RebuildFails
  <2>2. UNCHANGED <<storeVars, session>>
    BY <1>5 DEF Lock, ListOne, ReadPrevious, Save, RebuildFails
  <2>3. CASE t # a
    BY <1>2, <2>1, <2>2, <2>3 DEF storeVars
  <2>4. CASE t = a
    <3>1. work'[a].at \notin {"putting", "stored"}
      BY <1>1, <1>5, <2>4, LockStep, ListOneStep, ReadPreviousStep, RebuiltStep
         DEF Save, RebuildFails, ListOne, At
    <3> QED
      BY <3>1 DEF Recording, At
  <2> QED
    BY <2>3, <2>4
<1>6. ASSUME NEW q \in Requests,
             \/ \E e \in 1 .. MaxProfile, n \in Notes : AskNote(q, e, n)
             \/ Note(q) \/ Schedule(q) \/ AskBootstrap(q) \/ LoadProfile(q)
      PROVE  Recording(a)'
  <2>1. q # a /\ a # Background /\ q \in Threads
    BY ThreadKinds
  <2>2. Undisturbed(a)
    <3>1. CASE Schedule(q)
      BY <1>1, <2>1, <3>1, ScheduleStep
    <3>2. CASE Only(q)
      BY <1>1, <2>1, <3>2 DEF Only
    <3> QED
      BY <1>6, <3>1, <3>2, NoteStep, AskNoteStep, AskBootstrapStep, LoadProfileStep
  <2>3. UNCHANGED <<storeVars, session>>
    BY <1>6 DEF AskNote, Note, Schedule, AskBootstrap, LoadProfile
  <2> QED
    BY <1>1, <2>2, <2>3, RecordingKept DEF Undisturbed, storeVars
<1>7. ASSUME NEW t \in Dashboard, BeginRebuild(t) \/ Publish(t) PROVE Recording(a)'
  <2>1. Only(t) /\ t # a /\ t \in Threads
    BY <1>7, BeginRebuildStep, PublishStep, ThreadKinds
  <2>2. UNCHANGED <<storeVars, session>>
    BY <1>7 DEF BeginRebuild, Publish
  <2> QED
    BY <1>2, <2>1, <2>2 DEF storeVars
<1>8. CASE Again
  BY <1>2, <1>8, AgainStep, ThreadKinds DEF Again, storeVars
<1>9. CASE DashboardCrashes
  <2>1. op'[a] = op[a] /\ session' = session /\ work'[a] = work[a]
    BY <1>1, <1>9, CrashStep, ThreadKinds DEF DashboardCrashes, Die
  <2> QED
    BY <1>1, <2>1, RecordingKept
<1>10. CASE UNCHANGED vars
  BY <1>1, <1>10, RecordingKept DEF vars, storeVars, profileVars
<1> QED
  BY <1>3, <1>4, <1>5, <1>6, <1>7, <1>8, <1>9, <1>10, KindsOfSteps

-----------------------------------------------------------------------------
(* The lock of the profile: what its holder has read is still so.          *)

\* A thread keeps what it holds, if it holds the profile at all.
Holds(x) == work'[x].at \in HoldProfile => Undisturbed(x)

LEMMA SerialKept ==
  ASSUME Grows, ProfileTypes, SerialInv, profile' = profile, \A x \in Threads : Holds(x)
  PROVE  SerialInv'
<1>1. OneHolder'
  BY DEF SerialInv, OneHolder, Holds, Undisturbed
<1>2. ProfileBehind'
  BY DEF SerialInv, ProfileBehind, Between, Blank, Grows, ProfileTypes, Listing, Entry
<1>3. ASSUME NEW x \in Threads PROVE Holding(x)'
  <2>1. CASE work'[x].at \notin HoldProfile
    BY <2>1 DEF Holding, At, HoldProfile
  <2>2. CASE Undisturbed(x)
    <3>1. work[x].seen \in [Decisions -> Entry]
      BY DEF ProfileTypes, Work, Listing
    <3>2. \A d \in Decisions : Between(work[x].seen, d) => Between(work[x].seen, d)'
      <4> SUFFICES ASSUME NEW d \in Decisions, Between(work[x].seen, d)
                   PROVE  /\ profile'.listed[d].rev <= work'[x].seen[d].rev
                          /\ work'[x].seen[d].rev <= record'[d].rev /\ Blank(work'[x].seen, d)
        BY DEF Between, Blank
      <4>1. work'[x].seen = work[x].seen
        BY <2>2 DEF Undisturbed, Alike
      <4>2. work[x].seen[d].rev \in Nat
        BY <3>1 DEF Entry
      <4> QED
        BY <4>1, <4>2 DEF Between, Blank, Grows
    <3>3. Holding(x)
      BY DEF SerialInv
    <3> QED
      BY <2>2, <3>2, <3>3 DEF Holding, Undisturbed, Alike, At
  <2> QED
    BY <2>1, <2>2 DEF Holds
<1> QED
  BY <1>1, <1>2, <1>3 DEF SerialInv

\* One thread at most is in the profile.
LEMMA SerialHeld ==
  ASSUME Grows, ProfileTypes, SerialInv, profile' = profile, NEW t \in Threads, Only(t),
         \A x \in Threads \ {t} : work[x].at \notin HoldProfile, Holding(t)'
  PROVE  SerialInv'
<1>1. \A x \in Threads \ {t} : work'[x].at \notin HoldProfile
  BY DEF Only, Undisturbed
<1>2. OneHolder'
  BY <1>1 DEF OneHolder
<1>3. ProfileBehind'
  BY DEF SerialInv, ProfileBehind, Between, Blank, Grows, ProfileTypes, Listing, Entry
<1>4. \A x \in Threads : Holding(x)'
  BY <1>1 DEF Holding, At, HoldProfile
<1> QED
  BY <1>2, <1>3, <1>4 DEF SerialInv

LEMMA SerialReleased ==
  ASSUME ProfileBehind', \A x \in Threads : work'[x].at \notin HoldProfile
  PROVE  SerialInv'
<1>1. OneHolder' /\ \A x \in Threads : Holding(x)'
  BY DEF OneHolder, Holding, At, HoldProfile
<1> QED
  BY <1>1 DEF SerialInv

LEMMA LoneHolder ==
  ASSUME SerialInv, NEW t \in Threads, work[t].at \in HoldProfile
  PROVE  \A x \in Threads \ {t} : work[x].at \notin HoldProfile
BY DEF SerialInv, OneHolder

LEMMA SerialListOne ==
  ASSUME IInv, ProfileTypes, Unwritten, Grows, SerialInv, NEW t \in Threads, ListOne(t)
  PROVE  SerialInv'
<1> USE DEF HoldProfile
<1>1. record' = record /\ profile' = profile
  BY DEF ListOne, storeVars
<1>2. /\ work' \in [Threads -> Work] /\ Only(t)
      /\ work'[t].at = work[t].at
  BY ListOneStep
<1>3. CASE At(t, "booting")
  <2>1. \A x \in Threads : Holds(x)
    BY <1>2, <1>3 DEF Holds, Only, At
  <2> QED
    BY <1>1, <2>1, SerialKept
<1>4. CASE At(t, "listing")
  <2>1. PICK d \in work[t].todo :
          /\ work'[t].todo = work[t].todo \ {d}
          /\ work'[t].seen[d] = record[d]
          /\ \A x \in Decisions : x # d => work'[t].seen[x] = work[t].seen[x]
    BY <1>4, ListOneStep DEF At
  <2>2. \A x \in Decisions \ work[t].todo : Between(work[t].seen, x)
    BY <1>4 DEF SerialInv, Holding
  <2>3. d \in Decisions
    BY <2>1 DEF ProfileTypes, Work
  <2>4. ASSUME NEW x \in Decisions \ work'[t].todo PROVE Between(work[t].seen, x)' 
    <3>1. CASE x = d
      <4>1. profile.listed[d].rev <= record[d].rev /\ record[d].rev \in Nat /\ Blank(record, d)
        BY <2>3 DEF SerialInv, ProfileBehind, Between, Unwritten, IInv, TypeOK, ProfileTypes, Listing, Entry, Grows
      <4> QED
        BY <1>1, <2>1, <3>1, <4>1 DEF Between, Blank
    <3>2. CASE x # d
      <4>1. Between(work[t].seen, x) /\ work'[t].seen[x] = work[t].seen[x]
        BY <2>1, <2>2, <3>2
      <4> QED
        BY <1>1, <4>1 DEF Between, Blank
    <3> QED
      BY <3>1, <3>2
  <2>5. Holding(t)'
    BY <1>2, <1>4, <2>4 DEF Holding, At
  <2>6. \A x \in Threads \ {t} : work[x].at \notin HoldProfile
    BY <1>4, LoneHolder DEF At
  <2> QED
    BY <1>1, <1>2, <2>5, <2>6, SerialHeld
<1> QED
  BY <1>3, <1>4 DEF ListOne

LEMMA SerialReadPrevious ==
  ASSUME ProfileTypes, Grows, SerialInv, NEW t \in Threads, ReadPrevious(t)
  PROVE  SerialInv'
<1> USE DEF HoldProfile
<1>1. record' = record /\ profile' = profile /\ At(t, "listing") /\ work[t].todo = {}
  BY DEF ReadPrevious, storeVars
<1>2. /\ work' \in [Threads -> Work] /\ Only(t)
      /\ work'[t].at = "saving" /\ work'[t].seen = work[t].seen
      /\ work'[t].prev.rev = profile.rev /\ work'[t].prev.note = profile.note
  BY ReadPreviousStep
<1>3. \A d \in Decisions : Between(work[t].seen, d)
  BY <1>1 DEF SerialInv, Holding
<1>4. \A d \in Decisions : Between(work[t].seen, d)'
  BY <1>1, <1>2, <1>3 DEF Between, Blank
<1>5. Holding(t)'
  BY <1>1, <1>2, <1>4 DEF Holding, At
<1>6. \A x \in Threads \ {t} : work[x].at \notin HoldProfile
  BY <1>1, LoneHolder DEF At
<1> QED
  BY <1>1, <1>2, <1>5, <1>6, SerialHeld

\* A rebuild writes what it listed over a profile that is not newer.
LEMMA SavedSerially ==
  ASSUME ProfileTypes, SerialInv, NEW t \in Threads, Save(t)
  PROVE  /\ profile'.rev = profile.rev + 1 /\ profile'.note = profile.note
         /\ \A d \in Decisions : /\ profile'.listed[d].rev >= profile.listed[d].rev
                                 /\ profile'.listed[d].rev <= record[d].rev
                                 /\ Blank(profile'.listed, d)
<1>1. /\ \A d \in Decisions : Between(work[t].seen, d)
      /\ work[t].prev.rev = profile.rev /\ work[t].prev.note = profile.note
  BY DEF Save, SerialInv, Holding
<1>2. /\ profile'.rev = work[t].prev.rev + 1 /\ profile'.listed = work[t].seen
      /\ profile'.note = work[t].prev.note
  BY SavedProfile
<1>3. \A d \in Decisions : work[t].seen[d].rev \in Nat /\ profile.listed[d].rev \in Nat
  BY DEF ProfileTypes, Work, Listing, Entry
<1> QED
  BY <1>1, <1>2, <1>3 DEF Between, Blank

\* A note changes nothing that was listed.
LEMMA NotedSerially ==
  ASSUME ProfileTypes, SerialInv, NEW q \in Requests, Note(q)
  PROVE  \/ profile' = profile
         \/ profile'.rev = profile.rev + 1 /\ profile'.listed = profile.listed
<1>1. work[q].prev.rev = profile.rev
  BY ThreadKinds DEF Note, SerialInv, Holding
<1> QED
  BY <1>1, NotedProfile

LEMMA SerialSave ==
  ASSUME ProfileTypes, Grows, SerialInv, NEW t \in Threads, Save(t)
  PROVE  SerialInv'
<1>1. record' = record /\ At(t, "saving")
  BY DEF Save, storeVars
<1>2. Only(t) /\ work'[t].at \in {"idle", "rebuilt", "failed"}
  BY RebuiltStep DEF Save
<1>3. \A x \in Threads : work'[x].at \notin HoldProfile
  BY <1>1, <1>2, LoneHolder DEF Only, Undisturbed, At, HoldProfile
<1>4. profile'.rev # 0 /\ \A d \in Decisions : Between(profile.listed, d)'
  <2>1. profile'.rev # 0
    BY SavedSerially DEF ProfileTypes
  <2>2. \A d \in Decisions : profile'.listed[d].rev \in Nat
    BY SavedProfile DEF Listing, Entry
  <2>3. \A d \in Decisions : Between(profile.listed, d)'
    BY <1>1, <2>2, SavedSerially DEF Between, Blank
  <2> QED
    BY <2>1, <2>3
<1>5. ProfileBehind'
  BY <1>4 DEF ProfileBehind
<1> QED
  BY <1>3, <1>5, SerialReleased

LEMMA SerialNote ==
  ASSUME ProfileTypes, Grows, SerialInv, NEW q \in Requests, Note(q)
  PROVE  SerialInv'
<1>1. record' = record /\ At(q, "noting") /\ q \in Threads
  BY ThreadKinds DEF Note, storeVars
<1>2. Only(q) /\ work'[q].at = "idle"
  BY NoteStep
<1>3. \A x \in Threads : work'[x].at \notin HoldProfile
  BY <1>1, <1>2, LoneHolder DEF Only, Undisturbed, At, HoldProfile
<1>4. ProfileBehind'
  <2>1. CASE profile' = profile
    BY <1>1, <2>1 DEF SerialInv, ProfileBehind, Between, Blank
  <2>2. CASE profile'.rev = profile.rev + 1 /\ profile'.listed = profile.listed
    BY <1>1, <2>2 DEF SerialInv, ProfileBehind, Between, Blank, ProfileTypes
  <2> QED
    BY <2>1, <2>2, NotedSerially
<1> QED
  BY <1>3, <1>4, SerialReleased

LEMMA SerialNext ==
  ASSUME IInv, ProfileTypes, Unwritten, Grows, SerialInv, [Next]_vars
  PROVE  SerialInv'
<1> USE DEF HoldProfile
<1>1. ASSUME NEW a \in Agents, AgentActs(a) PROVE SerialInv'
  <2>1. Quietly(a, Quiet \cup {"rebuild"})
    BY <1>1, AgentMoves
  <2>2. \A x \in Threads : Holds(x)
    BY <2>1 DEF Quietly, Quiet, Holds, Only, Undisturbed, Alike
  <2>3. profile' = profile
    BY <1>1 DEF AgentActs, PresentRecorded, Present, Answer, NoAnswer, PutEnds, Clear, AgentCrashes
  <2> QED
    BY <2>2, <2>3, SerialKept
<1>2. ASSUME NEW q \in Requests, RequestActs(q) PROVE SerialInv'
  <2>1. Quietly(q, Quiet)
    BY <1>2, RequestMoves
  <2>2. \A x \in Threads : Holds(x)
    BY <2>1 DEF Quietly, Quiet, Holds, Only, Undisturbed, Alike
  <2>3. profile' = profile
    BY <1>2 DEF RequestActs, AskRevise, ReviseStep, AskRebuild, ReportClean, Respond
  <2> QED
    BY <2>2, <2>3, SerialKept
<1>3. ASSUME NEW t \in Threads, Lock(t) PROVE SerialInv'
  <2>1. \A x \in Threads : work[x].at \notin HoldProfile
    BY <1>3 DEF Lock, ProfileUnlocked
  <2>2. Only(t) /\ work'[t].at = "listing" /\ work'[t].todo = Decisions
    BY <1>3, LockStep
  <2>3. Holding(t)'
    BY <2>2 DEF Holding, At
  <2> QED
    BY <1>3, <2>1, <2>2, <2>3, SerialHeld DEF Lock
<1>4. ASSUME NEW t \in Threads, RebuildFails(t) PROVE SerialInv'
  <2>1. Only(t) /\ work'[t].at \in {"idle", "failed"}
    BY <1>4, RebuiltStep DEF RebuildFails
  <2>2. \A x \in Threads : Holds(x)
    BY <2>1 DEF Holds, Only
  <2> QED
    BY <1>4, <2>2, SerialKept DEF RebuildFails
<1>5. ASSUME NEW t \in Threads, ListOne(t) \/ ReadPrevious(t) \/ Save(t) PROVE SerialInv'
  BY <1>5, SerialListOne, SerialReadPrevious, SerialSave
<1>6. ASSUME NEW q \in Requests, Note(q) PROVE SerialInv'
  BY <1>6, SerialNote
<1>7. ASSUME NEW q \in Requests, NEW e \in 1 .. MaxProfile, NEW n \in Notes, AskNote(q, e, n)
      PROVE  SerialInv'
  <2>1. \A x \in Threads : work[x].at \notin HoldProfile
    BY <1>7 DEF AskNote, ProfileUnlocked
  <2>2. Only(q) /\ work'[q].at = "noting" /\ work'[q].prev.rev = profile.rev
    BY <1>7, AskNoteStep
  <2>3. profile' = profile /\ q \in Threads
    BY <1>7, ThreadKinds DEF AskNote
  <2>4. Holding(q)'
    BY <2>2, <2>3 DEF Holding, At
  <2> QED
    BY <2>1, <2>2, <2>3, <2>4, SerialHeld
<1>8. ASSUME NEW q \in Requests, AskBootstrap(q) \/ LoadProfile(q) PROVE SerialInv'
  <2>1. Only(q) /\ work'[q].at \in {"booting", "idle", "loaded"}
    BY <1>8, AskBootstrapStep, LoadProfileStep
  <2>2. \A x \in Threads : Holds(x)
    BY <2>1 DEF Holds, Only
  <2> QED
    BY <1>8, <2>2, SerialKept DEF AskBootstrap, LoadProfile
<1>9. ASSUME NEW q \in Requests, Schedule(q) PROVE SerialInv'
  <2>1. \A x \in Threads : Holds(x)
    BY <1>9, ScheduleStep DEF Holds
  <2> QED
    BY <1>9, <2>1, SerialKept DEF Schedule
<1>10. ASSUME NEW t \in Dashboard, BeginRebuild(t) \/ Publish(t) PROVE SerialInv'
  <2>1. Only(t) /\ work'[t].at \in {"rebuild", "again", "idle"}
    BY <1>10, BeginRebuildStep, PublishStep
  <2>2. \A x \in Threads : Holds(x)
    BY <2>1 DEF Holds, Only
  <2> QED
    BY <1>10, <2>2, SerialKept DEF BeginRebuild, Publish
<1>11. CASE Again
  <2>1. \A x \in Threads : Holds(x)
    BY <1>11, AgainStep DEF Holds, Only
  <2> QED
    BY <1>11, <2>1, SerialKept DEF Again
<1>12. CASE DashboardCrashes
  <2>1. \A x \in Threads : Holds(x)
    BY <1>12, CrashStep, ThreadKinds DEF Holds, Undisturbed, Alike
  <2> QED
    BY <1>12, <2>1, SerialKept DEF DashboardCrashes
<1>13. CASE UNCHANGED vars
  <2>1. \A x \in Threads : Holds(x)
    BY <1>13 DEF vars, profileVars, Holds, Undisturbed, Alike
  <2> QED
    BY <1>13, <2>1, SerialKept DEF vars, profileVars
<1> QED
  BY <1>1, <1>2, <1>3, <1>4, <1>5, <1>6, <1>7, <1>8, <1>9, <1>10, <1>11, <1>12, <1>13, KindsOfSteps

-----------------------------------------------------------------------------
(* The status of the dashboard.                                            *)

\* No step takes the profile back.
Advances == \A d \in Decisions : /\ profile.listed[d].rev \in Nat /\ profile'.listed[d].rev \in Nat
                                 /\ profile'.listed[d].rev >= profile.listed[d].rev

\* What a rebuild of the dashboard is about stays.
Follows(x) == work'[x].at \in Rebuilding => Undisturbed(x)
StatusStays == /\ dash' = dash /\ scheduled' = scheduled
               /\ At(Background, "again")' => At(Background, "again")

LEMMA StatusKept ==
  ASSUME Grows, Advances, ProfileTypes, CleanInv, StatusStays
  PROVE  /\ Settled' => Settled
         /\ \A d \in Decisions : scheduled'[d] <= record'[d].rev
         /\ Settled' /\ ~dash'.dirty => \A d \in Decisions : Covers(profile.listed, d)'
<1>1. Settled' => Settled
  BY DEF StatusStays, Settled
<1>2. \A d \in Decisions : scheduled'[d] <= record'[d].rev
  BY DEF StatusStays, CleanInv, Grows, ProfileTypes, Numbers
<1>3. ASSUME NEW d \in Decisions, Covers(profile.listed, d) PROVE Covers(profile.listed, d)'
  BY <1>3 DEF StatusStays, Covers, Advances, ProfileTypes, Numbers
<1>4. ASSUME Settled', ~dash'.dirty PROVE \A d \in Decisions : Covers(profile.listed, d)'
  <2>1. ~dash.dirty
    BY <1>4 DEF StatusStays
  <2> QED
    BY <1>1, <1>3, <1>4, <2>1 DEF CleanInv
<1> QED
  BY <1>1, <1>2, <1>4

LEMMA CatchingKept ==
  ASSUME Advances, ProfileTypes, NEW t \in Threads, Catching(t), StatusStays,
         work'[t].at \in Rebuilding => Undisturbed(t)
  PROVE  Catching(t)'
<1>1. Settled' \/ (t = Background /\ ~dash'.req) => Settled \/ (t = Background /\ ~dash.req)
  BY DEF StatusStays, Settled
<1>2. CASE work'[t].at \notin Rebuilding
  BY <1>2 DEF Catching, At, Rebuilding
<1>3. CASE Undisturbed(t)
  <2>1. ASSUME NEW d \in Decisions, Covers(profile.listed, d) PROVE Covers(profile.listed, d)'
    BY <2>1 DEF StatusStays, Covers, Advances, ProfileTypes, Numbers
  <2>2. ASSUME NEW d \in Decisions, Covers(work[t].seen, d) PROVE Covers(work[t].seen, d)'
    BY <1>3, <2>2 DEF StatusStays, Covers, Undisturbed, Alike
  <2>3. work'[t].at = work[t].at /\ work'[t].todo = work[t].todo
    BY <1>3 DEF Undisturbed, Alike
  <2> QED
    BY <1>1, <2>1, <2>2, <2>3 DEF Catching, At
<1> QED
  BY <1>2, <1>3

LEMMA CleanKept ==
  ASSUME Grows, Advances, ProfileTypes, CleanInv, StatusStays, \A x \in Dashboard : Follows(x)
  PROVE  CleanInv'
<1>1. OneRebuild'
  BY DEF CleanInv, OneRebuild, Follows, Undisturbed
<1>2. \A x \in Dashboard : Catching(x)'
  BY ThreadKinds, CatchingKept DEF CleanInv, Follows
<1> QED
  BY <1>1, <1>2, StatusKept DEF CleanInv

\* One rebuild of the dashboard moves on.
LEMMA CleanHeld ==
  ASSUME Grows, Advances, ProfileTypes, CleanInv, StatusStays, NEW t \in Dashboard, Only(t),
         \A x \in Dashboard \ {t} : work[x].at \notin Rebuilding, Catching(t)'
  PROVE  CleanInv'
<1>1. \A x \in Dashboard \ {t} : work'[x].at \notin Rebuilding
  BY ThreadKinds DEF Only, Undisturbed
<1>2. OneRebuild'
  BY <1>1 DEF OneRebuild
<1>3. \A x \in Dashboard : Catching(x)'
  BY <1>1 DEF Catching, At, Rebuilding
<1> QED
  BY <1>2, <1>3, StatusKept DEF CleanInv

LEMMA LoneRebuild ==
  ASSUME CleanInv, NEW t \in Dashboard, work[t].at \in Rebuilding
  PROVE  \A x \in Dashboard \ {t} : work[x].at \notin Rebuilding
BY DEF CleanInv, OneRebuild

LEMMA Unchanging ==
  ASSUME ProfileTypes, profile'.listed = profile.listed
  PROVE  Advances
BY DEF Advances, ProfileTypes, Listing, Entry

LEMMA StatusUntouched ==
  ASSUME NEW t \in Threads, Only(t), dash' = dash, scheduled' = scheduled,
         t # Background \/ work'[t].at # "again" \/ work'[t].at = work[t].at
  PROVE  StatusStays
BY ThreadKinds DEF StatusStays, Only, Undisturbed, At

\* What agents do to the profile is no concern of the status.
LEMMA CleanApart ==
  ASSUME Grows, Advances, ProfileTypes, CleanInv, NEW t \in Threads, Only(t),
         dash' = dash, scheduled' = scheduled,
         t \in Agents \/ work'[t].at \notin Rebuilding \cup {"again"}
  PROVE  CleanInv'
<1>1. StatusStays
  BY ThreadKinds, StatusUntouched
<1>2. \A x \in Dashboard : Follows(x)
  BY ThreadKinds DEF Only, Follows
<1> QED
  BY <1>1, <1>2, CleanKept

LEMMA CleanBeginRebuild ==
  ASSUME Grows, ProfileTypes, CleanInv, NEW t \in Dashboard, BeginRebuild(t)
  PROVE  CleanInv'
<1>1. Only(t) /\ work'[t].at = "rebuild" /\ t \in Threads
  BY BeginRebuildStep, ThreadKinds
<1>2. Advances /\ StatusStays
  BY <1>1, Unchanging, StatusUntouched DEF BeginRebuild
<1>3. Catching(t)'
  BY <1>1 DEF Catching, At
<1>4. \A x \in Dashboard \ {t} : work[x].at \notin Rebuilding
  BY DEF BeginRebuild, DashUnlocked
<1> QED
  BY <1>1, <1>2, <1>3, <1>4, CleanHeld

\* A rebuild locks the profile, reads the one before, or gives up.
LEMMA CleanOnTheWay ==
  ASSUME Grows, ProfileTypes, CleanInv, NEW t \in Threads,
         Lock(t) \/ ReadPrevious(t) \/ RebuildFails(t)
  PROVE  CleanInv'
<1> USE DEF Rebuilding
<1>1. /\ Only(t) /\ dash' = dash /\ scheduled' = scheduled /\ profile' = profile
      /\ work'[t].at \in {"listing", "saving", "idle", "failed"}
  BY LockStep, ReadPreviousStep, RebuiltStep DEF Lock, ReadPrevious, RebuildFails
<1>2. Advances /\ StatusStays
  BY <1>1, Unchanging, StatusUntouched
<1>3. CASE t \in Agents
  BY <1>1, <1>2, <1>3, CleanApart
<1>4. CASE t \in Dashboard
  <2>1. work[t].at \in Rebuilding
    BY DEF Lock, ReadPrevious, RebuildFails, At
  <2>2. Catching(t)'
    <3>1. CASE Lock(t)
      BY <3>1, LockStep DEF Catching, At
    <3>2. CASE ReadPrevious(t)
      <4>1. work'[t].at = "saving" /\ work'[t].seen = work[t].seen
        BY <3>2, ReadPreviousStep
      <4>2. At(t, "listing") /\ work[t].todo = {}
        BY <3>2 DEF ReadPrevious
      <4>3. Settled' \/ (t = Background /\ ~dash'.req) => Settled \/ (t = Background /\ ~dash.req)
        BY <1>2 DEF StatusStays, Settled
      <4>4. Settled \/ (t = Background /\ ~dash.req) => \A d \in Decisions : Covers(work[t].seen, d)
        BY <1>4, <4>2 DEF CleanInv, Catching
      <4>5. \A d \in Decisions : Covers(work[t].seen, d) => Covers(work[t].seen, d)'
        BY <1>1, <4>1 DEF Covers
      <4> QED
        BY <4>1, <4>3, <4>4, <4>5 DEF Catching, At
    <3>3. CASE RebuildFails(t)
      BY <1>4, <3>3, ThreadKinds, RebuiltStep DEF RebuildFails, Catching, At
    <3> QED
      BY <3>1, <3>2, <3>3
  <2> QED
    BY <1>1, <1>2, <1>4, <2>1, <2>2, LoneRebuild, CleanHeld
<1> QED
  BY <1>3, <1>4, ThreadKinds

LEMMA CleanListOne ==
  ASSUME IInv, Grows, ProfileTypes, CleanInv, NEW t \in Threads, ListOne(t)
  PROVE  CleanInv'
<1>1. /\ Only(t) /\ dash' = dash /\ scheduled' = scheduled /\ profile' = profile /\ record' = record
      /\ work'[t].at = work[t].at
  BY ListOneStep DEF ListOne, storeVars
<1>2. Advances /\ StatusStays
  BY <1>1, Unchanging, StatusUntouched
<1>3. CASE t \in Agents \/ At(t, "booting")
  BY <1>1, <1>2, <1>3, CleanApart DEF At, Rebuilding
<1>4. CASE t \in Dashboard /\ At(t, "listing")
  <2>1. PICK d \in work[t].todo :
          /\ work'[t].todo = work[t].todo \ {d}
          /\ work'[t].seen[d] = record[d]
          /\ \A x \in Decisions : x # d => work'[t].seen[x] = work[t].seen[x]
    BY <1>4, ListOneStep DEF At
  <2>2. d \in Decisions
    BY <2>1 DEF ProfileTypes, Work
  <2>3. Settled' \/ (t = Background /\ ~dash'.req) => Settled \/ (t = Background /\ ~dash.req)
    BY <1>2 DEF StatusStays, Settled
  <2>4. Settled \/ (t = Background /\ ~dash.req)
          => \A x \in Decisions \ work[t].todo : Covers(work[t].seen, x)
    BY <1>4 DEF CleanInv, Catching
  <2>5. scheduled[d] <= record[d].rev /\ record[d].rev \in Nat /\ scheduled[d] \in Nat
    BY <2>2 DEF CleanInv, Grows, ProfileTypes, Numbers
  <2>6. ASSUME \A x \in Decisions \ work[t].todo : Covers(work[t].seen, x),
               NEW x \in Decisions \ work'[t].todo
        PROVE  Covers(work[t].seen, x)'
    <3>1. CASE x = d
      BY <1>1, <2>1, <2>5, <3>1 DEF Covers
    <3>2. CASE x # d
      <4>1. Covers(work[t].seen, x) /\ work'[t].seen[x] = work[t].seen[x]
        BY <2>1, <2>6, <3>2
      <4> QED
        BY <1>1, <4>1 DEF Covers
    <3> QED
      BY <3>1, <3>2
  <2>7. Catching(t)'
    BY <1>1, <1>4, <2>3, <2>4, <2>6 DEF Catching, At
  <2>8. work[t].at \in Rebuilding
    BY <1>4 DEF At, Rebuilding
  <2> QED
    BY <1>1, <1>2, <1>4, <2>7, <2>8, LoneRebuild, CleanHeld
<1> QED
  BY <1>3, <1>4, ThreadKinds DEF ListOne

LEMMA CleanSave ==
  ASSUME Grows, ProfileTypes, SerialInv, CleanInv, NEW t \in Threads, Save(t)
  PROVE  CleanInv'
<1>1. /\ Only(t) /\ dash' = dash /\ scheduled' = scheduled
      /\ work'[t].at = IF t \in Agents THEN "idle" ELSE "rebuilt"
  BY RebuiltStep DEF Save
<1>2. Advances
  BY SavedSerially, SavedProfile DEF Advances, ProfileTypes, Listing, Entry
<1>3. StatusStays
  BY <1>1, StatusUntouched
<1>4. CASE t \in Agents
  BY <1>1, <1>2, <1>4, CleanApart
<1>5. CASE t \in Dashboard
  <2>1. At(t, "saving")
    BY DEF Save
  <2>2. work'[t].at = "rebuilt" /\ profile'.listed = work[t].seen
    BY <1>1, <1>5, ThreadKinds, SavedProfile
  <2>3. Settled' \/ (t = Background /\ ~dash'.req) => Settled \/ (t = Background /\ ~dash.req)
    BY <1>3 DEF StatusStays, Settled
  <2>4. Settled \/ (t = Background /\ ~dash.req) => \A d \in Decisions : Covers(work[t].seen, d)
    BY <1>5, <2>1 DEF CleanInv, Catching
  <2>5. \A d \in Decisions : Covers(work[t].seen, d) => Covers(profile.listed, d)'
    BY <1>1, <2>2 DEF Covers
  <2>6. Catching(t)'
    BY <2>2, <2>3, <2>4, <2>5 DEF Catching, At
  <2>7. work[t].at \in Rebuilding
    BY <2>1 DEF At, Rebuilding
  <2> QED
    BY <1>1, <1>2, <1>3, <1>5, <2>6, <2>7, LoneRebuild, CleanHeld
<1> QED
  BY <1>4, <1>5, ThreadKinds

LEMMA CleanPublish ==
  ASSUME Grows, ProfileTypes, CleanInv, NEW t \in Dashboard, Publish(t)
  PROVE  CleanInv'
<1>1. /\ Only(t) /\ work'[t].at \notin Rebuilding /\ t \in Threads
      /\ t # Background => work'[t].at = "idle"
  BY PublishStep, ThreadKinds DEF Rebuilding
<1>2. dash'.dirty = At(t, "failed") /\ dash'.run = dash.run /\ dash'.req = dash.req
  BY PublishedStatus
<1>3. scheduled' = scheduled /\ profile' = profile /\ record' = record
  BY DEF Publish, storeVars
<1>4. \A x \in Dashboard \ {t} : work[x].at \notin Rebuilding
  BY LoneRebuild DEF Publish, At, Rebuilding
<1>5. \A x \in Dashboard : work'[x].at \notin Rebuilding
  BY <1>1, <1>4, ThreadKinds DEF Only, Undisturbed
<1>6. OneRebuild' /\ \A x \in Dashboard : Catching(x)'
  BY <1>5 DEF OneRebuild, Catching, At, Rebuilding
<1>7. ASSUME Settled', ~dash'.dirty, NEW d \in Decisions PROVE Covers(profile.listed, d)'
  <2>1. At(t, "rebuilt")
    BY <1>2, <1>7 DEF Publish
  <2>2. Settled \/ (t = Background /\ ~dash.req)
    <3>1. CASE t = Background
      BY <1>2, <1>7, <3>1 DEF Settled
    <3>2. CASE t # Background
      <4>1. work'[Background].at = work[Background].at
        BY <1>1, <3>2, ThreadKinds DEF Only, Undisturbed
      <4> QED
        BY <1>2, <1>7, <4>1 DEF Settled, At
    <3> QED
      BY <3>1, <3>2
  <2>3. Covers(profile.listed, d)
    BY <2>1, <2>2 DEF CleanInv, Catching
  <2> QED
    BY <1>3, <2>3 DEF Covers
<1>8. \A d \in Decisions : scheduled'[d] <= record'[d].rev
  BY <1>3 DEF CleanInv
<1> QED
  BY <1>6, <1>7, <1>8 DEF CleanInv

LEMMA CleanAgain ==
  ASSUME Grows, ProfileTypes, CleanInv, Again
  PROVE  CleanInv'
<1>1. Only(Background) /\ work'[Background].at \in {"waiting", "idle"}
  BY AgainStep
<1>2. scheduled' = scheduled /\ profile' = profile /\ record' = record /\ dash'.dirty = dash.dirty
  BY AgainStatus DEF Again, storeVars
<1>3. Settled' => Settled
  <2>1. CASE dash.req
    BY <2>1, AgainStatus DEF Settled, At
  <2>2. CASE ~dash.req
    BY <2>2 DEF Settled, Again
  <2> QED
    BY <2>1, <2>2
<1>4. OneRebuild'
  BY <1>1, ThreadKinds DEF CleanInv, OneRebuild, Only, Undisturbed, Rebuilding
<1>5. ASSUME NEW x \in Dashboard PROVE Catching(x)'
  <2>1. CASE x = Background
    BY <1>1, <2>1 DEF Catching, At
  <2>2. CASE x # Background
    <3>1. /\ work'[x].at = work[x].at /\ work'[x].todo = work[x].todo
          /\ work'[x].seen = work[x].seen
      BY <1>1, <2>2, ThreadKinds DEF Only, Undisturbed, Alike
    <3>2. Catching(x)
      BY DEF CleanInv
    <3> QED
      BY <1>2, <1>3, <2>2, <3>1, <3>2 DEF Catching, At, Covers
  <2> QED
    BY <2>1, <2>2
<1>6. Settled' /\ ~dash'.dirty => \A d \in Decisions : Covers(profile.listed, d)'
  BY <1>2, <1>3 DEF CleanInv, Covers
<1>7. \A d \in Decisions : scheduled'[d] <= record'[d].rev
  BY <1>2 DEF CleanInv
<1> QED
  BY <1>4, <1>5, <1>6, <1>7 DEF CleanInv

LEMMA CleanSchedule ==
  ASSUME IInv, Grows, ProfileTypes, CleanInv, NEW q \in Requests, Schedule(q)
  PROVE  CleanInv'
<1>1. /\ dash'.dirty = TRUE /\ dash'.run = TRUE /\ dash'.req = dash.run
      /\ \A d \in Decisions : scheduled'[d] = scheduled[d] \/ scheduled'[d] = record[d].rev
  BY ScheduledStatus
<1>2. /\ work'[q].at = "idle" /\ \A x \in Threads \ {q, Background} : Undisturbed(x)
      /\ (dash.run /\ Undisturbed(Background)) \/ (~dash.run /\ work'[Background].at = "waiting")
  BY ScheduleStep
<1>3. profile' = profile /\ record' = record
  BY DEF Schedule, storeVars
<1>4. OneRebuild'
  BY <1>2, ThreadKinds DEF CleanInv, OneRebuild, Undisturbed, Rebuilding
<1>5. \A d \in Decisions : scheduled'[d] <= record'[d].rev
  BY <1>1, <1>3 DEF CleanInv, Grows
<1>6. ~Settled'
  BY <1>1, <1>2 DEF Settled, At
<1>7. ASSUME NEW x \in Dashboard PROVE Catching(x)'
  BY <1>1, <1>2, <1>6 DEF Catching, At
<1> QED
  BY <1>4, <1>5, <1>6, <1>7 DEF CleanInv

LEMMA CleanCrash ==
  ASSUME Grows, ProfileTypes, CleanInv, DashboardCrashes
  PROVE  CleanInv'
<1>1. \A x \in Dashboard : work'[x].at = "idle"
  BY CrashStep
<1>2. profile' = profile /\ \A d \in Decisions : scheduled'[d] = 0
  BY DEF DashboardCrashes
<1>3. OneRebuild' /\ \A x \in Dashboard : Catching(x)'
  BY <1>1 DEF OneRebuild, Catching, At, Rebuilding
<1>4. \A d \in Decisions : scheduled'[d] <= record'[d].rev
  BY <1>2 DEF Grows
<1>5. \A d \in Decisions : Covers(profile.listed, d)'
  BY <1>2 DEF Covers, ProfileTypes, Listing, Entry
<1> QED
  BY <1>3, <1>4, <1>5 DEF CleanInv

LEMMA CleanNext ==
  ASSUME IInv, ProfileTypes, Grows, SerialInv, CleanInv, [Next]_vars
  PROVE  CleanInv'
<1>1. ASSUME NEW t \in Threads, Only(t), dash' = dash, scheduled' = scheduled, profile' = profile,
             t \in Agents \/ work'[t].at \notin Rebuilding \cup {"again"}
      PROVE  CleanInv'
  BY <1>1, Unchanging, CleanApart
<1>2. ASSUME NEW a \in Agents, AgentActs(a) PROVE CleanInv'
  <2>1. Only(a) /\ a \in Threads
    BY <1>2, AgentMoves, ThreadKinds DEF Quietly
  <2>2. UNCHANGED <<profile, dash, scheduled>>
    BY <1>2 DEF AgentActs, PresentRecorded, Present, Answer, NoAnswer, PutEnds, Clear, AgentCrashes
  <2> QED
    BY <1>1, <2>1, <2>2
<1>3. ASSUME NEW q \in Requests, RequestActs(q) PROVE CleanInv'
  <2>1. Quietly(q, Quiet)
    BY <1>3, RequestMoves
  <2>2. UNCHANGED <<profile, dash, scheduled>>
    BY <1>3 DEF RequestActs, AskRevise, ReviseStep, AskRebuild, ReportClean, Respond
  <2>3. CASE work'[q].at \in Quiet
    BY <1>1, <2>1, <2>2, <2>3, ThreadKinds DEF Quietly, Quiet, Rebuilding
  <2>4. CASE work' = work
    <3>1. StatusStays /\ \A x \in Dashboard : Follows(x)
      BY <2>2, <2>4 DEF StatusStays, Follows, Undisturbed, Alike, At
    <3> QED
      BY <2>2, <3>1, Unchanging, CleanKept
  <2> QED
    BY <2>1, <2>3, <2>4 DEF Quietly
<1>4. ASSUME NEW t \in Threads, Lock(t) \/ ListOne(t) \/ ReadPrevious(t) \/ Save(t) \/ RebuildFails(t)
      PROVE  CleanInv'
  BY <1>4, CleanOnTheWay, CleanListOne, CleanSave
<1>5. ASSUME NEW q \in Requests,
             \/ \E e \in 1 .. MaxProfile, n \in Notes : AskNote(q, e, n)
             \/ AskBootstrap(q) \/ LoadProfile(q)
      PROVE  CleanInv'
  <2>1. Only(q) /\ work'[q].at \in {"noting", "booting", "idle", "loaded"} /\ q \in Threads
    BY <1>5, ThreadKinds, AskNoteStep, AskBootstrapStep, LoadProfileStep
  <2>2. UNCHANGED <<profile, dash, scheduled>>
    BY <1>5 DEF AskNote, AskBootstrap, LoadProfile
  <2> QED
    BY <1>1, <2>1, <2>2 DEF Rebuilding
<1>6. ASSUME NEW q \in Requests, Note(q) PROVE CleanInv'
  <2>1. Only(q) /\ work'[q].at = "idle" /\ q \in Threads
    BY <1>6, ThreadKinds, NoteStep
  <2>2. profile'.listed = profile.listed
    BY <1>6, NotedSerially
  <2> QED
    BY <1>6, <2>1, <2>2, Unchanging, CleanApart DEF Note, Rebuilding
<1>7. ASSUME NEW q \in Requests, Schedule(q) PROVE CleanInv'
  BY <1>7, CleanSchedule
<1>8. ASSUME NEW t \in Dashboard, BeginRebuild(t) \/ Publish(t) PROVE CleanInv'
  BY <1>8, CleanBeginRebuild, CleanPublish
<1>9. CASE Again \/ DashboardCrashes
  BY <1>9, CleanAgain, CleanCrash
<1>10. CASE UNCHANGED vars
  <2>1. StatusStays /\ (\A x \in Dashboard : Follows(x)) /\ profile' = profile
    BY <1>10 DEF vars, profileVars, StatusStays, Follows, Undisturbed, Alike, At
  <2> QED
    BY <2>1, Unchanging, CleanKept
<1> QED
  BY <1>2, <1>3, <1>4, <1>5, <1>6, <1>7, <1>8, <1>9, <1>10, KindsOfSteps

-----------------------------------------------------------------------------
(* The pages of the dashboard.                                             *)

\* What was read of the journal stays so, and what a listing shows.
LEMMA StillGenuine ==
  ASSUME Grows, NEW s \in Listing, NEW d \in Decisions, Genuine(s, d)
  PROVE  s[d].rev > 0 => s[d].rev <= record'[d].rev /\ Journal'[d][s[d].rev] = s[d].text
<1>1. s[d].rev \in Nat
  BY DEF Listing, Entry
<1> QED
  BY <1>1 DEF Genuine, Grows

LEMMA StillShows ==
  ASSUME Grows, NEW s \in Listing, NEW d \in Decisions, NEW n \in Nat, Shows(s, d, n)
  PROVE  \/ s[d].rev >= n
         \/ /\ s[d].text \in {None, Deleted}
            /\ n = 0 \/ \E r \in n .. record'[d].rev : Journal'[d][r] = Deleted
<1>1. CASE s[d].rev >= n \/ n = 0
  BY <1>1 DEF Shows, Listing, Entry
<1>2. CASE ~(s[d].rev >= n) /\ n > 0
  <2>1. PICK r \in n .. record[d].rev : Journal[d][r] = Deleted
    BY <1>2 DEF Shows
  <2>2. r \in 1 .. record[d].rev /\ r \in n .. record'[d].rev
    BY <1>2, <2>1 DEF Grows
  <2>3. Journal'[d][r] = Deleted
    BY <2>1, <2>2 DEF Grows
  <2> QED
    BY <1>2, <2>2, <2>3 DEF Shows
<1> QED
  BY <1>1, <1>2

\* A page that is not disturbed, while the schedule or its stability stays.
LEMMA PagingKept ==
  ASSUME Grows, ProfileTypes, NEW q \in Requests, Paging(q),
         work'[q].at \in {"booting", "loaded"} => Undisturbed(q),
         scheduled' = scheduled \/ (work'[q].at \in {"booting", "loaded"} => work'[q].stable = FALSE)
  PROVE  Paging(q)'
<1>1. CASE work'[q].at \notin {"booting", "loaded"}
  BY <1>1 DEF Paging, At
<1>2. CASE work'[q].at \in {"booting", "loaded"}
  <2>1. /\ work'[q].at = work[q].at /\ work'[q].todo = work[q].todo
        /\ work'[q].seen = work[q].seen /\ work'[q].start = work[q].start
        /\ work'[q].issues = work[q].issues /\ (work'[q].stable => work[q].stable)
    BY <1>2 DEF Undisturbed, Alike
  <2>2. work[q].seen \in Listing /\ \A d \in Decisions : work[q].start[d] \in Nat
    BY ThreadKinds DEF ProfileTypes, Work, Numbers
  <2>3. ASSUME NEW d \in Decisions, Genuine(work[q].seen, d) PROVE Genuine(work[q].seen, d)'
    BY <2>1, <2>2, <2>3, StillGenuine DEF Genuine
  <2>4. ASSUME NEW d \in Decisions, Shows(work[q].seen, d, work[q].start[d])
        PROVE  Shows(work[q].seen, d, work[q].start[d])'
    <3>1. work[q].start[d] \in Nat
      BY <2>2
    <3> QED
      BY <2>1, <2>2, <2>4, <3>1, StillShows DEF Shows
  <2>5. ASSUME NEW d \in Decisions PROVE work'[q].start[d] <= record'[d].rev
    <3>1. work[q].start[d] <= record[d].rev
      BY <1>2, <2>1 DEF Paging
    <3> QED
      BY <2>1, <2>2, <3>1 DEF Grows
  <2>6. ASSUME NEW d \in Decisions, work'[q].stable PROVE scheduled'[d] <= work'[q].start[d]
    <3>1. scheduled[d] <= work[q].start[d]
      BY <1>2, <2>1, <2>6 DEF Paging
    <3> QED
      BY <1>2, <2>1, <2>6, <3>1
  <2> QED
    BY <2>1, <2>3, <2>4, <2>5, <2>6 DEF Paging, At
<1> QED
  BY <1>1, <1>2

LEMMA PageKept ==
  ASSUME Grows, ProfileTypes, PageInv, scheduled' = scheduled,
         \A q \in Requests : work'[q].at \in {"booting", "loaded"} => Undisturbed(q)
  PROVE  PageInv'
BY PagingKept DEF PageInv

\* One request pages, or none.
LEMMA PageHeld ==
  ASSUME Grows, ProfileTypes, PageInv, scheduled' = scheduled, NEW q \in Threads, Only(q),
         q \in Requests => Paging(q)'
  PROVE  PageInv'
<1> SUFFICES ASSUME NEW x \in Requests PROVE Paging(x)'
  BY DEF PageInv
<1>1. CASE x = q
  BY <1>1
<1>2. CASE x # q
  <2>1. Undisturbed(x) /\ Paging(x)
    BY <1>2, ThreadKinds DEF Only, PageInv
  <2> QED
    BY <2>1, PagingKept
<1> QED
  BY <1>1, <1>2

\* A record that is listed is the last of its journal.
LEMMA RecordIsGenuine ==
  ASSUME IInv, NEW d \in Decisions
  PROVE  Genuine(record, d)
<1>1. record[d].rev \in Nat
  BY StoreAssumption DEF IInv, TypeOK
<1> QED
  BY <1>1 DEF Genuine, Journal

LEMMA PageListOne ==
  ASSUME IInv, ProfileTypes, Grows, PageInv, NEW q \in Requests, ListOne(q), At(q, "booting")
  PROVE  Paging(q)'
<1>1. /\ record' = record /\ history' = history /\ scheduled' = scheduled /\ q \in Threads
  BY ThreadKinds DEF ListOne, storeVars
<1>2. /\ work'[q].at = "booting"
      /\ work'[q].start = work[q].start /\ work'[q].stable = work[q].stable
  BY <1>1, ListOneStep DEF At
<1>3. PICK d \in work[q].todo :
        /\ work'[q].todo = work[q].todo \ {d}
        /\ \A x \in Decisions : x # d => work'[q].seen[x] = work[q].seen[x]
        /\ \/ work'[q].seen[d] = record[d] /\ work'[q].issues = work[q].issues
           \/ work'[q].issues = work[q].issues \cup {d}
  BY <1>1, ListOneStep
<1>4. Journal' = Journal
  BY <1>1 DEF Journal
<1>5. d \in Decisions /\ Paging(q)
  BY <1>1, <1>3 DEF ProfileTypes, Work, PageInv
<1>6. ASSUME NEW x \in Decisions \ (work'[q].todo \cup work'[q].issues)
      PROVE  work'[q].seen[x].rev >= work'[q].start[x] /\ Genuine(work[q].seen, x)'
  <2>1. CASE x = d
    <3>1. work[q].start[d] <= record[d].rev /\ Genuine(record, d)
      BY <1>5, RecordIsGenuine DEF Paging, At
    <3>2. work[q].start[d] \in Nat /\ record[d].rev \in Nat
      BY <1>1, <1>5 DEF ProfileTypes, Work, Numbers, Grows
    <3>3. work'[q].seen[d] = record[d]
      BY <1>3, <1>6, <2>1
    <3> QED
      BY <1>1, <1>2, <1>4, <2>1, <3>1, <3>2, <3>3 DEF Genuine
  <2>2. CASE x # d
    <3>1. x \notin work[q].todo /\ x \notin work[q].issues
      BY <1>3, <1>6, <2>2
    <3>2. work[q].seen[x].rev >= work[q].start[x] /\ Genuine(work[q].seen, x)
      BY <1>5, <3>1 DEF Paging
    <3>3. work'[q].seen[x] = work[q].seen[x]
      BY <1>3, <2>2
    <3> QED
      BY <1>1, <1>2, <1>4, <3>2, <3>3 DEF Genuine
  <2> QED
    BY <2>1, <2>2
<1>7. ASSUME NEW x \in Decisions
      PROVE  /\ work'[q].start[x] <= record'[x].rev
             /\ work'[q].stable => scheduled'[x] <= work'[q].start[x]
  BY <1>1, <1>2, <1>5 DEF Paging, At
<1> QED
  BY <1>2, <1>6, <1>7 DEF Paging, At

LEMMA PageAskBootstrap ==
  ASSUME IInv, ProfileTypes, Grows, CleanInv, NEW q \in Requests, AskBootstrap(q)
  PROVE  Paging(q)'
<1>1. /\ work'[q].at = "booting" /\ work'[q].todo = Decisions
      /\ \A d \in Decisions : work'[q].start[d] = record[d].rev
  BY AskBootstrapStep
<1>2. record' = record /\ scheduled' = scheduled
  BY DEF AskBootstrap, storeVars
<1>3. \A d \in Decisions : scheduled[d] <= record[d].rev /\ record[d].rev \in Nat
  BY DEF CleanInv, Grows
<1> QED
  BY <1>1, <1>2, <1>3 DEF Paging, At

\* A profile whose active records are those the page has listed shows
\* everything that was recorded when the page was asked for, but for the
\* records that could not be read.
LEMMA MatchShows ==
  ASSUME IInv, ProfileTypes, SerialInv, NEW q \in Requests, Paging(q), At(q, "booting"),
         work[q].todo = {}, Matches(profile, work[q].seen), NEW d \in Decisions \ work[q].issues
  PROVE  Shows(profile.listed, d, work[q].start[d])
<1> DEFINE s == work[q].seen
           p == profile.listed
           n == work[q].start[d]
<1>1. s[d] \in Entry /\ p[d] \in Entry /\ n \in Nat
  BY ThreadKinds DEF ProfileTypes, Work, Listing, Numbers
<1>2. s[d].rev >= n /\ Genuine(s, d)
  BY DEF Paging
<1>3. /\ profile.rev = 0 => p[d].rev = 0
      /\ p[d].rev = 0 => p[d].text = None
  BY DEF SerialInv, ProfileBehind, Between, Blank
<1>4. ASSUME s[d].rev > 0, s[d].text # Deleted PROVE p[d] = s[d]
  <2>1. <<d, s[d]>> \in Active(s)
    BY <1>4 DEF Active
  <2>2. Active(p) = Active(s)
    BY <2>1 DEF Matches
  <2>3. <<d, s[d]>> \in Active(p)
    BY <2>1, <2>2
  <2> QED
    BY <2>3 DEF Active
<1>5. ASSUME p[d].rev > 0, p[d].text # Deleted PROVE s[d] = p[d]
  <2>1. <<d, p[d]>> \in Active(p)
    BY <1>5 DEF Active
  <2>2. Active(p) = Active(s)
    BY <1>1, <1>3, <1>5 DEF Matches
  <2>3. <<d, p[d]>> \in Active(s)
    BY <2>1, <2>2
  <2> QED
    BY <2>3 DEF Active
<1>6. record[d].rev \in Nat
  BY StoreAssumption DEF IInv, TypeOK
<1>7. s[d].rev \in Nat /\ p[d].rev \in Nat
  BY <1>1 DEF Entry
<1> HIDE DEF s, p, n
<1>8. SUFFICES Shows(p, d, n)
  BY DEF p, n
<1>9. CASE n = 0
  BY <1>7, <1>9 DEF Shows
<1>10. CASE n > 0 /\ s[d].text # Deleted
  BY <1>1, <1>2, <1>4, <1>7, <1>10 DEF Shows
<1>11. CASE n > 0 /\ s[d].text = Deleted
  <2>1. p[d].text \in {None, Deleted}
    BY <1>3, <1>5, <1>7, <1>11
  <2>2. s[d].rev \in n .. record[d].rev /\ Journal[d][s[d].rev] = Deleted
    BY <1>1, <1>2, <1>6, <1>7, <1>11 DEF Genuine
  <2> QED
    BY <2>1, <2>2 DEF Shows
<1> QED
  BY <1>1, <1>9, <1>10, <1>11

LEMMA PageLoadProfile ==
  ASSUME IInv, ProfileTypes, Grows, SerialInv, PageInv, NEW q \in Requests, LoadProfile(q)
  PROVE  Paging(q)'
<1>1. /\ record' = record /\ history' = history /\ scheduled' = scheduled
      /\ At(q, "booting") /\ work[q].todo = {} /\ Paging(q)
  BY DEF LoadProfile, storeVars, PageInv
<1>2. Journal' = Journal
  BY <1>1 DEF Journal
<1>3. CASE work'[q].at = "idle"
  BY <1>3 DEF Paging, At
<1>4. CASE /\ work'[q].at = "loaded" /\ work'[q].seen = profile.listed
           /\ work'[q].start = work[q].start /\ work'[q].stable = work[q].stable
           /\ work'[q].issues = work[q].issues
           /\ Matches(profile, work[q].seen)
  <2>1. ASSUME NEW d \in Decisions \ work'[q].issues
        PROVE  Shows(work[q].seen, d, work[q].start[d])'
    <3>1. Shows(profile.listed, d, work[q].start[d])
      BY <1>1, <1>4, MatchShows
    <3> QED
      BY <1>1, <1>2, <1>4, <3>1 DEF Shows
  <2>2. ASSUME NEW d \in Decisions
        PROVE  /\ work'[q].start[d] <= record'[d].rev
               /\ work'[q].stable => scheduled'[d] <= work'[q].start[d]
    BY <1>1, <1>4 DEF Paging, At
  <2> QED
    BY <1>4, <2>1, <2>2 DEF Paging, At
<1> QED
  BY <1>3, <1>4, LoadProfileStep

LEMMA PageNext ==
  ASSUME IInv, ProfileTypes, Grows, SerialInv, CleanInv, PageInv, [Next]_vars
  PROVE  PageInv'
<1>1. ASSUME NEW t \in Threads, Only(t), scheduled' = scheduled,
             work'[t].at \notin {"booting", "loaded"} \/ t \notin Requests
      PROVE  PageInv'
  <2>1. t \in Requests => Paging(t)'
    BY <1>1 DEF Paging, At
  <2> QED
    BY <1>1, <2>1, PageHeld
<1>2. ASSUME NEW a \in Agents, AgentActs(a) PROVE PageInv'
  <2>1. Only(a) /\ a \in Threads /\ a \notin Requests
    BY <1>2, AgentMoves, ThreadKinds DEF Quietly
  <2>2. scheduled' = scheduled
    BY <1>2 DEF AgentActs, PresentRecorded, Present, Answer, NoAnswer, PutEnds, Clear, AgentCrashes
  <2> QED
    BY <1>1, <2>1, <2>2
<1>3. ASSUME NEW q \in Requests, RequestActs(q) PROVE PageInv'
  <2>1. Quietly(q, Quiet) /\ q \in Threads
    BY <1>3, RequestMoves, ThreadKinds
  <2>2. scheduled' = scheduled
    BY <1>3 DEF RequestActs, AskRevise, ReviseStep, AskRebuild, ReportClean, Respond
  <2>3. CASE work'[q].at \in Quiet
    BY <1>1, <2>1, <2>2, <2>3 DEF Quietly, Quiet
  <2>4. CASE work' = work
    BY <2>2, <2>4, PageKept DEF Undisturbed, Alike
  <2> QED
    BY <2>1, <2>3, <2>4 DEF Quietly
<1>4. ASSUME NEW t \in Threads, Lock(t) \/ ReadPrevious(t) \/ Save(t) \/ RebuildFails(t)
      PROVE  PageInv'
  <2>1. /\ Only(t) /\ scheduled' = scheduled
        /\ work'[t].at \in {"listing", "saving", "idle", "rebuilt", "failed"}
    BY <1>4, LockStep, ReadPreviousStep, RebuiltStep DEF Lock, ReadPrevious, Save, RebuildFails
  <2> QED
    BY <1>1, <2>1
<1>5. ASSUME NEW t \in Threads, ListOne(t) PROVE PageInv'
  <2>1. Only(t) /\ scheduled' = scheduled /\ work'[t].at = work[t].at
    BY <1>5, ListOneStep DEF ListOne
  <2>2. CASE At(t, "booting") /\ t \in Requests
    BY <1>5, <2>1, <2>2, PageListOne, PageHeld
  <2>3. CASE At(t, "listing") \/ t \notin Requests
    BY <1>1, <2>1, <2>3 DEF At
  <2> QED
    BY <1>5, <2>2, <2>3 DEF ListOne
<1>6. ASSUME NEW q \in Requests, NEW e \in 1 .. MaxProfile, NEW n \in Notes, AskNote(q, e, n)
      PROVE  PageInv'
  <2>1. Only(q) /\ work'[q].at = "noting" /\ q \in Threads /\ scheduled' = scheduled
    BY <1>6, AskNoteStep, ThreadKinds DEF AskNote
  <2> QED
    BY <1>1, <2>1
<1>7. ASSUME NEW q \in Requests, Note(q) PROVE PageInv'
  <2>1. Only(q) /\ work'[q].at = "idle" /\ q \in Threads /\ scheduled' = scheduled
    BY <1>7, NoteStep, ThreadKinds DEF Note
  <2> QED
    BY <1>1, <2>1
<1>8. ASSUME NEW q \in Requests, Schedule(q) PROVE PageInv'
  <2> SUFFICES ASSUME NEW x \in Requests PROVE Paging(x)'
    BY DEF PageInv
  <2>1. /\ work'[q].at = "idle" /\ \A y \in Threads \ {q, Background} : Undisturbed(y)
        /\ \A y \in Threads : work'[y].at \in {"booting", "loaded"} => work'[y].stable = FALSE
    BY <1>8, ScheduleStep
  <2>2. x \in Threads /\ x # Background
    BY ThreadKinds
  <2>3. work'[x].at \in {"booting", "loaded"} => Undisturbed(x) /\ work'[x].stable = FALSE
    BY <2>1, <2>2
  <2> QED
    BY <2>3, PagingKept DEF PageInv
<1>9. ASSUME NEW q \in Requests, AskBootstrap(q) \/ LoadProfile(q) PROVE PageInv'
  <2>1. Only(q) /\ q \in Threads /\ scheduled' = scheduled
    BY <1>9, ThreadKinds, AskBootstrapStep, LoadProfileStep DEF AskBootstrap, LoadProfile
  <2> QED
    BY <1>9, <2>1, PageAskBootstrap, PageLoadProfile, PageHeld
<1>10. ASSUME NEW t \in Dashboard, BeginRebuild(t) \/ Publish(t) PROVE PageInv'
  <2>1. /\ Only(t) /\ t \in Threads /\ scheduled' = scheduled
        /\ work'[t].at \in {"rebuild", "again", "idle"}
    BY <1>10, ThreadKinds, BeginRebuildStep, PublishStep DEF BeginRebuild, Publish
  <2> QED
    BY <1>1, <2>1
<1>11. CASE Again
  BY <1>1, <1>11, AgainStep, ThreadKinds DEF Again
<1>12. CASE DashboardCrashes
  <2>1. \A q \in Requests : work'[q].at = "idle"
    BY <1>12, CrashStep, ThreadKinds
  <2> QED
    BY <2>1 DEF PageInv, Paging, At
<1>13. CASE UNCHANGED vars
  BY <1>13, PageKept DEF vars, profileVars, Undisturbed, Alike
<1> QED
  BY <1>2, <1>3, <1>4, <1>5, <1>6, <1>7, <1>8, <1>9, <1>10, <1>11, <1>12, <1>13, KindsOfSteps

-----------------------------------------------------------------------------
(* The invariant of agents and dashboard, and what their steps keep.       *)

ProfileInv == /\ IInv /\ ProfileTypes /\ Unwritten
              /\ AnswersArePending /\ SerialInv /\ CleanInv /\ PageInv

LEMMA ProfileInvInit == Init => ProfileInv
<1> SUFFICES ASSUME Init PROVE ProfileInv
  OBVIOUS
<1>1. IInv /\ ProfileTypes
  BY InitInv, TypesInit DEF Init
<1>2. \A t \in Threads : work[t].at = "idle"
  BY DEF Init, ProfileInit, Idle
<1>3. /\ \A d \in Decisions : record[d].rev = 0 /\ record[d].text = None
      /\ \A d \in Decisions : profile.listed[d].rev = 0 /\ profile.listed[d].text = None
      /\ \A d \in Decisions : scheduled[d] = 0
  BY DEF Init, StoreInit, ProfileInit, Nothing, Unread
<1>4. Unwritten
  BY <1>3 DEF Unwritten, Blank
<1>5. AnswersArePending
  BY <1>2, ThreadKinds DEF AnswersArePending, Recording, At
<1>6. SerialInv
  BY <1>2, <1>3 DEF SerialInv, OneHolder, HoldProfile, ProfileBehind, Between, Blank, Holding, At
<1>7. CleanInv
  BY <1>2, <1>3, ThreadKinds DEF CleanInv, OneRebuild, Rebuilding, Covers, Catching, At
<1>8. PageInv
  BY <1>2, ThreadKinds DEF PageInv, Paging, At
<1> QED
  BY <1>1, <1>4, <1>5, <1>6, <1>7, <1>8 DEF ProfileInv

LEMMA ProfileInvNext == ProfileInv /\ [Next]_vars => ProfileInv'
<1> SUFFICES ASSUME ProfileInv, [Next]_vars PROVE ProfileInv'
  OBVIOUS
<1>1. /\ IInv /\ ProfileTypes /\ Unwritten
      /\ AnswersArePending /\ SerialInv /\ CleanInv /\ PageInv
  BY DEF ProfileInv
<1>2. [StoreNext]_storeVars
  BY StoreSteps
<1>3. IInv'
  BY <1>1, <1>2, NextInv
<1>4. Grows
  BY <1>1, <1>2, <1>3, RecordsGrow
<1>5. ProfileTypes' /\ Unwritten'
  BY <1>1, <1>2, TypesNext, UnwrittenNext
<1>6. AnswersArePending'
  BY <1>1, <1>4, AnswersNext
<1>7. SerialInv'
  BY <1>1, <1>4, SerialNext
<1>8. CleanInv'
  BY <1>1, <1>4, CleanNext
<1>9. PageInv'
  BY <1>1, <1>4, PageNext
<1> QED
  BY <1>3, <1>5, <1>6, <1>7, <1>8, <1>9 DEF ProfileInv

\* The locks exclude, what was read under them still holds, and the dashboard
\* knows which changes the profile has.  (withLock, profileRebuildMu,
\* profileMu)
THEOREM ProfileInvariant == Spec => []ProfileInv
BY ProfileInvInit, ProfileInvNext, PTL DEF Spec

\* The steps of one agent on its pending decision.
LEMMA OwnPending ==
  ASSUME ProfileTypes, NEW a \in Agents, Recording(a), AgentActs(a),
         Pending(a) # None, session'[a].pending # Pending(a)
  PROVE  record[Pending(a)].rev > 0 \/ session[a].saved # Pending(a)
<1>1. ASSUME NEW d \in Decisions, PresentRecorded(a, d)
      PROVE  record[Pending(a)].rev > 0
  <2>1. Pending(a) = d
    BY <1>1 DEF PresentRecorded
  <2> QED
    BY <1>1, <2>1 DEF PresentRecorded
<1>2. ASSUME NEW d \in Decisions, Present(a, d) PROVE FALSE
  <2>1. Pending(a) = d /\ Keep(a, d)
    BY <1>2 DEF Present
  <2>2. session'[a].pending = d
    BY <2>1, KeptSession
  <2> QED
    BY <2>1, <2>2
<1>3. CASE Clear(a)
  BY <1>3 DEF Clear, Recording
<1>4. CASE AgentCrashes(a)
  <2>1. session'[a].pending = session[a].saved
    BY <1>4 DEF AgentCrashes, ProfileTypes
  <2> QED
    BY <2>1
<1>5. CASE UNCHANGED session
  BY <1>5 DEF Pending
<1> QED
  BY <1>1, <1>2, <1>3, <1>4, <1>5 DEF AgentActs, Answer, NoAnswer, PutEnds

\* A decision that was presented stays pending until the journal has it: no
\* cancellation, failed write, conflict or restart forgets it.  (savePending,
\* clearPending)
THEOREM PendingDecisionsStay == Spec => PendingIsKept
<1> DEFINE Step == \A a \in Agents : Pending(a) # None /\ session'[a].pending # Pending(a) =>
                     record[Pending(a)].rev > 0 \/ session[a].saved # Pending(a)
<1>1. ASSUME ProfileInv, [Next]_vars PROVE Step
  <2> SUFFICES ASSUME NEW a \in Agents, Pending(a) # None, session'[a].pending # Pending(a)
               PROVE  record[Pending(a)].rev > 0 \/ session[a].saved # Pending(a)
    OBVIOUS
  <2>1. ProfileTypes /\ Recording(a)
    BY <1>1 DEF ProfileInv, AnswersArePending
  <2>2. ASSUME NEW b \in Agents, AgentActs(b)
        PROVE  record[Pending(a)].rev > 0 \/ session[a].saved # Pending(a)
    <3>1. CASE b = a
      BY <2>1, <2>2, <3>1, OwnPending
    <3>2. CASE b # a
      BY <2>1, <2>2, <3>2, OthersSessions DEF Pending
    <3> QED
      BY <3>1, <3>2
  <2>3. CASE UNCHANGED session
    BY <2>3 DEF Pending
  <2> QED
    BY <1>1, <2>2, <2>3, KindsOfSteps
       DEF RequestActs, AskRevise, ReviseStep, AskRebuild, ReportClean, Respond,
           Lock, ListOne, ReadPrevious, Save, RebuildFails, AskNote, Note, Schedule, AskBootstrap,
           LoadProfile, BeginRebuild, Publish, Again, DashboardCrashes, vars, profileVars
<1>2. ProfileInv /\ [Next]_vars => [Step]_vars
  BY <1>1
<1> QED
  BY <1>2, ProfileInvariant, PTL DEF Spec, PendingIsKept

\* The profile file moves on by one revision at a time and never back to older
\* records, whoever rebuilds it; what the user said about a rule is replaced by
\* the user alone.  (RebuildContext, UpdateRule)
THEOREM ProfileMovesOn == Spec => ProfileIsSerial
<1> DEFINE Step == profile' # profile =>
                     /\ profile'.rev = profile.rev + 1
                     /\ \A d \in Decisions : profile'.listed[d].rev >= profile.listed[d].rev
                     /\ profile'.note # profile.note => \E q \in Requests : At(q, "noting")
<1>1. ASSUME ProfileInv, [Next]_vars PROVE Step
  <2>1. ProfileTypes /\ SerialInv
    BY <1>1 DEF ProfileInv
  <2>2. ASSUME NEW t \in Threads, Save(t) PROVE Step
    BY <2>1, <2>2, SavedSerially
  <2>3. ASSUME NEW q \in Requests, Note(q) PROVE Step
    <3>1. \A d \in Decisions : profile.listed[d].rev \in Nat
      BY <2>1 DEF ProfileTypes, Listing, Entry
    <3>2. At(q, "noting")
      BY <2>3 DEF Note
    <3> QED
      BY <2>1, <2>3, <3>1, <3>2, NotedSerially
  <2>4. CASE UNCHANGED profile
    BY <2>4
  <2> HIDE DEF Step
  <2> QED
    BY <1>1, <2>2, <2>3, <2>4, KindsOfSteps
       DEF AgentActs, PresentRecorded, Present, Answer, NoAnswer, PutEnds, Clear, AgentCrashes,
           RequestActs, AskRevise, ReviseStep, AskRebuild, ReportClean, Respond,
           Lock, ListOne, ReadPrevious, RebuildFails, AskNote, Schedule, AskBootstrap,
           LoadProfile, BeginRebuild, Publish, Again, DashboardCrashes, vars, profileVars
<1>2. ProfileInv /\ [Next]_vars => [Step]_vars
  BY <1>1
<1> QED
  BY <1>2, ProfileInvariant, PTL DEF Spec, ProfileIsSerial

\* What shows a later state shows an earlier one.
LEMMA ShowsEarlier ==
  ASSUME ProfileTypes, Grows, NEW s \in Listing, NEW d \in Decisions, NEW n \in Nat, NEW m \in Nat,
         m <= n, Shows(s, d, n)
  PROVE  Shows(s, d, m)
<1>1. s[d].rev \in Nat /\ record[d].rev \in Nat
  BY DEF Listing, Entry, Grows
<1> QED
  BY <1>1 DEF Shows

\* The only step to a clean page is the report of one.
LEMMA OnlyReports ==
  ASSUME ProfileTypes, IInv, NEW q \in Requests, ~At(q, "clean"), work'[q].at = "clean", [Next]_vars
  PROVE  ReportClean(q)
<1>1. q \in Threads /\ work \in [Threads -> Work] /\ q # Background
  BY ThreadKinds DEF ProfileTypes
<1>2. ASSUME NEW t \in Threads, Only(t) PROVE t = q
  BY <1>1, <1>2 DEF Only, Undisturbed, At
<1>3. ASSUME NEW a \in Agents, AgentActs(a) PROVE FALSE
  BY <1>2, <1>3, AgentMoves, ThreadKinds DEF Quietly
<1>4. ASSUME NEW x \in Requests, RequestActs(x) PROVE ReportClean(q)
  <2>1. x = q
    BY <1>2, <1>4, RequestMoves, ThreadKinds DEF Quietly
  <2>2. "changed" \in Places /\ "waiting" \in Places
    BY DEF Places
  <2>3. ~Rest(q) /\ ~Go(q, "changed") /\ ~Go(q, "waiting") /\ work' # work
    BY <1>1, <2>2, Resting, Going DEF At
  <2>4. ASSUME NEW d \in Decisions, NEW e \in Revisions, NEW t \in Texts, AskRevise(q, d, e, t)
        PROVE  FALSE
    <3>1. Becomes(q, Revising(work[q], d))
      BY <1>1, <2>4 DEF AskRevise, Becomes, Revising
    <3>2. Revising(work[q], d) \in Work /\ Revising(work[q], d).at = "revising"
      BY <1>1, RevisingWork
    <3>3. work'[q].at = "revising"
      BY <1>1, <3>1, <3>2, Becoming
    <3> QED
      BY <3>3
  <2> QED
    BY <1>4, <2>1, <2>3, <2>4 DEF RequestActs, ReviseStep, AskRebuild, Respond
<1>5. ASSUME NEW t \in Threads, Lock(t) \/ ListOne(t) \/ ReadPrevious(t) \/ Save(t) \/ RebuildFails(t)
      PROVE  FALSE
  <2>1. Only(t)
    BY <1>5, LockStep, ListOneStep, ReadPreviousStep, RebuiltStep DEF Save, RebuildFails
  <2>2. work'[t].at # "clean"
    BY <1>5, LockStep, ListOneStep, ReadPreviousStep, RebuiltStep DEF ListOne, Save, RebuildFails, At
  <2> QED
    BY <1>2, <2>1, <2>2
<1>6. ASSUME NEW x \in Requests,
             \/ \E e \in 1 .. MaxProfile, n \in Notes : AskNote(x, e, n)
             \/ Note(x) \/ AskBootstrap(x) \/ LoadProfile(x)
      PROVE  FALSE
  <2>1. Only(x) /\ work'[x].at \in {"noting", "idle", "booting", "loaded"}
    BY <1>6, AskNoteStep, NoteStep, AskBootstrapStep, LoadProfileStep
  <2> QED
    BY <1>2, <2>1, ThreadKinds
<1>7. ASSUME NEW x \in Requests, Schedule(x) PROVE FALSE
  <2>1. work'[x].at = "idle" /\ \A y \in Threads \ {x, Background} : Undisturbed(y)
    BY <1>7, ScheduleStep
  <2> QED
    BY <1>1, <2>1 DEF Undisturbed, At
<1>8. ASSUME NEW t \in Dashboard, BeginRebuild(t) \/ Publish(t) PROVE FALSE
  <2>1. Only(t) /\ work'[t].at \in {"rebuild", "again", "idle"}
    BY <1>8, BeginRebuildStep, PublishStep
  <2> QED
    BY <1>2, <2>1, ThreadKinds
<1>9. CASE Again
  BY <1>1, <1>2, <1>9, AgainStep, ThreadKinds
<1>10. CASE DashboardCrashes
  BY <1>10, CrashStep, ThreadKinds
<1>11. CASE UNCHANGED vars
  BY <1>11 DEF vars, profileVars, At
<1> QED
  BY <1>3, <1>4, <1>5, <1>6, <1>7, <1>8, <1>9, <1>10, <1>11, KindsOfSteps

\* When a page calls the profile clean, the profile has every change this
\* dashboard has scheduled a rebuild for, and every change made before the page
\* was asked for, whoever made it, except to records the page lists as issues.
\* (handleBootstrap, publishProfileResult)
THEOREM CleanPagesAreCurrent == Spec => CleanIsCurrent
<1> DEFINE Step == \A q \in Requests : ~At(q, "clean") /\ work'[q].at = "clean" =>
                     \A d \in Decisions : /\ d \in work[q].issues \/ Shows(work[q].seen, d, work[q].start[d])
                                          /\ \/ Shows(work[q].seen, d, scheduled[d])
                                             \/ Shows(profile.listed, d, scheduled[d])
<1>1. ASSUME ProfileInv, [Next]_vars PROVE Step
  <2> SUFFICES ASSUME NEW q \in Requests, ~At(q, "clean"), work'[q].at = "clean", NEW d \in Decisions
               PROVE  /\ d \in work[q].issues \/ Shows(work[q].seen, d, work[q].start[d])
                      /\ \/ Shows(work[q].seen, d, scheduled[d])
                         \/ Shows(profile.listed, d, scheduled[d])
    OBVIOUS
  <2>1. IInv /\ ProfileTypes /\ CleanInv /\ Paging(q) /\ q \in Threads
    BY <1>1, ThreadKinds DEF ProfileInv, PageInv
  <2>2. ReportClean(q)
    BY <1>1, <2>1, OnlyReports
  <2>3. Grows
    BY <1>1, <2>1, StoreSteps, NextInv, RecordsGrow
  <2>4. d \in work[q].issues \/ Shows(work[q].seen, d, work[q].start[d])
    BY <2>1, <2>2 DEF ReportClean, Paging
  <2>5. /\ work[q].seen \in Listing /\ work[q].start[d] \in Nat /\ scheduled[d] \in Nat
    BY <2>1 DEF ProfileTypes, Work, Numbers
  <2>6. CASE work[q].issues = {} /\ work[q].stable
    <3>1. scheduled[d] <= work[q].start[d]
      BY <2>1, <2>2, <2>6 DEF ReportClean, Paging, At
    <3> QED
      BY <2>1, <2>3, <2>4, <2>5, <2>6, <3>1, ShowsEarlier
  <2>7. CASE ~dash.dirty
    <3>1. Covers(profile.listed, d)
      BY <2>1, <2>2, <2>7 DEF ReportClean, CleanInv, Settled
    <3> QED
      BY <2>4, <3>1 DEF Covers, Shows
  <2> QED
    BY <2>2, <2>6, <2>7 DEF ReportClean
<1>2. ProfileInv /\ [Next]_vars => [Step]_vars
  BY <1>1
<1> QED
  BY <1>2, ProfileInvariant, PTL DEF Spec, CleanIsCurrent
=============================================================================
