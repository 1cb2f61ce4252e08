---------------------------- MODULE DecisionStore ----------------------------
(***************************************************************************)
(* ImplementationDecisionStore (implementation_decision_store.go): one     *)
(* file for the current revision of each decision and one for each         *)
(* revision it replaced.  The clients are threads of several processes;    *)
(* a write holds the file lock of its decision from the read of the record *)
(* to the last write, the operating system frees the lock of a process     *)
(* that dies.  Each file is replaced atomically (atomicWriteFile); a write *)
(* may fail, and a process may die between any two steps.                  *)
(*                                                                         *)
(* A record is reduced to its revision and a text: the selection, the      *)
(* rationale and the status, whatever makes two records differ.            *)
(***************************************************************************)
EXTENDS Integers, Sequences

CONSTANTS Decisions,
          Texts,
          Clients,
          None,          \* no file
          NoOp,          \* the client has no operation in the store
          MaxRevision    \* the largest revision; the code's largest int

ASSUME StoreAssumption == /\ None \notin Texts
                          /\ NoOp \notin [at : {"put", "revise", "archived"}, d : Decisions,
                                          expected : Nat, text : Texts]
                          /\ MaxRevision \in Nat \ {0}

VARIABLES record,    \* the record file of each decision; revision 0: there is none
          history,   \* its history directory: revision-000001.json, ...
          op         \* the operation of each client that is in its critical section

storeVars == <<record, history, op>>

Revisions == 1 .. MaxRevision

StoreInit == /\ record = [d \in Decisions |-> [rev |-> 0, text |-> None]]
             /\ history = [d \in Decisions |-> [r \in Revisions |-> None]]
             /\ op = [c \in Clients |-> NoOp]

\* Mutants of Unlocked: a writer of a new record is not seen.
UnlockedByPut(d) == {c \in Clients : op[c] # NoOp /\ op[c].d = d /\ op[c].at # "put"} = {}

\* Nobody holds the lock of a decision: lockFilePath within the process, the
\* lock on <record>.lock between processes.
Unlocked(d) == {c \in Clients : op[c] # NoOp /\ op[c].d = d} = {}

Enter(c, at, d, e, t) == /\ op[c] = NoOp
                         /\ Unlocked(d)
                         /\ op' = [op EXCEPT ![c] = [at |-> at, d |-> d, expected |-> e, text |-> t]]

Leave(c) == op' = [op EXCEPT ![c] = NoOp]

\* Put: the decision is new.  (One that exists is returned as it is when it is
\* equivalent, and is a conflict when it is not; nothing is written.)
BeginPut(c, d, t) == /\ record[d].rev = 0
                     /\ Enter(c, "put", d, 0, t)
                     /\ UNCHANGED <<record, history>>

PutExists(d, t) == Unlocked(d) /\ record[d] = [rev |-> 1, text |-> t]
PutConflicts(d, t) == Unlocked(d) /\ record[d].rev > 0 /\ record[d] # [rev |-> 1, text |-> t]

WriteNew(c) == /\ op[c] # NoOp /\ op[c].at = "put"
               /\ record' = [record EXCEPT ![op[c].d] = [rev |-> 1, text |-> op[c].text]]
               /\ Leave(c)
               /\ UNCHANGED history

\* Revise, SoftDelete: the record still has the revision the caller has seen.
BeginRevise(c, d, e, t) == /\ record[d].rev = e
                           /\ e < MaxRevision
                           /\ Enter(c, "revise", d, e, t)
                           /\ UNCHANGED <<record, history>>

\* Mutants of Archive: the history is left to the next step.
ArchiveLater(c) == /\ op[c] # NoOp /\ op[c].at = "revise"
                   /\ op' = [op EXCEPT ![c].at = "archived"]
                   /\ UNCHANGED <<record, history>>

\* writeHistoryRecord: the file may be there from an attempt that went no
\* further; a file with other contents is an error.
Archive(c) == /\ op[c] # NoOp /\ op[c].at = "revise"
              /\ LET d == op[c].d
                     r == record[d].rev
                 IN  /\ history[d][r] \in {None, record[d].text}
                     /\ history' = [history EXCEPT ![d][r] = record[d].text]
              /\ op' = [op EXCEPT ![c].at = "archived"]
              /\ UNCHANGED record

WriteRevision(c) == /\ op[c] # NoOp /\ op[c].at = "archived"
                    /\ record' = [record EXCEPT ![op[c].d] = [rev |-> op[c].expected + 1, text |-> op[c].text]]
                    /\ Leave(c)
                    /\ UNCHANGED history

\* An error on the way.
Abort(c) == /\ op[c] # NoOp
            /\ Leave(c)
            /\ UNCHANGED <<record, history>>

\* A process ends, with all its clients; the system frees its locks.
Die(clients) == /\ op' = [c \in Clients |-> IF c \in clients THEN NoOp ELSE op[c]]
                /\ UNCHANGED <<record, history>>

StoreNext ==
  \/ \E c \in Clients :
       \/ \E d \in Decisions, t \in Texts :
            \/ BeginPut(c, d, t)
            \/ \E e \in Revisions : BeginRevise(c, d, e, t)
       \/ WriteNew(c) \/ Archive(c) \/ WriteRevision(c) \/ Abort(c)
  \/ \E clients \in SUBSET Clients : Die(clients)

StoreSpec == StoreInit /\ [][StoreNext]_storeVars
-----------------------------------------------------------------------------
\* History can always be read: every replaced revision has its file, the
\* current one either has none or one that agrees with it, and no later
\* revision has one.  (Revise writes the history first; History reports a
\* missing or conflicting revision)
HistoryComplete == \A d \in Decisions, r \in Revisions :
  /\ r < record[d].rev => history[d][r] # None
  /\ r = record[d].rev => history[d][r] \in {None, record[d].text}
  /\ r > record[d].rev => history[d][r] = None

\* What the files of a decision say its revisions are.
Journal == [d \in Decisions |->
              [r \in 1 .. record[d].rev |-> IF r = record[d].rev THEN record[d].text ELSE history[d][r]]]

Abstract == INSTANCE DecisionJournal WITH log <- Journal

\* The files implement the journal: a step leaves every revision alone or adds
\* one to one decision.  (Put, Revise and the file lock)
ImplementsJournal == Abstract!Spec
=============================================================================
