----------------------------- MODULE AgentTurn -----------------------------
(***************************************************************************)
(* Who may run a turn of the agent (agent.go, turn_queue.go): the turn     *)
(* lock, the generation that owns it, the queue for input that comes while *)
(* a turn runs, and AbandonActiveTurn, by which a cancelled request takes  *)
(* the lock away from a turn whose goroutine may still be running.         *)
(*                                                                         *)
(* A member of Turns is one call of ReplyWithImages; the generation number *)
(* beginTurn gives it is its identity.  A member of Cancels is one call of *)
(* AbandonActiveTurn.  A critical section of turnStateMu is one action;    *)
(* turnMu is the variable locked.                                          *)
(***************************************************************************)
EXTENDS Integers, FiniteSets, Sequences

CONSTANTS Turns, Cancels, NoTurn

ASSUME TurnsAssumption == NoTurn \notin Turns
ASSUME CancelsAssumption == Cancels \cap (Turns \cup {NoTurn}) = {}

VARIABLES locked,       \* turnMu is held
          owner,        \* turnOwnerGen, NoTurn for 0
          pc,           \* where each call of ReplyWithImages stands
          cancel,       \* where each call of AbandonActiveTurn stands
          queue,        \* Session.TurnQueue
          overrun       \* loop iterations a turn finished after it lost the lock

vars == <<locked, owner, pc, cancel, queue, overrun>>

TypeOK == /\ locked \in BOOLEAN
          /\ owner \in Turns \cup {NoTurn}
          /\ pc \in [Turns -> {"new", "locked", "busy", "top", "iterating",
                               "leaving", "ended", "queued", "unsaved"}]
          /\ cancel \in [Cancels -> {"new", "unlocking", "skipping", "done"}]
          /\ queue \in Seq(Turns)
          /\ overrun \in [Turns -> Nat]

Init == /\ locked = FALSE
        /\ owner = NoTurn
        /\ pc = [t \in Turns |-> "new"]
        /\ cancel = [k \in Cancels |-> "new"]
        /\ queue = <<>>
        /\ overrun = [t \in Turns |-> 0]

\* beginTurn: turnMu.TryLock ...
TryLock(t) == /\ pc[t] = "new"
              /\ locked' = TRUE
              /\ pc' = [pc EXCEPT ![t] = IF locked THEN "busy" ELSE "locked"]
              /\ UNCHANGED <<owner, cancel, queue, overrun>>

\* ... and, in a second critical section, the new generation becomes the owner.
Own(t) == /\ pc[t] = "locked"
          /\ owner' = t
          /\ pc' = [pc EXCEPT ![t] = "top"]
          /\ UNCHANGED <<locked, cancel, queue, overrun>>

\* A turn is running: EnqueueUserInputDuringExecution appends the input and
\* saves the session.  If the save fails the caller gets the error, and the
\* item stays in the queue.
Enqueue(t) == /\ pc[t] = "busy"
              /\ queue' = Append(queue, t)
              /\ \E outcome \in {"queued", "unsaved"} :
                   pc' = [pc EXCEPT ![t] = outcome]
              /\ UNCHANGED <<locked, owner, cancel, overrun>>

\* Mutants of LoopTop: a turn without the lock waits until it has it again;
\* the loop does not look at the owner.
LoopTopWaits(t) == /\ pc[t] = "top"
                   /\ owner = t
                   /\ pc' = [pc EXCEPT ![t] = "iterating"]
                   /\ UNCHANGED <<locked, owner, cancel, queue, overrun>>

LoopTopBlind(t) == /\ pc[t] = "top"
                   /\ pc' = [pc EXCEPT ![t] = "iterating"]
                   /\ UNCHANGED <<locked, owner, cancel, queue, overrun>>

\* The top of completeLoop: a turn that no longer owns the lock stops.
LoopTop(t) == /\ pc[t] = "top"
              /\ pc' = [pc EXCEPT ![t] = IF owner = t THEN "iterating" ELSE "leaving"]
              /\ UNCHANGED <<locked, owner, cancel, queue, overrun>>

\* One iteration: the model call, the tool calls and the writes to the
\* session.  It does not look at the owner again; it continues or returns.
Iterate(t) == /\ pc[t] = "iterating"
              /\ \E next \in {"top", "leaving"} : pc' = [pc EXCEPT ![t] = next]
              /\ overrun' = [overrun EXCEPT ![t] = IF owner = t THEN @ ELSE @ + 1]
              /\ UNCHANGED <<locked, owner, cancel, queue>>

\* Mutants of ReleaseTurn: unlock whoever owns the lock; unlock without
\* giving up the ownership.
ReleaseAnyway(t) == /\ pc[t] = "leaving"
                    /\ owner' = NoTurn
                    /\ locked' = FALSE
                    /\ pc' = [pc EXCEPT ![t] = "ended"]
                    /\ UNCHANGED <<cancel, queue, overrun>>

ReleaseKeepsOwner(t) == /\ pc[t] = "leaving"
                        /\ locked' = IF owner = t THEN FALSE ELSE locked
                        /\ pc' = [pc EXCEPT ![t] = "ended"]
                        /\ UNCHANGED <<owner, cancel, queue, overrun>>

\* defer a.releaseTurn(gen): unlock only what this generation still owns.
ReleaseTurn(t) == /\ pc[t] = "leaving"
                  /\ IF owner = t
                       THEN owner' = NoTurn /\ locked' = FALSE
                       ELSE UNCHANGED <<owner, locked>>
                  /\ pc' = [pc EXCEPT ![t] = "ended"]
                  /\ UNCHANGED <<cancel, queue, overrun>>

\* AbandonActiveTurn: take the ownership away and drop the queued input ...
AbandonOwner(k) == /\ cancel[k] = "new"
                   /\ cancel' = [cancel EXCEPT ![k] =
                                   IF owner = NoTurn THEN "skipping" ELSE "unlocking"]
                   /\ owner' = NoTurn
                   /\ queue' = <<>>
                   /\ UNCHANGED <<locked, pc, overrun>>

\* ... and unlock turnMu outside turnStateMu if there was an owner.
AbandonUnlock(k) == /\ cancel[k] \in {"unlocking", "skipping"}
                    /\ locked' = IF cancel[k] = "unlocking" THEN FALSE ELSE locked
                    /\ cancel' = [cancel EXCEPT ![k] = "done"]
                    /\ UNCHANGED <<owner, pc, queue, overrun>>

TurnStep(t) == \/ TryLock(t)
               \/ Own(t)
               \/ Enqueue(t)
               \/ LoopTop(t)
               \/ Iterate(t)
               \/ ReleaseTurn(t)

CancelStep(k) == AbandonOwner(k) \/ AbandonUnlock(k)

Next == \/ \E t \in Turns : TurnStep(t)
        \/ \E k \in Cancels : CancelStep(k)

Spec == Init /\ [][Next]_vars

\* Goroutines run; an iteration comes to its end because every model call
\* does (CallersReturn of ModelRequest) and tools run under the context.
FairSpec == /\ Spec
            /\ \A t \in Turns : WF_vars(TurnStep(t))
            /\ \A k \in Cancels : WF_vars(AbandonUnlock(k))
-----------------------------------------------------------------------------
\* Those who will unlock turnMu: a turn between TryLock and ownership, the
\* owner, and a cancel between its two critical sections.
Unlockers == {t \in Turns : pc[t] = "locked"}
               \cup ({owner} \ {NoTurn})
               \cup {k \in Cancels : cancel[k] = "unlocking"}

\* turnMu is held on behalf of exactly one of them.  With none it would stay
\* locked and queue all input for ever; with two, the second Unlock would be
\* fatal ("unlock of unlocked mutex") or would free a successor's turn.
LockHasOneUnlocker == Cardinality(Unlockers) = IF locked THEN 1 ELSE 0

\* An abandoned turn stops at the top of its loop: it finishes at most the
\* iteration it was in, however many turns run meanwhile.
AbandonedTurnStops == \A t \in Turns : overrun[t] <= 1

\* The owner of the lock is a turn that is still in its loop, so the lock
\* comes back when the loop ends.
OwnerIsRunning == owner # NoTurn => pc[owner] \in {"top", "iterating", "leaving"}

\* A turn that lost the lock comes to its end although nobody interrupts it,
\* and even if it would have gone on iterating for ever.
AbandonedTurnEnds ==
  \A t \in Turns : pc[t] \in {"top", "iterating", "leaving"} /\ owner # t
                    ~> pc[t] = "ended"

=============================================================================
