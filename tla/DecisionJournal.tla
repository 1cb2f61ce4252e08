--------------------------- MODULE DecisionJournal ---------------------------
(***************************************************************************)
(* What the journal of implementation decisions promises: each decision is *)
(* a sequence of revisions that only ever grows at its end, one revision   *)
(* at a time.  No accepted revision is lost or rewritten.                  *)
(***************************************************************************)
EXTENDS Sequences

CONSTANTS Decisions, Texts

VARIABLE log    \* for each decision its revisions, the oldest first

Init == log = [d \in Decisions |-> <<>>]

Commit(d, t) == log' = [log EXCEPT ![d] = Append(@, t)]

Next == \E d \in Decisions, t \in Texts : Commit(d, t)

Spec == Init /\ [][Next]_log
=============================================================================
