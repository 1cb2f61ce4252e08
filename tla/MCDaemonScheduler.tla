------------------------- MODULE MCDaemonScheduler -------------------------
(***************************************************************************)
(* Constants for model-checking DaemonScheduler.                           *)
(***************************************************************************)
EXTENDS DaemonScheduler

CONSTANTS j1, j2, n1, n2, c1

TwoIds == {j1, j2}

\* A client may bring the first identifier again while its job still runs.
ClientId == {j1}

\* With one slot the cap refuses a job, with two a job is refused beside itself.
OneOrTwo == {1, 2}

TwoNames == {n1, n2}
OneCaller == {c1}

EveryTick == {[every |-> 1, at |-> {}]}

\* Failing writes are for job_registry.
GoodWrites == {"ok"}
=============================================================================
