--------------------------- MODULE MCJobRegistry ---------------------------
(***************************************************************************)
(* Constants for model-checking JobRegistry.                               *)
(***************************************************************************)
EXTENDS JobRegistry, TLC

CONSTANTS j1, j2, n1, n2

TwoIds == {j1, j2}
TwoNames == {n1, n2}
\* An interval, and a cron schedule with matches on neighbouring minutes and
\* then none within the horizon.
Mixed == {[every |-> 4, at |-> {}], [every |-> 0, at |-> {2, 3}]}

AnyWrites == {"ok", "failed", "torn"}

\* Identifiers and names are interchangeable; used without liveness only.
JobSymmetry == Permutations(Ids) \cup Permutations(Names)
=============================================================================
