--------------------------- MODULE MCRequestRetry ---------------------------
(***************************************************************************)
(* Constants for model-checking RequestRetry: one turn of two attempts, or *)
(* two turns at once.                                                      *)
(***************************************************************************)
EXTENDS RequestRetry, TLC

CONSTANTS r1, r2, r3, t1, t2

MCRequests == {r1, r2, r3}
MCTurns == {t1, t2}

MCPlans == {t1 :> <<r1, r2>>, (t1 :> <<r1>>) @@ (t2 :> <<r3>>)}

\* t2 is a reviewer or command call made without a tracker.
MCTracked == {r1, r2}
MCFallbacks == {t1}

MixedLimits == {0, 1, 2}
=============================================================================
