-------------------------- MODULE MCRouteScheduler --------------------------
(***************************************************************************)
(* Constants for model-checking RouteScheduler.                            *)
(***************************************************************************)
EXTENDS RouteScheduler

CONSTANTS r1, r2, r3

ThreeRequests == {r1, r2, r3}

\* 0 switches the gate off for a call; 1 and 2 make callers with different
\* limits shrink and grow the same limiter.
MCLimits == {0, 1, 2}
=============================================================================
