---------------------------- MODULE MCAgentTurn ----------------------------
(***************************************************************************)
(* Constants for model-checking AgentTurn.                                 *)
(***************************************************************************)
EXTENDS AgentTurn

CONSTANTS t1, t2, t3, k1, k2, k3

MCTurns == {t1, t2, t3}

\* The Escape handler, the force-close of the waiting caller and its last
\* AbandonActiveTurn are three calls for one cancelled request.
MCCancels == {k1, k2, k3}

=============================================================================
