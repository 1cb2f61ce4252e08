-------------------------- MODULE MCDecisionProfile --------------------------
(***************************************************************************)
(* An instance of DecisionProfile for TLC: the threads.  Agents are        *)
(* interchangeable, and so are requests.                                   *)
(***************************************************************************)
EXTENDS DecisionProfile, TLC

MCClients == Agents \cup Requests
MCSymmetry == Permutations(Agents) \cup Permutations(Requests)
=============================================================================
