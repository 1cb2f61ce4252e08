----------------------------- MODULE MCTurnLoop -----------------------------
(***************************************************************************)
(* Instances of TurnLoop.                                                  *)
(***************************************************************************)
EXTENDS TurnLoop

MCBounceLimit == [b \in Bounces |-> 1]

Setup(budget, live, v2, troubles) ==
  [budget |-> budget, live |-> live, v2 |-> v2, verify |-> TRUE, review |-> TRUE,
   explicit |-> "handoff" \in troubles, troubles |-> troubles]

\* Without a budget the troubles come in groups that meet in the code; with a
\* budget of two tool turns, those that need no text.
MCSetups == {Setup(0, FALSE, FALSE, t) : t \in {{"harness", "ledger"}, {"handoff", "wording"},
                                                {"commentary", "empty"}, {"continuation", "length"}}}
            \cup {Setup(0, TRUE, FALSE, {"filter", "harness"}), Setup(0, TRUE, TRUE, {"answer", "stop"})}
            \cup {Setup(2, FALSE, FALSE, {"fallback", "churn"})}
=============================================================================
