------------------------- MODULE MCProjectAnalysis -------------------------
(* Two shards that read each other, of three and of two files, for TLC; the *)
(* second was merged of smaller ones.                                      *)
EXTENDS ProjectAnalysis

CONSTANTS f1, f2, f3, f4, f5, original, reworded, restructured

MCPlan == << [primary |-> {f1, f2, f5}, reference |-> {f3}, merged |-> FALSE],
             [primary |-> {f3, f4}, reference |-> {f1}, merged |-> TRUE] >>

\* An edit that the index does not see, and one that it does.
MCShape == original :> "shape" @@ reworded :> "shape" @@ restructured :> "other shape"
MCChunks == << <<{f1}, {f2}, {f5}>>, <<{f3}, {f4}>> >>
MCConfigs == { [mode |-> "single", budget |-> 3], [mode |-> "root-cause", budget |-> 1] }

\* A second run repeats the first but for what it reuses.
SecondRunReuses ==
  runs = 2 => /\ stage = "base"
              /\ \A i \in DOMAIN work : work[i].pc \in {"waiting", "asked"} \/ work[i].reused
=============================================================================
