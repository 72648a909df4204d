----------------------------- MODULE MCZhiceBudget -----------------------------
(* Values for TLC: two steps, the second depending on the first, which has a  *)
(* retry.                                                                      *)
EXTENDS ZhiceBudget, TLC

CONSTANTS a1, a2, k1, r1, r2

TwoSteps  == {1, 2}
Chain     == (1 :> {}) @@ (2 :> {1})
OneRetry  == (1 :> 1) @@ (2 :> 0)
NobodyYet == (1 :> NoAgent) @@ (2 :> NoAgent)

Symmetry == Permutations(Agent) \cup Permutations(Req)
=============================================================================
