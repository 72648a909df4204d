----------------------------- MODULE MCZhiceEngine -----------------------------
(* Values for TLC: two steps, the second depending on the first.               *)
EXTENDS ZhiceClaims, TLC

CONSTANTS a1, a2, k1, k2, r1, r2

OneStep    == {1}
TwoSteps   == {1, 2}
Alone      == (1 :> {})
Chain      == (1 :> {}) @@ (2 :> {1})
Unordered  == (1 :> {}) @@ (2 :> {})
OneRetry   == (1 :> 1) @@ (2 :> 0)
OneRetry1  == (1 :> 1)
NoRetry1   == (1 :> 0)
NoRetry    == (1 :> 0) @@ (2 :> 0)
NobodyYet  == (1 :> NoAgent) @@ (2 :> NoAgent)
Nobody1    == (1 :> NoAgent)
Preset     == (1 :> NoAgent) @@ (2 :> a1)

Symmetry == Permutations(Agent) \cup Permutations(Key) \cup Permutations(Req)
=============================================================================
