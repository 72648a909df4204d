---------------------------- MODULE MCXiheRuntime ----------------------------
(* Small instances of XiheRuntime for TLC. *)
EXTENDS XiheRuntime, TLC

CONSTANTS s1, s2, a1, m1, m2

\* Two messages for one on_demand skill; or one for it and one for a resident skill.
OneTarget  == (m1 :> <<s1, a1>>) @@ (m2 :> <<s1, a1>>)
TwoTargets == (m1 :> <<s1, a1>>) @@ (m2 :> <<s2, a1>>)

Symmetry == Permutations(Call)
=============================================================================
