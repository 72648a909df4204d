-------------------------- MODULE MCHuanyuDelivery --------------------------
(* Small instances of HuanyuDelivery for TLC. *)
EXTENDS HuanyuDelivery, TLC

At(org, routed) == [org |-> org, routed |-> routed]
\* An agent of the company, whose server_host may lead to a base; one of another company;
\* one of another company that the registry lists with its server_host.
AnyEntry == {At(FALSE, TRUE), At(TRUE, FALSE), At(TRUE, TRUE)}
PostOnly == {At(FALSE, TRUE)}

Symmetry == Permutations(Task) \cup Permutations(Handler)
=============================================================================
