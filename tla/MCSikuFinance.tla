----------------------------- MODULE MCSikuFinance -----------------------------
(* Small instances of SikuFinance for TLC.                                      *)
EXTENDS SikuClaims, TLC

CONSTANTS a1, a2

\* Notice 1 names a company that is registered again by another agent later on;
\* notice 2, or the first of two, a company that nobody is registered for.
TwoPayers   == (1 :> {a1, a2}) @@ (2 :> {})
SecondPayer == (1 :> {}) @@ (2 :> {a1})
OnlyPayer   == 1 :> {a1}
NoNotice    == <<>>

Symmetry == Permutations(Req)
=============================================================================
