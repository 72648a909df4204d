---------------------------------- MODULE Bank ----------------------------------
(***************************************************************************)
(* What the accounts promise their callers: however many recharges, deducts *)
(* and fees are under way, each is booked in one step upon the balance of    *)
(* that moment or not at all, under a key no other booking has; no deduct    *)
(* takes more than is there, and what is booked stays.                      *)
(***************************************************************************)
EXTENDS Integers

CONSTANT Account

VARIABLES
    money,      \* what each account holds
    booked      \* the bookings made: whose, how much, under which key

vars == <<money, booked>>

Init == money = [a \in Account |-> 0] /\ booked = {}

Book == \E b \in booked' :
          /\ \A x \in booked : x.key # b.key
          /\ booked' = booked \cup {b}
          /\ money' = [money EXCEPT ![b.agent] = @ + b.amount]
          /\ b.amount < 0 => money'[b.agent] >= 0

Spec == Init /\ [][Book]_vars
=============================================================================
