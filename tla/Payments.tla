-------------------------------- MODULE Payments --------------------------------
(***************************************************************************)
(* What the finance agent promises about a payment somebody gives notice    *)
(* of, whatever is delivered twice, retried, decided twice or interrupted: *)
(* it is credited at most once, a notice is put aside only when it has been *)
(* credited or waits for a human, and an order is approved only when the    *)
(* money is there.                                                          *)
(***************************************************************************)
CONSTANT Notice

VARIABLES
    inbox,      \* whether a notice has come in and has been put aside
    orders,     \* the human's decision on it
    credits     \* the numbers of the transactions that credit it

vars == <<inbox, orders, credits>>

Init == /\ inbox = [n \in Notice |-> "unsent"]
        /\ orders = [n \in Notice |-> "none"]
        /\ credits = [n \in Notice |-> {}]

Arrive(n) == /\ inbox[n] = "unsent"
             /\ inbox' = [inbox EXCEPT ![n] = "unread"]
             /\ UNCHANGED <<orders, credits>>

Queue(n) == /\ inbox[n] = "unread" /\ orders[n] = "none"
            /\ orders' = [orders EXCEPT ![n] = "pending"]
            /\ UNCHANGED <<inbox, credits>>

Credit(n) == /\ inbox[n] # "unsent" /\ credits[n] = {}
             /\ \A i, j \in credits'[n] : i = j
             /\ \A m \in Notice \ {n} : credits'[m] = credits[m]
             /\ UNCHANGED <<inbox, orders>>

Approve(n) == /\ orders[n] = "pending" /\ credits[n] # {}
              /\ orders' = [orders EXCEPT ![n] = "approved"]
              /\ UNCHANGED <<inbox, credits>>

Reject(n) == /\ orders[n] = "pending"
             /\ orders' = [orders EXCEPT ![n] = "rejected"]
             /\ UNCHANGED <<inbox, credits>>

PutAside(n) == /\ inbox[n] = "unread"
               /\ orders[n] # "none" \/ credits[n] # {}
               /\ inbox' = [inbox EXCEPT ![n] = "read"]
               /\ UNCHANGED <<orders, credits>>

Next == \E n \in Notice : \/ Arrive(n) \/ Queue(n) \/ Credit(n)
                          \/ Approve(n) \/ Reject(n) \/ PutAside(n)

Spec == Init /\ [][Next]_vars
=============================================================================
