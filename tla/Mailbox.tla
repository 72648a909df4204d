--------------------------------- MODULE Mailbox ---------------------------------
(***************************************************************************)
(* What the messaging service promises about a message to another base,     *)
(* whichever way it is sent, however often it is tried again and whichever   *)
(* base stops in between: the addressee gets it once at most, or twice if    *)
(* there are two ways to him, and only when its sender has it on record;     *)
(* what he has he keeps, and the record calls the message delivered only     *)
(* when he has it.  The record may take that back: a sender that gives up    *)
(* late writes its verdict over another's.                                  *)
(***************************************************************************)
CONSTANT Msg

VARIABLES
    status,     \* the sender's record: "none", "open" or "delivered"
    copies,     \* what the addressee has of a message
    double      \* messages whose addressee can be reached in two ways

vars == <<status, copies, double>>

Init == /\ status = [m \in Msg |-> "none"]
        /\ copies = [m \in Msg |-> {}]
        /\ double \in SUBSET Msg

Accept(m) == /\ status[m] = "none"
             /\ status' = [status EXCEPT ![m] = "open"]
             /\ UNCHANGED <<copies, double>>

Room(m) == copies[m] = {} \/ (m \in double /\ \A x, y \in copies[m] : x = y)

Store(m) == /\ status[m] # "none" /\ Room(m)
            /\ \E x \in copies'[m] : copies' = [copies EXCEPT ![m] = @ \cup {x}]
            /\ UNCHANGED <<status, double>>

Report(m) == /\ status[m] = "open" /\ copies[m] # {}
             /\ status' = [status EXCEPT ![m] = "delivered"]
             /\ UNCHANGED <<copies, double>>

Doubt(m) == /\ status[m] = "delivered"
            /\ status' = [status EXCEPT ![m] = "open"]
            /\ UNCHANGED <<copies, double>>

Next == \E m \in Msg : Accept(m) \/ Store(m) \/ Report(m) \/ Doubt(m)

Spec == Init /\ [][Next]_vars
=============================================================================
