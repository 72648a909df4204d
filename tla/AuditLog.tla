------------------------------- MODULE AuditLog -------------------------------
(***************************************************************************)
(* What the audit log promises a reader who remembers only how far it has   *)
(* read: a record appears after every record that is there, so none turns   *)
(* up behind the reader; it is in the log once; and records leave it only   *)
(* from its beginning, up to one that is older than the retention period.   *)
(* It does not promise that all of those are that old.                      *)
(***************************************************************************)
EXTENDS Naturals

CONSTANT Id

VARIABLES
    log,        \* the ids of the records
    expired     \* the ids of what is older than the retention period

vars == <<log, expired>>

Init == log = {} /\ expired = {}

Append(i) == /\ \A j \in log : j < i
             /\ log' = log \cup {i}
             /\ UNCHANGED expired

Expire == /\ expired' \in SUBSET Id /\ expired \subseteq expired'
          /\ UNCHANGED log

\* The log begins anew after a record that has expired.
Truncate(c) == /\ c \in log \cap expired
               /\ log' = {i \in log : i > c}
               /\ UNCHANGED expired

Next == \/ \E i \in Id : Append(i) \/ Truncate(i)
        \/ Expire

Spec == Init /\ [][Next]_vars
=============================================================================
