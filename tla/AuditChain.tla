------------------------------ MODULE AuditChain ------------------------------
(***************************************************************************)
(* An append-only table of records chained by hashes, written by many      *)
(* connections at once: zhenyue.audit_log (zhenyue/audit_service.py), whose *)
(* writers take an advisory lock and whose oldest records a daily cleanup   *)
(* deletes, re-anchoring the rest; and siku.finance_audit (siku/audit.py),  *)
(* written in the same way without the lock and never cleaned up.           *)
(*                                                                         *)
(* PostgreSQL is at READ COMMITTED: a statement sees what is committed when *)
(* it begins.  A record's content is told apart by its id, and a hash is    *)
(* the sequence of all that was hashed into it, so two hashes are equal      *)
(* exactly when they were computed from the same history.                   *)
(***************************************************************************)
EXTENDS Naturals, Sequences, FiniteSets

CONSTANTS
    Writer, NoWriter,
    Locked,       \* the writers take the advisory lock: TRUE for zhenyue, FALSE for siku
    Cleaning,     \* there is a cleanup: TRUE for zhenyue, FALSE for siku
    MaxId,        \* bound on the ids the sequence gives out
    MaxTime       \* bound on the readings of the clock

ASSUME AuditAssumption ==
    Locked \in BOOLEAN /\ Cleaning \in BOOLEAN /\ MaxId \in Nat /\ MaxTime \in Nat /\ NoWriter \notin Writer

VARIABLES
    rows,         \* the committed records
    nextId,       \* the sequence of ids; a rollback does not give an id back
    lock,         \* who holds the advisory lock
    w,            \* Writer -> its transaction
    now,          \* the clock
    made,         \* id -> the created_at of the record with that id
    horizon,      \* what was created up to this time is older than the retention period
    clean         \* the cleanup's transaction

vars == <<rows, nextId, lock, w, now, made, horizon, clean>>

Genesis == <<>>
Hash(prev, id) == Append(prev, id)

Ids(R) == {x.id : x \in R}
LastHash(R) == IF R = {} THEN Genesis
               ELSE (CHOOSE x \in R : \A y \in R : y.id <= x.id).hash
Before(R, x) == {y \in R : y.id < x.id}

Record == [id : 1..MaxId, hash : Seq(1..MaxId)]
Transaction == [pc : {"idle", "stamped", "locked", "read", "inserted"}, at : 0..MaxTime,
                prev : Seq(1..MaxId), id : 0..MaxId]
Cleanup == [pc : {"idle", "cut", "deleted", "selected"}, cutoff : 0..MaxId,
            del : SUBSET (1..MaxId), rest : SUBSET (1..MaxId),
            prev : Seq(1..MaxId), new : SUBSET Record]

IdleWriter == [pc |-> "idle", at |-> 0, prev |-> Genesis, id |-> 0]
IdleClean == [pc |-> "idle", cutoff |-> 0, del |-> {}, rest |-> {}, prev |-> Genesis, new |-> {}]

\* Types; and the advisory lock is held exactly for the length of a transaction
\* (pg_advisory_xact_lock, audit_service.py:84), whichever way that ends.
TypeOK ==
    /\ rows \subseteq Record
    /\ \A x, y \in rows : x.id = y.id => x = y
    /\ nextId \in 1..(MaxId + 1)
    /\ now \in 0..MaxTime /\ made \in [1..MaxId -> 0..MaxTime] /\ horizon \in 0..MaxTime
    /\ w \in [Writer -> Transaction]
    /\ lock \in Writer \cup {NoWriter}
    /\ Locked => \A r \in Writer : lock = r <=> w[r].pc \notin {"idle", "stamped"}
    /\ clean \in Cleanup

Init ==
    /\ rows = {} /\ nextId = 1 /\ lock = NoWriter
    /\ w = [r \in Writer |-> IdleWriter]
    /\ now = 0 /\ made = [i \in 1..MaxId |-> 0] /\ horizon = 0
    /\ clean = IdleClean

-----------------------------------------------------------------------------
(* write_audit: take the time, lock, read the last hash, insert, commit. *)

\* created_at = datetime.now(), before the keys are looked up and the lock is waited for:
\* the writer that enters first need not have been the first to take the time.
WriteStamp(r) ==
    /\ w[r].pc = "idle" /\ now < MaxTime
    /\ now' = now + 1
    /\ w' = [w EXCEPT ![r].pc = "stamped", ![r].at = now']
    /\ UNCHANGED <<rows, nextId, lock, made, horizon, clean>>

\* A faulty variant: the lock is asked for and not waited for.
EnterUnlocked(r) == lock' = r
Enter(r) == IF Locked THEN lock = NoWriter /\ lock' = r ELSE UNCHANGED lock

WriteBegin(r) ==
    /\ w[r].pc = "stamped" /\ nextId <= MaxId
    /\ Enter(r)
    /\ w' = [w EXCEPT ![r].pc = "locked"]
    /\ UNCHANGED <<rows, nextId, now, made, horizon, clean>>

\* get_prev_hash
WriteRead(r) ==
    /\ w[r].pc = "locked"
    /\ w' = [w EXCEPT ![r].pc = "read", ![r].prev = LastHash(rows)]
    /\ UNCHANGED <<rows, nextId, lock, now, made, horizon, clean>>

\* The INSERT, whose trigger recomputes the hash of the record from the record's own
\* prev_hash and does not look at the record before.
WriteInsert(r) ==
    /\ w[r].pc = "read" /\ nextId <= MaxId
    /\ w' = [w EXCEPT ![r].pc = "inserted", ![r].id = nextId]
    /\ nextId' = nextId + 1
    /\ made' = [made EXCEPT ![nextId] = w[r].at]
    /\ UNCHANGED <<rows, lock, now, horizon, clean>>

\* A faulty variant: a lock of the session, which outlives the transaction.
LeaveLocked(r) == UNCHANGED lock
Leave(r) == lock' = IF lock = r THEN NoWriter ELSE lock

WriteCommit(r) ==
    /\ w[r].pc = "inserted"
    /\ rows' = rows \cup {[id |-> w[r].id, hash |-> Hash(w[r].prev, w[r].id)]}
    /\ Leave(r)
    /\ w' = [w EXCEPT ![r] = IdleWriter]
    /\ UNCHANGED <<nextId, now, made, horizon, clean>>

\* The caller's transaction is rolled back, or its connection is lost.
WriteAbort(r) ==
    /\ w[r].pc # "idle"
    /\ Leave(r)
    /\ w' = [w EXCEPT ![r] = IdleWriter]
    /\ UNCHANGED <<rows, nextId, now, made, horizon, clean>>

-----------------------------------------------------------------------------
(* cleanup_old_audit_logs, once a day. *)

Age ==
    /\ Cleaning
    /\ horizon < now
    /\ horizon' = horizon + 1
    /\ UNCHANGED <<rows, nextId, lock, w, now, made, clean>>

\* The ids whose records are older than the retention period.
Old == {i \in 1..(nextId - 1) : made[i] <= horizon}

\* The one with the highest id among the records older than the retention period; younger
\* records may have lower ids.
CleanCut ==
    /\ clean.pc = "idle"
    /\ \E x \in rows :
          /\ x.id \in Old /\ \A y \in rows : y.id \in Old => y.id <= x.id
          /\ clean' = [IdleClean EXCEPT !.pc = "cut", !.cutoff = x.id]
    /\ UNCHANGED <<rows, nextId, lock, w, now, made, horizon>>

CleanDelete ==
    /\ clean.pc = "cut"
    /\ clean' = [clean EXCEPT !.pc = "deleted",
                              !.del = {i \in Ids(rows) : i <= clean.cutoff}]
    /\ UNCHANGED <<rows, nextId, lock, w, now, made, horizon>>

\* The remaining records.
CleanSelect ==
    /\ clean.pc = "deleted"
    /\ clean' = [clean EXCEPT !.pc = "selected", !.rest = Ids(rows) \ clean.del]
    /\ UNCHANGED <<rows, nextId, lock, w, now, made, horizon>>

\* A faulty variant: the loop keeps the previous hash it began with.
StalePrev(i) == clean.prev
NextPrev(i) == Hash(clean.prev, i)

\* The UPDATE of the oldest record left, hashed anew from genesis on; nobody sees it
\* before the commit.
CleanRehash ==
    /\ clean.pc = "selected"
    /\ \E i \in clean.rest \ Ids(clean.new) :
          /\ \A j \in clean.rest \ Ids(clean.new) : i <= j
          /\ clean' = [clean EXCEPT !.new = @ \cup {[id |-> i, hash |-> Hash(clean.prev, i)]},
                                    !.prev = NextPrev(i)]
    /\ UNCHANGED <<rows, nextId, lock, w, now, made, horizon>>

CleanCommit ==
    /\ clean.pc = "selected" /\ Ids(clean.new) = clean.rest
    /\ rows' = {x \in rows : x.id \notin clean.del \cup clean.rest} \cup clean.new
    /\ clean' = IdleClean
    /\ UNCHANGED <<nextId, lock, w, now, made, horizon>>

CleanAbort ==
    /\ clean.pc # "idle"
    /\ clean' = IdleClean
    /\ UNCHANGED <<rows, nextId, lock, w, now, made, horizon>>

Next ==
    \/ \E r \in Writer : WriteStamp(r) \/ WriteBegin(r) \/ WriteRead(r)
                        \/ WriteInsert(r) \/ WriteCommit(r) \/ WriteAbort(r)
    \/ Age \/ CleanCut \/ CleanDelete \/ CleanSelect \/ CleanRehash \/ CleanCommit \/ CleanAbort

Spec == Init /\ [][Next]_vars

-----------------------------------------------------------------------------

\* verify_audit_chain: each record is hashed over the stored hash of the one before.
Broken(R) == {x \in R : x.hash # Hash(LastHash(Before(R, x)), x.id)}

\* No two records are chained to the same one: what the advisory lock is there for
\* (audit_service.py:81-84), also while a cleanup rewrites the hashes.
NoFork ==
    \A x, y \in rows :
        SubSeq(x.hash, 1, Len(x.hash) - 1) = SubSeq(y.hash, 1, Len(y.hash) - 1) => x = y

\* However often a cleanup runs into a writer, the chain is broken at one place at most,
\* and what follows is chained to the record at the break (audit_service.py:291-331).
OneBreak == Cardinality(Broken(rows)) <= 1

\* The commit of a cleanup leaves a chain that verifies from genesis over every record
\* the cleanup selected, whatever was broken before (audit_service.py:301-331).
CleanupHeals ==
    [][clean.pc = "selected" /\ clean' # clean /\ rows' # rows =>
          \A x \in Broken(rows') : x.id \notin clean.rest]_vars

\* The log as its readers see it.  Writers commit in the order of their ids, and a
\* cleanup that began before some of them loses none of their records, brings none back
\* and cuts at a record that has expired (audit_service.py:81-116, 266-331): the table
\* implements the abstract AuditLog.
Journal == INSTANCE AuditLog WITH Id <- 1..MaxId, log <- Ids(rows), expired <- Old
ImplementsLog == Journal!Spec

\* Only records older than the retention period are removed (audit_service.py:255-256).
\* Two writers that take the time in one order and the lock in the other violate it: the
\* younger record has the lower id and goes with the older one.
OnlyExpired == [][\A x \in rows : x.id \notin Ids(rows') => x.id \in Old]_vars

\* The chain verifies at any time.  Said of zhenyue: after a truncation the chain is
\* anchored again and is not hash_broken for ever (audit_service.py:297-299); of siku: an
\* insertion that breaks the chain is refused (siku/audit.py:5, siku/database.py:158).
ChainHolds == Broken(rows) = {}
=============================================================================
