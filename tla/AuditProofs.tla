----------------------------- MODULE AuditProofs -----------------------------
(***************************************************************************)
(* Proofs about AuditChain, for any number of writers and records: ids are  *)
(* unique, and with the advisory lock the chain neither forks nor breaks at *)
(* two places, however the cleanup overlaps the writers, and the table      *)
(* implements the abstract AuditLog.                                        *)
(***************************************************************************)
EXTENDS AuditChain, FiniteSetTheorems, TLAPS

USE AuditAssumption

Pending(r) == w[r].pc = "inserted"
Started(r) == w[r].pc \in {"read", "inserted"}

\* Every id was given out by the sequence, and to one record only, committed or not; and
\* the cleanup hashes each record once.
IdsApart ==
    /\ \A x \in rows : x.id < nextId
    /\ \A r \in Writer : Pending(r) => w[r].id \in 1..MaxId /\ w[r].id < nextId /\ w[r].id \notin Ids(rows)
    /\ \A r, s \in Writer : Pending(r) /\ Pending(s) /\ w[r].id = w[s].id => r = s
    /\ clean.pc # "selected" => clean.rest = {} /\ clean.new = {} /\ clean.prev = Genesis
    /\ Ids(clean.new) \subseteq clean.rest
    /\ \A m, n \in clean.new : m.id = n.id => m = n

\* With the lock, records are committed in the order of their ids.
Top(R, t) == t \in R /\ \A x \in R : x.id <= t.id
InOrder ==
    /\ \A r \in Writer : Pending(r) => \A x \in rows : x.id < w[r].id
    /\ rows # {} => \E t \in rows : Top(rows, t)

\* What the cleanup has not seen has a higher id than what it deletes and what it keeps.
Seen(x) == x.id \in clean.del \cup clean.rest
CleanInv ==
    /\ clean.pc # "idle" => /\ clean.cutoff < nextId
                            /\ \A r \in Writer : Pending(r) => clean.cutoff < w[r].id
    /\ clean.pc \in {"deleted", "selected"} => clean.del = {i \in Ids(rows) : i <= clean.cutoff}
    /\ clean.pc = "selected" =>
          /\ clean.rest \subseteq Ids(rows)
          /\ \A i \in clean.rest : i > clean.cutoff
          /\ \A x \in rows : ~Seen(x) => \A i \in clean.rest : i < x.id
          /\ \A n \in clean.new, i \in clean.rest : i \in Ids(clean.new) \/ n.id < i

TypeInv == TypeOK /\ IdsApart
OrderInv == TypeInv /\ InOrder /\ CleanInv

-----------------------------------------------------------------------------
\* The last id that went into a hash, which no record between it and the next overtakes.
LastId(h) == IF h = <<>> THEN 0 ELSE h[Len(h)]
Follows(R, x) == \E h \in Seq(1..MaxId) : /\ x.hash = Append(h, x.id) /\ LastId(h) < x.id
                                         /\ \A y \in R : y.id < x.id => y.id <= LastId(h)
FollowInv ==
    /\ \A x \in rows : Follows(rows, x)
    /\ \A r \in Writer : Started(r) => /\ \A x \in rows : x.id <= LastId(w[r].prev)
                                       /\ LastId(w[r].prev) < nextId
                                       /\ Pending(r) => LastId(w[r].prev) < w[r].id
    /\ \A n \in clean.new : Follows(clean.new, n)
    /\ \A n \in clean.new : n.id <= LastId(clean.prev)
    /\ clean.pc = "selected" => \A i \in clean.rest : i \in Ids(clean.new) \/ LastId(clean.prev) < i

-----------------------------------------------------------------------------
\* A record that verifies against the one before it.
Linked(R, x) ==
    \/ x.hash = <<x.id>> /\ \A y \in R : x.id <= y.id
    \/ \E p \in R : /\ p.id < x.id /\ x.hash = Append(p.hash, x.id)
                    /\ \A y \in R : y.id < x.id => y.id <= p.id
AllLinked(R) == \A x \in R : Linked(R, x)
EndsIn(R, h) == (R = {} /\ h = Genesis) \/ (\E t \in R : Top(R, t) /\ h = t.hash)

\* One record at most is not linked, and of those the cleanup has not seen, it is the
\* first; a writer whose hash is no longer the last one has found no such record.
BreakInv ==
    /\ \/ AllLinked(rows)
       \/ \E b \in rows : /\ \A x \in rows : x # b => Linked(rows, x)
                          /\ (clean.pc = "selected" /\ ~Seen(b)) => \A x \in rows : ~Seen(x) => b.id <= x.id
    /\ \A r \in Writer : Started(r) => 
          \/ EndsIn(rows, w[r].prev)
          \/ AllLinked(rows) /\ (clean.pc = "selected" => \A x \in rows : Seen(x))
    /\ AllLinked(clean.new) /\ EndsIn(clean.new, clean.prev)

-----------------------------------------------------------------------------
(* What each statement does to the transaction it belongs to.                *)

Goes(r, pc, prev, id) ==
    /\ w' \in [Writer -> Transaction]
    /\ w'[r].pc = pc /\ w'[r].prev = prev /\ w'[r].id = id
    /\ \A s \in Writer : s # r => w'[s] = w[s]

LEMMA Moves ==
    ASSUME TypeOK, NEW r \in Writer
    PROVE  /\ WriteBegin(r) => Goes(r, "locked", w[r].prev, w[r].id)
           /\ WriteRead(r) /\ LastHash(rows) \in Seq(1..MaxId) => Goes(r, "read", LastHash(rows), w[r].id)
           /\ WriteInsert(r) => Goes(r, "inserted", w[r].prev, nextId)
           /\ WriteCommit(r) \/ WriteAbort(r) => Goes(r, "idle", Genesis, 0)
<1>1. w[r] \in Transaction /\ IdleWriter \in Transaction
  BY DEF TypeOK, Transaction, IdleWriter, Genesis
<1>2. ASSUME WriteBegin(r) PROVE Goes(r, "locked", w[r].prev, w[r].id)
  BY <1>1, <1>2 DEF WriteBegin, Goes, TypeOK, Transaction
<1>3. ASSUME WriteRead(r), LastHash(rows) \in Seq(1..MaxId) PROVE Goes(r, "read", LastHash(rows), w[r].id)
  BY <1>1, <1>3 DEF WriteRead, Goes, TypeOK, Transaction
<1>4. ASSUME WriteInsert(r) PROVE Goes(r, "inserted", w[r].prev, nextId)
  <2>1. nextId \in 0..MaxId
    BY <1>4 DEF WriteInsert, TypeOK
  <2>2. [w[r] EXCEPT !.pc = "inserted", !.id = nextId] \in Transaction
    BY <1>1, <2>1 DEF Transaction
  <2>3. QED
    BY <1>1, <1>4, <2>2 DEF WriteInsert, Goes, TypeOK, Transaction
<1>5. ASSUME WriteCommit(r) \/ WriteAbort(r) PROVE Goes(r, "idle", Genesis, 0)
  BY <1>1, <1>5 DEF WriteCommit, WriteAbort, Goes, TypeOK, IdleWriter
<1>6. QED
  BY <1>2, <1>3, <1>4, <1>5

Cleans(pc, cutoff, del, rest, prev, new) ==
    clean' = [pc |-> pc, cutoff |-> cutoff, del |-> del, rest |-> rest, prev |-> prev, new |-> new]

LEMMA CleanMoves ==
    ASSUME TypeOK
    PROVE  /\ CleanCut => \E x \in rows : /\ x.id \in Old
                                          /\ Cleans("cut", x.id, {}, {}, Genesis, {})
           /\ CleanDelete => Cleans("deleted", clean.cutoff, {i \in Ids(rows) : i <= clean.cutoff},
                                    clean.rest, clean.prev, clean.new)
           /\ CleanSelect => Cleans("selected", clean.cutoff, clean.del, Ids(rows) \ clean.del,
                                    clean.prev, clean.new)
           /\ CleanRehash => \E i \in clean.rest \ Ids(clean.new) :
                  /\ \A j \in clean.rest \ Ids(clean.new) : i <= j
                  /\ Cleans("selected", clean.cutoff, clean.del, clean.rest, Hash(clean.prev, i),
                            clean.new \cup {[id |-> i, hash |-> Hash(clean.prev, i)]})
           /\ CleanCommit \/ CleanAbort => Cleans("idle", 0, {}, {}, Genesis, {})
<1>1. clean = [pc |-> clean.pc, cutoff |-> clean.cutoff, del |-> clean.del, rest |-> clean.rest,
               prev |-> clean.prev, new |-> clean.new]
  BY DEF TypeOK, Cleanup
<1>2. ASSUME CleanCut
      PROVE  \E x \in rows : x.id \in Old /\ Cleans("cut", x.id, {}, {}, Genesis, {})
  BY <1>2 DEF CleanCut, Cleans, IdleClean
<1>3. ASSUME CleanDelete
      PROVE  Cleans("deleted", clean.cutoff, {i \in Ids(rows) : i <= clean.cutoff}, clean.rest,
                    clean.prev, clean.new)
  BY <1>1, <1>3 DEF CleanDelete, Cleans
<1>4. ASSUME CleanSelect
      PROVE  Cleans("selected", clean.cutoff, clean.del, Ids(rows) \ clean.del, clean.prev, clean.new)
  BY <1>1, <1>4 DEF CleanSelect, Cleans
<1>5. ASSUME CleanRehash
      PROVE  \E i \in clean.rest \ Ids(clean.new) :
                /\ \A j \in clean.rest \ Ids(clean.new) : i <= j
                /\ Cleans("selected", clean.cutoff, clean.del, clean.rest, Hash(clean.prev, i),
                          clean.new \cup {[id |-> i, hash |-> Hash(clean.prev, i)]})
  BY <1>1, <1>5 DEF CleanRehash, Cleans, NextPrev
<1>6. ASSUME CleanCommit \/ CleanAbort PROVE Cleans("idle", 0, {}, {}, Genesis, {})
  BY <1>6 DEF CleanCommit, CleanAbort, Cleans, IdleClean
<1>7. QED
  BY <1>2, <1>3, <1>4, <1>5, <1>6

-----------------------------------------------------------------------------
(* The last hash. *)

LEMMA TopHash ==
    ASSUME NEW R \in SUBSET Record, \A x, y \in R : x.id = y.id => x = y, NEW t, Top(R, t)
    PROVE  LastHash(R) = t.hash
<1>1. \A x \in R : x.id \in Int
  BY DEF Record
<1>2. \A u \in R : (\A y \in R : y.id <= u.id) => u = t
  BY <1>1 DEF Top
<1>3. (CHOOSE x \in R : \A y \in R : y.id <= x.id) = t
  BY <1>1, <1>2 DEF Top
<1>4. QED
  BY <1>3 DEF LastHash, Top

LEMMA LastHashType == ASSUME OrderInv PROVE EndsIn(rows, LastHash(rows)) /\ LastHash(rows) \in Seq(1..MaxId)
<1>1. CASE rows = {}
  BY <1>1 DEF LastHash, EndsIn, Genesis
<1>2. CASE rows # {}
  <2>1. PICK t \in rows : Top(rows, t)
    BY <1>2 DEF OrderInv, InOrder
  <2>2. LastHash(rows) = t.hash
    BY <2>1, TopHash DEF OrderInv, TypeInv, TypeOK
  <2>3. QED
    BY <2>1, <2>2 DEF EndsIn, OrderInv, TypeInv, TypeOK, Record
<1>3. QED
  BY <1>1, <1>2

-----------------------------------------------------------------------------
(* Types. *)

LEMMA HashType == ASSUME NEW h \in Seq(1..MaxId), NEW i \in 1..MaxId PROVE Hash(h, i) \in Seq(1..MaxId)
BY DEF Hash

\* The record a transaction is about to commit.
New(r) == [id |-> w[r].id, hash |-> Hash(w[r].prev, w[r].id)]

LEMMA NewRecord == ASSUME TypeInv, NEW r \in Writer, Pending(r) PROVE New(r) \in Record
<1>1. w[r].id \in 1..MaxId /\ w[r].prev \in Seq(1..MaxId)
  BY DEF TypeInv, TypeOK, IdsApart, Transaction
<1>2. QED
  BY <1>1, HashType DEF New, Record

\* The statements of a writer keep the lock with the transaction that holds it.
LEMMA WriterTypes ==
    ASSUME TypeInv, NEW r \in Writer, LastHash(rows) \in Seq(1..MaxId),
           WriteBegin(r) \/ WriteRead(r) \/ WriteInsert(r) \/ WriteCommit(r) \/ WriteAbort(r)
    PROVE  TypeInv'
<1> DEFINE Step == WriteBegin(r) \/ WriteRead(r) \/ WriteInsert(r) \/ WriteCommit(r) \/ WriteAbort(r)
<1>0. TypeOK /\ IdsApart /\ Step
  BY DEF TypeInv
<1>1. /\ w' \in [Writer -> Transaction]
      /\ \A s \in Writer : s # r => w'[s] = w[s]
      /\ WriteBegin(r) \/ WriteRead(r) \/ WriteInsert(r) => w'[r].pc \notin {"idle", "stamped"}
      /\ WriteCommit(r) \/ WriteAbort(r) => w'[r].pc = "idle"
      /\ WriteRead(r) \/ WriteInsert(r) \/ WriteCommit(r) => w[r].pc \notin {"idle", "stamped"}
      /\ Pending(r)' => WriteInsert(r) /\ w'[r].id = nextId
  BY <1>0, Moves DEF Goes, Pending, WriteRead, WriteInsert, WriteCommit, WriteAbort
<1>2. /\ UNCHANGED <<clean, now, horizon>>
      /\ made' \in [1..MaxId -> 0..MaxTime]
  <2>1. w[r].at \in 0..MaxTime /\ made \in [1..MaxId -> 0..MaxTime]
    BY <1>0 DEF TypeOK, Transaction
  <2>2. QED
    BY <1>0, <2>1 DEF WriteBegin, WriteRead, WriteInsert, WriteCommit, WriteAbort
<1>3. lock' \in Writer \cup {NoWriter} /\ (Locked => \A s \in Writer : lock' = s <=> w'[s].pc \notin {"idle", "stamped"})
  <2>1. CASE WriteBegin(r)
    BY <1>0, <1>1, <2>1 DEF WriteBegin, Enter, TypeOK
  <2>2. CASE WriteRead(r) \/ WriteInsert(r)
    <3>1. lock' = lock
      BY <2>2 DEF WriteRead, WriteInsert
    <3>2. QED
      BY <1>0, <1>1, <2>2, <3>1 DEF TypeOK
  <2>3. CASE WriteCommit(r) \/ WriteAbort(r)
    <3>1. Leave(r)
      BY <2>3 DEF WriteCommit, WriteAbort
    <3>2. QED
      BY <1>0, <1>1, <2>3, <3>1 DEF Leave, TypeOK
  <2>4. QED
    BY <1>0, <2>1, <2>2, <2>3
<1>4. /\ rows' = rows \/ (Pending(r) /\ rows' = rows \cup {New(r)})
      /\ nextId' = nextId \/ (nextId <= MaxId /\ nextId' = nextId + 1)
      /\ WriteInsert(r) => nextId' = nextId + 1 /\ nextId <= MaxId
  BY <1>0 DEF WriteBegin, WriteRead, WriteInsert, WriteCommit, WriteAbort, New, Pending
<1>5. nextId \in 1..(MaxId + 1) /\ nextId' \in 1..(MaxId + 1) /\ nextId <= nextId'
  BY <1>0, <1>4 DEF TypeOK
<1>6. /\ rows' \subseteq Record
      /\ \A x, y \in rows' : x.id = y.id => x = y
      /\ \A x \in rows' : x.id < nextId'
  <2>1. \A x \in rows : x \in Record /\ x.id \in 1..MaxId /\ x.id < nextId
    BY <1>0 DEF TypeOK, IdsApart, Record
  <2>2. CASE rows' = rows
    BY <1>0, <1>5, <2>1, <2>2 DEF TypeOK
  <2>3. CASE Pending(r) /\ rows' = rows \cup {New(r)}
    <3>1. New(r) \in Record /\ New(r).id = w[r].id
      BY <2>3, NewRecord DEF New
    <3>2. w[r].id \in 1..MaxId /\ w[r].id < nextId /\ \A x \in rows : x.id # w[r].id
      BY <1>0, <2>3 DEF IdsApart, Ids
    <3>3. QED
      BY <1>0, <1>5, <2>1, <2>3, <3>1, <3>2 DEF TypeOK
  <2>4. QED
    BY <1>4, <2>2, <2>3
<1>7. /\ \A s \in Writer : Pending(s)' => /\ w'[s].id \in 1..MaxId /\ w'[s].id < nextId'
                                          /\ w'[s].id \notin Ids(rows)'
      /\ \A s, t \in Writer : Pending(s)' /\ Pending(t)' /\ w'[s].id = w'[t].id => s = t
  <2>1. ASSUME NEW s \in Writer, s # r, Pending(s)'
        PROVE  /\ w'[s].id = w[s].id /\ w[s].id \in 1..MaxId /\ w[s].id < nextId /\ Pending(s)
               /\ w'[s].id \notin Ids(rows)'
    <3>1. w'[s] = w[s] /\ Pending(s)
      BY <1>1, <2>1 DEF Pending
    <3>2. w[s].id \in 1..MaxId /\ w[s].id < nextId /\ \A x \in rows : x.id # w[s].id
      BY <1>0, <3>1 DEF IdsApart, Ids
    <3>3. Pending(r) => New(r).id # w[s].id
      BY <1>0, <2>1, <3>1 DEF IdsApart, New
    <3>4. QED
      BY <1>4, <3>1, <3>2, <3>3 DEF Ids
  <2>2. ASSUME Pending(r)'
        PROVE  /\ w'[r].id = nextId /\ nextId <= MaxId /\ nextId < nextId' /\ nextId \notin Ids(rows)'
    <3>1. WriteInsert(r) /\ w'[r].id = nextId /\ rows' = rows
      BY <1>1, <2>2 DEF WriteInsert
    <3>2. \A x \in rows : x.id \in Int /\ x.id < nextId
      BY <1>0 DEF TypeOK, IdsApart, Record
    <3>3. nextId \notin Ids(rows)
      BY <1>5, <3>2 DEF Ids
    <3>4. QED
      <4>1. nextId <= MaxId /\ nextId < nextId'
        BY <1>4, <1>5, <3>1
      <4>2. QED
        BY <3>1, <3>3, <4>1 DEF Ids
  <2>3. QED
    BY <1>5, <2>1, <2>2, <1>0 DEF IdsApart
<1>8. TypeOK'
  BY <1>0, <1>1, <1>2, <1>3, <1>5, <1>6 DEF TypeOK
<1>9. IdsApart'
  BY <1>0, <1>2, <1>6, <1>7 DEF IdsApart
<1>10. QED
  BY <1>8, <1>9 DEF TypeInv

\* The cleanup's commit.
Kept == {x \in rows : ~Seen(x)}
CleanStep == CleanCut \/ CleanDelete \/ CleanSelect \/ CleanRehash \/ CleanCommit \/ CleanAbort

LEMMA CleanEnds ==
    ASSUME CleanCommit
    PROVE  /\ clean.pc = "selected" /\ Ids(clean.new) = clean.rest
           /\ rows' = Kept \cup clean.new
           /\ UNCHANGED <<nextId, lock, w, now, made, horizon>>
BY DEF CleanCommit, Kept, Seen

LEMMA CleanStays ==
    ASSUME CleanCut \/ CleanDelete \/ CleanSelect \/ CleanRehash \/ CleanAbort
    PROVE  UNCHANGED <<rows, nextId, lock, w, now, made, horizon>>
BY DEF CleanCut, CleanDelete, CleanSelect, CleanRehash, CleanAbort

LEMMA CleanTyped == ASSUME TypeInv, CleanStep PROVE clean' \in Cleanup
<1>1. /\ clean.cutoff \in 0..MaxId /\ clean.del \subseteq 1..MaxId /\ clean.rest \subseteq 1..MaxId
      /\ clean.prev \in Seq(1..MaxId) /\ clean.new \subseteq Record /\ TypeOK
  BY DEF TypeInv, TypeOK, Cleanup
<1>2. \A x \in rows : x.id \in 1..MaxId
  BY <1>1 DEF TypeOK, Record
<1>0. ASSUME NEW pc \in {"idle", "cut"}, NEW cutoff \in 0..MaxId
      PROVE  [pc |-> pc, cutoff |-> cutoff, del |-> {}, rest |-> {}, prev |-> Genesis, new |-> {}] \in Cleanup
  <2>1. Genesis \in Seq(1..MaxId)
    BY DEF Genesis
  <2>2. QED
    BY <2>1 DEF Cleanup
<1>3. CASE CleanCut
  <2>1. PICK x \in rows : Cleans("cut", x.id, {}, {}, Genesis, {})
    BY <1>1, <1>3, CleanMoves
  <2>2. x.id \in 0..MaxId
    BY <1>2
  <2>3. QED
    BY <1>0, <2>1, <2>2 DEF Cleans
<1>4. CASE CleanDelete \/ CleanSelect
  <2>1. PICK pc \in {"deleted", "selected"}, del \in SUBSET (1..MaxId), rest \in SUBSET (1..MaxId) :
            Cleans(pc, clean.cutoff, del, rest, clean.prev, clean.new)
    <3>1. Ids(rows) \subseteq 1..MaxId
      BY <1>2 DEF Ids
    <3>2. {i \in Ids(rows) : i <= clean.cutoff} \in SUBSET (1..MaxId)
      BY <3>1
    <3>3. Ids(rows) \ clean.del \in SUBSET (1..MaxId)
      BY <3>1
    <3>4. CASE CleanDelete
      BY <1>1, <3>2, <3>4, CleanMoves
    <3>5. CASE CleanSelect
      BY <1>1, <3>3, <3>5, CleanMoves
    <3>6. QED
      BY <1>4, <3>4, <3>5
  <2>2. QED
    BY <1>1, <2>1 DEF Cleans, Cleanup
<1>5. CASE CleanRehash
  <2>1. PICK i \in clean.rest \ Ids(clean.new) :
            Cleans("selected", clean.cutoff, clean.del, clean.rest, Hash(clean.prev, i),
                   clean.new \cup {[id |-> i, hash |-> Hash(clean.prev, i)]})
    BY <1>1, <1>5, CleanMoves
  <2>2. Hash(clean.prev, i) \in Seq(1..MaxId) /\ [id |-> i, hash |-> Hash(clean.prev, i)] \in Record
    BY <1>1, HashType DEF Record
  <2>3. QED
    BY <1>1, <2>1, <2>2 DEF Cleans, Cleanup
<1>6. CASE CleanCommit \/ CleanAbort
  <2>1. Cleans("idle", 0, {}, {}, Genesis, {}) /\ 0 \in 0..MaxId
    BY <1>1, <1>6, CleanMoves
  <2>2. QED
    BY <1>0, <2>1 DEF Cleans
<1>7. QED
  BY <1>3, <1>4, <1>5, <1>6 DEF CleanStep

LEMMA CleanHashesOnce ==
    ASSUME TypeInv, CleanStep
    PROVE  /\ clean'.pc # "selected" => clean'.rest = {} /\ clean'.new = {} /\ clean'.prev = Genesis
           /\ Ids(clean'.new) \subseteq clean'.rest
           /\ \A m, n \in clean'.new : m.id = n.id => m = n
<1>1. TypeOK /\ IdsApart
  BY DEF TypeInv
<1>2. CASE CleanCut \/ CleanDelete \/ CleanSelect \/ CleanCommit \/ CleanAbort
  <2>1. clean'.new = {}
    BY <1>1, <1>2, CleanMoves DEF Cleans, IdsApart, CleanDelete, CleanSelect
  <2>2. clean'.pc # "selected" => clean'.rest = {} /\ clean'.prev = Genesis
    BY <1>1, <1>2, CleanMoves DEF Cleans, IdsApart, CleanDelete, CleanSelect
  <2>3. QED
    BY <2>1, <2>2 DEF Ids
<1>3. CASE CleanRehash
  <2>1. PICK i \in clean.rest \ Ids(clean.new) :
            Cleans("selected", clean.cutoff, clean.del, clean.rest, Hash(clean.prev, i),
                   clean.new \cup {[id |-> i, hash |-> Hash(clean.prev, i)]})
    BY <1>1, <1>3, CleanMoves
  <2>2. clean'.pc = "selected" /\ clean'.rest = clean.rest
        /\ clean'.new = clean.new \cup {[id |-> i, hash |-> Hash(clean.prev, i)]}
    BY <2>1 DEF Cleans
  <2>3. QED
    BY <1>1, <2>2 DEF IdsApart, Ids
<1>4. QED
  BY <1>2, <1>3 DEF CleanStep

LEMMA CleanTypes == ASSUME OrderInv, CleanStep PROVE TypeInv'
<1>1. TypeOK /\ IdsApart /\ CleanInv /\ TypeInv
  BY DEF OrderInv, TypeInv
<1>2. clean' \in Cleanup
  BY <1>1, CleanTyped
<1>3. UNCHANGED <<nextId, lock, w, now, made, horizon>>
  BY CleanEnds, CleanStays DEF CleanStep
<1>4. /\ rows' \subseteq Record
      /\ \A x, y \in rows' : x.id = y.id => x = y
      /\ Ids(rows') \subseteq Ids(rows)
  <2>1. CASE CleanCommit
    <3>1. rows' = Kept \cup clean.new /\ clean.pc = "selected"
      BY <2>1, CleanEnds
    <3>2. clean.new \subseteq Record /\ Ids(clean.new) \subseteq clean.rest /\ clean.rest \subseteq Ids(rows)
      BY <1>1, <3>1 DEF TypeOK, Cleanup, IdsApart, CleanInv
    <3>3. \A x \in Kept, n \in clean.new : x.id # n.id
      BY <3>2 DEF Kept, Seen, Ids
    <3>4. Kept \subseteq rows /\ rows \subseteq Record
      BY <1>1 DEF Kept, TypeOK
    <3>5. \A x, y \in rows' : x.id = y.id => x = y
      BY <1>1, <3>1, <3>3, <3>4 DEF TypeOK, IdsApart
    <3>6. Ids(rows') \subseteq Ids(rows)
      BY <3>1, <3>2, <3>4 DEF Ids
    <3>7. QED
      BY <3>1, <3>2, <3>4, <3>5, <3>6
  <2>2. CASE ~CleanCommit
    BY <1>1, <2>2, CleanStays DEF CleanStep, TypeOK
  <2>3. QED
    BY <2>1, <2>2
<1>5. TypeOK'
  BY <1>1, <1>2, <1>3, <1>4 DEF TypeOK
<1>6. \A x \in rows' : x.id < nextId'
  BY <1>1, <1>3, <1>4 DEF IdsApart, Ids
<1>7. /\ \A r \in Writer : Pending(r)' => /\ w'[r].id \in 1..MaxId /\ w'[r].id < nextId'
                                          /\ w'[r].id \notin Ids(rows)'
      /\ \A r, s \in Writer : Pending(r)' /\ Pending(s)' /\ w'[r].id = w'[s].id => r = s
  <2>1. \A r \in Writer : Pending(r)' => Pending(r)
    BY <1>3 DEF Pending
  <2>2. QED
    BY <1>1, <1>3, <1>4, <2>1 DEF IdsApart, Ids
<1>8. QED
  BY <1>1, <1>5, <1>6, <1>7, CleanHashesOnce DEF TypeInv, IdsApart

-----------------------------------------------------------------------------
(* The order of the commits.                                                 *)

\* What a writer does with its transaction, and what it does before it has one.
WriterStep(r) == \/ WriteBegin(r) \/ WriteRead(r) \/ WriteInsert(r) \/ WriteCommit(r)
                 \/ (w[r].pc # "stamped" /\ WriteAbort(r))
Waits(r) == WriteStamp(r) \/ (w[r].pc = "stamped" /\ WriteAbort(r))

LEMMA Steps == [Next]_vars => \/ \E r \in Writer : WriterStep(r) \/ Waits(r)
                              \/ Age \/ CleanStep \/ UNCHANGED vars
BY DEF Next, WriterStep, Waits, CleanStep

\* Before it has entered, a writer changes nothing that others see.
LEMMA WaitsStill ==
    ASSUME Locked, TypeOK, NEW r \in Writer, Waits(r)
    PROVE  /\ TypeOK'
           /\ UNCHANGED <<rows, nextId, lock, made, horizon, clean>>
           /\ \A s \in Writer : Started(s)' => w'[s] = w[s]
<1>1. /\ UNCHANGED <<rows, nextId, made, horizon, clean>>
      /\ w[r].pc \in {"idle", "stamped"}
      /\ now' = now \/ (now < MaxTime /\ now' = now + 1)
  BY DEF Waits, WriteStamp, WriteAbort
<1>2. lock' = lock
  <2>1. w[r].pc = "stamped" => lock # r
    BY DEF TypeOK
  <2>2. QED
    BY <2>1 DEF Waits, WriteStamp, WriteAbort, Leave
<1>3. now' \in 0..MaxTime /\ w[r] \in Transaction
  BY <1>1 DEF TypeOK
<1>4. /\ w' \in [Writer -> Transaction]
      /\ w'[r].pc \in {"idle", "stamped"}
      /\ \A s \in Writer : s # r => w'[s] = w[s]
  <2>1. CASE WriteStamp(r)
    <3>1. w' = [w EXCEPT ![r] = [w[r] EXCEPT !.pc = "stamped", !.at = now']]
      BY <2>1 DEF WriteStamp, TypeOK
    <3>2. [w[r] EXCEPT !.pc = "stamped", !.at = now'] \in Transaction
      BY <1>3 DEF Transaction
    <3>3. [w[r] EXCEPT !.pc = "stamped", !.at = now'].pc = "stamped"
      BY <1>3 DEF Transaction
    <3>4. QED
      BY <3>1, <3>2, <3>3 DEF TypeOK
  <2>2. CASE WriteAbort(r)
    <3>1. Goes(r, "idle", Genesis, 0)
      BY <2>2, Moves
    <3>2. QED
      BY <3>1 DEF Goes
  <2>3. QED
    BY <2>1, <2>2 DEF Waits
<1>5. TypeOK'
  <2>1. \A s \in Writer : lock = s <=> w'[s].pc \notin {"idle", "stamped"}
    BY <1>1, <1>4 DEF TypeOK
  <2>2. QED
    BY <1>1, <1>2, <1>3, <1>4, <2>1 DEF TypeOK
<1>6. QED
  BY <1>1, <1>2, <1>4, <1>5 DEF Started

\* With the lock there is one transaction at a time.
LEMMA OneWriter ==
    ASSUME Locked, TypeOK, NEW r \in Writer, WriterStep(r), NEW s \in Writer, s # r
    PROVE  w'[s] = w[s] /\ ~Pending(s) /\ ~Started(s)
<1>1. w[s].pc \in {"idle", "stamped"}
  <2>1. WriteBegin(r) => lock = NoWriter
    BY DEF WriteBegin, Enter
  <2>2. ~WriteBegin(r) => w[r].pc \notin {"idle", "stamped"}
    BY DEF WriterStep, WriteRead, WriteInsert, WriteCommit, WriteAbort
  <2>3. QED
    BY <2>1, <2>2 DEF TypeOK
<1>2. \E f : w' = [w EXCEPT ![r] = f]
  BY DEF WriterStep, WriteBegin, WriteRead, WriteInsert, WriteCommit, WriteAbort
<1>3. w'[s] = w[s]
  BY <1>2 DEF TypeOK
<1>4. QED
  BY <1>1, <1>3 DEF Pending, Started

\* What a writer's statement changes of what others see.
LEMMA WriterSees ==
    ASSUME NEW r \in Writer, WriterStep(r)
    PROVE  /\ UNCHANGED <<clean, now, horizon>>
           /\ (Pending(r) /\ WriteCommit(r) /\ rows' = rows \cup {New(r)} /\ nextId' = nextId) \/ rows' = rows
           /\ (WriteInsert(r) /\ nextId' = nextId + 1) \/ nextId' = nextId
BY DEF WriterStep, WriteBegin, WriteRead, WriteInsert, WriteCommit, WriteAbort, New, Pending

LEMMA IdsAdd == ASSUME NEW R, NEW x PROVE Ids(R \cup {x}) = Ids(R) \cup {x.id}
BY DEF Ids

LEMMA RowIds == ASSUME TypeOK PROVE nextId \in Nat /\ \A x \in rows : x.id \in 1..MaxId
BY DEF TypeOK, Record

LEMMA WriterOrder ==
    ASSUME Locked, OrderInv, NEW r \in Writer, WriterStep(r), TypeInv'
    PROVE  InOrder' /\ CleanInv'
<1>1. TypeOK /\ IdsApart /\ InOrder /\ CleanInv /\ TypeInv
  BY DEF OrderInv, TypeInv
<1>2. \A s \in Writer : s # r => ~Pending(s)'
  BY <1>1, OneWriter DEF Pending
<1>3. ASSUME Pending(r)'
      PROVE  WriteInsert(r) /\ w'[r].id = nextId /\ rows' = rows
  <2>1. WriteInsert(r)
    BY <1>1, <1>3, Moves, LastHashType DEF WriterStep, Goes, Pending, OrderInv
  <2>2. QED
    BY <1>1, <2>1, Moves DEF Goes, WriteInsert
<1>4. \A s \in Writer : Pending(s)' => \A x \in rows' : x.id < w'[s].id
  BY <1>1, <1>2, <1>3 DEF IdsApart
<1>5. rows' # {} => \E t \in rows' : Top(rows', t)
  <2>1. CASE rows' = rows
    BY <1>1, <2>1 DEF InOrder
  <2>2. CASE Pending(r) /\ rows' = rows \cup {New(r)}
    <3>1. \A x \in rows : x.id <= New(r).id
      BY <1>1, <2>2, RowIds DEF InOrder, New, IdsApart
    <3>2. New(r).id \in Int
      BY <1>1, <2>2 DEF IdsApart, New
    <3>3. Top(rows', New(r))
      BY <2>2, <3>1, <3>2 DEF Top
    <3>4. QED
      BY <2>2, <3>3
  <2>3. QED
    BY <2>1, <2>2, WriterSees
<1>6. clean.cutoff \in Int /\ nextId \in Int /\ clean.rest \subseteq 1..MaxId /\ clean' = clean
  BY <1>1, WriterSees DEF TypeOK, Cleanup
<1>7. clean'.pc # "idle" => /\ clean'.cutoff < nextId'
                            /\ \A s \in Writer : Pending(s)' => clean'.cutoff < w'[s].id
  BY <1>1, <1>2, <1>3, <1>6, WriterSees DEF CleanInv
<1>8. ASSUME Pending(r), rows' = rows \cup {New(r)}, clean.pc # "idle"
      PROVE  /\ New(r).id > clean.cutoff /\ New(r).id \notin Ids(rows) /\ New(r).id \in Int
             /\ \A i \in Ids(rows) : i < New(r).id
  BY <1>1, <1>8 DEF CleanInv, InOrder, IdsApart, New, Ids
<1>9. clean'.pc \in {"deleted", "selected"} => clean'.del = {i \in Ids(rows') : i <= clean'.cutoff}
  <2>1. CASE rows' = rows
    BY <1>1, <1>6, <2>1 DEF CleanInv
  <2>2. CASE Pending(r) /\ rows' = rows \cup {New(r)}
    <3>1. Ids(rows') = Ids(rows) \cup {New(r).id}
      BY <2>2 DEF Ids
    <3>2. clean.pc # "idle" => ~(New(r).id <= clean.cutoff)
      BY <1>6, <1>8, <2>2
    <3>3. QED
      BY <1>1, <1>6, <3>1, <3>2 DEF CleanInv
  <2>3. QED
    BY <2>1, <2>2, WriterSees
<1>10. ASSUME clean'.pc = "selected"
       PROVE  /\ clean'.rest \subseteq Ids(rows')
              /\ \A i \in clean'.rest : i > clean'.cutoff
              /\ \A x \in rows' : ~Seen(x)' => \A i \in clean'.rest : i < x.id
              /\ \A n \in clean'.new, i \in clean'.rest : i \in Ids(clean'.new) \/ n.id < i
  <2>1. /\ clean.rest \subseteq Ids(rows)
        /\ \A i \in clean.rest : i > clean.cutoff
        /\ \A x \in rows : ~Seen(x) => \A i \in clean.rest : i < x.id
        /\ \A n \in clean.new, i \in clean.rest : i \in Ids(clean.new) \/ n.id < i
    BY <1>1, <1>6, <1>10 DEF CleanInv
  <2>2. CASE rows' = rows
    BY <1>6, <2>1, <2>2 DEF Seen
  <2>3. CASE Pending(r) /\ rows' = rows \cup {New(r)}
    <3>1. \A i \in clean.rest : i < New(r).id
      BY <1>6, <1>8, <1>10, <2>1, <2>3
    <3>2. QED
      BY <1>6, <2>1, <2>3, <3>1 DEF Seen, Ids
  <2>4. QED
    BY <2>2, <2>3, WriterSees
<1>11. InOrder'
  BY <1>4, <1>5 DEF InOrder
<1>12. CleanInv'
  BY <1>7, <1>9, <1>10 DEF CleanInv
<1>13. QED
  BY <1>11, <1>12

LEMMA CleanOrder == ASSUME OrderInv, CleanStep, TypeInv' PROVE InOrder' /\ CleanInv'
<1>1. TypeOK /\ IdsApart /\ InOrder /\ CleanInv /\ TypeInv
  BY DEF OrderInv, TypeInv
<1>2. UNCHANGED <<nextId, lock, w, now, made, horizon>>
  BY CleanEnds, CleanStays DEF CleanStep
<1>3. \A x \in rows : x.id \in 1..MaxId
  BY <1>1, RowIds
<1>4. CASE CleanCut
  <2>1. PICK x \in rows : Cleans("cut", x.id, {}, {}, Genesis, {})
    BY <1>1, <1>4, CleanMoves
  <2>2. rows' = rows /\ clean'.pc = "cut" /\ clean'.cutoff = x.id
    BY <1>4, <2>1, CleanStays DEF Cleans
  <2>3. x.id < nextId /\ \A r \in Writer : Pending(r) => x.id < w[r].id
    BY <1>1 DEF IdsApart, InOrder
  <2>4. QED
    BY <1>1, <1>2, <2>2, <2>3 DEF InOrder, CleanInv, Pending
<1>5. CASE CleanDelete
  <2>1. /\ rows' = rows /\ clean.pc = "cut" /\ clean'.pc = "deleted" /\ clean'.cutoff = clean.cutoff
        /\ clean'.del = {i \in Ids(rows) : i <= clean.cutoff}
    BY <1>1, <1>5, CleanMoves, CleanStays DEF Cleans, CleanDelete
  <2>2. QED
    BY <1>1, <1>2, <2>1 DEF InOrder, CleanInv, Pending
<1>6. CASE CleanSelect
  <2>1. /\ rows' = rows /\ clean.pc = "deleted" /\ clean'.pc = "selected" /\ clean'.cutoff = clean.cutoff
        /\ clean'.del = clean.del /\ clean'.rest = Ids(rows) \ clean.del /\ clean'.new = clean.new
    BY <1>1, <1>6, CleanMoves, CleanStays DEF Cleans, CleanSelect
  <2>2. clean.del = {i \in Ids(rows) : i <= clean.cutoff} /\ clean.cutoff \in Int /\ clean.new = {}
    BY <1>1, <2>1 DEF CleanInv, TypeOK, Cleanup, IdsApart
  <2>3. \A i \in clean'.rest : i > clean.cutoff
    BY <1>3, <2>1, <2>2 DEF Ids
  <2>4. \A x \in rows : Seen(x)'
    BY <2>1 DEF Seen, Ids
  <2>5. QED
    BY <1>1, <1>2, <2>1, <2>2, <2>3, <2>4 DEF InOrder, CleanInv, Pending
<1>7. CASE CleanRehash
  <2>1. PICK i \in clean.rest \ Ids(clean.new) :
            /\ \A j \in clean.rest \ Ids(clean.new) : i <= j
            /\ Cleans("selected", clean.cutoff, clean.del, clean.rest, Hash(clean.prev, i),
                      clean.new \cup {[id |-> i, hash |-> Hash(clean.prev, i)]})
    BY <1>1, <1>7, CleanMoves
  <2>2. /\ rows' = rows /\ clean.pc = "selected" /\ clean'.pc = "selected" /\ clean'.cutoff = clean.cutoff
        /\ clean'.del = clean.del /\ clean'.rest = clean.rest
        /\ clean'.new = clean.new \cup {[id |-> i, hash |-> Hash(clean.prev, i)]}
    BY <1>7, <2>1, CleanStays DEF Cleans, CleanRehash
  <2>3. clean.rest \subseteq 1..MaxId /\ Ids(clean'.new) = Ids(clean.new) \cup {i}
    <3>1. clean.rest \subseteq 1..MaxId
      BY <1>1 DEF TypeOK, Cleanup
    <3>2. Ids(clean'.new) = Ids(clean.new) \cup {i}
      <4>1. PICK n : n = [id |-> i, hash |-> Hash(clean.prev, i)]
        OBVIOUS
      <4>2. n.id = i /\ clean'.new = clean.new \cup {n}
        BY <2>2, <4>1
      <4>3. QED
        BY <4>2, IdsAdd
    <3>3. QED
      BY <3>1, <3>2
  <2>4. \A n \in clean'.new, j \in clean.rest : j \in Ids(clean'.new) \/ n.id < j
    <3>1. \A j \in clean.rest : j \in Ids(clean'.new) \/ i < j
      BY <2>1, <2>3
    <3>2. \A n \in clean.new, j \in clean.rest : j \in Ids(clean.new) \/ n.id < j
      BY <1>1, <2>2 DEF CleanInv
    <3>3. \A n \in clean'.new : n \in clean.new \/ n.id = i
      BY <2>2
    <3>4. QED
      BY <2>3, <3>1, <3>2, <3>3
  <2>5. QED
    BY <1>1, <1>2, <2>2, <2>4 DEF InOrder, CleanInv, Pending, Seen
<1>8. CASE CleanCommit
  <2>1. clean'.pc = "idle"
    BY <1>1, <1>8, CleanMoves DEF Cleans
  <2>2. /\ clean.pc = "selected" /\ Ids(clean.new) = clean.rest /\ rows' = Kept \cup clean.new
        /\ clean.rest \subseteq Ids(rows) /\ clean.cutoff \in Int
        /\ \A i \in clean.rest : i > clean.cutoff
        /\ clean.del = {i \in Ids(rows) : i <= clean.cutoff}
    BY <1>1, <1>8, CleanEnds DEF CleanInv, TypeOK, Cleanup
  <2>3. Ids(rows') = {i \in Ids(rows) : i > clean.cutoff}
    BY <1>3, <2>2 DEF Kept, Seen, Ids
  <2>4. \A r \in Writer : Pending(r)' => \A x \in rows' : x.id < w'[r].id
    BY <1>1, <1>2, <2>3 DEF InOrder, Pending, Ids
  <2>5. ASSUME rows' # {} PROVE \E t \in rows' : Top(rows', t)
    <3>1. PICK u \in rows' : TRUE
      BY <2>5
    <3>2. u.id \in Ids(rows) /\ u.id > clean.cutoff
      BY <2>3 DEF Ids
    <3>3. PICK t \in rows : Top(rows, t)
      BY <1>1, <3>2 DEF InOrder, Ids
    <3>4. u.id <= t.id /\ t.id > clean.cutoff
      BY <1>3, <2>2, <3>2, <3>3 DEF Top, Ids
    <3>5. PICK v \in rows' : v.id = t.id
      BY <2>3, <3>3, <3>4 DEF Ids
    <3>6. QED
      BY <2>3, <3>3, <3>5 DEF Top, Ids
  <2>6. QED
    BY <2>1, <2>4, <2>5 DEF InOrder, CleanInv
<1>9. CASE CleanAbort
  <2>1. rows' = rows /\ clean'.pc = "idle"
    BY <1>1, <1>9, CleanMoves, CleanStays DEF Cleans
  <2>2. QED
    BY <1>1, <1>2, <2>1 DEF InOrder, CleanInv, Pending
<1>10. QED
  BY <1>4, <1>5, <1>6, <1>7, <1>8, <1>9 DEF CleanStep

\* The ids, the lock and the order of commits, whatever the writers and the cleanup do.
THEOREM OrderHolds == ASSUME Locked PROVE Spec => []OrderInv
<1>1. Init => OrderInv
  <2>1. ASSUME Init PROVE TypeOK
    <3>1. Genesis \in Seq(1..MaxId) /\ MaxId \in Nat
      BY DEF Genesis
    <3>2. IdleWriter \in Transaction /\ IdleClean \in Cleanup
      BY <3>1 DEF IdleWriter, IdleClean, Transaction, Cleanup
    <3>3. QED
      BY <2>1, <3>1, <3>2 DEF Init, TypeOK, IdleWriter
  <2>2. ASSUME Init PROVE IdsApart /\ InOrder /\ CleanInv
    BY <2>2 DEF Init, IdsApart, InOrder, CleanInv, Pending, IdleWriter, IdleClean, Ids
  <2>3. QED
    BY <2>1, <2>2 DEF OrderInv, TypeInv
<1>2. OrderInv /\ [Next]_vars => OrderInv'
  <2> SUFFICES ASSUME OrderInv, [Next]_vars PROVE OrderInv'
    OBVIOUS
  <2>1. ASSUME NEW r \in Writer, WriterStep(r) PROVE OrderInv'
    <3>1. TypeInv'
      BY <2>1, WriterTypes, LastHashType DEF OrderInv, WriterStep
    <3>2. QED
      BY <2>1, <3>1, WriterOrder DEF OrderInv
  <2>2. CASE CleanStep
    BY <2>2, CleanTypes, CleanOrder DEF OrderInv
  <2>3. CASE Age
    BY <2>3 DEF Age, OrderInv, TypeInv, TypeOK, IdsApart, InOrder, CleanInv, Pending, Seen
  <2>6. ASSUME NEW r \in Writer, Waits(r) PROVE OrderInv'
    <3>1. TypeOK' /\ UNCHANGED <<rows, nextId, clean>> /\ OrderInv
      BY <2>6, WaitsStill DEF OrderInv, TypeInv
    <3>2. \A s \in Writer : Pending(s)' => Pending(s) /\ w'[s] = w[s]
      BY <2>6, WaitsStill DEF OrderInv, TypeInv, Started, Pending
    <3>3. IdsApart'
      BY <3>1, <3>2 DEF OrderInv, TypeInv, IdsApart
    <3>4. InOrder' /\ CleanInv'
      BY <3>1, <3>2 DEF OrderInv, TypeInv, InOrder, CleanInv, Seen
    <3>5. QED
      BY <3>1, <3>3, <3>4 DEF OrderInv, TypeInv
  <2>4. CASE UNCHANGED vars
    BY <2>4 DEF vars, OrderInv, TypeInv, TypeOK, IdsApart, InOrder, CleanInv, Pending, Seen
  <2>5. QED
    BY <2>1, <2>2, <2>3, <2>4, <2>6, Steps
<1>3. QED
  BY <1>1, <1>2, PTL DEF Spec

\* No two records share an id, and the advisory lock is held exactly for the length of a
\* transaction.
THEOREM AuditTyped == ASSUME Locked PROVE Spec => []TypeOK
<1>1. OrderInv => TypeOK
  BY DEF OrderInv, TypeInv
<1>2. QED
  BY <1>1, OrderHolds, PTL

-----------------------------------------------------------------------------
(* Forks.                                                                    *)

LEMMA FrontOfAppend ==
    ASSUME NEW h \in Seq(1..MaxId), NEW i \in 1..MaxId
    PROVE  SubSeq(Append(h, i), 1, Len(Append(h, i)) - 1) = h
<1>1. Len(Append(h, i)) = Len(h) + 1 /\ Len(h) \in Nat
  OBVIOUS
<1>2. \A k \in 1..Len(h) : Append(h, i)[k] = h[k]
  OBVIOUS
<1>3. h = [k \in 1..Len(h) |-> h[k]]
  OBVIOUS
<1>4. SubSeq(Append(h, i), 1, Len(h)) = [k \in 1..Len(h) |-> Append(h, i)[k]]
  BY <1>1
<1>5. QED
  BY <1>1, <1>2, <1>3, <1>4

LEMMA LastIdOfHash ==
    ASSUME NEW h \in Seq(1..MaxId), NEW i \in 1..MaxId
    PROVE  /\ LastId(h) \in 0..MaxId
           /\ LastId(Append(h, i)) = i
<1>1. MaxId \in Nat
  BY DEF AuditAssumption
<1>2. LastId(h) \in 0..MaxId
  <2>1. CASE h = <<>>
    BY <1>1, <2>1 DEF LastId
  <2>2. CASE h # <<>>
    <3>1. Len(h) \in 1..Len(h) /\ h[Len(h)] \in 1..MaxId
      BY <2>2
    <3>2. QED
      BY <1>1, <2>2, <3>1 DEF LastId
  <2>3. QED
    BY <2>1, <2>2
<1>3. Append(h, i) # <<>> /\ Append(h, i)[Len(Append(h, i))] = i
  OBVIOUS
<1>4. QED
  BY <1>2, <1>3 DEF LastId

\* Records that follow one another do not fork.
LEMMA FollowersDoNotFork ==
    ASSUME TypeOK, \A x \in rows : Follows(rows, x)
    PROVE  NoFork
<1> SUFFICES ASSUME NEW x \in rows, NEW y \in rows,
                    SubSeq(x.hash, 1, Len(x.hash) - 1) = SubSeq(y.hash, 1, Len(y.hash) - 1)
             PROVE  x = y
  BY DEF NoFork
<1>1. x.id \in 1..MaxId /\ y.id \in 1..MaxId
  BY RowIds
<1>2. PICK h \in Seq(1..MaxId) : /\ x.hash = Append(h, x.id) /\ LastId(h) < x.id
                                /\ \A z \in rows : z.id < x.id => z.id <= LastId(h)
  BY DEF Follows
<1>3. PICK g \in Seq(1..MaxId) : /\ y.hash = Append(g, y.id) /\ LastId(g) < y.id
                                /\ \A z \in rows : z.id < y.id => z.id <= LastId(g)
  BY DEF Follows
<1>4. h = g
  <2>1. SubSeq(x.hash, 1, Len(x.hash) - 1) = h
    BY <1>1, <1>2, FrontOfAppend
  <2>2. SubSeq(y.hash, 1, Len(y.hash) - 1) = g
    BY <1>1, <1>3, FrontOfAppend
  <2>3. QED
    BY <2>1, <2>2
<1>5. x.id = y.id
  <2>1. LastId(h) \in Int
    BY <1>1, LastIdOfHash
  <2>2. x.id < y.id => x.id <= LastId(g)
    BY <1>3
  <2>3. y.id < x.id => y.id <= LastId(h)
    BY <1>2
  <2>4. QED
    BY <1>1, <1>2, <1>3, <1>4, <2>1, <2>2, <2>3
<1>6. QED
  BY <1>5 DEF TypeOK

\* Only the ids of the others matter, and fewer of them or higher ones do no harm.
LEMMA FollowsStill ==
    ASSUME NEW R, NEW S, NEW x, Follows(R, x), \A y \in S : y.id < x.id => y.id \in Ids(R)
    PROVE  Follows(S, x)
<1>1. PICK h \in Seq(1..MaxId) : /\ x.hash = Append(h, x.id) /\ LastId(h) < x.id
                                /\ \A y \in R : y.id < x.id => y.id <= LastId(h)
  BY DEF Follows
<1>2. \A y \in S : y.id < x.id => y.id <= LastId(h)
  BY <1>1 DEF Ids
<1>3. QED
  BY <1>1, <1>2 DEF Follows

LEMMA FollowWriter ==
    ASSUME Locked, OrderInv, FollowInv, NEW r \in Writer, WriterStep(r)
    PROVE  FollowInv'
<1>1. TypeOK /\ IdsApart /\ InOrder /\ CleanInv /\ TypeInv
  BY DEF OrderInv, TypeInv
<1>2. /\ \A s \in Writer : s # r => ~Started(s)'
      /\ clean' = clean
  BY <1>1, OneWriter, WriterSees DEF Started
<1>3. nextId \in Nat /\ \A x \in rows : x.id \in 1..MaxId
  BY <1>1, RowIds
<1>4. \A x \in rows' : Follows(rows', x)
  <2>1. CASE rows' = rows
    BY <2>1 DEF FollowInv
  <2>2. CASE Pending(r) /\ rows' = rows \cup {New(r)}
    <3>1. /\ w[r].id \in 1..MaxId /\ w[r].prev \in Seq(1..MaxId)
          /\ \A x \in rows : x.id < w[r].id
      BY <1>1, <2>2 DEF IdsApart, InOrder, TypeOK, Transaction
    <3>2. /\ LastId(w[r].prev) < w[r].id
          /\ \A x \in rows : x.id <= LastId(w[r].prev)
      BY <2>2 DEF FollowInv, Started, Pending
    <3>3. New(r).id = w[r].id /\ New(r).hash = Append(w[r].prev, w[r].id)
      BY DEF New, Hash
    <3>4. Follows(rows', New(r))
      BY <2>2, <3>1, <3>2, <3>3 DEF Follows
    <3>5. ASSUME NEW x \in rows PROVE Follows(rows', x)
      <4>1. \A y \in rows' : y.id < x.id => y.id \in Ids(rows)
        BY <1>3, <2>2, <3>1, <3>3 DEF Ids
      <4>2. QED
        BY <4>1, FollowsStill DEF FollowInv
    <3>6. QED
      BY <2>2, <3>4, <3>5
  <2>3. QED
    BY <2>1, <2>2, WriterSees
<1>5. ASSUME Started(r)'
      PROVE  /\ \A x \in rows' : x.id <= LastId(w'[r].prev)
             /\ LastId(w'[r].prev) < nextId'
             /\ Pending(r)' => LastId(w'[r].prev) < w'[r].id
  <2>1. CASE WriteRead(r)
    <3>1. w'[r].prev = LastHash(rows) /\ ~Pending(r)' /\ rows' = rows /\ nextId' = nextId
      BY <1>1, <2>1, Moves, LastHashType DEF Goes, WriteRead, Pending, OrderInv
    <3>2. \A x \in rows : x.id <= LastId(LastHash(rows))
      <4>1. CASE rows = {}
        BY <4>1
      <4>2. ASSUME NEW t \in rows, Top(rows, t), LastHash(rows) = t.hash
            PROVE  \A x \in rows : x.id <= LastId(LastHash(rows))
        <5>1. PICK h \in Seq(1..MaxId) : t.hash = Append(h, t.id)
          BY DEF FollowInv, Follows
        <5>2. LastId(t.hash) = t.id
          BY <1>3, <5>1, LastIdOfHash
        <5>3. QED
          BY <4>2, <5>2 DEF Top
      <4>3. QED
        BY <4>1, <4>2, LastHashType DEF EndsIn
    <3>3. LastId(LastHash(rows)) < nextId
      <4>1. CASE LastHash(rows) = Genesis
        BY <1>1, <4>1 DEF LastId, Genesis, TypeOK
      <4>2. ASSUME NEW t \in rows, LastHash(rows) = t.hash
            PROVE  LastId(LastHash(rows)) < nextId
        <5>1. PICK h \in Seq(1..MaxId) : t.hash = Append(h, t.id)
          BY DEF FollowInv, Follows
        <5>2. LastId(t.hash) = t.id
          BY <1>3, <5>1, LastIdOfHash
        <5>3. QED
          BY <1>1, <4>2, <5>2 DEF IdsApart
      <4>3. QED
        BY <4>1, <4>2, LastHashType DEF EndsIn
    <3>4. QED
      BY <3>1, <3>2, <3>3
  <2>2. CASE WriteInsert(r)
    <3>1. /\ w'[r].prev = w[r].prev /\ w'[r].id = nextId /\ rows' = rows /\ nextId' = nextId + 1
          /\ w[r].prev \in Seq(1..MaxId)
      BY <1>1, <2>2, Moves DEF Goes, WriteInsert, TypeOK, Transaction
    <3>2. /\ \A x \in rows : x.id <= LastId(w[r].prev)
          /\ LastId(w[r].prev) < nextId
      BY <2>2 DEF FollowInv, Started, WriteInsert
    <3>3. LastId(w[r].prev) \in Int
      <4>1. w[r].prev # <<>> => Len(w[r].prev) \in 1..Len(w[r].prev)
        BY <3>1
      <4>2. QED
        BY <3>1, <4>1 DEF LastId
    <3>4. QED
      BY <1>3, <3>1, <3>2, <3>3
  <2>3. QED
    BY <1>1, <1>5, <2>1, <2>2, Moves DEF WriterStep, Goes, Started
<1>6. \A s \in Writer : Started(s)' => /\ \A x \in rows' : x.id <= LastId(w'[s].prev)
                                       /\ LastId(w'[s].prev) < nextId'
                                       /\ Pending(s)' => LastId(w'[s].prev) < w'[s].id
  BY <1>2, <1>5
<1>7. QED
  BY <1>2, <1>4, <1>6 DEF FollowInv

\* A cleanup adds no id to those that are there.
LEMMA IdsCommitted ==
    ASSUME OrderInv, CleanCommit
    PROVE  /\ Ids(rows') \subseteq Ids(rows)
           /\ \A x \in Kept, n \in clean.new : n.id < x.id
           /\ \A x \in Kept : x.id \in 1..MaxId
           /\ \A n \in clean.new : n.id \in 1..MaxId /\ n.id \in clean.rest
<1>1. TypeOK /\ IdsApart /\ CleanInv
  BY DEF OrderInv, TypeInv
<1>2. clean.pc = "selected" /\ Ids(clean.new) = clean.rest /\ rows' = Kept \cup clean.new
  BY CleanEnds
<1>3. \A n \in clean.new : n.id \in 1..MaxId /\ n.id \in clean.rest
  BY <1>1, <1>2 DEF Ids, TypeOK, Cleanup
<1>4. \A x \in Kept : x \in rows /\ ~Seen(x) /\ x.id \in 1..MaxId
  BY <1>1, RowIds DEF Kept
<1>5. clean.rest \subseteq Ids(rows) /\ \A x \in rows : ~Seen(x) => \A i \in clean.rest : i < x.id
  BY <1>1, <1>2 DEF CleanInv
<1>6. \A x \in Kept, n \in clean.new : n.id < x.id
  BY <1>3, <1>4, <1>5
<1>7. Ids(rows') \subseteq Ids(rows)
  BY <1>2, <1>3, <1>4, <1>5 DEF Ids
<1>8. QED
  BY <1>3, <1>4, <1>6, <1>7

\* The record the cleanup hashes next.
LEMMA Rehash ==
    ASSUME OrderInv, CleanRehash
    PROVE  \E n \in Record :
             /\ n.id \in clean.rest \ Ids(clean.new) /\ n.hash = Append(clean.prev, n.id)
             /\ \A j \in clean.rest \ Ids(clean.new) : n.id <= j
             /\ \A m \in clean.new : m.id < n.id
             /\ clean'.pc = "selected" /\ clean'.rest = clean.rest /\ clean'.del = clean.del
             /\ clean'.new = clean.new \cup {n} /\ clean'.prev = n.hash
<1>1. TypeOK /\ CleanInv
  BY DEF OrderInv, TypeInv
<1>2. PICK i \in clean.rest \ Ids(clean.new) :
          /\ \A j \in clean.rest \ Ids(clean.new) : i <= j
          /\ Cleans("selected", clean.cutoff, clean.del, clean.rest, Hash(clean.prev, i),
                    clean.new \cup {[id |-> i, hash |-> Hash(clean.prev, i)]})
  BY <1>1, CleanMoves
<1>3. i \in 1..MaxId /\ clean.prev \in Seq(1..MaxId)
  BY <1>1 DEF TypeOK, Cleanup
<1>4. PICK n \in Record : n = [id |-> i, hash |-> Hash(clean.prev, i)]
  BY <1>3, HashType DEF Record
<1>5. n.id = i /\ n.hash = Append(clean.prev, i)
  BY <1>4 DEF Hash
<1>6. \A m \in clean.new : m.id < i
  BY <1>1, <1>2 DEF CleanInv, CleanRehash
<1>7. /\ clean'.pc = "selected" /\ clean'.rest = clean.rest /\ clean'.del = clean.del
      /\ clean'.new = clean.new \cup {n} /\ clean'.prev = n.hash
  BY <1>2, <1>4, <1>5 DEF Cleans, Hash
<1>8. QED
  BY <1>2, <1>5, <1>6, <1>7

LEMMA FollowClean == ASSUME OrderInv, FollowInv, CleanStep PROVE FollowInv'
<1>1. TypeOK /\ IdsApart /\ InOrder /\ CleanInv /\ TypeInv
  BY DEF OrderInv, TypeInv
<1>2. UNCHANGED <<nextId, lock, w, now, made, horizon>>
  BY CleanEnds, CleanStays DEF CleanStep
<1>3. /\ \A x \in rows' : Follows(rows', x)
      /\ Ids(rows') \subseteq Ids(rows)
  <2>1. CASE CleanCommit
    <3>1. rows' = Kept \cup clean.new
      BY <2>1, CleanEnds
    <3>2. ASSUME NEW x \in Kept PROVE Follows(rows', x)
      <4>1. x \in rows
        BY DEF Kept
      <4>2. \A y \in rows' : y.id \in Ids(rows)
        BY <2>1, IdsCommitted DEF Ids
      <4>3. QED
        BY <4>1, <4>2, FollowsStill DEF FollowInv
    <3>3. ASSUME NEW n \in clean.new PROVE Follows(rows', n)
      <4>1. \A y \in rows' : y.id < n.id => y \in clean.new
        BY <2>1, <3>1, IdsCommitted
      <4>2. QED
        BY <4>1, FollowsStill DEF FollowInv, Ids
    <3>4. QED
      BY <2>1, <3>1, <3>2, <3>3, IdsCommitted
  <2>2. CASE ~CleanCommit
    BY <2>2, CleanStays DEF CleanStep, FollowInv
  <2>3. QED
    BY <2>1, <2>2
<1>4. \A r \in Writer : Started(r)' => /\ \A x \in rows' : x.id <= LastId(w'[r].prev)
                                       /\ LastId(w'[r].prev) < nextId'
                                       /\ Pending(r)' => LastId(w'[r].prev) < w'[r].id
  <2>1. ASSUME NEW r \in Writer, Started(r)
        PROVE  /\ \A i \in Ids(rows) : i <= LastId(w[r].prev)
               /\ LastId(w[r].prev) < nextId
               /\ Pending(r) => LastId(w[r].prev) < w[r].id
    BY <2>1 DEF FollowInv, Ids
  <2>2. \A x \in rows' : x.id \in Ids(rows)
    BY <1>3 DEF Ids
  <2>3. QED
    BY <1>2, <2>1, <2>2 DEF Started, Pending
<1>5. /\ \A n \in clean'.new : Follows(clean'.new, n)
      /\ \A n \in clean'.new : n.id <= LastId(clean'.prev)
      /\ clean'.pc = "selected" => \A i \in clean'.rest : i \in Ids(clean'.new) \/ LastId(clean'.prev) < i
  <2>1. CASE CleanRehash
    <3>1. PICK n \in Record :
             /\ n.id \in clean.rest \ Ids(clean.new) /\ n.hash = Append(clean.prev, n.id)
             /\ \A j \in clean.rest \ Ids(clean.new) : n.id <= j
             /\ \A m \in clean.new : m.id < n.id
             /\ clean'.pc = "selected" /\ clean'.rest = clean.rest /\ clean'.del = clean.del
             /\ clean'.new = clean.new \cup {n} /\ clean'.prev = n.hash
      BY <2>1, Rehash
    <3>2. /\ clean.prev \in Seq(1..MaxId) /\ clean.rest \subseteq 1..MaxId /\ n.id \in 1..MaxId
          /\ clean.new \subseteq Record
      BY <1>1 DEF TypeOK, Cleanup, Record
    <3>3. LastId(clean'.prev) = n.id
      BY <3>1, <3>2, LastIdOfHash
    <3>4. LastId(clean.prev) < n.id /\ \A m \in clean.new : m.id <= LastId(clean.prev)
      BY <2>1, <3>1 DEF FollowInv, CleanRehash
    <3>5. Follows(clean'.new, n)
      BY <3>1, <3>2, <3>4 DEF Follows
    <3>6. ASSUME NEW m \in clean.new PROVE Follows(clean'.new, m)
      <4>1. m.id \in Int /\ n.id \in Int
        BY <3>2 DEF Record
      <4>2. \A y \in clean'.new : y.id < m.id => y.id \in Ids(clean.new)
        BY <3>1, <4>1 DEF Ids
      <4>3. QED
        BY <4>2, FollowsStill DEF FollowInv
    <3>7. \A m \in clean'.new : m.id <= n.id
      BY <3>1, <3>2 DEF Record
    <3>8. Ids(clean'.new) = Ids(clean.new) \cup {n.id}
      BY <3>1, IdsAdd
    <3>9. \A i \in clean.rest : i \in Ids(clean'.new) \/ n.id < i
      <4>1. SUFFICES ASSUME NEW i \in clean.rest, i \notin Ids(clean.new), i # n.id PROVE n.id < i
        BY <3>8
      <4>2. n.id <= i
        BY <3>1, <4>1
      <4>3. QED
        BY <3>2, <4>1, <4>2
    <3>10. QED
      BY <3>1, <3>3, <3>5, <3>6, <3>7, <3>9
  <2>2. CASE CleanCut \/ CleanDelete \/ CleanSelect \/ CleanCommit \/ CleanAbort
    <3>1. clean'.new = {} /\ clean'.prev = Genesis
      BY <1>1, <2>2, CleanMoves DEF Cleans, IdsApart, CleanDelete, CleanSelect
    <3>2. clean' \in Cleanup
      BY <1>1, CleanTyped
    <3>3. \A i \in clean'.rest : i \in 1..MaxId
      BY <3>2 DEF Cleanup
    <3>4. LastId(clean'.prev) = 0
      BY <3>1 DEF LastId, Genesis
    <3>5. QED
      BY <3>1, <3>3, <3>4
  <2>3. QED
    BY <2>1, <2>2 DEF CleanStep
<1>6. QED
  BY <1>3, <1>4, <1>5 DEF FollowInv

\* No two records are chained to the same one, for any number of writers, also while a
\* cleanup hashes the chain anew.
THEOREM ChainNeverForks == ASSUME Locked PROVE Spec => []NoFork
<1>1. Init => FollowInv
  BY DEF Init, FollowInv, Started, IdleWriter, IdleClean
<1>2. OrderInv /\ FollowInv /\ [Next]_vars => FollowInv'
  <2> SUFFICES ASSUME OrderInv, FollowInv, [Next]_vars PROVE FollowInv'
    OBVIOUS
  <2>1. CASE Age
    BY <2>1 DEF Age, FollowInv, Started, Pending
  <2>4. ASSUME NEW r \in Writer, Waits(r) PROVE FollowInv'
    <3>1. UNCHANGED <<rows, nextId, clean>> /\ \A s \in Writer : Started(s)' => w'[s] = w[s]
      BY <2>4, WaitsStill DEF OrderInv, TypeInv
    <3>2. QED
      BY <3>1 DEF FollowInv, Started, Pending
  <2>2. CASE UNCHANGED vars
    BY <2>2 DEF vars, FollowInv, Started, Pending
  <2>3. QED
    BY <2>1, <2>2, <2>4, Steps, FollowWriter, FollowClean
<1>3. OrderInv /\ FollowInv => NoFork
  BY FollowersDoNotFork DEF OrderInv, TypeInv, FollowInv
<1>4. QED
  BY <1>1, <1>2, <1>3, OrderHolds, PTL DEF Spec

-----------------------------------------------------------------------------
(* Breaks.                                                                   *)

LEMMA LinkedVerifies ==
    ASSUME NEW R \in SUBSET Record, \A x, y \in R : x.id = y.id => x = y, NEW x \in R, Linked(R, x)
    PROVE  x \notin Broken(R)
<1>1. \A y \in R : y.id \in Int
  BY DEF Record
<1>2. CASE x.hash = <<x.id>> /\ \A y \in R : x.id <= y.id
  <2>1. Before(R, x) = {}
    BY <1>1, <1>2 DEF Before
  <2>2. QED
    <3>1. LastHash(Before(R, x)) = <<>>
      BY <2>1 DEF LastHash, Genesis
    <3>2. Hash(<<>>, x.id) = <<x.id>>
      BY DEF Hash
    <3>3. QED
      BY <1>2, <3>1, <3>2 DEF Broken
<1>3. ASSUME NEW p \in R, p.id < x.id, x.hash = Append(p.hash, x.id), \A y \in R : y.id < x.id => y.id <= p.id
      PROVE  x \notin Broken(R)
  <2>1. Top(Before(R, x), p) /\ Before(R, x) \in SUBSET Record
    BY <1>3 DEF Top, Before
  <2>2. LastHash(Before(R, x)) = p.hash
    BY <2>1, TopHash DEF Before
  <2>3. QED
    BY <1>3, <2>2 DEF Broken, Hash
<1>4. QED
  BY <1>2, <1>3 DEF Linked

\* A record stays linked among others, as long as its predecessor stays and no other
\* comes between.
LEMMA LinkedStill ==
    ASSUME NEW R, NEW S, NEW x, Linked(R, x), \A y \in R : y.id < x.id => y \in S,
           \A y \in S : y.id < x.id => y.id \in Ids(R), \A y \in S : y.id \in Int, x.id \in Int
    PROVE  Linked(S, x)
<1>1. CASE x.hash = <<x.id>> /\ \A y \in R : x.id <= y.id
  <2>1. \A y \in S : x.id <= y.id
    BY <1>1 DEF Ids
  <2>2. QED
    BY <1>1, <2>1 DEF Linked
<1>2. ASSUME NEW p \in R, p.id < x.id, x.hash = Append(p.hash, x.id), \A y \in R : y.id < x.id => y.id <= p.id
      PROVE  Linked(S, x)
  BY <1>2 DEF Linked, Ids
<1>3. QED
  BY <1>1, <1>2 DEF Linked

\* A cleanup leaves what it selected linked.
LEMMA CommitLinks ==
    ASSUME OrderInv, BreakInv, CleanCommit
    PROVE  \A n \in clean.new : Linked(rows', n)
<1>1. rows' = Kept \cup clean.new
  BY CleanEnds
<1>2. ASSUME NEW n \in clean.new PROVE Linked(rows', n)
  <2>1. Linked(clean.new, n)
    BY DEF BreakInv, AllLinked
  <2>2. /\ \A y \in rows' : y.id < n.id => y \in clean.new
        /\ \A y \in rows' : y.id \in Int
    BY <1>1, IdsCommitted
  <2>3. n.id \in Int
    BY IdsCommitted
  <2>4. QED
    BY <1>1, <2>1, <2>2, <2>3, LinkedStill DEF Ids
<1>3. QED
  BY <1>2

LEMMA BreakWriter ==
    ASSUME Locked, OrderInv, BreakInv, NEW r \in Writer, WriterStep(r)
    PROVE  BreakInv'
<1>1. TypeOK /\ IdsApart /\ InOrder /\ CleanInv /\ TypeInv
  BY DEF OrderInv, TypeInv
<1>2. /\ \A s \in Writer : s # r => ~Started(s)'
      /\ clean' = clean
  BY <1>1, OneWriter, WriterSees DEF Started
<1>3. \A x \in rows : x.id \in 1..MaxId
  BY <1>1, RowIds
<1>4. CASE rows' = rows
  <2>1. ASSUME Started(r)'
        PROVE  \/ EndsIn(rows, w'[r].prev)
               \/ AllLinked(rows) /\ (clean.pc = "selected" => \A x \in rows : Seen(x))
    <3>1. CASE WriteRead(r)
      BY <1>1, <3>1, Moves, LastHashType DEF Goes, OrderInv
    <3>2. CASE WriteInsert(r)
      <4>1. w'[r].prev = w[r].prev /\ Started(r)
        BY <1>1, <3>2, Moves DEF Goes, WriteInsert, Started
      <4>2. QED
        BY <4>1 DEF BreakInv
    <3>3. QED
      BY <1>1, <2>1, <3>1, <3>2, Moves DEF WriterStep, Goes, Started
  <2>2. QED
    BY <1>2, <1>4, <2>1 DEF BreakInv, Seen
<1>5. CASE Pending(r) /\ WriteCommit(r) /\ rows' = rows \cup {New(r)}
  <2>0. PICK n : n = New(r) /\ rows' = rows \cup {n}
    BY <1>5
  <2>1. /\ n.id \in 1..MaxId /\ n.hash = Append(w[r].prev, n.id)
        /\ \A x \in rows : x.id < n.id
    BY <1>1, <1>5, <2>0 DEF IdsApart, InOrder, New, Hash
  <2>2. \A s \in Writer : ~Started(s)'
    BY <1>1, <1>2, <1>5, Moves DEF Goes, Started
  <2>3. ASSUME NEW x \in rows, Linked(rows, x) PROVE Linked(rows', x)
    <3>1. /\ \A y \in rows' : y.id < x.id => y.id \in Ids(rows)
          /\ \A y \in rows' : y.id \in Int
          /\ x.id \in Int
      BY <1>3, <1>5, <2>0, <2>1 DEF Ids
    <3>2. QED
      BY <1>5, <2>0, <2>3, <3>1, LinkedStill
  <2>4. CASE EndsIn(rows, w[r].prev)
    <3>1. Linked(rows', n)
      <4>1. CASE rows = {} /\ w[r].prev = Genesis
        <5>1. n.hash = <<n.id>>
          BY <2>1, <4>1 DEF Genesis
        <5>2. \A y \in rows' : n.id <= y.id
          BY <1>5, <2>0, <2>1, <4>1
        <5>3. QED
          BY <5>1, <5>2 DEF Linked
      <4>2. ASSUME NEW t \in rows, Top(rows, t), w[r].prev = t.hash PROVE Linked(rows', n)
        <5>1. /\ t \in rows' /\ t.id < n.id /\ n.hash = Append(t.hash, n.id)
              /\ \A y \in rows' : y.id < n.id => y.id <= t.id
          BY <1>5, <2>0, <2>1, <4>2 DEF Top
        <5>2. QED
          BY <5>1 DEF Linked
      <4>3. QED
        BY <2>4, <4>1, <4>2 DEF EndsIn
    <3>2. CASE AllLinked(rows)
      <4>1. AllLinked(rows')
        BY <1>5, <2>0, <2>3, <3>1, <3>2 DEF AllLinked
      <4>2. QED
        BY <1>2, <2>2, <4>1 DEF BreakInv
    <3>3. ASSUME NEW b \in rows, \A x \in rows : x # b => Linked(rows, x),
                 (clean.pc = "selected" /\ ~Seen(b)) => \A x \in rows : ~Seen(x) => b.id <= x.id
          PROVE  BreakInv'
      <4>1. \A x \in rows' : x # b => Linked(rows', x)
        BY <1>5, <2>0, <2>3, <3>1, <3>3
      <4>2. b.id <= n.id
        BY <1>3, <2>1
      <4>3. (clean'.pc = "selected" /\ ~Seen(b)') => \A x \in rows' : ~Seen(x)' => b.id <= x.id
        BY <1>2, <1>5, <2>0, <3>3, <4>2 DEF Seen
      <4>4. QED
        BY <1>2, <1>5, <2>0, <2>2, <4>1, <4>3 DEF BreakInv
    <3>4. QED
      BY <3>2, <3>3 DEF BreakInv
  <2>5. CASE AllLinked(rows) /\ (clean.pc = "selected" => \A x \in rows : Seen(x))
    <3>1. \A x \in rows' : x # n => Linked(rows', x)
      BY <1>5, <2>0, <2>3, <2>5 DEF AllLinked
    <3>2. (clean'.pc = "selected" /\ ~Seen(n)') => \A x \in rows' : ~Seen(x)' => n.id <= x.id
      BY <1>2, <1>5, <2>0, <2>1, <2>5 DEF Seen
    <3>3. n \in rows'
      BY <2>0
    <3>4. QED
      BY <1>2, <2>2, <3>1, <3>2, <3>3 DEF BreakInv
  <2>6. QED
    BY <1>5, <2>4, <2>5 DEF BreakInv, Started, Pending
<1>6. QED
  BY <1>4, <1>5, WriterSees

LEMMA BreakClean == ASSUME Locked, OrderInv, BreakInv, CleanStep PROVE BreakInv'
<1>1. TypeOK /\ IdsApart /\ InOrder /\ CleanInv /\ TypeInv
  BY DEF OrderInv, TypeInv
<1>2. UNCHANGED <<nextId, lock, w, now, made, horizon>>
  BY CleanEnds, CleanStays DEF CleanStep
<1>3. \A x \in rows : x.id \in 1..MaxId
  BY <1>1, RowIds
<1>4. CASE CleanCut \/ CleanDelete \/ CleanSelect \/ CleanAbort
  <2>1. rows' = rows /\ clean'.new = {} /\ clean'.prev = Genesis
    BY <1>1, <1>4, CleanMoves, CleanStays DEF Cleans, IdsApart, CleanDelete, CleanSelect
  <2>2. clean'.pc = "selected" => \A x \in rows : Seen(x)'
    BY <1>1, <1>4, CleanMoves DEF Cleans, Seen, Ids
  <2>3. AllLinked(clean'.new) /\ EndsIn(clean'.new, clean'.prev)
    BY <2>1 DEF AllLinked, EndsIn
  <2>4. QED
    BY <1>2, <2>1, <2>2, <2>3 DEF BreakInv, Started
<1>5. CASE CleanRehash
  <2>1. PICK n \in Record :
           /\ n.id \in clean.rest \ Ids(clean.new) /\ n.hash = Append(clean.prev, n.id)
           /\ \A j \in clean.rest \ Ids(clean.new) : n.id <= j
           /\ \A m \in clean.new : m.id < n.id
           /\ clean'.pc = "selected" /\ clean'.rest = clean.rest /\ clean'.del = clean.del
           /\ clean'.new = clean.new \cup {n} /\ clean'.prev = n.hash
    BY <1>5, Rehash
  <2>2. /\ rows' = rows /\ clean.pc = "selected"
    BY <1>5, CleanStays DEF CleanRehash
  <2>3. n.id \in Int /\ \A m \in clean.new : m.id \in Int
    BY <1>1 DEF TypeOK, Cleanup, Record
  <2>4. Top(clean'.new, n) /\ EndsIn(clean'.new, clean'.prev)
    BY <2>1, <2>3 DEF Top, EndsIn
  <2>5. ASSUME NEW m \in clean.new PROVE Linked(clean'.new, m)
    <3>1. /\ \A y \in clean'.new : y.id < m.id => y.id \in Ids(clean.new)
          /\ \A y \in clean'.new : y.id \in Int
          /\ \A y \in clean.new : y \in clean'.new
          /\ m.id \in Int /\ Linked(clean.new, m)
      BY <2>1, <2>3 DEF Ids, BreakInv, AllLinked
    <3>2. QED
      BY <3>1, LinkedStill
  <2>6. Linked(clean'.new, n)
    <3>1. CASE clean.new = {} /\ clean.prev = Genesis
      <4>1. n.hash = <<n.id>>
        BY <2>1, <3>1 DEF Genesis
      <4>2. \A y \in clean'.new : n.id <= y.id
        BY <2>1, <2>3, <3>1
      <4>3. QED
        BY <4>1, <4>2 DEF Linked
    <3>2. ASSUME NEW t \in clean.new, Top(clean.new, t), clean.prev = t.hash PROVE Linked(clean'.new, n)
      <4>1. /\ t \in clean'.new /\ t.id < n.id /\ n.hash = Append(t.hash, n.id)
            /\ \A y \in clean'.new : y.id < n.id => y.id <= t.id
        BY <2>1, <2>3, <3>2 DEF Top
      <4>2. QED
        BY <4>1 DEF Linked
    <3>3. EndsIn(clean.new, clean.prev)
      BY DEF BreakInv
    <3>4. QED
      BY <3>1, <3>2, <3>3 DEF EndsIn
  <2>7. AllLinked(clean'.new)
    BY <2>1, <2>5, <2>6 DEF AllLinked
  <2>8. QED
    BY <1>2, <2>1, <2>2, <2>4, <2>7 DEF BreakInv, Started, Seen
<1>6. CASE CleanCommit
  <2>1. /\ clean.pc = "selected" /\ Ids(clean.new) = clean.rest /\ rows' = Kept \cup clean.new
        /\ clean'.pc = "idle" /\ clean'.new = {} /\ clean'.prev = Genesis
    BY <1>1, <1>6, CleanEnds, CleanMoves DEF Cleans
  <2>2. \A n \in clean.new : Linked(rows', n)
    BY <1>6, CommitLinks
  <2>3. /\ \A y \in rows' : y.id \in Int
        /\ \A x \in Kept : x \in rows /\ ~Seen(x)
        /\ clean.rest \subseteq Ids(rows) /\ clean.del = {i \in Ids(rows) : i <= clean.cutoff}
        /\ \A x \in rows : ~Seen(x) => \A i \in clean.rest : i < x.id
        /\ clean.cutoff \in Int
    BY <1>1, <1>6, <2>1, IdsCommitted DEF Kept, CleanInv, TypeOK, Cleanup
  <2>4. \A x \in Kept, y \in rows : Seen(y) => y.id < x.id
    <3>1. SUFFICES ASSUME NEW x \in Kept, NEW y \in rows, Seen(y) PROVE y.id < x.id
      OBVIOUS
    <3>2. CASE y.id \in clean.rest
      BY <2>3, <3>2
    <3>3. CASE y.id \in clean.del
      <4>1. y.id <= clean.cutoff
        BY <2>3, <3>3
      <4>2. x.id > clean.cutoff
        BY <1>3, <2>3 DEF Seen, Ids
      <4>3. QED
        BY <1>3, <2>3, <4>1, <4>2
    <3>4. QED
      BY <3>1, <3>2, <3>3 DEF Seen
  \* A kept record that is linked stays so, unless its predecessor has been seen.
  <2>5. ASSUME NEW x \in Kept, Linked(rows, x), NEW z \in Kept, z.id < x.id
        PROVE  Linked(rows', x)
    <3>1. PICK p \in rows : /\ p.id < x.id /\ x.hash = Append(p.hash, x.id)
                            /\ \A y \in rows : y.id < x.id => y.id <= p.id
      BY <1>3, <2>3, <2>5 DEF Linked
    <3>2. z.id <= p.id
      BY <2>3, <2>5, <3>1
    <3>3. p \in Kept
      BY <1>3, <2>3, <2>4, <3>2 DEF Kept
    <3>4. \A y \in rows' : y.id < x.id => y.id <= p.id
      BY <1>6, <3>1, IdsCommitted DEF Ids
    <3>5. QED
      BY <2>1, <3>1, <3>3, <3>4 DEF Linked
  <2>6. \/ AllLinked(rows')
        \/ \E b \in rows' : \A x \in rows' : x # b => Linked(rows', x)
    <3>1. CASE \E b \in Kept : \A x \in Kept : b.id <= x.id
      <4>1. PICK b \in Kept : \A x \in Kept : b.id <= x.id
        BY <3>1
      <4>2. \A x \in Kept : x # b => b.id < x.id
        BY <1>1, <2>3, <2>1, <4>1 DEF TypeOK
      <4>3. ASSUME NEW x \in Kept, x # b, ~Linked(rows, x) PROVE FALSE
        <5>1. PICK c \in rows : /\ \A y \in rows : y # c => Linked(rows, y)
                                /\ ~Seen(c) => \A y \in rows : ~Seen(y) => c.id <= y.id
          BY <2>1, <2>3, <4>3 DEF BreakInv, AllLinked
        <5>2. x = c /\ x.id <= b.id
          BY <2>3, <4>3, <5>1
        <5>3. QED
          BY <1>3, <2>3, <4>2, <4>3, <5>2
      <4>4. \A x \in rows' : x # b => Linked(rows', x)
        BY <2>1, <2>2, <2>5, <4>2, <4>3
      <4>5. QED
        BY <2>1, <4>4
    <3>2. CASE ~(\E b \in Kept : \A x \in Kept : b.id <= x.id)
      <4>1. \A x \in Kept : \E z \in Kept : z.id < x.id
        BY <1>3, <2>3, <3>2
      <4>2. \A x \in Kept : Linked(rows, x)
        <5>1. SUFFICES ASSUME NEW x \in Kept, ~Linked(rows, x) PROVE FALSE
          OBVIOUS
        <5>2. PICK c \in rows : /\ \A y \in rows : y # c => Linked(rows, y)
                                /\ ~Seen(c) => \A y \in rows : ~Seen(y) => c.id <= y.id
          BY <2>1, <2>3, <5>1 DEF BreakInv, AllLinked
        <5>3. x = c /\ \A y \in Kept : c.id <= y.id
          BY <2>3, <5>1, <5>2
        <5>4. QED
          BY <3>2, <5>1, <5>3
      <4>3. AllLinked(rows')
        BY <2>1, <2>2, <2>5, <4>1, <4>2 DEF AllLinked
      <4>4. QED
        BY <4>3
    <3>3. QED
      BY <3>1, <3>2
  <2>7. ASSUME NEW r \in Writer, Started(r)
        PROVE  EndsIn(rows', w[r].prev) \/ AllLinked(rows')
    <3>1. CASE \A x \in rows : Seen(x)
      BY <2>1, <2>2, <2>3, <3>1 DEF AllLinked
    <3>2. CASE EndsIn(rows, w[r].prev) /\ \E x \in rows : ~Seen(x)
      <4>1. PICK x \in rows : ~Seen(x)
        BY <3>2
      <4>2. PICK t \in rows : Top(rows, t) /\ w[r].prev = t.hash
        BY <3>2 DEF EndsIn
      <4>3. x \in Kept /\ x.id <= t.id
        BY <4>1, <4>2 DEF Kept, Top
      <4>4. t \in Kept
        BY <1>3, <2>4, <4>2, <4>3 DEF Kept
      <4>5. Top(rows', t)
        BY <1>6, <2>1, <4>2, <4>4, IdsCommitted DEF Top, Ids
      <4>6. QED
        BY <4>2, <4>5 DEF EndsIn, Top
    <3>3. QED
      BY <2>1, <2>7, <3>1, <3>2 DEF BreakInv
  <2>8. AllLinked(clean'.new) /\ EndsIn(clean'.new, clean'.prev)
    BY <2>1 DEF AllLinked, EndsIn
  <2>9. QED
    BY <1>2, <2>1, <2>6, <2>7, <2>8 DEF BreakInv, Started
<1>7. QED
  BY <1>4, <1>5, <1>6 DEF CleanStep

LEMMA BreakHolds == ASSUME Locked PROVE Spec => []BreakInv
<1>1. Init => BreakInv
  BY DEF Init, BreakInv, AllLinked, EndsIn, Started, IdleWriter, IdleClean
<1>2. OrderInv /\ BreakInv /\ [Next]_vars => BreakInv'
  <2> SUFFICES ASSUME OrderInv, BreakInv, [Next]_vars PROVE BreakInv'
    OBVIOUS
  <2>1. CASE Age
    BY <2>1 DEF Age, BreakInv, Started, Seen
  <2>4. ASSUME NEW r \in Writer, Waits(r) PROVE BreakInv'
    <3>1. UNCHANGED <<rows, clean>> /\ \A s \in Writer : Started(s)' => w'[s] = w[s]
      BY <2>4, WaitsStill DEF OrderInv, TypeInv
    <3>2. QED
      BY <3>1 DEF BreakInv, Started, Seen
  <2>2. CASE UNCHANGED vars
    BY <2>2 DEF vars, BreakInv, Started, Seen
  <2>3. QED
    BY <2>1, <2>2, <2>4, Steps, BreakWriter, BreakClean
<1>3. QED
  BY <1>1, <1>2, OrderHolds, PTL DEF Spec

\* The chain is broken at one place at most, however often the cleanup overlaps a writer.
THEOREM BreaksOnce == ASSUME Locked PROVE Spec => []OneBreak
<1>1. ASSUME OrderInv, BreakInv PROVE OneBreak
  <2>1. rows \in SUBSET Record /\ \A x, y \in rows : x.id = y.id => x = y
    BY <1>1 DEF OrderInv, TypeInv, TypeOK
  <2>2. \A x \in rows : Linked(rows, x) => x \notin Broken(rows)
    BY <2>1, LinkedVerifies
  <2>3. PICK b : Broken(rows) \in SUBSET {b}
    <3>1. Broken(rows) \subseteq rows
      BY DEF Broken
    <3>2. QED
      BY <1>1, <2>2, <3>1 DEF BreakInv, AllLinked
  <2>4. IsFiniteSet({b}) /\ Cardinality({b}) = 1
    BY FS_Singleton
  <2>5. Cardinality(Broken(rows)) <= 1
    BY <2>3, <2>4, FS_Subset
  <2>6. QED
    BY <2>5 DEF OneBreak
<1>2. QED
  BY <1>1, OrderHolds, BreakHolds, PTL

\* Whatever was broken before, a cleanup leaves a chain that verifies over all it selected.
THEOREM CleanupsHeal == ASSUME Locked PROVE Spec => CleanupHeals
<1>1. ASSUME OrderInv, OrderInv', BreakInv, [Next]_vars,
             clean.pc = "selected", clean' # clean, rows' # rows, NEW x \in Broken(rows')
      PROVE  x.id \notin clean.rest
  <2>1. CleanCommit
    <3>1. ~UNCHANGED vars /\ ~Age /\ \A r \in Writer : ~Waits(r)
      BY <1>1 DEF vars, Age, Waits, WriteStamp, WriteAbort
    <3>2. ~(\E r \in Writer : WriterStep(r))
      BY <1>1, WriterSees
    <3>3. QED
      BY <1>1, <3>1, <3>2, Steps, CleanStays DEF CleanStep
  <2>2. rows' \in SUBSET Record /\ \A y, z \in rows' : y.id = z.id => y = z
    BY <1>1 DEF OrderInv, TypeInv, TypeOK
  <2>3. \A n \in rows' : Linked(rows', n) => n \notin Broken(rows')
    BY <2>2, LinkedVerifies
  <2>4. x \in rows' /\ x \notin clean.new
    BY <1>1, <2>1, <2>3, CommitLinks, CleanEnds DEF Broken
  <2>5. QED
    BY <2>1, <2>4, CleanEnds DEF Kept, Seen
<1>2. OrderInv /\ OrderInv' /\ BreakInv /\ [Next]_vars =>
        [clean.pc = "selected" /\ clean' # clean /\ rows' # rows =>
            \A x \in Broken(rows') : x.id \notin clean.rest]_vars
  BY <1>1
<1>3. QED
  BY <1>2, OrderHolds, BreakHolds, PTL DEF Spec, CleanupHeals

-----------------------------------------------------------------------------
(* The log as its readers see it.                                            *)

\* The record a cleanup cuts at was old enough when it looked, still is, and is there.
CutInv == clean.pc # "idle" => clean.cutoff \in Ids(rows) \cap Old

\* What is old stays old.
LEMMA OldStays == ASSUME OrderInv, [Next]_vars PROVE Old \subseteq Old' /\ Old' \subseteq 1..MaxId
<1>1. /\ nextId \in 1..(MaxId + 1) /\ made \in [1..MaxId -> 0..MaxTime]
      /\ now \in 0..MaxTime /\ horizon \in 0..MaxTime
  BY DEF OrderInv, TypeInv, TypeOK
<1> DEFINE Onward == /\ nextId' = nextId \/ (nextId <= MaxId /\ nextId' = nextId + 1)
                     /\ horizon' = horizon \/ horizon' = horizon + 1
                     /\ made' = made \/ \E t : made' = [made EXCEPT ![nextId] = t]
<1>2. Onward
  <2>1. ASSUME NEW r \in Writer, WriterStep(r) \/ Waits(r) PROVE Onward
    BY <2>1 DEF WriterStep, Waits, WriteStamp, WriteBegin, WriteRead, WriteInsert, WriteCommit, WriteAbort
  <2>2. ASSUME CleanStep \/ Age \/ UNCHANGED vars PROVE Onward
    BY <2>2, CleanEnds, CleanStays DEF CleanStep, Age, vars
  <2>3. QED
    BY <2>1, <2>2, Steps
<1>3. ASSUME NEW i \in 1..(nextId - 1) PROVE i \in 1..(nextId' - 1) /\ made'[i] = made[i] /\ made[i] \in Int
  <2>1. i # nextId /\ i \in 1..MaxId /\ i \in 1..(nextId' - 1)
    BY <1>1, <1>2
  <2>2. QED
    BY <1>1, <1>2, <2>1
<1>4. Old \subseteq Old'
  <2>1. SUFFICES ASSUME NEW i \in Old PROVE i \in Old'
    OBVIOUS
  <2>2. i \in 1..(nextId - 1) /\ made[i] <= horizon
    BY DEF Old
  <2>3. made'[i] <= horizon' /\ i \in 1..(nextId' - 1)
    BY <1>1, <1>2, <1>3, <2>2
  <2>4. QED
    BY <2>3 DEF Old
<1>5. Old' \subseteq 1..MaxId
  <2>1. nextId' \in 1..(MaxId + 1)
    BY <1>1, <1>2
  <2>2. QED
    BY <2>1 DEF Old
<1>6. QED
  BY <1>4, <1>5

LEMMA CutKept == ASSUME Locked, OrderInv, CutInv, [Next]_vars PROVE CutInv'
<1>1. TypeOK /\ Old \subseteq Old'
  BY OldStays DEF OrderInv, TypeInv
<1>2. ASSUME NEW r \in Writer, WriterStep(r) \/ Waits(r) PROVE CutInv'
  <2>1. clean' = clean /\ rows \subseteq rows'
    BY <1>1, <1>2, WriterSees, WaitsStill
  <2>2. QED
    BY <1>1, <2>1 DEF CutInv, Ids
<1>3. CASE CleanCut
  <2>1. PICK x \in rows : x.id \in Old /\ Cleans("cut", x.id, {}, {}, Genesis, {})
    BY <1>1, <1>3, CleanMoves
  <2>2. clean'.cutoff = x.id /\ rows' = rows
    BY <1>3, <2>1, CleanStays DEF Cleans
  <2>3. QED
    BY <1>1, <2>1, <2>2 DEF CutInv, Ids
<1>4. CASE CleanDelete \/ CleanSelect \/ CleanRehash
  <2>1. clean.pc # "idle" /\ clean'.cutoff = clean.cutoff /\ rows' = rows
    <3>1. clean.pc # "idle" /\ rows' = rows
      BY <1>4 DEF CleanDelete, CleanSelect, CleanRehash
    <3>2. clean'.cutoff = clean.cutoff
      BY <1>1, <1>4, CleanMoves DEF Cleans
    <3>3. QED
      BY <3>1, <3>2
  <2>2. QED
    BY <1>1, <2>1 DEF CutInv
<1>5. CASE CleanCommit \/ CleanAbort
  BY <1>5 DEF CleanCommit, CleanAbort, IdleClean, CutInv
<1>6. CASE Age \/ UNCHANGED vars
  <2>1. clean' = clean /\ rows' = rows
    BY <1>6 DEF Age, vars
  <2>2. QED
    BY <1>1, <2>1 DEF CutInv
<1>7. QED
  BY <1>2, <1>3, <1>4, <1>5, <1>6, Steps DEF CleanStep

\* Nobody but the commit of a cleanup removes a record, and it removes exactly those up to
\* its cutoff: whatever was committed since it selected is kept.
LEMMA CommitTruncates ==
    ASSUME OrderInv, CleanCommit
    PROVE  Ids(rows') = {i \in Ids(rows) : i > clean.cutoff}
<1>1. TypeOK /\ CleanInv /\ \A x \in rows : x.id \in 1..MaxId
  BY RowIds DEF OrderInv, TypeInv
<1>2. /\ clean.pc = "selected" /\ Ids(clean.new) = clean.rest /\ rows' = Kept \cup clean.new
      /\ clean.rest \subseteq Ids(rows) /\ clean.cutoff \in Int
      /\ \A i \in clean.rest : i > clean.cutoff
      /\ clean.del = {i \in Ids(rows) : i <= clean.cutoff}
  BY <1>1, CleanEnds DEF CleanInv, TypeOK, Cleanup
<1>3. QED
  BY <1>1, <1>2 DEF Kept, Seen, Ids

\* With the advisory lock the table implements the abstract log: however writers, their
\* rollbacks and cleanups interleave, a record appears behind all that are there, in the
\* order of the ids, and is deleted only together with all before it, up to one that has
\* expired; whatever was committed since the cleanup looked is kept.
THEOREM LogRefined == ASSUME Locked PROVE Spec => ImplementsLog
<1>1. Init => Journal!Init
  BY DEF Init, Journal!Init, Ids, Old
<1>2. Init => CutInv
  BY DEF Init, CutInv, IdleClean
<1>3. OrderInv /\ CutInv /\ [Next]_vars => CutInv'
  BY CutKept
<1>4. ASSUME OrderInv, CutInv, [Next]_vars PROVE [Journal!Next]_(Journal!vars)
  <2>1. TypeOK /\ InOrder /\ IdsApart /\ \A x \in rows : x.id \in 1..MaxId
    BY <1>4, RowIds DEF OrderInv, TypeInv
  <2>2. ASSUME Ids(rows') = Ids(rows) PROVE [Journal!Next]_(Journal!vars)
    <3>1. Old' \in SUBSET (1..MaxId) /\ Old \subseteq Old'
      BY <1>4, OldStays
    <3>2. Journal!Expire
      BY <2>2, <3>1 DEF Journal!Expire
    <3>3. QED
      BY <3>2 DEF Journal!Next
  <2>3. ASSUME NEW r \in Writer, WriterStep(r), rows' # rows PROVE [Journal!Next]_(Journal!vars)
    <3>1. Pending(r) /\ WriteCommit(r) /\ rows' = rows \cup {New(r)}
      BY <2>3, WriterSees
    <3>2. Ids(rows') = Ids(rows) \cup {w[r].id}
      BY <3>1, IdsAdd DEF New
    <3>3. w[r].id \in 1..MaxId /\ \A j \in Ids(rows) : j < w[r].id
      BY <2>1, <3>1 DEF InOrder, IdsApart, Ids
    <3>4. Old' = Old
      BY <3>1 DEF WriteCommit, Old
    <3>5. Journal!Append(w[r].id)
      BY <3>2, <3>3, <3>4 DEF Journal!Append
    <3>6. QED
      BY <3>3, <3>5 DEF Journal!Next
  <2>4. CASE CleanCommit
    <3>1. Ids(rows') = {i \in Ids(rows) : i > clean.cutoff} /\ Old' = Old
      BY <1>4, <2>4, CommitTruncates DEF CleanCommit, Old
    <3>2. clean.cutoff \in Ids(rows) \cap Old
      BY <1>4, <2>4 DEF CutInv, CleanCommit
    <3>3. clean.cutoff \in 1..MaxId
      BY <2>1, <3>2 DEF Ids
    <3>4. Journal!Truncate(clean.cutoff)
      BY <3>1, <3>2 DEF Journal!Truncate
    <3>5. QED
      BY <3>3, <3>4 DEF Journal!Next
  <2>5. CASE CleanStep /\ ~CleanCommit
    BY <2>2, <2>5, CleanStays DEF CleanStep
  <2>6. ASSUME NEW r \in Writer, Waits(r) PROVE rows' = rows
    BY <2>6 DEF Waits, WriteStamp, WriteAbort
  <2>7. CASE Age \/ UNCHANGED vars
    BY <2>2, <2>7 DEF Age, vars
  <2>8. QED
    BY <1>4, <2>2, <2>3, <2>4, <2>5, <2>6, <2>7, Steps
<1>5. QED
  BY <1>1, <1>2, <1>3, <1>4, OrderHolds, PTL DEF Spec, ImplementsLog, Journal!Spec
=============================================================================
