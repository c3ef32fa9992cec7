------------------------------- MODULE PgStore -------------------------------
(***************************************************************************)
(* The PostgreSQL event store (event/pgstore/store.go): transactions that  *)
(* append batches of rows to the table skene_events.  A transaction may    *)
(* append several batches, and one batch may hold events of several runs,  *)
(* whose locks it takes in any order (Go's map order).                     *)
(*                                                                         *)
(* A transaction of a SnapshotCaller runs under REPEATABLE READ, which the *)
(* owner of a transaction handed to StartWorkflowTx may choose: it reads   *)
(* the table as it was when the transaction began.                         *)
(***************************************************************************)
EXTENDS Integers, Sequences, FiniteSets, SequencesExt

CONSTANTS
    Runs,             \* run ids
    Callers,          \* connections that append
    SnapshotCallers,  \* the callers whose transactions read a snapshot
    NoCaller,         \* the owner of a free lock
    MaxSeq,           \* bound: the highest sequence number a caller uses
    MaxBatch          \* bound: events in one batch

VARIABLES
    table,   \* the committed rows of skene_events
    lock,    \* lock[r]: who holds the advisory lock of run r
    tx       \* tx[c]: c's transaction

vars == <<table, lock, tx>>

ASSUME PgStoreAssumption ==
    /\ SnapshotCallers \subseteq Callers
    /\ NoCaller \notin Callers
    /\ MaxSeq \in Nat
    /\ MaxBatch \in Nat

\* An event is told apart by its writer; ids, types and payloads are left out.
Row == [run : Runs, seq : 1 .. MaxSeq, by : Callers]

Rows(S, r) == {row \in S : row.run = r}

\* COALESCE(MAX(sequence), 0)
GetLastSequence(S, r) ==
    IF Rows(S, r) = {} THEN 0
    ELSE CHOOSE n \in {row.seq : row \in Rows(S, r)} : \A row \in Rows(S, r) : row.seq <= n

\* todo: the runs of the batch not yet validated; mine: rows inserted and not
\* yet committed; snap: the table when the transaction began.
Tx == [pc : {"none", "open", "validate", "insert"},
       batch : UNION {[1 .. n -> Row] : n \in 0 .. MaxBatch},
       todo : SUBSET Runs, mine : SUBSET Row, snap : SUBSET Row]

NoTx == [pc |-> "none", batch |-> <<>>, todo |-> {}, mine |-> {}, snap |-> {}]

Init ==
    /\ table = {}
    /\ lock = [r \in Runs |-> NoCaller]
    /\ tx = [c \in Callers |-> NoTx]

Visible(c) == (IF c \in SnapshotCallers THEN tx[c].snap ELSE table) \cup tx[c].mine

-----------------------------------------------------------------------------
(* The sequence numbers of a batch come from a history its caller loaded   *)
(* at some time, so they may be any.                                       *)

Batches(c) ==
    UNION {[1 .. n -> [run : Runs, seq : 1 .. MaxSeq, by : {c}]] : n \in 1 .. MaxBatch}

\* Mutant: the events are grouped by their sequence numbers.
BatchRunsBySeq(b) == {b[i].seq : i \in DOMAIN b}

BatchRuns(b) == {b[i].run : i \in DOMAIN b}

\* AppendBatch begins a transaction of its own; AppendBatchTx uses one that is
\* open, or the first statement of one.
BeginAppend(c) ==
    /\ tx[c].pc \in {"none", "open"}
    /\ \E b \in Batches(c) :
         tx' = [tx EXCEPT ![c].pc = "validate", ![c].batch = b, ![c].todo = BatchRuns(b),
                          ![c].snap = IF tx[c].pc = "none" THEN table ELSE @]
    /\ UNCHANGED <<table, lock>>

\* Mutant: a batch may leave a gap.
ConsecutiveOrLater(b, r, last) ==
    \A i \in DOMAIN b : b[i].run = r =>
        b[i].seq >= last + Cardinality({j \in 1 .. i : b[j].run = r})

\* Events of run r in batch order are numbered from last + 1 on.
Consecutive(b, r, last) ==
    \A i \in DOMAIN b : b[i].run = r =>
        b[i].seq = last + Cardinality({j \in 1 .. i : b[j].run = r})

\* Mutant: no lock is taken.
ValidateNoLock(c, r) ==
    /\ tx[c].pc = "validate"
    /\ r \in tx[c].todo
    /\ Consecutive(tx[c].batch, r, GetLastSequence(Visible(c), r))
    /\ tx' = [tx EXCEPT ![c].todo = @ \ {r},
                        ![c].pc = IF tx[c].todo = {r} THEN "insert" ELSE @]
    /\ UNCHANGED <<table, lock>>

\* pg_advisory_xact_lock, then SELECT MAX, then the check of the sequences.
Validate(c, r) ==
    /\ tx[c].pc = "validate"
    /\ r \in tx[c].todo
    /\ lock[r] \in {NoCaller, c}
    /\ Consecutive(tx[c].batch, r, GetLastSequence(Visible(c), r))
    /\ lock' = [lock EXCEPT ![r] = c]
    /\ tx' = [tx EXCEPT ![c].todo = @ \ {r},
                        ![c].pc = IF tx[c].todo = {r} THEN "insert" ELSE @]
    /\ UNCHANGED table

\* Whatever ends a transaction gives back its locks.
Release(c) == lock' = [r \in Runs |-> IF lock[r] = c THEN NoCaller ELSE lock[r]]

EndTx(c) == tx' = [tx EXCEPT ![c] = NoTx] /\ Release(c)

\* SequenceConflictError: the caller rolls back.
Conflict(c, r) ==
    /\ tx[c].pc = "validate"
    /\ r \in tx[c].todo
    /\ lock[r] \in {NoCaller, c}
    /\ ~Consecutive(tx[c].batch, r, GetLastSequence(Visible(c), r))
    /\ EndTx(c)
    /\ UNCHANGED table

BatchRows(b) == {b[i] : i \in DOMAIN b}

SameKey(S, T) == \E x \in S, y \in T : x.run = y.run /\ x.seq = y.seq

\* Mutant: the locks are given back before the transaction ends.
InsertBatchUnlocks(c) ==
    /\ tx[c].pc = "insert"
    /\ ~SameKey(BatchRows(tx[c].batch), table \cup tx[c].mine)
    /\ \A d \in Callers \ {c} : ~SameKey(BatchRows(tx[c].batch), tx[d].mine)
    /\ tx' = [tx EXCEPT ![c].pc = "open", ![c].batch = <<>>,
                        ![c].mine = @ \cup BatchRows(tx[c].batch)]
    /\ Release(c)
    /\ UNCHANGED table

\* The constraint UNIQUE (run_id, sequence): a key that another transaction has
\* inserted and not yet committed makes the statement wait.
InsertBatch(c) ==
    /\ tx[c].pc = "insert"
    /\ ~SameKey(BatchRows(tx[c].batch), table \cup tx[c].mine)
    /\ \A d \in Callers \ {c} : ~SameKey(BatchRows(tx[c].batch), tx[d].mine)
    /\ tx' = [tx EXCEPT ![c].pc = "open", ![c].batch = <<>>,
                        ![c].mine = @ \cup BatchRows(tx[c].batch)]
    /\ UNCHANGED <<table, lock>>

\* Mutant: INSERT ... ON CONFLICT DO UPDATE.
DuplicateKeyUpdates(c) ==
    /\ tx[c].pc = "insert"
    /\ SameKey(BatchRows(tx[c].batch), table \cup tx[c].mine)
    /\ table' = BatchRows(tx[c].batch) \cup
                   {row \in table : ~SameKey({row}, BatchRows(tx[c].batch))}
    /\ EndTx(c)

\* Unique violation: ErrDuplicateEvent, and the transaction is lost.
DuplicateKey(c) ==
    /\ tx[c].pc = "insert"
    /\ SameKey(BatchRows(tx[c].batch), table \cup tx[c].mine)
    /\ EndTx(c)
    /\ UNCHANGED table

Commit(c) ==
    /\ tx[c].pc = "open"
    /\ table' = table \cup tx[c].mine
    /\ EndTx(c)

\* An error elsewhere in the transaction, a crash, a lost connection, or
\* PostgreSQL breaking a deadlock of locks.
Rollback(c) ==
    /\ tx[c].pc # "none"
    /\ EndTx(c)
    /\ UNCHANGED table

Next ==
    \E c \in Callers :
        \/ BeginAppend(c)
        \/ \E r \in Runs : Validate(c, r) \/ Conflict(c, r)
        \/ InsertBatch(c)
        \/ DuplicateKey(c)
        \/ Commit(c)
        \/ Rollback(c)

Spec == Init /\ [][Next]_vars

-----------------------------------------------------------------------------
\* Every variable has its type.
TypeOK ==
    /\ table \subseteq Row
    /\ lock \in [Runs -> Callers \cup {NoCaller}]
    /\ tx \in [Callers -> Tx]

\* The committed log of each run is numbered 1, 2, 3, ... with no number
\* missing and none used twice, although callers read MAX(sequence) before
\* others commit, and some of them from an old snapshot.
Gapless ==
    \A r \in Runs :
        /\ {row.seq : row \in Rows(table, r)} = 1 .. Cardinality(Rows(table, r))
        /\ \A x, y \in Rows(table, r) : x.seq = y.seq => x = y

\* What a caller validated stays true until its transaction ends: nobody else
\* can move the end of a run whose lock it holds.  This is what the advisory
\* lock is for, and it needs READ COMMITTED.
ValidatedHolds ==
    \A c \in Callers \ SnapshotCallers : tx[c].pc \in {"validate", "insert"} =>
        \A r \in BatchRuns(tx[c].batch) \ tx[c].todo :
            Consecutive(tx[c].batch, r, GetLastSequence(table \cup tx[c].mine, r))

\* Under READ COMMITTED the loser of a race is told so by the sequence check,
\* and never by the UNIQUE constraint, whose error means a duplicate id.
LoserSeesConflict ==
    \A c \in Callers \ SnapshotCallers : tx[c].pc = "insert" =>
        ~SameKey(BatchRows(tx[c].batch), table)

\* The table as the abstract log.
LogOf(r) ==
    [i \in 1 .. Cardinality(Rows(table, r)) |->
        (CHOOSE row \in Rows(table, r) : row.seq = i).by]

Log == INSTANCE EventLog WITH Entries <- Callers, log <- [r \in Runs |-> LogOf(r)]

\* The store implements the abstract event log: what a reader has loaded stays
\* a prefix of what it will load later.
ImplementsEventLog == Log!Spec

\* SELECT ... ORDER BY sequence: without a gap (Gapless) row i is the one
\* numbered i.
Load(r) ==
    [i \in 1 .. Cardinality(Rows(table, r)) |-> CHOOSE row \in Rows(table, r) : row.seq = i]

\* The batches offered to the in-memory store are the rows of an open transaction,
\* each once, in an order that the store's check is left to judge.
Memory == INSTANCE MemoryStore WITH
    events  <- [r \in Runs |-> Load(r)],
    offered <- UNION {SetToSeqs(tx[c].mine) : c \in {d \in Callers : tx[d].pc = "open"}}

\* Whatever transactions interleave, the store does what the in-memory store
\* does: a commit is one AppendBatch of all the transaction's events, checked
\* against the logs as they are at the commit; nothing else changes a log.
ImplementsMemoryStore == Memory!Spec
=============================================================================
