---------------------------- MODULE PgStoreProofs ----------------------------
(***************************************************************************)
(* Proofs about the PostgreSQL event store, for any set of runs and of     *)
(* callers, whichever of them read a snapshot, and any bounds.             *)
(***************************************************************************)
EXTENDS PgStore, FiniteSetTheorems, SequenceTheorems, TLAPS

-----------------------------------------------------------------------------
(* The inductive invariant.                                                *)

\* The rows of run r in S are numbered 1 .. n, each number once.
Filled(S, r, n) ==
    /\ {row.seq : row \in Rows(S, r)} = 1 .. n
    /\ \A x, y \in Rows(S, r) : x.seq = y.seq => x = y

\* The rows of run r in S are a log without a gap.
Whole(S, r) == \E n \in Nat : Filled(S, r, n)

\* What c's transaction would leave if it committed now, and the table it
\* started from, are logs without a gap.
TxWhole(c) == \A r \in Runs : Whole(table \cup tx[c].mine, r) /\ Whole(tx[c].snap, r)

\* c holds the lock of every run it has rows of, and of every run of its batch
\* that it has validated.
TxLocked(c) ==
    \A r \in Runs :
        /\ Rows(tx[c].mine, r) # {} => lock[r] = c
        /\ r \in BatchRuns(tx[c].batch) \ tx[c].todo => lock[r] = c

\* c's snapshot holds committed rows, and all of them for a run that c, reading
\* from the snapshot, has rows of.
SnapHolds(c) ==
    /\ tx[c].snap \subseteq table
    /\ \A r \in Runs : Rows(tx[c].mine, r) # {} /\ c \in SnapshotCallers =>
          Rows(tx[c].snap, r) = Rows(table, r)

\* What c validated is still so in what it sees.
SeenHolds(c) ==
    \A r \in BatchRuns(tx[c].batch) \ tx[c].todo :
        Consecutive(tx[c].batch, r, GetLastSequence(Visible(c), r))

\* A transaction that has ended holds nothing, one between two batches has no
\* batch, and one that inserts has validated all of its batch.
TxShape(c) ==
    /\ tx[c].pc = "none" => tx[c] = NoTx
    /\ tx[c].pc = "open" => tx[c].batch = <<>>
    /\ tx[c].pc = "insert" => tx[c].todo = {}

TxGood(c) == TxWhole(c) /\ TxLocked(c) /\ SnapHolds(c) /\ SeenHolds(c) /\ TxShape(c)

\* The committed logs have no gap, and every transaction is good.
StoreGood ==
    /\ \A r \in Runs : Whole(table, r)
    /\ \A c \in Callers : TxGood(c)

-----------------------------------------------------------------------------
(* Numbers and counting.                                                   *)

\* A set of numbers that is not empty has a least one.
LEMMA LeastNumber ==
    ASSUME NEW T, T \subseteq Nat, T # {}
    PROVE  \E n \in T : \A m \in T : n <= m
<1>1. PICK n \in T : \A m \in T : ~(<<m, n>> \in OpToRel(<, Nat))
  BY NatLessThanWellFounded, WFMin, Zenon
<1>2. \A m \in T : <<m, n>> \in OpToRel(<, Nat) <=> m < n
  BY DEF OpToRel
<1>3. \A m \in T : ~(m < n)
  BY <1>1, <1>2, Zenon
<1>4. \A m \in T : n <= m
  BY <1>3
<1> QED
  BY <1>4, Zenon

\* Among the first i events of a batch, how many are of run r.
Count(b, r, i) == Cardinality({j \in 1 .. i : b[j].run = r})

\* What is counted is finite.
LEMMA CountedFinite ==
    ASSUME NEW b, NEW r, NEW n \in Nat
    PROVE  IsFiniteSet({j \in 1 .. n : b[j].run = r})
<1>1. IsFiniteSet(1 .. n)
  BY FS_Interval
<1>2. {j \in 1 .. n : b[j].run = r} \in SUBSET (1 .. n)
  OBVIOUS
<1> QED
  BY <1>1, <1>2, FS_Subset, Zenon

\* The count grows by one at each event of the run, and nowhere else.
LEMMA CountStep ==
    ASSUME NEW b, NEW r, NEW i \in Nat
    PROVE  /\ Count(b, r, i) \in Nat
           /\ Count(b, r, 0) = 0
           /\ Count(b, r, i + 1) = Count(b, r, i) + (IF b[i + 1].run = r THEN 1 ELSE 0)
<1> DEFINE C(n) == {j \in 1 .. n : b[j].run = r}
<1>1. \A n \in Nat : IsFiniteSet(C(n))
  BY CountedFinite
<1>2. Cardinality(C(i)) \in Nat
  BY <1>1, FS_CardinalityType
<1>3. C(0) = {}
  OBVIOUS
<1>4. i + 1 \notin C(i)
  OBVIOUS
<1>5. C(i + 1) = IF b[i + 1].run = r THEN C(i) \cup {i + 1} ELSE C(i)
  OBVIOUS
<1>6. Cardinality(C(i) \cup {i + 1}) = Cardinality(C(i)) + 1
  BY <1>1, <1>4, FS_AddElement
<1>7. /\ Count(b, r, i) = Cardinality(C(i))
      /\ Count(b, r, 0) = Cardinality(C(0))
      /\ Count(b, r, i + 1) = Cardinality(C(i + 1))
  BY DEF Count
<1> HIDE DEF C
<1>8. Cardinality(C(0)) = 0
  BY <1>3, FS_EmptySet
<1>9. Cardinality(C(i + 1)) = Cardinality(C(i)) + (IF b[i + 1].run = r THEN 1 ELSE 0)
  BY <1>2, <1>5, <1>6
<1> QED
  BY <1>2, <1>7, <1>8, <1>9

\* The count never falls, and a later event of a run counts higher than an earlier one.
LEMMA CountGrows ==
    ASSUME NEW b, NEW r, NEW i \in Nat, NEW k \in Nat, i <= k
    PROVE  /\ Count(b, r, i) <= Count(b, r, k)
           /\ i < k /\ b[k].run = r => Count(b, r, i) < Count(b, r, k)
<1> DEFINE C(n) == {j \in 1 .. n : b[j].run = r}
<1>1. \A n \in Nat : IsFiniteSet(C(n))
  BY CountedFinite
<1>2. C(i) \in SUBSET C(k) /\ (i < k /\ b[k].run = r => k \in C(k) /\ k \notin C(i))
  OBVIOUS
<1>3. /\ Cardinality(C(i)) <= Cardinality(C(k))
      /\ i < k /\ b[k].run = r => Cardinality(C(i)) # Cardinality(C(k))
  BY <1>1, <1>2, FS_Subset
<1>4. Cardinality(C(i)) \in Nat /\ Cardinality(C(k)) \in Nat
  BY <1>1, FS_CardinalityType
<1>5. Count(b, r, i) = Cardinality(C(i)) /\ Count(b, r, k) = Cardinality(C(k))
  BY DEF Count
<1> HIDE DEF C
<1> QED
  BY <1>3, <1>4, <1>5

\* The count passes every number up to its last, each at an event of the run.
LEMMA CountReaches ==
    ASSUME NEW b, NEW r, NEW len \in Nat, NEW m \in 1 .. Count(b, r, len)
    PROVE  \E i \in 1 .. len : b[i].run = r /\ Count(b, r, i) = m
<1> DEFINE T == {i \in 0 .. len : m <= Count(b, r, i)}
<1>0. Count(b, r, len) \in Nat /\ m \in Nat
  BY CountStep
<1>1. T \subseteq Nat /\ T # {}
  <2>1. len \in T
    BY <1>0
  <2> QED
    BY <2>1
<1>2. PICK i \in T : \A j \in T : i <= j
  BY <1>1, LeastNumber
<1>3. i # 0
  BY <1>0, CountStep
<1>4. i - 1 \in Nat /\ i - 1 \in 0 .. len /\ i - 1 \notin T /\ (i - 1) + 1 = i
  BY <1>2, <1>3
<1>5. /\ Count(b, r, i - 1) \in Nat
      /\ Count(b, r, i) = Count(b, r, i - 1) + (IF b[i].run = r THEN 1 ELSE 0)
  <2>1. Count(b, r, (i - 1) + 1) =
          Count(b, r, i - 1) + (IF b[(i - 1) + 1].run = r THEN 1 ELSE 0)
    BY <1>4, CountStep
  <2> QED
    BY <2>1, <1>4, CountStep
<1>6. Count(b, r, i - 1) < m
  BY <1>0, <1>4, <1>5
<1>7. i \in 1 .. len /\ m <= Count(b, r, i)
  BY <1>3
<1> QED
  BY <1>0, <1>5, <1>6, <1>7

-----------------------------------------------------------------------------
(* Logs without a gap.                                                     *)

\* The last sequence number of a log without a gap is its length.
LEMMA FilledLast ==
    ASSUME NEW S \in SUBSET Row, NEW r, NEW n \in Nat, Filled(S, r, n)
    PROVE  GetLastSequence(S, r) = n
<1> DEFINE Q == {row.seq : row \in Rows(S, r)}
<1>1. Q = 1 .. n
  BY DEF Filled
<1>2. CASE n = 0
  <2>1. Rows(S, r) = {}
    BY <1>1, <1>2
  <2> QED
    BY <1>2, <2>1 DEF GetLastSequence
<1>3. CASE n # 0
  <2>1. Rows(S, r) # {} /\ n \in Q
    BY <1>1, <1>3
  <2>2. \A row \in Rows(S, r) : row.seq \in 1 .. n
    BY <1>1
  <2>3. \A m \in Q : (\A row \in Rows(S, r) : row.seq <= m) => m = n
    BY <1>1, <2>1
  <2>4. \E m \in Q : \A row \in Rows(S, r) : row.seq <= m
    BY <2>1, <2>2
  <2> HIDE DEF Q
  <2>5. (CHOOSE m \in Q : \A row \in Rows(S, r) : row.seq <= m) = n
    BY <2>3, <2>4
  <2> QED
    BY <2>1, <2>5 DEF GetLastSequence, Q
<1> QED
  BY <1>2, <1>3

\* A log without a gap has as many rows as its length.
LEMMA FilledCard ==
    ASSUME NEW S \in SUBSET Row, NEW r, NEW n \in Nat, Filled(S, r, n)
    PROVE  Cardinality(Rows(S, r)) = n
<1> DEFINE f == [i \in 1 .. n |-> CHOOSE row \in Rows(S, r) : row.seq = i]
<1>1. \A i \in 1 .. n : \E row \in Rows(S, r) : row.seq = i
  BY DEF Filled
<1>2. \A i \in 1 .. n : f[i] \in Rows(S, r) /\ f[i].seq = i
  BY <1>1
<1>3. \A row \in Rows(S, r) : row.seq \in 1 .. n
  BY DEF Filled
<1>4. \A row \in Rows(S, r) : f[row.seq] = row
  BY <1>2, <1>3 DEF Filled
<1>5. f \in [1 .. n -> Rows(S, r)]
  BY <1>2
<1> HIDE DEF f
<1>6. f \in Bijection(1 .. n, Rows(S, r))
  <2>1. \A i, j \in 1 .. n : f[i] = f[j] => i = j
    BY <1>2
  <2>2. \A row \in Rows(S, r) : \E i \in 1 .. n : f[i] = row
    BY <1>3, <1>4
  <2> QED
    BY <1>5, <2>1, <2>2 DEF Bijection, Injection, Surjection, IsInjective
<1>7. ExistsBijection(1 .. n, Rows(S, r))
  BY <1>6 DEF ExistsBijection
<1> QED
  BY <1>7, FS_CountingElements

\* The events of a batch that continues a log have its next numbers.
LEMMA BatchNumbers ==
    ASSUME NEW len \in Nat, NEW b \in [1 .. len -> Row], NEW r, NEW n \in Nat,
           Consecutive(b, r, n)
    PROVE  /\ Count(b, r, len) \in Nat
           /\ \A i \in 1 .. len : b[i].run = r => b[i].seq \in n + 1 .. n + Count(b, r, len)
           /\ \A m \in n + 1 .. n + Count(b, r, len) :
                 \E i \in 1 .. len : b[i].run = r /\ b[i].seq = m
           /\ \A i, j \in 1 .. len : b[i].run = r /\ b[j].run = r /\ b[i].seq = b[j].seq => i = j
           /\ r \in BatchRuns(b) => Count(b, r, len) > 0
<1>1. \A i \in 1 .. len : b[i].run = r => b[i].seq = n + Count(b, r, i)
  BY DEF Consecutive, Count
<1>2. \A i \in Nat : Count(b, r, i) \in Nat /\ Count(b, r, 0) = 0
  BY CountStep
<1>3. \A i \in 1 .. len : b[i].run = r => 0 < Count(b, r, i)
  BY <1>2, CountGrows
<1>4. \A i \in 1 .. len : Count(b, r, i) <= Count(b, r, len)
  BY CountGrows
<1>5. ASSUME NEW i \in 1 .. len, b[i].run = r
      PROVE  b[i].seq \in n + 1 .. n + Count(b, r, len)
  <2>1. Count(b, r, i) \in Nat /\ Count(b, r, len) \in Nat
    BY <1>2
  <2>2. 0 < Count(b, r, i) /\ Count(b, r, i) <= Count(b, r, len)
    BY <1>3, <1>4, <1>5
  <2> QED
    BY <1>1, <1>5, <2>1, <2>2
<1>6. ASSUME NEW m \in n + 1 .. n + Count(b, r, len)
      PROVE  \E i \in 1 .. len : b[i].run = r /\ b[i].seq = m
  <2>1. m - n \in 1 .. Count(b, r, len)
    BY <1>2
  <2>2. PICK i \in 1 .. len : b[i].run = r /\ Count(b, r, i) = m - n
    BY <2>1, CountReaches
  <2> QED
    BY <1>1, <2>2
<1>7. ASSUME NEW i \in 1 .. len, NEW j \in 1 .. len, b[i].run = r, b[j].run = r,
             b[i].seq = b[j].seq
      PROVE  i = j
  <2>1. Count(b, r, i) = Count(b, r, j)
    <3>1. Count(b, r, i) \in Nat /\ Count(b, r, j) \in Nat
      BY <1>2, SMTT(30)
    <3> QED
      BY <3>1, <1>1, <1>7
  <2>2. \A k, l \in 1 .. len : k < l /\ b[l].run = r => Count(b, r, k) < Count(b, r, l)
    BY CountGrows
  <2>3. ~(i < j) /\ ~(j < i)
    BY <1>2, <1>7, <2>1, <2>2, SMTT(30)
  <2> QED
    BY <2>3
<1>8. r \in BatchRuns(b) => Count(b, r, len) > 0
  BY <1>2, <1>3, <1>4 DEF BatchRuns
<1> QED
  BY <1>2, <1>5, <1>6, <1>7, <1>8

\* A batch that continues a log leaves a longer log without a gap.
LEMMA BatchFills ==
    ASSUME NEW S \in SUBSET Row, NEW len \in Nat, NEW b \in [1 .. len -> Row], NEW r,
           NEW n \in Nat, Filled(S, r, n), Consecutive(b, r, n)
    PROVE  Filled(S \cup BatchRows(b), r, n + Count(b, r, len))
<1> DEFINE k == Count(b, r, len)
           New == Rows(S \cup BatchRows(b), r)
<1>0. /\ k \in Nat
      /\ \A i \in 1 .. len : b[i].run = r => b[i].seq \in n + 1 .. n + k
      /\ \A m \in n + 1 .. n + k : \E i \in 1 .. len : b[i].run = r /\ b[i].seq = m
      /\ \A i, j \in 1 .. len : b[i].run = r /\ b[j].run = r /\ b[i].seq = b[j].seq => i = j
  BY BatchNumbers
<1> HIDE DEF k
<1>1. \A row \in Rows(S, r) : row.seq \in 1 .. n
  BY DEF Filled
<1>2. \A m \in 1 .. n : \E row \in Rows(S, r) : row.seq = m
  BY DEF Filled
<1>3. \A x, y \in Rows(S, r) : x.seq = y.seq => x = y
  BY DEF Filled
<1>4. \A row \in New : row \in Rows(S, r) \/ \E i \in 1 .. len : row = b[i] /\ b[i].run = r
  BY DEF Rows, BatchRows
<1>5. \A row \in Rows(S, r) : row \in New
  BY DEF Rows
<1>6. \A i \in 1 .. len : b[i].run = r => b[i] \in New
  BY DEF Rows, BatchRows
<1> HIDE DEF New
<1>7. \A row \in New : row.seq \in 1 .. n + k
  BY <1>0, <1>1, <1>4
<1>8. \A m \in 1 .. n + k : \E row \in New : row.seq = m
  <2> SUFFICES ASSUME NEW m \in 1 .. n + k PROVE \E row \in New : row.seq = m
    OBVIOUS
  <2>1. CASE m \in 1 .. n
    BY <2>1, <1>2, <1>5
  <2>2. CASE m \in n + 1 .. n + k
    BY <2>2, <1>0, <1>6
  <2> QED
    BY <1>0, <2>1, <2>2
<1>9. \A x, y \in New : x.seq = y.seq => x = y
  <2> SUFFICES ASSUME NEW x \in New, NEW y \in New, x.seq = y.seq PROVE x = y
    OBVIOUS
  <2>1. CASE x \in Rows(S, r) /\ y \in Rows(S, r)
    BY <2>1, <1>3
  <2>2. CASE x \notin Rows(S, r) /\ y \notin Rows(S, r)
    BY <2>2, <1>0, <1>4
  <2>3. CASE x \in Rows(S, r) /\ y \notin Rows(S, r)
    BY <2>3, <1>0, <1>1, <1>4
  <2>4. CASE x \notin Rows(S, r) /\ y \in Rows(S, r)
    BY <2>4, <1>0, <1>1, <1>4
  <2> QED
    BY <2>1, <2>2, <2>3, <2>4
<1>10. {row.seq : row \in New} = 1 .. n + k
  BY <1>7, <1>8
<1> QED
  BY <1>9, <1>10 DEF Filled, New, k

-----------------------------------------------------------------------------
(* Types.                                                                  *)

\* A batch is a sequence of rows.
LEMMA BatchTyped ==
    ASSUME NEW t \in Tx
    PROVE  \E len \in Nat : t.batch \in [1 .. len -> Row]
<1>1. t.batch \in UNION {[1 .. n -> Row] : n \in 0 .. MaxBatch}
  BY DEF Tx
<1>2. PICK n \in 0 .. MaxBatch : t.batch \in [1 .. n -> Row]
  BY <1>1
<1> QED
  BY <1>2, PgStoreAssumption

\* No transaction is a transaction without a batch.
LEMMA NoTxType == NoTx \in Tx
<1>1. <<>> \in [1 .. 0 -> Row]
  OBVIOUS
<1>2. 0 \in 0 .. MaxBatch
  BY PgStoreAssumption
<1>3. <<>> \in UNION {[1 .. n -> Row] : n \in 0 .. MaxBatch}
  BY <1>1, <1>2
<1> QED
  BY <1>3 DEF NoTx, Tx

\* A batch of c is a batch.
LEMMA BatchesType ==
    ASSUME NEW c \in Callers, NEW b \in Batches(c)
    PROVE  b \in UNION {[1 .. n -> Row] : n \in 0 .. MaxBatch} /\ BatchRuns(b) \subseteq Runs
<1>1. PICK n \in 1 .. MaxBatch : b \in [1 .. n -> [run : Runs, seq : 1 .. MaxSeq, by : {c}]]
  BY DEF Batches
<1>2. [run : Runs, seq : 1 .. MaxSeq, by : {c}] \subseteq Row
  BY DEF Row
<1>3. b \in [1 .. n -> Row]
  BY <1>1, <1>2
<1>4. n \in 0 .. MaxBatch
  BY PgStoreAssumption
<1>5. BatchRuns(b) \subseteq Runs
  BY <1>3 DEF BatchRuns, Row
<1> QED
  BY <1>3, <1>4, <1>5

\* Every step keeps the types.
LEMMA NextTypeOK == TypeOK /\ [Next]_vars => TypeOK'
<1> SUFFICES ASSUME TypeOK, [Next]_vars PROVE TypeOK'
  OBVIOUS
<1> USE DEF TypeOK
<1>1. CASE UNCHANGED vars
  BY <1>1 DEF vars
<1>2. ASSUME NEW c \in Callers, EndTx(c), table' \subseteq Row PROVE TypeOK'
  BY <1>2, NoTxType DEF EndTx, Release
<1>3. ASSUME NEW c \in Callers, BeginAppend(c) PROVE TypeOK'
  <2>1. PICK b \in Batches(c) :
          tx' = [tx EXCEPT ![c].pc = "validate", ![c].batch = b, ![c].todo = BatchRuns(b),
                           ![c].snap = IF tx[c].pc = "none" THEN table ELSE @]
    BY <1>3 DEF BeginAppend
  <2>2. tx[c] \in Tx
    OBVIOUS
  <2>3. tx' \in [Callers -> Tx]
    BY <2>1, <2>2, BatchesType DEF Tx
  <2> QED
    BY <1>3, <2>3 DEF BeginAppend
<1>4. ASSUME NEW c \in Callers, NEW r \in Runs, Validate(c, r) PROVE TypeOK'
  <2>1. tx[c] \in Tx
    OBVIOUS
  <2>2. tx' \in [Callers -> Tx]
    BY <1>4, <2>1 DEF Validate, Tx
  <2>3. lock' \in [Runs -> Callers \cup {NoCaller}] /\ table' = table
    BY <1>4 DEF Validate
  <2> QED
    BY <2>2, <2>3
<1>5. ASSUME NEW c \in Callers, InsertBatch(c) PROVE TypeOK'
  <2>1. tx[c] \in Tx /\ BatchRows(tx[c].batch) \subseteq Row
    BY BatchTyped DEF BatchRows
  <2>2. <<>> \in UNION {[1 .. n -> Row] : n \in 0 .. MaxBatch}
    BY NoTxType DEF NoTx, Tx
  <2>3. tx' \in [Callers -> Tx]
    BY <1>5, <2>1, <2>2 DEF InsertBatch, Tx
  <2> QED
    BY <1>5, <2>3 DEF InsertBatch
<1>6. ASSUME NEW c \in Callers, Commit(c) PROVE TypeOK'
  <2>1. tx[c].mine \subseteq Row
    BY DEF Tx
  <2> QED
    BY <1>2, <1>6, <2>1 DEF Commit
<1>7. ASSUME NEW c \in Callers, NEW r \in Runs, Conflict(c, r) PROVE TypeOK'
  BY <1>2, <1>7 DEF Conflict
<1>8. ASSUME NEW c \in Callers, DuplicateKey(c) \/ Rollback(c) PROVE TypeOK'
  BY <1>2, <1>8 DEF DuplicateKey, Rollback
<1> QED
  BY <1>1, <1>3, <1>4, <1>5, <1>6, <1>7, <1>8 DEF Next

-----------------------------------------------------------------------------
(* The inductive invariant, transaction by transaction.                    *)

\* Only the rows of the run matter.
LEMMA SameRows ==
    ASSUME NEW S, NEW T, NEW r, Rows(S, r) = Rows(T, r)
    PROVE  /\ Whole(S, r) = Whole(T, r)
           /\ GetLastSequence(S, r) = GetLastSequence(T, r)
  BY DEF Whole, Filled, GetLastSequence

\* A transaction stays good while others move that commit nothing.
LEMMA FrameKeeps ==
    ASSUME NEW d \in Callers, TxGood(d), tx'[d] = tx[d], table' = table,
           \A r \in Runs : lock[r] = d => lock'[r] = d
    PROVE  TxGood(d)'
<1>1. TxWhole(d)' /\ SnapHolds(d)' /\ TxShape(d)'
  BY DEF TxGood, TxWhole, SnapHolds, TxShape
<1>2. SeenHolds(d)'
  BY DEF TxGood, SeenHolds, Visible
<1>3. TxLocked(d)'
  BY DEF TxGood, TxLocked
<1> QED
  BY <1>1, <1>2, <1>3 DEF TxGood

\* A transaction that has ended is good.
LEMMA EndKeeps ==
    ASSUME TypeOK, NEW c \in Callers, EndTx(c), \A r \in Runs : Whole(table', r)
    PROVE  TxGood(c)'
<1>1. tx'[c] = NoTx
  BY DEF EndTx, TypeOK
<1>2. \A r \in Runs : Rows({}, r) = {} /\ Whole({}, r)
  <2>1. \A r \in Runs : Rows({}, r) = {}
    BY DEF Rows
  <2>2. \A r \in Runs : Filled({}, r, 0)
    BY <2>1 DEF Filled
  <2> QED
    BY <2>1, <2>2 DEF Whole
<1>3. table' \cup {} = table'
  OBVIOUS
<1>4. BatchRuns(<<>>) = {}
  BY DEF BatchRuns
<1>5. TxWhole(c)'
  BY <1>1, <1>2, <1>3 DEF TxWhole, NoTx
<1>6. TxLocked(c)' /\ SeenHolds(c)'
  BY <1>1, <1>2, <1>4 DEF TxLocked, SeenHolds, NoTx
<1>7. SnapHolds(c)' /\ TxShape(c)'
  BY <1>1, <1>2 DEF SnapHolds, TxShape, NoTx
<1> QED
  BY <1>5, <1>6, <1>7 DEF TxGood

\* Ending a transaction gives back no lock of another one.
LEMMA EndFrame ==
    ASSUME TypeOK, NEW c \in Callers, NEW d \in Callers, c # d, EndTx(c)
    PROVE  tx'[d] = tx[d] /\ \A r \in Runs : lock[r] = d => lock'[r] = d
  BY DEF TypeOK, EndTx, Release

\* A transaction stays good when another one commits: what that one adds is of
\* runs whose locks it holds.
LEMMA CommitKeeps ==
    ASSUME TypeOK, StoreGood, NEW c \in Callers, NEW d \in Callers, c # d, Commit(c)
    PROVE  TxGood(d)'
<1>1. table' = table \cup tx[c].mine /\ tx'[d] = tx[d]
  BY EndFrame DEF Commit
<1>2. \A r \in Runs : lock[r] = d => lock'[r] = d
  BY EndFrame DEF Commit
<1>3. TxGood(d) /\ TxGood(c)
  BY DEF StoreGood
<1>4. ASSUME NEW r \in Runs, lock[r] = d PROVE Rows(table', r) = Rows(table, r)
  <2>1. Rows(tx[c].mine, r) = {}
    BY <1>3, <1>4 DEF TxGood, TxLocked
  <2>2. Rows(table', r) = Rows(table, r) \cup Rows(tx[c].mine, r)
    BY <1>1 DEF Rows
  <2> QED
    BY <2>1, <2>2
<1>5. TxLocked(d)' /\ TxShape(d)'
  BY <1>1, <1>2, <1>3 DEF TxGood, TxLocked, TxShape
<1>6. TxWhole(d)'
  <2> SUFFICES ASSUME NEW r \in Runs
               PROVE  Whole(table' \cup tx[d].mine, r) /\ Whole(tx[d].snap, r)
    BY <1>1 DEF TxWhole
  <2>1. CASE Rows(tx[d].mine, r) # {}
    <3>1. Rows(table', r) = Rows(table, r)
      BY <1>3, <1>4, <2>1 DEF TxGood, TxLocked
    <3>2. Rows(table' \cup tx[d].mine, r) = Rows(table \cup tx[d].mine, r)
      BY <3>1 DEF Rows
    <3> QED
      BY <1>3, <3>2, SameRows DEF TxGood, TxWhole
  <2>2. CASE Rows(tx[d].mine, r) = {}
    <3>1. Rows(table' \cup tx[d].mine, r) = Rows(table', r) \cup {}
      BY <2>2 DEF Rows
    <3>2. Rows(table' \cup tx[d].mine, r) = Rows(table \cup tx[c].mine, r)
      BY <1>1, <3>1
    <3> QED
      BY <1>3, <3>2, SameRows DEF TxGood, TxWhole
  <2> QED
    BY <2>1, <2>2
<1>7. SnapHolds(d)'
  BY <1>1, <1>3, <1>4 DEF TxGood, TxLocked, SnapHolds
<1>8. SeenHolds(d)'
  <2> SUFFICES ASSUME NEW r \in BatchRuns(tx[d].batch) \ tx[d].todo
               PROVE  Consecutive(tx[d].batch, r, GetLastSequence(Visible(d)', r))
    BY <1>1 DEF SeenHolds
  <2>1. r \in Runs
    <3>1. tx[d] \in Tx
      BY DEF TypeOK
    <3> QED
      BY <3>1, BatchTyped DEF BatchRuns, Row
  <2>2. Rows(table', r) = Rows(table, r)
    BY <1>3, <1>4, <2>1 DEF TxGood, TxLocked
  <2>3. Rows(Visible(d)', r) = Rows(Visible(d), r)
    BY <1>1, <2>2 DEF Visible, Rows
  <2>4. GetLastSequence(Visible(d)', r) = GetLastSequence(Visible(d), r)
    BY <2>3, SameRows
  <2> QED
    BY <1>3, <2>4 DEF TxGood, SeenHolds
<1> QED
  BY <1>5, <1>6, <1>7, <1>8 DEF TxGood

\* A transaction that begins a batch is good.
LEMMA BeginKeeps ==
    ASSUME TypeOK, StoreGood, NEW c \in Callers, BeginAppend(c)
    PROVE  TxGood(c)'
<1>1. PICK b \in Batches(c) :
        tx' = [tx EXCEPT ![c].pc = "validate", ![c].batch = b, ![c].todo = BatchRuns(b),
                         ![c].snap = IF tx[c].pc = "none" THEN table ELSE @]
  BY DEF BeginAppend
<1>2. tx[c] \in Tx /\ TxGood(c) /\ table' = table /\ lock' = lock
  BY DEF TypeOK, StoreGood, BeginAppend
<1>3. /\ tx'[c].pc = "validate" /\ tx'[c].batch = b /\ tx'[c].todo = BatchRuns(b)
      /\ tx'[c].mine = tx[c].mine
      /\ tx'[c].snap = IF tx[c].pc = "none" THEN table ELSE tx[c].snap
  BY <1>1, <1>2 DEF TypeOK, Tx
<1>4. TxWhole(c)'
  BY <1>2, <1>3 DEF StoreGood, TxGood, TxWhole
<1>5. TxLocked(c)' /\ SeenHolds(c)' /\ TxShape(c)'
  BY <1>2, <1>3 DEF TxGood, TxLocked, SeenHolds, TxShape
<1>6. SnapHolds(c)'
  <2>1. CASE tx[c].pc = "none"
    BY <2>1, <1>2, <1>3 DEF SnapHolds
  <2>2. CASE tx[c].pc # "none"
    BY <2>2, <1>2, <1>3 DEF TxGood, SnapHolds
  <2> QED
    BY <2>1, <2>2
<1> QED
  BY <1>4, <1>5, <1>6 DEF TxGood

\* A transaction that has validated one more run is good.
LEMMA ValidateKeeps ==
    ASSUME TypeOK, StoreGood, NEW c \in Callers, NEW r \in Runs, Validate(c, r)
    PROVE  TxGood(c)'
<1>1. tx[c] \in Tx /\ TxGood(c) /\ table' = table
  BY DEF TypeOK, StoreGood, Validate
<1>2. /\ tx'[c].todo = tx[c].todo \ {r}
      /\ tx'[c].pc = IF tx[c].todo = {r} THEN "insert" ELSE "validate"
      /\ tx'[c].batch = tx[c].batch /\ tx'[c].mine = tx[c].mine /\ tx'[c].snap = tx[c].snap
  BY <1>1 DEF TypeOK, Tx, Validate
<1>3. \A q \in Runs : lock'[q] = IF q = r THEN c ELSE lock[q]
  BY DEF TypeOK, Validate
<1>4. TxWhole(c)' /\ SnapHolds(c)'
  BY <1>1, <1>2 DEF TxGood, TxWhole, SnapHolds
<1>5. TxLocked(c)'
  BY <1>1, <1>2, <1>3 DEF TxGood, TxLocked
<1>6. SeenHolds(c)'
  <2>1. Visible(c)' = Visible(c)
    BY <1>1, <1>2 DEF Visible
  <2>2. Consecutive(tx[c].batch, r, GetLastSequence(Visible(c), r))
    BY DEF Validate
  <2> QED
    BY <1>1, <1>2, <2>1, <2>2 DEF TxGood, SeenHolds
<1>7. TxShape(c)'
  BY <1>1, <1>2 DEF TxShape
<1> QED
  BY <1>4, <1>5, <1>6, <1>7 DEF TxGood

\* A snapshot that lacks a committed row of a run lacks the one that follows it.
LEMMA SnapBehind ==
    ASSUME NEW S \in SUBSET Row, NEW T \in SUBSET Row, S \subseteq T, NEW r,
           NEW n \in Nat, NEW m \in Nat, Filled(S, r, n), Filled(T, r, m),
           Rows(S, r) # Rows(T, r)
    PROVE  \E row \in Rows(T, r) : row.seq = n + 1
<1>1. Rows(S, r) \subseteq Rows(T, r)
  BY DEF Rows
<1>2. PICK row \in Rows(T, r) : row \notin Rows(S, r)
  BY <1>1
<1>3. row.seq \in 1 .. m
  BY DEF Filled
<1>4. row.seq \notin 1 .. n
  BY <1>1, <1>2 DEF Filled
<1>5. n + 1 \in 1 .. m
  BY <1>3, <1>4
<1> QED
  BY <1>5 DEF Filled

\* At its INSERT a transaction sees, of each run of the batch, what is committed
\* and its own rows: a snapshot that is behind would have hit the UNIQUE constraint.
LEMMA InsertSees ==
    ASSUME TypeOK, StoreGood, NEW c \in Callers, InsertBatch(c),
           NEW r \in BatchRuns(tx[c].batch)
    PROVE  /\ r \in Runs /\ lock[r] = c
           /\ Rows(Visible(c), r) = Rows(table \cup tx[c].mine, r)
           /\ Consecutive(tx[c].batch, r, GetLastSequence(table \cup tx[c].mine, r))
<1>1. tx[c] \in Tx /\ TxGood(c) /\ tx[c].todo = {}
  BY DEF TypeOK, StoreGood, TxGood, TxShape, InsertBatch
<1>2. PICK len \in Nat : tx[c].batch \in [1 .. len -> Row]
  BY <1>1, BatchTyped
<1>3. r \in Runs
  BY <1>2 DEF BatchRuns, Row
<1>4. lock[r] = c
  BY <1>1, <1>3 DEF TxGood, TxLocked
<1>5. Consecutive(tx[c].batch, r, GetLastSequence(Visible(c), r))
  BY <1>1 DEF TxGood, SeenHolds
<1>6. Rows(Visible(c), r) = Rows(table \cup tx[c].mine, r)
  <2>1. CASE c \notin SnapshotCallers
    BY <2>1 DEF Visible
  <2>2. CASE c \in SnapshotCallers /\ Rows(tx[c].mine, r) # {}
    <3>1. Rows(tx[c].snap, r) = Rows(table, r)
      BY <1>1, <1>3, <2>2 DEF TxGood, SnapHolds
    <3> QED
      BY <2>2, <3>1 DEF Visible, Rows
  <2>3. CASE c \in SnapshotCallers /\ Rows(tx[c].mine, r) = {}
    <3>1. Rows(Visible(c), r) = Rows(tx[c].snap, r)
      BY <2>3 DEF Visible, Rows
    <3>2. Rows(table \cup tx[c].mine, r) = Rows(table, r)
      BY <2>3 DEF Rows
    <3>3. PICK n \in Nat : Filled(tx[c].snap, r, n)
      BY <1>1, <1>3 DEF TxGood, TxWhole, Whole
    <3>4. PICK m \in Nat : Filled(table, r, m)
      BY <1>3 DEF StoreGood, Whole
    <3>5. tx[c].snap \in SUBSET Row /\ table \in SUBSET Row /\ tx[c].snap \subseteq table
      BY <1>1 DEF TypeOK, Tx, TxGood, SnapHolds
    <3>6. Consecutive(tx[c].batch, r, n)
      <4>1. GetLastSequence(Visible(c), r) = GetLastSequence(tx[c].snap, r)
        BY <3>1, SameRows
      <4> QED
        BY <1>5, <3>3, <3>5, <4>1, FilledLast
    <3>7. PICK i \in 1 .. len : tx[c].batch[i].run = r /\ tx[c].batch[i].seq = n + 1
      <4>1. /\ Count(tx[c].batch, r, len) \in Nat /\ Count(tx[c].batch, r, len) > 0
            /\ \A k \in n + 1 .. n + Count(tx[c].batch, r, len) :
                 \E i \in 1 .. len : tx[c].batch[i].run = r /\ tx[c].batch[i].seq = k
        BY <1>2, <3>6, BatchNumbers
      <4>2. n + 1 \in n + 1 .. n + Count(tx[c].batch, r, len)
        BY <4>1
      <4> QED
        BY <4>1, <4>2
    <3>8. ASSUME Rows(tx[c].snap, r) # Rows(table, r) PROVE FALSE
      <4>1. PICK row \in Rows(table, r) : row.seq = n + 1
        BY <3>3, <3>4, <3>5, <3>8, SnapBehind
      <4>2. tx[c].batch[i] \in BatchRows(tx[c].batch) /\ row \in table \cup tx[c].mine
            /\ row.run = r
        BY <1>2, <4>1 DEF BatchRows, Rows
      <4>3. SameKey(BatchRows(tx[c].batch), table \cup tx[c].mine)
        BY <3>7, <4>1, <4>2 DEF SameKey
      <4> QED
        BY <4>3 DEF InsertBatch
    <3> QED
      BY <3>1, <3>2, <3>8
  <2> QED
    BY <2>1, <2>2, <2>3
<1>7. GetLastSequence(Visible(c), r) = GetLastSequence(table \cup tx[c].mine, r)
  BY <1>6, SameRows
<1> QED
  BY <1>3, <1>4, <1>5, <1>6, <1>7

\* A transaction that has inserted its batch is good.
LEMMA InsertKeeps ==
    ASSUME TypeOK, StoreGood, NEW c \in Callers, InsertBatch(c)
    PROVE  TxGood(c)'
<1>1. tx[c] \in Tx /\ TxGood(c) /\ table' = table /\ lock' = lock
  BY DEF TypeOK, StoreGood, InsertBatch
<1>2. PICK len \in Nat : tx[c].batch \in [1 .. len -> Row]
  BY <1>1, BatchTyped
<1>3. /\ tx'[c].pc = "open" /\ tx'[c].batch = <<>>
      /\ tx'[c].mine = tx[c].mine \cup BatchRows(tx[c].batch)
      /\ tx'[c].snap = tx[c].snap /\ tx'[c].todo = tx[c].todo
  BY <1>1 DEF TypeOK, Tx, InsertBatch
<1>4. table \cup tx[c].mine \in SUBSET Row
  BY <1>1 DEF TypeOK, Tx
<1>5. \A r \in Runs : r \notin BatchRuns(tx[c].batch) => Rows(BatchRows(tx[c].batch), r) = {}
  BY <1>2 DEF Rows, BatchRows, BatchRuns
<1>6. TxWhole(c)'
  <2> SUFFICES ASSUME NEW r \in Runs PROVE Whole(table \cup tx'[c].mine, r)
    BY <1>1, <1>3 DEF TxGood, TxWhole
  <2>1. PICK n \in Nat : Filled(table \cup tx[c].mine, r, n)
    BY <1>1 DEF TxGood, TxWhole, Whole
  <2>2. CASE r \in BatchRuns(tx[c].batch)
    <3>1. Consecutive(tx[c].batch, r, n)
      <4>1. GetLastSequence(table \cup tx[c].mine, r) = n
        BY <1>4, <2>1, FilledLast
      <4>2. Consecutive(tx[c].batch, r, GetLastSequence(table \cup tx[c].mine, r))
        BY <2>2, InsertSees
      <4> QED
        BY <4>1, <4>2
    <3>2. /\ Count(tx[c].batch, r, len) \in Nat
          /\ Filled((table \cup tx[c].mine) \cup BatchRows(tx[c].batch), r,
                    n + Count(tx[c].batch, r, len))
      BY <1>2, <1>4, <2>1, <3>1, BatchFills, CountStep
    <3>3. (table \cup tx[c].mine) \cup BatchRows(tx[c].batch) = table \cup tx'[c].mine
      BY <1>3
    <3>4. n + Count(tx[c].batch, r, len) \in Nat
      BY <3>2
    <3> QED
      BY <3>2, <3>3, <3>4 DEF Whole
  <2>3. CASE r \notin BatchRuns(tx[c].batch)
    <3>1. Rows(table \cup tx'[c].mine, r) = Rows(table \cup tx[c].mine, r)
      BY <1>3, <1>5, <2>3 DEF Rows
    <3> QED
      BY <1>1, <3>1, SameRows DEF TxGood, TxWhole
  <2> QED
    BY <2>2, <2>3
<1>7. BatchRuns(<<>>) = {}
  BY DEF BatchRuns
<1>8. \A r \in Runs : Rows(tx'[c].mine, r) # {} =>
         Rows(tx[c].mine, r) # {} \/ r \in BatchRuns(tx[c].batch)
  BY <1>3, <1>5 DEF Rows
<1>9. TxLocked(c)'
  BY <1>1, <1>3, <1>7, <1>8, InsertSees DEF TxGood, TxLocked
<1>10. SeenHolds(c)' /\ TxShape(c)'
  BY <1>3, <1>7 DEF SeenHolds, TxShape
<1>11. SnapHolds(c)'
  <2> SUFFICES ASSUME NEW r \in Runs, Rows(tx'[c].mine, r) # {}, c \in SnapshotCallers
               PROVE  Rows(tx[c].snap, r) = Rows(table, r)
    BY <1>1, <1>3 DEF TxGood, SnapHolds
  <2>1. CASE Rows(tx[c].mine, r) # {}
    BY <2>1, <1>1 DEF TxGood, SnapHolds
  <2>2. CASE Rows(tx[c].mine, r) = {} /\ r \in BatchRuns(tx[c].batch)
    <3>1. Rows(Visible(c), r) = Rows(table \cup tx[c].mine, r)
      BY <2>2, InsertSees
    <3>2. Rows(Visible(c), r) = Rows(tx[c].snap, r)
      BY <2>2 DEF Visible, Rows
    <3>3. Rows(table \cup tx[c].mine, r) = Rows(table, r)
      BY <2>2 DEF Rows
    <3> QED
      BY <3>1, <3>2, <3>3
  <2> QED
    BY <1>8, <2>1, <2>2
<1> QED
  BY <1>6, <1>9, <1>10, <1>11 DEF TxGood

\* The store starts good.
LEMMA InitGood == Init => TypeOK /\ StoreGood
<1> SUFFICES ASSUME Init PROVE TypeOK /\ StoreGood
  OBVIOUS
<1>1. TypeOK
  BY NoTxType DEF Init, TypeOK
<1>2. \A r \in Runs : Rows({}, r) = {}
  BY DEF Rows
<1>3. \A r \in Runs : Whole({}, r)
  BY <1>2 DEF Whole, Filled
<1>4. BatchRuns(<<>>) = {} /\ {} \cup {} = {}
  BY DEF BatchRuns
<1>5. ASSUME NEW c \in Callers PROVE TxGood(c)
  <2>1. table = {} /\ tx[c] = NoTx
    BY DEF Init
  <2>2. TxWhole(c)
    BY <1>3, <1>4, <2>1 DEF TxWhole, NoTx
  <2>3. TxLocked(c) /\ SnapHolds(c) /\ SeenHolds(c) /\ TxShape(c)
    BY <1>2, <1>4, <2>1 DEF TxLocked, SnapHolds, SeenHolds, TxShape, NoTx
  <2> QED
    BY <2>2, <2>3 DEF TxGood
<1> QED
  BY <1>1, <1>3, <1>5 DEF Init, StoreGood

\* Every step keeps the store good.
LEMMA NextGood == TypeOK /\ StoreGood /\ [Next]_vars => StoreGood'
<1> SUFFICES ASSUME TypeOK, StoreGood, [Next]_vars PROVE StoreGood'
  OBVIOUS
<1>0. \A d \in Callers : TxGood(d)
  BY DEF StoreGood
<1>1. CASE UNCHANGED vars
  <2>1. \A d \in Callers : TxGood(d)'
    BY <1>0, <1>1, FrameKeeps DEF vars
  <2> QED
    BY <1>1, <2>1 DEF vars, StoreGood
<1>2. ASSUME NEW c \in Callers, EndTx(c), table' = table PROVE StoreGood'
  <2>1. \A r \in Runs : Whole(table', r)
    BY <1>2 DEF StoreGood
  <2>2. TxGood(c)'
    BY <1>2, <2>1, EndKeeps
  <2>3. \A d \in Callers : d # c => TxGood(d)'
    BY <1>0, <1>2, EndFrame, FrameKeeps
  <2> QED
    BY <2>1, <2>2, <2>3 DEF StoreGood
<1>3. ASSUME NEW c \in Callers, Commit(c) PROVE StoreGood'
  <2>1. \A r \in Runs : Whole(table', r)
    BY <1>0, <1>3 DEF Commit, TxGood, TxWhole
  <2>2. TxGood(c)'
    BY <1>3, <2>1, EndKeeps DEF Commit
  <2>3. \A d \in Callers : d # c => TxGood(d)'
    BY <1>3, CommitKeeps
  <2> QED
    BY <2>1, <2>2, <2>3 DEF StoreGood
<1>4. ASSUME NEW c \in Callers, TxGood(c)', table' = table,
             \A d \in Callers : d # c =>
                tx'[d] = tx[d] /\ \A r \in Runs : lock[r] = d => lock'[r] = d
      PROVE  StoreGood'
  <2>1. \A d \in Callers : d # c => TxGood(d)'
    BY <1>0, <1>4, FrameKeeps
  <2> QED
    BY <1>4, <2>1 DEF StoreGood
<1>5. ASSUME NEW c \in Callers, BeginAppend(c) PROVE StoreGood'
  <2>1. TxGood(c)'
    BY <1>5, BeginKeeps
  <2>2. \A d \in Callers : d # c => tx'[d] = tx[d]
    BY <1>5 DEF BeginAppend, TypeOK
  <2>3. table' = table /\ lock' = lock
    BY <1>5 DEF BeginAppend
  <2> QED
    BY <1>4, <2>1, <2>2, <2>3
<1>6. ASSUME NEW c \in Callers, NEW r \in Runs, Validate(c, r) PROVE StoreGood'
  <2>1. TxGood(c)'
    BY <1>6, ValidateKeeps
  <2>2. \A d \in Callers : d # c =>
           tx'[d] = tx[d] /\ \A q \in Runs : lock[q] = d => lock'[q] = d
    BY <1>6, PgStoreAssumption DEF Validate, TypeOK
  <2>3. table' = table
    BY <1>6 DEF Validate
  <2> QED
    BY <1>4, <2>1, <2>2, <2>3
<1>7. ASSUME NEW c \in Callers, InsertBatch(c) PROVE StoreGood'
  <2>1. TxGood(c)'
    BY <1>7, InsertKeeps
  <2>2. \A d \in Callers : d # c => tx'[d] = tx[d]
    BY <1>7 DEF InsertBatch, TypeOK
  <2>3. table' = table /\ lock' = lock
    BY <1>7 DEF InsertBatch
  <2> QED
    BY <1>4, <2>1, <2>2, <2>3
<1>8. ASSUME NEW c \in Callers, NEW r \in Runs, Conflict(c, r) PROVE StoreGood'
  BY <1>2, <1>8 DEF Conflict
<1>9. ASSUME NEW c \in Callers, DuplicateKey(c) \/ Rollback(c) PROVE StoreGood'
  BY <1>2, <1>9 DEF DuplicateKey, Rollback
<1> QED
  BY <1>1, <1>3, <1>5, <1>6, <1>7, <1>8, <1>9 DEF Next

\* The types and the inductive invariant hold in every reachable state.
THEOREM StoreCorrect == Spec => [](TypeOK /\ StoreGood)
<1>1. Init => TypeOK /\ StoreGood
  BY InitGood
<1>2. (TypeOK /\ StoreGood) /\ [Next]_vars => (TypeOK /\ StoreGood)'
  BY NextTypeOK, NextGood
<1> QED
  BY <1>1, <1>2, PTL DEF Spec

-----------------------------------------------------------------------------
(* What follows from it.                                                   *)

\* The inductive invariant says what Gapless says.
LEMMA GoodIsGapless == TypeOK /\ StoreGood => Gapless
<1> SUFFICES ASSUME TypeOK, StoreGood, NEW r \in Runs
             PROVE  /\ {row.seq : row \in Rows(table, r)} = 1 .. Cardinality(Rows(table, r))
                    /\ \A x, y \in Rows(table, r) : x.seq = y.seq => x = y
  BY DEF Gapless
<1>1. PICK n \in Nat : Filled(table, r, n)
  BY DEF StoreGood, Whole
<1>2. Cardinality(Rows(table, r)) = n
  BY <1>1, FilledCard DEF TypeOK
<1> QED
  BY <1>1, <1>2 DEF Filled

\* Under READ COMMITTED a transaction sees the table and its own rows.
LEMMA GoodIsValidated == TypeOK /\ StoreGood => ValidatedHolds
<1> SUFFICES ASSUME TypeOK, StoreGood, NEW c \in Callers \ SnapshotCallers,
                    NEW r \in BatchRuns(tx[c].batch) \ tx[c].todo
             PROVE  Consecutive(tx[c].batch, r, GetLastSequence(table \cup tx[c].mine, r))
  BY DEF ValidatedHolds
<1>1. SeenHolds(c)
  BY DEF StoreGood, TxGood
<1>2. Visible(c) = table \cup tx[c].mine
  BY DEF Visible
<1> QED
  BY <1>1, <1>2 DEF SeenHolds

\* What follows the last row of a run is not in the table.
LEMMA GoodIsConflict == TypeOK /\ StoreGood => LoserSeesConflict
<1> SUFFICES ASSUME TypeOK, StoreGood, NEW c \in Callers \ SnapshotCallers,
                    tx[c].pc = "insert", SameKey(BatchRows(tx[c].batch), table)
             PROVE  FALSE
  BY DEF LoserSeesConflict
<1>1. tx[c] \in Tx /\ TxGood(c) /\ tx[c].todo = {}
  BY DEF TypeOK, StoreGood, TxGood, TxShape
<1>2. PICK len \in Nat : tx[c].batch \in [1 .. len -> Row]
  BY <1>1, BatchTyped
<1>3. PICK i \in 1 .. len, y \in table :
         tx[c].batch[i].run = y.run /\ tx[c].batch[i].seq = y.seq
  BY <1>2 DEF SameKey, BatchRows
<1> DEFINE r == tx[c].batch[i].run
<1>4. r \in Runs /\ r \in BatchRuns(tx[c].batch) \ tx[c].todo
  BY <1>1, <1>2 DEF BatchRuns, Row
<1>5. PICK n \in Nat : Filled(table \cup tx[c].mine, r, n)
  BY <1>1, <1>4 DEF TxGood, TxWhole, Whole
<1>6. Consecutive(tx[c].batch, r, n)
  <2>1. GetLastSequence(table \cup tx[c].mine, r) = n
    BY <1>1, <1>5, FilledLast DEF TypeOK, Tx
  <2>2. Visible(c) = table \cup tx[c].mine
    BY DEF Visible
  <2> QED
    BY <1>1, <1>4, <2>1, <2>2 DEF TxGood, SeenHolds
<1>7. Count(tx[c].batch, r, len) \in Nat
      /\ tx[c].batch[i].seq \in n + 1 .. n + Count(tx[c].batch, r, len)
  BY <1>2, <1>6, BatchNumbers
<1>8. y.seq \in 1 .. n
  BY <1>3, <1>5 DEF Filled, Rows
<1> QED
  BY <1>3, <1>7, <1>8

\* The store keeps its types.
THEOREM PgTypeCorrect == Spec => []TypeOK
  BY StoreCorrect, PTL

\* The committed log of each run is numbered 1, 2, 3, ... without a gap or a
\* duplicate, however transactions interleave and whichever read a snapshot
\* (AppendBatchTx: the advisory lock, the check of the sequences, UNIQUE).
THEOREM GaplessCorrect == Spec => []Gapless
  BY StoreCorrect, GoodIsGapless, PTL

\* Under READ COMMITTED what validateSequences found stays true until the
\* transaction ends.
THEOREM ValidatedCorrect == Spec => []ValidatedHolds
  BY StoreCorrect, GoodIsValidated, PTL

\* Under READ COMMITTED no caller whose sequences were validated meets the
\* UNIQUE constraint of a committed row.
THEOREM ConflictCorrect == Spec => []LoserSeesConflict
  BY StoreCorrect, GoodIsConflict, PTL

-----------------------------------------------------------------------------
(* The refinement of the abstract log.                                     *)

\* The writers of the rows of run r in S, by sequence number.
LogIn(S, r) ==
    [i \in 1 .. Cardinality(Rows(S, r)) |-> (CHOOSE row \in Rows(S, r) : row.seq = i).by]

\* The log of a run without a gap has an entry for every row, at its number.
LEMMA LogInShape ==
    ASSUME NEW S \in SUBSET Row, NEW r, NEW n \in Nat, Filled(S, r, n)
    PROVE  /\ LogIn(S, r) \in [1 .. n -> Callers]
           /\ \A row \in Rows(S, r) : row.seq \in 1 .. n /\ LogIn(S, r)[row.seq] = row.by
           /\ \A i \in 1 .. n : \E row \in Rows(S, r) : row.seq = i
<1>1. Cardinality(Rows(S, r)) = n
  BY FilledCard
<1>2. \A i \in 1 .. n : \E row \in Rows(S, r) : row.seq = i
  BY DEF Filled
<1>3. \A row \in Rows(S, r) : row.seq \in 1 .. n /\ row.by \in Callers
  <2>1. \A row \in Rows(S, r) : row.seq \in 1 .. n
    BY DEF Filled
  <2>2. \A row \in Rows(S, r) : row \in Row
    BY DEF Rows
  <2> QED
    BY <2>1, <2>2 DEF Row
<1>4. LogIn(S, r) = [i \in 1 .. n |-> (CHOOSE row \in Rows(S, r) : row.seq = i).by]
  BY <1>1 DEF LogIn
<1>5. \A i \in 1 .. n : LogIn(S, r)[i] = (CHOOSE row \in Rows(S, r) : row.seq = i).by
  BY <1>4
<1>6. \A i \in 1 .. n : /\ (CHOOSE row \in Rows(S, r) : row.seq = i) \in Rows(S, r)
                        /\ (CHOOSE row \in Rows(S, r) : row.seq = i).seq = i
  BY <1>2
<1>7. \A row \in Rows(S, r) : (CHOOSE x \in Rows(S, r) : x.seq = row.seq) = row
  BY <1>3, <1>6 DEF Filled
<1>8. LogIn(S, r) \in [1 .. n -> Callers]
  BY <1>3, <1>4, <1>6
<1>9. \A row \in Rows(S, r) : LogIn(S, r)[row.seq] = row.by
  BY <1>3, <1>5, <1>7
<1> QED
  BY <1>2, <1>3, <1>8, <1>9

\* Rows that are added to a log leave what is there.
LEMMA LogInExtends ==
    ASSUME NEW S \in SUBSET Row, NEW T \in SUBSET Row, S \subseteq T, NEW r,
           Whole(S, r), Whole(T, r)
    PROVE  Log!Extends(LogIn(T, r), LogIn(S, r))
<1>1. PICK n \in Nat : Filled(S, r, n)
  BY DEF Whole
<1>2. PICK m \in Nat : Filled(T, r, m)
  BY DEF Whole
<1>3. /\ LogIn(S, r) \in [1 .. n -> Callers]
      /\ \A row \in Rows(S, r) : row.seq \in 1 .. n /\ LogIn(S, r)[row.seq] = row.by
      /\ \A i \in 1 .. n : \E row \in Rows(S, r) : row.seq = i
  BY <1>1, LogInShape
<1>4. /\ LogIn(T, r) \in [1 .. m -> Callers]
      /\ \A row \in Rows(T, r) : row.seq \in 1 .. m /\ LogIn(T, r)[row.seq] = row.by
  BY <1>2, LogInShape
<1>5. Rows(S, r) \subseteq Rows(T, r)
  BY DEF Rows
<1>6. \A i \in 1 .. n : i \in 1 .. m /\ LogIn(T, r)[i] = LogIn(S, r)[i]
  BY <1>3, <1>4, <1>5
<1>7. n <= m
  BY <1>6
<1>8. LogIn(S, r) \in Seq(Callers) /\ LogIn(T, r) \in Seq(Callers)
  BY <1>3, <1>4
<1>9. Len(LogIn(S, r)) = n /\ Len(LogIn(T, r)) = m
  BY <1>3, <1>4, <1>8
<1>10. SubSeq(LogIn(T, r), 1, n) = LogIn(S, r)
  <2>1. SubSeq(LogIn(T, r), 1, n) = [i \in 1 .. n |-> LogIn(T, r)[i]]
    BY <1>7, <1>8, <1>9
  <2> QED
    BY <1>3, <1>6, <2>1
<1> QED
  BY <1>7, <1>8, <1>9, <1>10 DEF Log!Extends

\* No step takes a row away.
LEMMA TableGrows == [Next]_vars => table \subseteq table'
  BY DEF Next, vars, BeginAppend, Validate, Conflict, InsertBatch, DuplicateKey, Commit,
     Rollback

\* The store implements the abstract event log: a step adds whole batches at the
\* end of logs, and changes nothing that a reader has loaded.
THEOREM EventLogCorrect == Spec => ImplementsEventLog
<1> DEFINE L == [r \in Runs |-> LogOf(r)]
<1>1. Init => Log!Init
  <2> SUFFICES ASSUME Init PROVE L = [r \in Runs |-> <<>>]
    BY DEF Log!Init
  <2>1. \A r \in Runs : Rows(table, r) = {}
    BY DEF Init, Rows
  <2>2. \A r \in Runs : LogOf(r) = <<>>
    BY <2>1, FS_EmptySet DEF LogOf
  <2> QED
    BY <2>2
<1>2. (TypeOK /\ StoreGood) /\ (TypeOK /\ StoreGood)' /\ [Next]_vars => Log!AppendBatch
  <2> SUFFICES ASSUME TypeOK, StoreGood, TypeOK', StoreGood', [Next]_vars
               PROVE  Log!AppendBatch
    OBVIOUS
  <2>1. \A r \in Runs : LogOf(r) = LogIn(table, r) /\ LogOf(r)' = LogIn(table', r)
    BY DEF LogOf, LogIn
  <2>2. ASSUME NEW r \in Runs PROVE Log!Extends(LogIn(table', r), LogIn(table, r))
    <3>1. Whole(table, r) /\ Whole(table', r)
      BY DEF StoreGood
    <3> QED
      BY <3>1, TableGrows, LogInExtends DEF TypeOK
  <2>3. DOMAIN L' = Runs /\ \A r \in Runs : L'[r] = LogIn(table', r) /\ L[r] = LogIn(table, r)
    BY <2>1
  <2> QED
    BY <2>2, <2>3 DEF Log!AppendBatch
<1> QED
  BY <1>1, <1>2, StoreCorrect, PTL DEF Spec, ImplementsEventLog, Log!Spec

-----------------------------------------------------------------------------
(* The refinement of the in-memory store.                                  *)

\* A set of positions that has the first one, and with each the next.
LEMMA AllPositions ==
    ASSUME NEW n \in Nat, NEW T, 0 \in T, \A i \in 1 .. n : i - 1 \in T => i \in T
    PROVE  \A i \in 0 .. n : i \in T
<1> DEFINE missing == {i \in 0 .. n : i \notin T}
<1>1. missing = {}
  <2> SUFFICES ASSUME missing # {} PROVE FALSE
    OBVIOUS
  <2>1. PICK i \in missing : \A j \in missing : i <= j
    <3>1. missing \subseteq Nat
      OBVIOUS
    <3> HIDE DEF missing
    <3> QED
      BY <3>1, LeastNumber
  <2>2. i \in 1 .. n /\ i - 1 \in 0 .. n /\ ~(i <= i - 1)
    OBVIOUS
  <2> QED
    BY <2>1, <2>2
<1> QED
  BY <1>1

\* A sequence is a function on its positions.
LEMMA SeqIsFunction ==
    ASSUME NEW R, NEW q \in Seq(R), NEW n \in Nat, Len(q) = n
    PROVE  q \in [1 .. n -> R]
  OBVIOUS

\* Rows by their sequence numbers, and so the rows of run r in S.
InOrder(R) == [i \in 1 .. Cardinality(R) |-> CHOOSE row \in R : row.seq = i]

RowLog(S, r) == InOrder(Rows(S, r))

\* The log of a run without a gap has every row at its number.
LEMMA RowLogShape ==
    ASSUME NEW S \in SUBSET Row, NEW r, NEW n \in Nat, Filled(S, r, n)
    PROVE  /\ RowLog(S, r) \in [1 .. n -> Row]
           /\ \A row \in Rows(S, r) : row.seq \in 1 .. n /\ RowLog(S, r)[row.seq] = row
           /\ \A i \in 1 .. n : \E row \in Rows(S, r) : row.seq = i
<1>1. Cardinality(Rows(S, r)) = n
  BY FilledCard
<1>2. \A i \in 1 .. n : \E row \in Rows(S, r) : row.seq = i
  BY DEF Filled
<1>3. \A row \in Rows(S, r) : row.seq \in 1 .. n /\ row \in Row
  BY DEF Filled, Rows
<1>4. RowLog(S, r) = [i \in 1 .. n |-> CHOOSE row \in Rows(S, r) : row.seq = i]
  BY <1>1 DEF RowLog, InOrder
<1>5. \A i \in 1 .. n : /\ (CHOOSE row \in Rows(S, r) : row.seq = i) \in Rows(S, r)
                        /\ (CHOOSE row \in Rows(S, r) : row.seq = i).seq = i
  BY <1>2
<1>6. \A row \in Rows(S, r) : (CHOOSE x \in Rows(S, r) : x.seq = row.seq) = row
  BY <1>3, <1>5 DEF Filled
<1>7. RowLog(S, r) \in [1 .. n -> Row]
  BY <1>3, <1>4, <1>5
<1>8. \A row \in Rows(S, r) : RowLog(S, r)[row.seq] = row
  BY <1>3, <1>4, <1>6
<1> QED
  BY <1>2, <1>3, <1>7, <1>8

\* A row with the next number of its run makes the log of that run longer by one
\* and leaves the others.
LEMMA RowLogAppend ==
    ASSUME NEW S \in SUBSET Row, NEW e \in Row, NEW r, NEW n \in Nat, Filled(S, r, n),
           e.run = r => e.seq = n + 1
    PROVE  /\ Filled(S \cup {e}, r, IF e.run = r THEN n + 1 ELSE n)
           /\ RowLog(S \cup {e}, r) = IF e.run = r THEN Append(RowLog(S, r), e) ELSE RowLog(S, r)
<1>1. CASE e.run # r
  <2>1. Rows(S \cup {e}, r) = Rows(S, r)
    BY <1>1 DEF Rows
  <2>2. Filled(S \cup {e}, r, n)
    BY <2>1 DEF Filled
  <2>3. RowLog(S \cup {e}, r) = RowLog(S, r)
    BY <2>1 DEF RowLog
  <2> QED
    BY <1>1, <2>2, <2>3
<1>2. CASE e.run = r
  <2> DEFINE T == S \cup {e}
  <2>1. Rows(T, r) = Rows(S, r) \cup {e} /\ e.seq = n + 1 /\ T \in SUBSET Row
    BY <1>2 DEF Rows
  <2>2. /\ {row.seq : row \in Rows(S, r)} = 1 .. n
        /\ \A x, y \in Rows(S, r) : x.seq = y.seq => x = y
    BY DEF Filled
  <2>3. \A row \in Rows(S, r) : row.seq \in 1 .. n /\ row.seq # n + 1
    BY <2>2
  <2> HIDE DEF T
  <2>4. {row.seq : row \in Rows(T, r)} = 1 .. n + 1
    <3>1. \A row \in Rows(T, r) : row.seq \in 1 .. n + 1
      BY <2>1, <2>3
    <3>2. \A i \in 1 .. n : \E row \in Rows(S, r) : row.seq = i
      BY <2>2
    <3>3. \A i \in 1 .. n + 1 : i = n + 1 \/ i \in 1 .. n
      OBVIOUS
    <3>4. \A i \in 1 .. n + 1 : \E row \in Rows(T, r) : row.seq = i
      BY <2>1, <3>2, <3>3
    <3> QED
      BY <3>1, <3>4
  <2>5. \A x, y \in Rows(T, r) : x.seq = y.seq => x = y
    BY <2>1, <2>2, <2>3
  <2>6. Filled(T, r, n + 1)
    BY <2>4, <2>5 DEF Filled
  <2>7. /\ RowLog(S, r) \in [1 .. n -> Row]
        /\ \A row \in Rows(S, r) : row.seq \in 1 .. n /\ RowLog(S, r)[row.seq] = row
        /\ \A i \in 1 .. n : \E row \in Rows(S, r) : row.seq = i
    BY RowLogShape
  <2>8. /\ RowLog(T, r) \in [1 .. n + 1 -> Row]
        /\ \A row \in Rows(T, r) : RowLog(T, r)[row.seq] = row
    <3> DEFINE m == n + 1
    <3>1. m \in Nat /\ Filled(T, r, m) /\ T \in SUBSET Row
      BY <2>1, <2>6
    <3> HIDE DEF m
    <3>2. /\ RowLog(T, r) \in [1 .. m -> Row]
          /\ \A row \in Rows(T, r) : row.seq \in 1 .. m /\ RowLog(T, r)[row.seq] = row
      BY <3>1, RowLogShape, ZenonT(60)
    <3> QED
      BY <3>2 DEF m
  <2>9. \A i \in 1 .. n : RowLog(T, r)[i] = RowLog(S, r)[i]
    BY <2>1, <2>7, <2>8
  <2>10. RowLog(T, r)[n + 1] = e
    BY <2>1, <2>8
  <2>11. RowLog(S, r) \in Seq(Row) /\ Len(RowLog(S, r)) = n
    BY <2>7
  <2>12. RowLog(T, r) = Append(RowLog(S, r), e)
    <3>1. Append(RowLog(S, r), e) \in Seq(Row) /\ Len(Append(RowLog(S, r), e)) = n + 1
      BY <2>11
    <3>2. n + 1 \in Nat
      OBVIOUS
    <3>3. Append(RowLog(S, r), e) \in [1 .. n + 1 -> Row]
      BY <3>1, <3>2, SeqIsFunction, Zenon
    <3>4. \A i \in 1 .. n + 1 :
             Append(RowLog(S, r), e)[i] = IF i = n + 1 THEN e ELSE RowLog(S, r)[i]
      BY <2>11
    <3>5. \A i \in 1 .. n + 1 : i = n + 1 \/ i \in 1 .. n
      OBVIOUS
    <3>6. \A i \in 1 .. n + 1 : RowLog(T, r)[i] = Append(RowLog(S, r), e)[i]
      BY <2>9, <2>10, <3>4, <3>5
    <3> QED
      BY <2>8, <3>6, <3>3
  <2> QED
    BY <1>2, <2>6, <2>12 DEF T
<1> QED
  BY <1>1, <1>2

\* The count at an event and before it.
LEMMA CountBefore ==
    ASSUME NEW b, NEW r, NEW len \in Nat, NEW i \in 1 .. len
    PROVE  /\ Count(b, r, i - 1) \in Nat
           /\ Count(b, r, i) = Count(b, r, i - 1) + (IF b[i].run = r THEN 1 ELSE 0)
<1>1. i - 1 \in Nat /\ (i - 1) + 1 = i
  OBVIOUS
<1>2. Count(b, r, (i - 1) + 1) = Count(b, r, i - 1) + (IF b[(i - 1) + 1].run = r THEN 1 ELSE 0)
  BY <1>1, CountStep
<1> QED
  BY <1>1, <1>2, CountStep

\* The rows of the first i events of a batch.
FirstRows(b, i) == {b[j] : j \in 1 .. i}

\* The logs of the rows of S and the first i events of b, of every run.
LogsAt(S, b, i) == [r \in Runs |-> RowLog(S \cup FirstRows(b, i), r)]

\* The logs at each event of b are those before it with the event at the end.
LogsGoOn(S, b, len) ==
    /\ LogsAt(S, b, 0) = [r \in Runs |-> RowLog(S, r)]
    /\ \A i \in 1 .. len :
          LogsAt(S, b, i) = [LogsAt(S, b, i - 1) EXCEPT ![b[i].run] = Append(@, b[i])]

\* A batch whose events of every run go on from the logs in S: each event is the
\* next of its run when those before it are stored.
LEMMA LogsStep ==
    ASSUME NEW S \in SUBSET Row, \A r \in Runs : Whole(S, r),
           NEW len \in Nat, NEW b \in [1 .. len -> Row],
           \A r \in Runs : Consecutive(b, r, GetLastSequence(S, r))
    PROVE  LogsGoOn(S, b, len)
<1> DEFINE At(i) == S \cup FirstRows(b, i)
           last(r) == GetLastSequence(S, r)
           Good(i) == \A r \in Runs : Filled(At(i), r, last(r) + Count(b, r, i))
           T == {i \in 0 .. len : Good(i)}
<1>0. ASSUME NEW r \in Runs PROVE last(r) \in Nat /\ Filled(S, r, last(r))
  <2>1. PICK n \in Nat : Filled(S, r, n)
    BY DEF Whole
  <2> QED
    BY <2>1, FilledLast
<1>1. At(0) = S /\ \A i \in 0 .. len : At(i) \in SUBSET Row
  BY DEF FirstRows
<1>2. ASSUME NEW i \in 1 .. len PROVE At(i) = At(i - 1) \cup {b[i]} /\ b[i] \in Row /\ i - 1 \in Nat
  BY DEF FirstRows
<1>3. ASSUME NEW r \in Runs, NEW i \in 1 .. len
      PROVE  /\ Count(b, r, i - 1) \in Nat
             /\ Count(b, r, i) = Count(b, r, i - 1) + (IF b[i].run = r THEN 1 ELSE 0)
  BY CountBefore
<1>4. ASSUME NEW r \in Runs, NEW i \in 1 .. len
      PROVE  b[i].run = r => b[i].seq = last(r) + Count(b, r, i)
  BY DEF Consecutive, Count
<1> HIDE DEF At, last
<1>5. ASSUME NEW i \in 1 .. len, Good(i - 1), NEW r \in Runs
      PROVE  /\ Filled(At(i), r, last(r) + Count(b, r, i))
             /\ RowLog(At(i), r) = IF b[i].run = r THEN Append(RowLog(At(i - 1), r), b[i])
                                   ELSE RowLog(At(i - 1), r)
  <2> DEFINE n == last(r) + Count(b, r, i - 1)
  <2>1. Filled(At(i - 1), r, n)
    BY <1>5
  <2>2. /\ n \in Nat
        /\ last(r) + Count(b, r, i) = IF b[i].run = r THEN n + 1 ELSE n
    BY <1>0, <1>3
  <2>3. b[i].run = r => b[i].seq = n + 1
    BY <1>4, <2>2
  <2>4. At(i - 1) \in SUBSET Row /\ b[i] \in Row /\ At(i) = At(i - 1) \cup {b[i]}
    <3>1. i - 1 \in 0 .. len
      OBVIOUS
    <3> QED
      BY <1>1, <1>2, <3>1
  <2> HIDE DEF n
  <2>5. /\ Filled(At(i - 1) \cup {b[i]}, r, IF b[i].run = r THEN n + 1 ELSE n)
        /\ RowLog(At(i - 1) \cup {b[i]}, r) =
              IF b[i].run = r THEN Append(RowLog(At(i - 1), r), b[i]) ELSE RowLog(At(i - 1), r)
    BY <2>1, <2>2, <2>3, <2>4, RowLogAppend
  <2> QED
    BY <2>2, <2>4, <2>5
<1>6. \A i \in 0 .. len : Good(i)
  <2>1. 0 \in T
    <3> SUFFICES ASSUME NEW r \in Runs PROVE Filled(At(0), r, last(r) + Count(b, r, 0))
      OBVIOUS
    <3>1. Count(b, r, 0) = 0
      BY CountStep
    <3>2. last(r) + 0 = last(r)
      BY <1>0
    <3> QED
      BY <1>0, <1>1, <3>1, <3>2
  <2>2. ASSUME NEW i \in 1 .. len, i - 1 \in T PROVE i \in T
    <3>1. Good(i - 1)
      BY <2>2
    <3>2. Good(i)
      BY <1>5, <3>1
    <3> HIDE DEF Good
    <3> QED
      BY <3>2
  <2> HIDE DEF T
  <2>3. \A i \in 0 .. len : i \in T
    BY <2>1, <2>2, AllPositions
  <2> HIDE DEF Good
  <2> QED
    BY <2>3 DEF T
<1>7. LogsAt(S, b, 0) = [r \in Runs |-> RowLog(S, r)]
  BY <1>1 DEF LogsAt, At
<1>8. ASSUME NEW i \in 1 .. len
      PROVE  LogsAt(S, b, i) = [LogsAt(S, b, i - 1) EXCEPT ![b[i].run] = Append(@, b[i])]
  <2>1. Good(i - 1)
    <3>1. i - 1 \in 0 .. len
      OBVIOUS
    <3> HIDE DEF Good
    <3> QED
      BY <1>6, <3>1
  <2>2. \A r \in Runs : RowLog(At(i), r) = IF b[i].run = r THEN Append(RowLog(At(i - 1), r), b[i])
                                           ELSE RowLog(At(i - 1), r)
    BY <1>5, <2>1
  <2>3. /\ LogsAt(S, b, i) = [r \in Runs |-> RowLog(At(i), r)]
        /\ LogsAt(S, b, i - 1) = [r \in Runs |-> RowLog(At(i - 1), r)]
    BY DEF LogsAt, At
  <2> HIDE DEF Good
  <2> QED
    BY <2>2, <2>3
<1> QED
  BY <1>7, <1>8 DEF LogsGoOn

\* The two modules count alike.
LEMMA SameCardinality == \A S : Memory!Cardinality(S) = Cardinality(S)
  BY DEF Memory!Cardinality, Cardinality

\* A batch that goes on from the logs of the table is valid to the in-memory store,
\* whose loop leaves the logs of the table with the rows of the batch.
LEMMA MemoryAppends ==
    ASSUME TypeOK, \A r \in Runs : Whole(table, r),
           NEW len \in Nat, NEW b \in [1 .. len -> Row],
           \A r \in Runs : Consecutive(b, r, GetLastSequence(table, r))
    PROVE  /\ Memory!Valid(b)
           /\ Memory!Appended(b) = [r \in Runs |-> RowLog(table \cup BatchRows(b), r)]
<1>0. \A r \in Runs : Load(r) = RowLog(table, r)
  BY DEF Load, RowLog, InOrder
<1>1. b \in Seq(Row) /\ Len(b) = len /\ DOMAIN b = 1 .. len
  OBVIOUS
<1>2. \A r \in Runs : Len(Load(r)) = GetLastSequence(table, r)
  <2> SUFFICES ASSUME NEW r \in Runs PROVE Len(Load(r)) = GetLastSequence(table, r)
    OBVIOUS
  <2>1. PICK n \in Nat : Filled(table, r, n)
    BY DEF Whole
  <2>2. GetLastSequence(table, r) = n
    BY <2>1, FilledLast DEF TypeOK
  <2>3. RowLog(table, r) \in [1 .. n -> Row]
    BY <2>1, RowLogShape DEF TypeOK
  <2> QED
    BY <1>0, <2>2, <2>3
<1>3. Memory!Valid(b)
  <2> SUFFICES ASSUME NEW i \in 1 .. len
               PROVE  b[i].seq = Memory!GetLastSequence(b[i].run)
                                   + Cardinality({j \in 1 .. i : b[j].run = b[i].run})
    BY <1>1, SameCardinality DEF Memory!Valid
  <2>1. b[i].run \in Runs
    BY DEF Row
  <2>2. Memory!GetLastSequence(b[i].run) = GetLastSequence(table, b[i].run)
    BY <1>2, <2>1 DEF Memory!GetLastSequence
  <2> QED
    BY <1>1, <2>1, <2>2 DEF Consecutive
<1> DEFINE logs == [r \in Runs |-> Load(r)]
           Step(f, i) == IF i = 0 THEN logs
                         ELSE [f[i - 1] EXCEPT ![b[i].run] = Append(@, b[i])]
           Is(f) == f = [i \in 0 .. len |-> Step(f, i)]
           g == [i \in 0 .. len |-> LogsAt(table, b, i)]
<1>4. Is(g)
  <2>0. LogsGoOn(table, b, len)
    BY LogsStep DEF TypeOK
  <2>1. LogsAt(table, b, 0) = logs
    BY <1>0, <2>0 DEF LogsGoOn
  <2>2. \A i \in 1 .. len :
           LogsAt(table, b, i) = [LogsAt(table, b, i - 1) EXCEPT ![b[i].run] = Append(@, b[i])]
    BY <2>0 DEF LogsGoOn
  <2>3. ASSUME NEW i \in 0 .. len PROVE g[i] = Step(g, i)
    <3>1. CASE i = 0
      BY <2>1, <3>1
    <3>2. CASE i # 0
      <4>1. i \in 1 .. len /\ i - 1 \in 0 .. len
        BY <3>2
      <4>2. g[i] = LogsAt(table, b, i) /\ g[i - 1] = LogsAt(table, b, i - 1)
        BY <4>1
      <4> HIDE DEF g
      <4> QED
        BY <2>2, <3>2, <4>1, <4>2
    <3> QED
      BY <3>1, <3>2
  <2>4. g = [i \in 0 .. len |-> g[i]]
    OBVIOUS
  <2> HIDE DEF g, Step
  <2> QED
    BY <2>3, <2>4
<1>5. ASSUME NEW f, Is(f) PROVE f = g
  <2> DEFINE T == {i \in 0 .. len : f[i] = g[i]}
  <2>1. f = [i \in 0 .. len |-> f[i]] /\ g = [i \in 0 .. len |-> g[i]]
    <3>1. DOMAIN f = 0 .. len
      BY <1>5
    <3> QED
      BY <1>5
  <2>2. \A i \in 0 .. len : f[i] = Step(f, i) /\ g[i] = Step(g, i)
    <3> HIDE DEF g, Step
    <3> QED
      BY <1>4, <1>5
  <2> HIDE DEF g
  <2>3. 0 \in T
    <3>1. Step(f, 0) = Step(g, 0) /\ 0 \in 0 .. len
      OBVIOUS
    <3> HIDE DEF Step
    <3> QED
      BY <2>2, <3>1
  <2>4. ASSUME NEW i \in 1 .. len, i - 1 \in T PROVE i \in T
    <3>1. f[i - 1] = g[i - 1] /\ i # 0 /\ i \in 0 .. len
      BY <2>4
    <3>2. Step(f, i) = Step(g, i)
      BY <3>1
    <3> HIDE DEF Step
    <3> QED
      BY <2>2, <3>1, <3>2
  <2> HIDE DEF T
  <2>5. \A i \in 0 .. len : i \in T
    BY <2>3, <2>4, AllPositions
  <2>6. \A i \in 0 .. len : f[i] = g[i]
    BY <2>5 DEF T
  <2> HIDE DEF Is
  <2> QED
    BY <2>1, <2>6
<1>6. (CHOOSE f : Is(f)) = g
  <2> HIDE DEF Is, g
  <2> QED
    BY <1>4, <1>5
<1>7. Memory!Appended(b) = g[len]
  <2>1. Memory!Appended(b) = (CHOOSE f : Is(f))[len]
    BY <1>1 DEF Memory!Appended
  <2> QED
    BY <1>6, <2>1
<1>8. FirstRows(b, len) = BatchRows(b) /\ len \in 0 .. len
  BY <1>1 DEF FirstRows, BatchRows
<1> QED
  BY <1>3, <1>7, <1>8 DEF LogsAt

-----------------------------------------------------------------------------
(* The rows of a transaction as one batch: its batches one after another.  *)

\* The rows m are those of a batch that goes on from the logs of S.
OneBatch(S, m) ==
    \E len \in Nat : \E b \in [1 .. len -> Row] :
        /\ BatchRows(b) = m
        /\ \A r \in Runs : Consecutive(b, r, GetLastSequence(S, r))

Batched == \A c \in Callers : OneBatch(table, tx[c].mine)

\* Two batches, one after the other.
Joined(b, k, e, l) == [i \in 1 .. k + l |-> IF i <= k THEN b[i] ELSE e[i - k]]

\* The counts of the second batch go on from those of the first.
LEMMA CountJoined ==
    ASSUME NEW k \in Nat, NEW l \in Nat, NEW b, NEW e, NEW r
    PROVE  /\ \A i \in 0 .. k : Count(Joined(b, k, e, l), r, i) = Count(b, r, i)
           /\ \A i \in 0 .. l : Count(Joined(b, k, e, l), r, k + i) = Count(b, r, k) + Count(e, r, i)
<1> DEFINE d == Joined(b, k, e, l)
<1>1. \A i \in 1 .. k : d[i] = b[i]
  BY DEF Joined
<1>2. \A i \in 1 .. l : k + i \in 1 .. k + l /\ d[k + i] = e[i]
  BY DEF Joined
<1> HIDE DEF d
<1>3. ASSUME NEW i \in 0 .. k PROVE Count(d, r, i) = Count(b, r, i)
  <2>1. {j \in 1 .. i : d[j].run = r} = {j \in 1 .. i : b[j].run = r}
    BY <1>1
  <2> QED
    BY <2>1 DEF Count
<1> DEFINE T == {i \in 0 .. l : Count(d, r, k + i) = Count(b, r, k) + Count(e, r, i)}
<1>4. 0 \in T
  <2>1. Count(e, r, 0) = 0 /\ Count(b, r, k) \in Nat /\ k + 0 = k /\ Count(d, r, k) = Count(b, r, k)
    BY <1>3, CountStep
  <2> QED
    BY <2>1
<1>5. ASSUME NEW i \in 1 .. l, i - 1 \in T PROVE i \in T
  <2>1. /\ Count(e, r, i - 1) \in Nat
        /\ Count(e, r, i) = Count(e, r, i - 1) + (IF e[i].run = r THEN 1 ELSE 0)
    BY CountBefore
  <2> DEFINE m == k + i
             n == k + l
  <2>2. n \in Nat /\ m \in 1 .. n /\ m - 1 = k + (i - 1)
    OBVIOUS
  <2>3. d[m] = e[i]
    BY <1>2
  <2>4. Count(d, r, k + (i - 1)) = Count(b, r, k) + Count(e, r, i - 1)
    BY <1>5
  <2> HIDE DEF m, n
  <2>5. Count(d, r, m) = Count(d, r, m - 1) + (IF d[m].run = r THEN 1 ELSE 0)
    <3> HIDE DEF T
    <3>1. n \in Nat /\ m \in 1 .. n
      BY <2>2
    <3>2. \A x \in 1 .. n : Count(d, r, x) = Count(d, r, x - 1) + (IF d[x].run = r THEN 1 ELSE 0)
      BY <3>1, CountBefore, ZenonT(60)
    <3> QED
      BY <3>1, <3>2
  <2>6. Count(b, r, k) \in Nat
    BY CountStep
  <2>7. Count(d, r, m) = Count(b, r, k) + Count(e, r, i)
    BY <2>1, <2>2, <2>3, <2>4, <2>5, <2>6
  <2> QED
    BY <2>7 DEF m
<1>6. \A i \in 0 .. l : i \in T
  <2> HIDE DEF T
  <2> QED
    BY <1>4, <1>5, AllPositions
<1> QED
  BY <1>3, <1>6 DEF d

\* A batch that goes on from where the first one ends goes on from its beginning.
LEMMA JoinedConsecutive ==
    ASSUME NEW k \in Nat, NEW l \in Nat, NEW b \in [1 .. k -> Row], NEW e \in [1 .. l -> Row],
           NEW r, NEW n \in Nat, Consecutive(b, r, n), Consecutive(e, r, n + Count(b, r, k))
    PROVE  Consecutive(Joined(b, k, e, l), r, n)
<1> DEFINE d == Joined(b, k, e, l)
<1>1. DOMAIN d = 1 .. k + l /\ DOMAIN b = 1 .. k /\ DOMAIN e = 1 .. l
  BY DEF Joined
<1>2. \A i \in 1 .. k + l : d[i] = IF i <= k THEN b[i] ELSE e[i - k]
  BY DEF Joined
<1>3. /\ \A i \in 0 .. k : Count(d, r, i) = Count(b, r, i)
      /\ \A i \in 0 .. l : Count(d, r, k + i) = Count(b, r, k) + Count(e, r, i)
  BY CountJoined
<1> HIDE DEF d
<1>4. /\ \A i \in 1 .. k : b[i].run = r => b[i].seq = n + Count(b, r, i)
      /\ \A i \in 1 .. l : e[i].run = r => e[i].seq = n + Count(b, r, k) + Count(e, r, i)
  BY <1>1 DEF Consecutive, Count
<1>5. ASSUME NEW i \in 1 .. k + l, d[i].run = r PROVE d[i].seq = n + Count(d, r, i)
  <2>1. CASE i <= k
    <3>1. i \in 1 .. k /\ i \in 0 .. k
      BY <2>1
    <3> QED
      BY <1>2, <1>3, <1>4, <1>5, <2>1, <3>1
  <2>2. CASE ~(i <= k)
    <3> DEFINE j == i - k
    <3>1. j \in 1 .. l /\ j \in 0 .. l /\ k + j = i
      BY <2>2
    <3>2. d[i] = e[j]
      BY <1>2, <2>2
    <3> HIDE DEF j
    <3>3. Count(d, r, i) = Count(b, r, k) + Count(e, r, j)
      BY <1>3, <3>1
    <3>4. e[j].seq = n + Count(b, r, k) + Count(e, r, j)
      BY <1>4, <1>5, <3>1, <3>2
    <3>5. Count(b, r, k) \in Nat /\ Count(e, r, j) \in Nat
      <4>1. j \in Nat
        BY <3>1
      <4>2. \A i1 \in Nat : Count(b, r, i1) \in Nat /\ Count(e, r, i1) \in Nat
        BY CountStep
      <4> QED
        BY <4>1, <4>2
    <3> QED
      BY <3>2, <3>3, <3>4, <3>5
  <2> QED
    BY <2>1, <2>2
<1> QED
  BY <1>1, <1>5 DEF Consecutive, Count, d

\* The rows of both batches.
LEMMA JoinedRows ==
    ASSUME NEW k \in Nat, NEW l \in Nat, NEW b \in [1 .. k -> Row], NEW e \in [1 .. l -> Row]
    PROVE  /\ Joined(b, k, e, l) \in [1 .. k + l -> Row]
           /\ BatchRows(Joined(b, k, e, l)) = BatchRows(b) \cup BatchRows(e)
<1> DEFINE d == Joined(b, k, e, l)
<1>1. ASSUME NEW i \in 1 .. k + l
      PROVE  d[i] = (IF i <= k THEN b[i] ELSE e[i - k]) /\ (i <= k \/ i - k \in 1 .. l)
  BY DEF Joined
<1>2. \A i \in 1 .. k + l : d[i] \in Row /\ d[i] \in BatchRows(b) \cup BatchRows(e)
  <2> SUFFICES ASSUME NEW i \in 1 .. k + l
               PROVE  d[i] \in Row /\ d[i] \in BatchRows(b) \cup BatchRows(e)
    OBVIOUS
  <2>1. CASE i <= k
    <3>1. i \in 1 .. k /\ d[i] = b[i]
      BY <1>1, <2>1
    <3> QED
      BY <3>1 DEF BatchRows
  <2>2. CASE ~(i <= k)
    <3>1. i - k \in 1 .. l /\ d[i] = e[i - k]
      BY <1>1, <2>2
    <3> QED
      BY <3>1 DEF BatchRows
  <2> QED
    BY <2>1, <2>2
<1>3. d = [i \in 1 .. k + l |-> d[i]]
  BY DEF Joined
<1>4. \A i \in 1 .. k : i \in 1 .. k + l /\ d[i] = b[i]
  BY <1>1
<1>5. \A i \in 1 .. l : k + i \in 1 .. k + l /\ d[k + i] = e[i]
  BY DEF Joined
<1> HIDE DEF d
<1>6. d \in [1 .. k + l -> Row]
  BY <1>2, <1>3
<1>7. BatchRows(d) = {d[i] : i \in 1 .. k + l}
  BY <1>6 DEF BatchRows
<1>8. BatchRows(b) \cup BatchRows(e) \subseteq BatchRows(d)
  BY <1>4, <1>5, <1>7 DEF BatchRows
<1>9. BatchRows(d) \subseteq BatchRows(b) \cup BatchRows(e)
  BY <1>2, <1>7
<1> QED
  BY <1>6, <1>8, <1>9 DEF d

\* A transaction's rows stay one batch while the logs of their runs stay.
LEMMA OneBatchFrame ==
    ASSUME NEW S, NEW T, NEW m, OneBatch(S, m),
           \A r \in Runs : Rows(m, r) # {} => Rows(S, r) = Rows(T, r)
    PROVE  OneBatch(T, m)
<1>0. PICK len \in Nat : \E b \in [1 .. len -> Row] :
         BatchRows(b) = m /\ \A r \in Runs : Consecutive(b, r, GetLastSequence(S, r))
  BY DEF OneBatch
<1>1. PICK b \in [1 .. len -> Row] :
         BatchRows(b) = m /\ \A r \in Runs : Consecutive(b, r, GetLastSequence(S, r))
  BY <1>0
<1>2. ASSUME NEW r \in Runs PROVE Consecutive(b, r, GetLastSequence(T, r))
  <2>1. CASE Rows(m, r) # {}
    <3>1. GetLastSequence(S, r) = GetLastSequence(T, r)
      BY <2>1, SameRows
    <3> QED
      BY <1>1, <3>1
  <2>2. CASE Rows(m, r) = {}
    <3>1. \A i \in 1 .. len : b[i].run # r
      BY <1>1, <2>2 DEF Rows, BatchRows
    <3> QED
      BY <3>1 DEF Consecutive
  <2> QED
    BY <2>1, <2>2
<1> QED
  BY <1>1, <1>2 DEF OneBatch

\* No rows are an empty batch.
LEMMA EmptyBatch ==
    ASSUME NEW S PROVE OneBatch(S, {})
<1>1. <<>> \in [1 .. 0 -> Row] /\ 0 \in Nat
  OBVIOUS
<1>2. BatchRows(<<>>) = {} /\ \A r \in Runs : Consecutive(<<>>, r, GetLastSequence(S, r))
  BY DEF BatchRows, Consecutive
<1> QED
  BY <1>1, <1>2 DEF OneBatch

\* An INSERT joins the batch to the rows that the transaction has.
LEMMA InsertJoins ==
    ASSUME TypeOK, StoreGood, NEW c \in Callers, InsertBatch(c), OneBatch(table, tx[c].mine)
    PROVE  OneBatch(table, tx[c].mine \cup BatchRows(tx[c].batch))
<1>1. tx[c] \in Tx /\ TxGood(c)
  BY DEF TypeOK, StoreGood
<1>2. PICK l \in Nat : tx[c].batch \in [1 .. l -> Row]
  BY <1>1, BatchTyped
<1>0. PICK k \in Nat : \E b \in [1 .. k -> Row] :
         /\ BatchRows(b) = tx[c].mine
         /\ \A r \in Runs : Consecutive(b, r, GetLastSequence(table, r))
  BY DEF OneBatch
<1>3. PICK b \in [1 .. k -> Row] :
         /\ BatchRows(b) = tx[c].mine
         /\ \A r \in Runs : Consecutive(b, r, GetLastSequence(table, r))
  BY <1>0
<1> DEFINE e == tx[c].batch
<1>4. ASSUME NEW r \in Runs
      PROVE  Consecutive(Joined(b, k, e, l), r, GetLastSequence(table, r))
  <2>1. PICK n \in Nat : Filled(table, r, n)
    BY DEF StoreGood, Whole
  <2>2. GetLastSequence(table, r) = n
    BY <2>1, FilledLast DEF TypeOK
  <2>3. Consecutive(b, r, n)
    BY <1>3, <2>2
  <2>4. /\ Filled(table \cup tx[c].mine, r, n + Count(b, r, k))
        /\ n + Count(b, r, k) \in Nat
    <3>1. Filled(table \cup BatchRows(b), r, n + Count(b, r, k))
      BY <2>1, <2>3, BatchFills DEF TypeOK
    <3>2. Count(b, r, k) \in Nat
      BY CountStep
    <3> QED
      BY <1>3, <3>1, <3>2
  <2>5. GetLastSequence(table \cup tx[c].mine, r) = n + Count(b, r, k)
    <3>1. table \cup tx[c].mine \in SUBSET Row
      BY <1>1 DEF TypeOK, Tx
    <3> QED
      BY <2>4, <3>1, FilledLast
  <2>6. Consecutive(e, r, n + Count(b, r, k))
    <3>1. CASE r \in BatchRuns(e)
      BY <2>5, <3>1, InsertSees
    <3>2. CASE r \notin BatchRuns(e)
      BY <3>2 DEF BatchRuns, Consecutive
    <3> QED
      BY <3>1, <3>2
  <2> HIDE DEF e
  <2> QED
    BY <1>2, <2>2, <2>3, <2>6, JoinedConsecutive DEF e
<1>5. /\ Joined(b, k, e, l) \in [1 .. k + l -> Row]
      /\ BatchRows(Joined(b, k, e, l)) = tx[c].mine \cup BatchRows(e)
  BY <1>2, <1>3, JoinedRows
<1>6. k + l \in Nat
  OBVIOUS
<1> HIDE DEF e
<1> QED
  BY <1>4, <1>5, <1>6 DEF OneBatch, e

\* Every step leaves the rows of every transaction one batch that goes on from the
\* table: it holds the locks of their runs.
LEMMA NextBatched == TypeOK /\ StoreGood /\ Batched /\ [Next]_vars => Batched'
<1> SUFFICES ASSUME TypeOK, StoreGood, Batched, [Next]_vars, NEW d \in Callers
             PROVE  OneBatch(table', tx'[d].mine)
  BY DEF Batched
<1>0. OneBatch(table, tx[d].mine)
  BY DEF Batched
<1>1. CASE table' = table /\ tx'[d].mine = tx[d].mine
  BY <1>0, <1>1
<1>2. ASSUME NEW c \in Callers, EndTx(c)
      PROVE  IF d = c THEN tx'[d].mine = {} ELSE tx'[d] = tx[d]
  BY <1>2 DEF EndTx, TypeOK, NoTx
<1>3. CASE tx'[d].mine = {}
  BY <1>3, EmptyBatch
<1>4. ASSUME NEW c \in Callers, Commit(c) PROVE OneBatch(table', tx'[d].mine)
  <2>1. CASE d = c
    BY <1>2, <1>3, <1>4, <2>1 DEF Commit
  <2>2. CASE d # c
    <3>1. tx'[d] = tx[d] /\ table' = table \cup tx[c].mine
      BY <1>2, <1>4, <2>2 DEF Commit
    <3>2. ASSUME NEW r \in Runs, Rows(tx[d].mine, r) # {}
          PROVE  Rows(table, r) = Rows(table', r)
      <4>1. lock[r] = d
        BY <3>2 DEF StoreGood, TxGood, TxLocked
      <4>2. Rows(tx[c].mine, r) = {}
        BY <2>2, <4>1 DEF StoreGood, TxGood, TxLocked
      <4> QED
        BY <3>1, <4>2 DEF Rows
    <3> QED
      BY <1>0, <3>1, <3>2, OneBatchFrame
  <2> QED
    BY <2>1, <2>2
<1>5. ASSUME NEW c \in Callers, InsertBatch(c) PROVE OneBatch(table', tx'[d].mine)
  <2>1. CASE d = c
    <3>1. table' = table /\ tx'[c].mine = tx[c].mine \cup BatchRows(tx[c].batch)
      BY <1>5 DEF InsertBatch, TypeOK, Tx
    <3> QED
      BY <1>0, <1>5, <2>1, <3>1, InsertJoins
  <2>2. CASE d # c
    BY <1>1, <1>5, <2>2 DEF InsertBatch, TypeOK
  <2> QED
    BY <2>1, <2>2
<1>6. ASSUME NEW c \in Callers, BeginAppend(c) PROVE OneBatch(table', tx'[d].mine)
  <2>1. tx[d] \in Tx /\ tx \in [Callers -> Tx]
    BY DEF TypeOK
  <2>2. table' = table /\ tx'[d].mine = tx[d].mine
    BY <1>6, <2>1 DEF BeginAppend, Tx
  <2> QED
    BY <1>1, <2>2
<1>7. ASSUME NEW c \in Callers, NEW r \in Runs, Validate(c, r)
      PROVE  OneBatch(table', tx'[d].mine)
  <2>1. tx[d] \in Tx /\ tx \in [Callers -> Tx]
    BY DEF TypeOK
  <2>2. table' = table /\ tx'[d].mine = tx[d].mine
    BY <1>7, <2>1 DEF Validate, Tx
  <2> QED
    BY <1>1, <2>2
<1>8. ASSUME NEW c \in Callers, EndTx(c), table' = table PROVE OneBatch(table', tx'[d].mine)
  BY <1>1, <1>2, <1>3, <1>8
<1>9. CASE UNCHANGED vars
  BY <1>1, <1>9 DEF vars
<1> QED
  BY <1>4, <1>5, <1>6, <1>7, <1>8, <1>9 DEF Next, Conflict, DuplicateKey, Rollback

\* The rows of every transaction are at all times one batch that goes on from the
\* committed logs.
LEMMA BatchedCorrect == Spec => []Batched
<1>1. Init => Batched
  <2> SUFFICES ASSUME Init, NEW c \in Callers PROVE OneBatch(table, tx[c].mine)
    BY DEF Batched
  <2>1. tx[c].mine = {}
    BY DEF Init, NoTx
  <2> QED
    BY <2>1, EmptyBatch
<1> QED
  BY <1>1, NextBatched, StoreCorrect, PTL DEF Spec

\* Events that go on from a log are distinct: such a batch has each of its rows once.
LEMMA BatchIsOrder ==
    ASSUME NEW S \in SUBSET Row, \A r \in Runs : Whole(S, r),
           NEW len \in Nat, NEW b \in [1 .. len -> Row],
           \A r \in Runs : Consecutive(b, r, GetLastSequence(S, r))
    PROVE  b \in SetToSeqs(BatchRows(b))
<1>1. ASSUME NEW i \in 1 .. len, NEW j \in 1 .. len, b[i] = b[j] PROVE i = j
  <2> DEFINE r == b[i].run
  <2>1. r \in Runs
    BY DEF Row
  <2>2. PICK n \in Nat : Filled(S, r, n)
    BY <2>1 DEF Whole
  <2>3. Consecutive(b, r, n)
    BY <2>1, <2>2, FilledLast
  <2>4. \A k, l \in 1 .. len : b[k].run = r /\ b[l].run = r /\ b[k].seq = b[l].seq => k = l
    <3> HIDE DEF r
    <3> QED
      BY <2>2, <2>3, BatchNumbers, ZenonT(60)
  <2> QED
    BY <1>1, <2>4
<1>2. b \in [1 .. len -> BatchRows(b)] /\ BatchRows(b) = {b[i] : i \in 1 .. len}
  BY DEF BatchRows
<1>3. b \in Bijection(1 .. len, BatchRows(b))
  <2>1. \A row \in BatchRows(b) : \E i \in 1 .. len : b[i] = row
    BY <1>2
  <2> QED
    BY <1>1, <1>2, <2>1 DEF Bijection, Injection, Surjection, IsInjective
<1>4. ExistsBijection(1 .. len, BatchRows(b))
  BY <1>3 DEF ExistsBijection
<1>5. Cardinality(BatchRows(b)) = len
  BY <1>4, FS_CountingElements
<1> QED
  BY <1>1, <1>2, <1>5 DEF SetToSeqs

\* Whatever transactions interleave, the store does what the in-memory store does
\* (memory.Store.AppendBatch): a commit is one batch of all the transaction's events,
\* accepted by the check of the logs as they are at the commit, and nothing else
\* changes a log.
THEOREM MemoryCorrect == Spec => ImplementsMemoryStore
<1> DEFINE E == [r \in Runs |-> Load(r)]
           O == UNION {SetToSeqs(tx[c].mine) : c \in {d \in Callers : tx[d].pc = "open"}}
<1>1. Init => Memory!Init
  <2> SUFFICES ASSUME Init PROVE E = [r \in Runs |-> <<>>]
    BY DEF Memory!Init
  <2>1. \A r \in Runs : Rows(table, r) = {}
    BY DEF Init, Rows
  <2>2. \A r \in Runs : Load(r) = <<>>
    <3> SUFFICES ASSUME NEW r \in Runs PROVE Load(r) = <<>>
      OBVIOUS
    <3>1. Cardinality(Rows(table, r)) = 0
      BY <2>1, FS_EmptySet
    <3>2. Load(r) = [i \in 1 .. 0 |-> CHOOSE row \in Rows(table, r) : row.seq = i]
      BY <3>1 DEF Load
    <3> QED
      BY <3>2
  <2> QED
    BY <2>2
<1>2. TypeOK /\ StoreGood /\ Batched /\ [Next]_vars =>
         E' = E \/ \E b \in O : Memory!AppendBatch(b)
  <2> SUFFICES ASSUME TypeOK, StoreGood, Batched, [Next]_vars, E' # E
               PROVE  \E b \in O : Memory!AppendBatch(b)
    OBVIOUS
  <2>0. \A r \in Runs : Load(r)' = RowLog(table', r)
    BY DEF Load, RowLog, InOrder
  <2>1. table' # table
    BY DEF Load
  <2>2. PICK c \in Callers : Commit(c)
    BY <2>1 DEF Next, vars, BeginAppend, Validate, Conflict, InsertBatch, DuplicateKey, Rollback
  <2>3. PICK len \in Nat : \E b \in [1 .. len -> Row] :
           /\ BatchRows(b) = tx[c].mine
           /\ \A r \in Runs : Consecutive(b, r, GetLastSequence(table, r))
    BY DEF Batched, OneBatch
  <2>4. PICK b \in [1 .. len -> Row] :
           /\ BatchRows(b) = tx[c].mine
           /\ \A r \in Runs : Consecutive(b, r, GetLastSequence(table, r))
    BY <2>3
  <2>5. table \in SUBSET Row /\ \A r \in Runs : Whole(table, r)
    BY DEF TypeOK, StoreGood
  <2>6. b \in O
    <3>1. b \in SetToSeqs(tx[c].mine)
      BY <2>4, <2>5, BatchIsOrder
    <3>2. tx[c].pc = "open"
      BY <2>2 DEF Commit
    <3> QED
      BY <3>1, <3>2
  <2>7. Memory!Valid(b) /\ Memory!Appended(b) = [r \in Runs |-> RowLog(table \cup BatchRows(b), r)]
    BY <2>4, <2>5, MemoryAppends
  <2>8. E' = Memory!Appended(b)
    <3>1. table' = table \cup BatchRows(b)
      BY <2>2, <2>4 DEF Commit
    <3> QED
      BY <2>0, <2>7, <3>1
  <2>9. Memory!AppendBatch(b)
    BY <2>7, <2>8 DEF Memory!AppendBatch
  <2> QED
    BY <2>6, <2>9
<1>3. (TypeOK /\ StoreGood) /\ Batched /\ [Next]_vars =>
         [\E b \in UNION {SetToSeqs(tx[c].mine) : c \in {d \in Callers : tx[d].pc = "open"}} :
             Memory!AppendBatch(b)]_[r \in Runs |-> Load(r)]
  BY <1>2
<1> QED
  BY <1>1, <1>3, StoreCorrect, BatchedCorrect, PTL DEF Spec, ImplementsMemoryStore, Memory!Spec
=============================================================================
