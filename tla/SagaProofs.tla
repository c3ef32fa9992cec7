----------------------------- MODULE SagaProofs -----------------------------
(***************************************************************************)
(* Proofs about Define and its topological sort (workflow/define.go) and   *)
(* about runCompensation (workflow/saga.go), for any list of steps and any *)
(* set of compensations.  The loops are taken one entry at a time, and the *)
(* invariants say what the loops have done so far.                         *)
(***************************************************************************)
EXTENDS Saga, FiniteSetTheorems, SequenceTheorems, TLAPS

-----------------------------------------------------------------------------
(* The invariant of the sort, of a list p of steps and the record t of the *)
(* sort's variables.                                                       *)

NamesOf(p) == {p[i].name : i \in DOMAIN p}

\* The list passed the checks of Define.
Checked(p) ==
    /\ p \in Seq(ConfiguredStep) /\ p # <<>>
    /\ \A i, j \in DOMAIN p : p[i].name = p[j].name => i = j
    /\ \A i \in DOMAIN p : \A k \in DOMAIN p[i].deps : p[i].deps[k] \in NamesOf(p)

\* A record with the fields of sort.
SortRecord(t) ==
    t = [pc |-> t.pc, inDegree |-> t.inDegree, queue |-> t.queue, order |-> t.order,
         next |-> t.next, cycle |-> t.cycle]

Once(q) == \A i, j \in DOMAIN q : q[i] = q[j] => i = j

\* The steps that were popped and whose loop has passed step i of the list.
Counted(t, i) ==
    {t.order[k] : k \in {k \in DOMAIN t.order : t.pc = "reduce" /\ i >= t.next => k # Len(t.order)}}

\* The entries of step i's dependencies that still count in its degree.
LeftOf(p, t, i) == {k \in DOMAIN p[i].deps : p[i].deps[k] \notin Counted(t, i)}

\* The degrees are those of the entries that are left, and a step is in the order
\* or in the queue exactly when none is.
Degrees(p, t) ==
    \A i \in DOMAIN p :
        /\ t.inDegree[p[i].name] = Cardinality(LeftOf(p, t, i))
        /\ t.inDegree[p[i].name] = 0 <=> p[i].name \in ToSet(t.order) \cup ToSet(t.queue)

\* In the order q each step comes after the steps that it depends on.
AfterDeps(p, q) ==
    \A a \in DOMAIN q : \A i \in DOMAIN p : p[i].name = q[a] =>
        \A k \in DOMAIN p[i].deps : \E b \in 1 .. a - 1 : q[b] = p[i].deps[k]

SortTyped(p, t) ==
    /\ t.inDegree \in [NamesOf(p) -> Int]
    /\ t.order \in Seq(NamesOf(p)) /\ t.queue \in Seq(NamesOf(p))
    /\ t.pc = "reduce" => t.next \in 1 .. Len(p) /\ t.order # <<>>

Sorting(p, t) ==
    /\ Checked(p)
    /\ SortTyped(p, t)
    /\ Once(t.order) /\ Once(t.queue) /\ ToSet(t.order) \cap ToSet(t.queue) = {}
    /\ Degrees(p, t)
    /\ AfterDeps(p, t.order)

SortGood(p, t) ==
    /\ p \in Seq(ConfiguredStep)
    /\ SortRecord(t)
    /\ t.pc \in {"check", "rejected", "sort", "reduce", "accepted", "cycle"}
    /\ t.pc = "check" => t.order = <<>>
    /\ t.pc \notin {"check", "rejected"} => Sorting(p, t)
    /\ t.pc = "accepted" => Len(t.order) = Len(p)
    /\ t.pc = "cycle" => /\ Len(t.order) # Len(p) /\ t.queue = <<>>
                         /\ t.cycle = {n \in NamesOf(p) : t.inDegree[n] > 0}

-----------------------------------------------------------------------------
(* Sequences and sets.                                                     *)

\* A set of numbers that is not empty has a least one.
LEMMA LeastNumber ==
    ASSUME NEW T, T \subseteq Nat, T # {}
    PROVE  \E n \in T : \A m \in T : n <= m
<1>1. PICK n \in T : \A m \in T : ~(<<m, n>> \in OpToRel(<, Nat))
  BY NatLessThanWellFounded, WFMin, Zenon
<1>2. \A m \in T : <<m, n>> \in OpToRel(<, Nat) <=> m < n
  BY DEF OpToRel
<1>3. \A m \in T : ~(m < n)
  BY <1>1, <1>2, Zenon
<1>4. \A m \in T : n <= m
  BY <1>3
<1> QED
  BY <1>4, Zenon

\* What is in a sequence after x was added at its end.
LEMMA AppendSet ==
    ASSUME NEW S, NEW q \in Seq(S), NEW x \in S
    PROVE  /\ Append(q, x) \in Seq(S)
           /\ DOMAIN q = 1 .. Len(q) /\ Len(q) \in Nat
           /\ DOMAIN Append(q, x) = 1 .. Len(q) + 1
           /\ Len(Append(q, x)) = Len(q) + 1
           /\ \A i \in DOMAIN q : Append(q, x)[i] = q[i]
           /\ Append(q, x)[Len(q) + 1] = x
           /\ ToSet(Append(q, x)) = ToSet(q) \cup {x}
<1>1. /\ Append(q, x) \in Seq(S) /\ Len(q) \in Nat /\ DOMAIN q = 1 .. Len(q)
      /\ Len(Append(q, x)) = Len(q) + 1 /\ DOMAIN Append(q, x) = 1 .. Len(q) + 1
  OBVIOUS
<1>2. /\ \A i \in DOMAIN q : Append(q, x)[i] = q[i]
      /\ Append(q, x)[Len(q) + 1] = x
  OBVIOUS
<1>3. \A i \in 1 .. Len(q) + 1 : i \in 1 .. Len(q) \/ i = Len(q) + 1
  BY <1>1
<1>4. \A i \in 1 .. Len(q) : i \in 1 .. Len(q) + 1
  BY <1>1
<1>5. Len(q) + 1 \in 1 .. Len(q) + 1
  BY <1>1
<1>6. ToSet(Append(q, x)) \subseteq ToSet(q) \cup {x}
  BY <1>1, <1>2, <1>3 DEF ToSet
<1>7. ToSet(q) \cup {x} \subseteq ToSet(Append(q, x))
  BY <1>1, <1>2, <1>4, <1>5 DEF ToSet
<1> QED
  BY <1>1, <1>2, <1>6, <1>7

\* A new entry keeps the entries of a sequence apart.
LEMMA AppendOnce ==
    ASSUME NEW S, NEW q \in Seq(S), NEW x \in S, Once(q), x \notin ToSet(q)
    PROVE  Once(Append(q, x))
  BY AppendSet DEF Once, ToSet

\* The first entry of a sequence without repetitions, and the others.
LEMMA HeadSet ==
    ASSUME NEW S, NEW q \in Seq(S), q # <<>>, Once(q)
    PROVE  /\ Head(q) \in S /\ Tail(q) \in Seq(S) /\ Once(Tail(q))
           /\ ToSet(q) = ToSet(Tail(q)) \cup {Head(q)}
           /\ Head(q) \notin ToSet(Tail(q))
<1>1. /\ Head(q) \in S /\ Tail(q) \in Seq(S) /\ Len(q) \in Nat /\ Len(q) > 0
      /\ Head(q) = q[1] /\ DOMAIN q = 1 .. Len(q)
      /\ DOMAIN Tail(q) = 1 .. Len(q) - 1
      /\ \A i \in 1 .. Len(q) - 1 : Tail(q)[i] = q[i + 1]
  OBVIOUS
<1>2. \A i \in 1 .. Len(q) - 1 : i + 1 \in 1 .. Len(q) /\ i + 1 # 1
  BY <1>1
<1>3. \A i \in 1 .. Len(q) : i = 1 \/ (i - 1 \in 1 .. Len(q) - 1 /\ i = (i - 1) + 1)
  BY <1>1
<1>4. Once(Tail(q))
  BY <1>1, <1>2 DEF Once
<1>5. Head(q) \notin ToSet(Tail(q))
  BY <1>1, <1>2 DEF Once, ToSet
<1>6. ToSet(q) \subseteq ToSet(Tail(q)) \cup {Head(q)}
  <2>1. ASSUME NEW i \in 1 .. Len(q) PROVE q[i] = Head(q) \/ q[i] \in ToSet(Tail(q))
    <3>1. CASE i = 1
      BY <1>1, <3>1
    <3>2. CASE i - 1 \in 1 .. Len(q) - 1
      <4>1. Tail(q)[i - 1] = q[i]
        BY <1>1, <3>2
      <4> QED
        BY <1>1, <3>2, <4>1 DEF ToSet
    <3> QED
      BY <1>3, <3>1, <3>2
  <2> QED
    BY <1>1, <2>1 DEF ToSet
<1>7. ToSet(Tail(q)) \cup {Head(q)} \subseteq ToSet(q)
  BY <1>1, <1>2 DEF ToSet
<1> QED
  BY <1>1, <1>4, <1>5, <1>6, <1>7

\* A sequence without repetitions is as long as the set of its entries.
LEMMA OnceLength ==
    ASSUME NEW S, NEW q \in Seq(S), Once(q)
    PROVE  IsFiniteSet(ToSet(q)) /\ Cardinality(ToSet(q)) = Len(q)
<1>1. Len(q) \in Nat /\ DOMAIN q = 1 .. Len(q)
  OBVIOUS
<1>2. q \in Bijection(1 .. Len(q), ToSet(q))
  BY <1>1 DEF Bijection, Injection, Surjection, IsInjective, Once, ToSet
<1>3. ExistsBijection(1 .. Len(q), ToSet(q))
  BY <1>2 DEF ExistsBijection
<1> QED
  BY <1>1, <1>3, FS_CountingElements, FS_NatBijection

-----------------------------------------------------------------------------
(* The steps of the sort.                                                  *)

\* The entries of a list of steps.
LEMMA ListTypes ==
    ASSUME NEW p \in Seq(ConfiguredStep)
    PROVE  /\ Len(p) \in Nat /\ DOMAIN p = 1 .. Len(p)
           /\ \A i \in DOMAIN p :
                 /\ p[i].name \in NamesOf(p) /\ p[i].deps \in Seq(Names)
                 /\ Len(p[i].deps) \in Nat /\ DOMAIN p[i].deps = 1 .. Len(p[i].deps)
                 /\ IsFiniteSet(DOMAIN p[i].deps)
                 /\ Cardinality(DOMAIN p[i].deps) = Len(p[i].deps)
<1>1. Len(p) \in Nat /\ DOMAIN p = 1 .. Len(p)
  OBVIOUS
<1>2. ASSUME NEW i \in DOMAIN p
      PROVE  /\ p[i].name \in NamesOf(p) /\ p[i].deps \in Seq(Names)
             /\ Len(p[i].deps) \in Nat /\ DOMAIN p[i].deps = 1 .. Len(p[i].deps)
             /\ IsFiniteSet(DOMAIN p[i].deps)
             /\ Cardinality(DOMAIN p[i].deps) = Len(p[i].deps)
  <2>1. p[i] \in ConfiguredStep
    BY <1>1
  <2>2. p[i].deps \in Seq(Names)
    BY <2>1 DEF ConfiguredStep
  <2>3. Len(p[i].deps) \in Nat /\ DOMAIN p[i].deps = 1 .. Len(p[i].deps)
    BY <2>2
  <2>4. IsFiniteSet(1 .. Len(p[i].deps)) /\ Cardinality(1 .. Len(p[i].deps)) = Len(p[i].deps)
    <3>1. \A n \in Nat : IsFiniteSet(1 .. n) /\ Cardinality(1 .. n) = n
      BY FS_Interval
    <3> QED
      BY <2>3, <3>1
  <2> QED
    BY <2>2, <2>3, <2>4 DEF NamesOf
<1> QED
  BY <1>1, <1>2

\* The step that was popped counts for the steps that the loop has passed.
LEMMA CountedIs ==
    ASSUME NEW p, NEW t, SortTyped(p, t), NEW i \in Nat
    PROVE  IF t.pc = "reduce" /\ i >= t.next
           THEN Counted(t, i) = {t.order[k] : k \in 1 .. Len(t.order) - 1}
           ELSE Counted(t, i) = ToSet(t.order)
<1>1. Len(t.order) \in Nat /\ DOMAIN t.order = 1 .. Len(t.order)
  BY DEF SortTyped
<1>2. CASE t.pc = "reduce" /\ i >= t.next
  <2>1. {k \in DOMAIN t.order : t.pc = "reduce" /\ i >= t.next => k # Len(t.order)}
          = 1 .. Len(t.order) - 1
    BY <1>1, <1>2
  <2> QED
    BY <1>2, <2>1 DEF Counted
<1>3. CASE ~(t.pc = "reduce" /\ i >= t.next)
  <2>1. {k \in DOMAIN t.order : t.pc = "reduce" /\ i >= t.next => k # Len(t.order)} = DOMAIN t.order
    BY <1>3
  <2> QED
    BY <1>3, <2>1 DEF Counted, ToSet
<1> QED
  BY <1>2, <1>3

\* The step that was popped last is not among those popped before, and with it
\* they are all.
LEMMA LastPopped ==
    ASSUME NEW S, NEW q \in Seq(S), q # <<>>, Once(q)
    PROVE  /\ Last(q) \in S
           /\ Last(q) \notin {q[k] : k \in 1 .. Len(q) - 1}
           /\ ToSet(q) = {q[k] : k \in 1 .. Len(q) - 1} \cup {Last(q)}
<1>1. /\ Len(q) \in Nat /\ Len(q) > 0 /\ DOMAIN q = 1 .. Len(q) /\ Last(q) = q[Len(q)]
  BY DEF Last
<1>0. \A n \in Nat : /\ \A k \in 1 .. n - 1 : k \in 1 .. n /\ k # n
                     /\ \A k \in 1 .. n : k \in 1 .. n - 1 \/ k = n
  OBVIOUS
<1>2. \A k \in 1 .. Len(q) - 1 : k \in 1 .. Len(q) /\ k # Len(q)
  BY <1>0, <1>1
<1>3. \A k \in 1 .. Len(q) : k \in 1 .. Len(q) - 1 \/ k = Len(q)
  BY <1>0, <1>1
<1>4. Len(q) \in 1 .. Len(q)
  BY <1>1
<1>5. ToSet(q) \subseteq {q[k] : k \in 1 .. Len(q) - 1} \cup {Last(q)}
  BY <1>1, <1>3 DEF ToSet
<1>6. {q[k] : k \in 1 .. Len(q) - 1} \cup {Last(q)} \subseteq ToSet(q)
  BY <1>1, <1>2, <1>4 DEF ToSet
<1>7. Last(q) \notin {q[k] : k \in 1 .. Len(q) - 1}
  BY <1>1, <1>2, <1>4 DEF Once
<1> QED
  BY <1>1, <1>4, <1>5, <1>6, <1>7

\* The checks of Define leave a good list.
LEMMA ChecksDone ==
    ASSUME steps \in Seq(ConfiguredStep), ~(steps = <<>> \/ Duplicate \/ UnknownDep)
    PROVE  Checked(steps) /\ StepNames = NamesOf(steps)
<1>1. StepNames = NamesOf(steps)
  BY DEF StepNames, NamesOf
<1>2. \A i, j \in DOMAIN steps : steps[i].name = steps[j].name => i = j
  BY DEF Duplicate
<1>3. \A i \in DOMAIN steps : \A k \in DOMAIN steps[i].deps : steps[i].deps[k] \in NamesOf(steps)
  BY <1>1 DEF UnknownDep, ToSet
<1> QED
  BY <1>1, <1>2, <1>3 DEF Checked

\* A list with distinct names has as many names as steps.
LEMMA NamesCount ==
    ASSUME NEW p, Checked(p)
    PROVE  IsFiniteSet(NamesOf(p)) /\ Cardinality(NamesOf(p)) = Len(p)
<1> DEFINE q == [i \in 1 .. Len(p) |-> p[i].name]
<1>1. Len(p) \in Nat /\ DOMAIN p = 1 .. Len(p)
  BY ListTypes DEF Checked
<1>2. q \in Seq(NamesOf(p)) /\ Len(q) = Len(p) /\ DOMAIN q = 1 .. Len(p)
  BY <1>1 DEF NamesOf
<1>3. Once(q)
  BY <1>1 DEF Once, Checked
<1>4. ToSet(q) = NamesOf(p)
  BY <1>1 DEF ToSet, NamesOf
<1> HIDE DEF q
<1> QED
  BY <1>2, <1>3, <1>4, OnceLength

\* An enumeration of a finite set has each element once.
LEMMA Enumerated ==
    ASSUME NEW S, IsFiniteSet(S), NEW f \in SetToSeqs(S)
    PROVE  f \in Seq(S) /\ Once(f) /\ ToSet(f) = S
<1>1. Cardinality(S) \in Nat
  BY FS_CardinalityType
<1>2. f \in Injection(1 .. Cardinality(S), S)
  BY DEF SetToSeqs, Injection, IsInjective
<1>3. IsFiniteSet(1 .. Cardinality(S)) /\ Cardinality(1 .. Cardinality(S)) = Cardinality(S)
  <2>1. \A n \in Nat : IsFiniteSet(1 .. n) /\ Cardinality(1 .. n) = n
    BY FS_Interval
  <2> QED
    BY <1>1, <2>1
<1>4. f \in Surjection(1 .. Cardinality(S), S)
  BY <1>2, <1>3, FS_Injection
<1>5. f \in [1 .. Cardinality(S) -> S] /\ DOMAIN f = 1 .. Cardinality(S)
  BY <1>2 DEF Injection
<1>6. f \in Seq(S)
  BY <1>1, <1>5
<1>7. Once(f)
  BY <1>2, <1>5 DEF Once, Injection, IsInjective
<1>8. ToSet(f) = S
  BY <1>4, <1>5 DEF Surjection, ToSet
<1> QED
  BY <1>6, <1>7, <1>8

\* In-degrees and the first queue.
LEMMA StartGood ==
    ASSUME SortGood(steps, sort), StartSort
    PROVE  SortGood(steps, sort')
<1> DEFINE p == steps
           degree == [n \in StepNames |->
                        InDegree(steps[CHOOSE i \in DOMAIN steps : steps[i].name = n])]
           zero == {n \in StepNames : degree[n] = 0}
<1>1. PICK first \in SetToSeqs(zero) :
        sort' = [sort EXCEPT !.pc = "sort", !.inDegree = degree, !.queue = first]
  BY DEF StartSort
<1>2. p \in Seq(ConfiguredStep) /\ Checked(p) /\ StepNames = NamesOf(p)
  BY ChecksDone DEF StartSort, SortGood
<1> DEFINE t == sort'
<1>3. /\ SortRecord(t) /\ t.pc = "sort" /\ t.inDegree = degree /\ t.queue = first
      /\ t.order = <<>>
  BY <1>1 DEF SortGood, SortRecord, StartSort
<1>4. ASSUME NEW i \in DOMAIN p PROVE degree[p[i].name] = Len(p[i].deps)
  <2>1. (CHOOSE j \in DOMAIN p : p[j].name = p[i].name) = i
    BY <1>2 DEF Checked
  <2> QED
    BY <1>2, <2>1, ListTypes DEF InDegree
<1>5. degree \in [NamesOf(p) -> Int]
  <2>1. \A i \in DOMAIN p : Len(p[i].deps) \in Int
    BY <1>2, ListTypes
  <2>2. ASSUME NEW n \in NamesOf(p) PROVE degree[n] \in Int
    <3>1. PICK i \in DOMAIN p : n = p[i].name
      BY DEF NamesOf
    <3> HIDE DEF degree
    <3> QED
      BY <1>4, <2>1, <3>1
  <2> QED
    BY <1>2, <2>2
<1>6. first \in Seq(NamesOf(p)) /\ Once(first) /\ ToSet(first) = zero
  <2>1. IsFiniteSet(zero)
    BY <1>2, NamesCount, FS_Subset
  <2>2. first \in Seq(zero) /\ Once(first) /\ ToSet(first) = zero
    BY <2>1, Enumerated
  <2>3. zero \subseteq NamesOf(p)
    BY <1>2
  <2> QED
    BY <2>2, <2>3, SeqMonotonic
<1> HIDE DEF t, degree
<1>7. SortTyped(p, t)
  BY <1>3, <1>5, <1>6 DEF SortTyped
<1>8. ToSet(t.order) = {} /\ Once(t.order) /\ AfterDeps(p, t.order)
  BY <1>3 DEF ToSet, Once, AfterDeps
<1>9. Degrees(p, t)
  <2> SUFFICES ASSUME NEW i \in DOMAIN p
               PROVE  /\ t.inDegree[p[i].name] = Cardinality(LeftOf(p, t, i))
                      /\ t.inDegree[p[i].name] = 0 <=> p[i].name \in ToSet(t.order) \cup ToSet(t.queue)
    BY DEF Degrees
  <2>1. Counted(t, i) = {}
    BY <1>3 DEF Counted
  <2>2. LeftOf(p, t, i) = DOMAIN p[i].deps
    BY <2>1 DEF LeftOf
  <2>3. p[i].name \in StepNames
    BY <1>2, ListTypes
  <2> QED
    BY <1>2, <1>3, <1>4, <1>6, <1>8, <2>2, <2>3, ListTypes
<1>10. Sorting(p, t)
  BY <1>2, <1>3, <1>6, <1>7, <1>8, <1>9 DEF Sorting
<1> QED
  BY <1>2, <1>3, <1>10 DEF SortGood, t

\* The first step of the queue goes to the order: no dependency of it is left, so
\* that all of them are in the order.
LEMMA PopGood ==
    ASSUME SortGood(steps, sort), PopQueue
    PROVE  SortGood(steps, sort')
<1> DEFINE p == steps
           t == sort
           u == sort'
           n == Head(t.queue)
<1>1. /\ SortRecord(u) /\ u.pc = "reduce" /\ u.next = 1 /\ u.inDegree = t.inDegree
      /\ u.queue = Tail(t.queue) /\ u.order = Append(t.order, n)
  BY DEF PopQueue, SortGood, SortRecord
<1>2. /\ Checked(p) /\ p \in Seq(ConfiguredStep) /\ SortTyped(p, t) /\ t.pc = "sort"
      /\ t.queue # <<>> /\ Once(t.order) /\ Once(t.queue)
      /\ ToSet(t.order) \cap ToSet(t.queue) = {} /\ Degrees(p, t) /\ AfterDeps(p, t.order)
      /\ t.order \in Seq(NamesOf(p)) /\ t.queue \in Seq(NamesOf(p))
      /\ t.inDegree \in [NamesOf(p) -> Int]
  BY DEF PopQueue, SortGood, Sorting, SortTyped
<1> HIDE DEF t, u
<1>3. /\ n \in NamesOf(p) /\ Tail(t.queue) \in Seq(NamesOf(p)) /\ Once(Tail(t.queue))
      /\ ToSet(t.queue) = ToSet(Tail(t.queue)) \cup {n} /\ n \notin ToSet(Tail(t.queue))
  BY <1>2, HeadSet
<1> HIDE DEF n
<1>4. n \notin ToSet(t.order)
  BY <1>2, <1>3
<1>5. /\ u.order \in Seq(NamesOf(p)) /\ ToSet(u.order) = ToSet(t.order) \cup {n}
      /\ Len(u.order) = Len(t.order) + 1 /\ Len(t.order) \in Nat
      /\ DOMAIN t.order = 1 .. Len(t.order) /\ DOMAIN u.order = 1 .. Len(t.order) + 1
      /\ u.order[Len(t.order) + 1] = n
      /\ \A k \in DOMAIN t.order : u.order[k] = t.order[k]
  BY <1>1, <1>2, <1>3, AppendSet
<1>6. Once(u.order)
  BY <1>1, <1>2, <1>3, <1>4, AppendOnce
<1>7. Len(p) \in Nat /\ DOMAIN p = 1 .. Len(p) /\ Len(p) > 0
  BY <1>2, ListTypes DEF Checked
<1>8. SortTyped(p, u)
  <2>1. 1 \in 1 .. Len(p)
    BY <1>7
  <2>2. u.order # <<>>
    BY <1>5
  <2> QED
    BY <1>1, <1>2, <1>3, <1>5, <2>1, <2>2 DEF SortTyped
<1>9. ASSUME NEW i \in DOMAIN p PROVE LeftOf(p, u, i) = LeftOf(p, t, i)
  <2>1. Counted(t, i) = ToSet(t.order)
    BY <1>2, <1>7, CountedIs
  <2>2. Counted(u, i) = {u.order[k] : k \in 1 .. Len(t.order)}
    <3>1. i \in Nat /\ i >= u.next /\ Len(u.order) - 1 = Len(t.order)
      BY <1>1, <1>5, <1>7
    <3> QED
      BY <1>1, <1>8, <3>1, CountedIs
  <2>3. Counted(u, i) = Counted(t, i)
    BY <1>5, <2>1, <2>2 DEF ToSet
  <2> QED
    BY <2>3 DEF LeftOf
<1>10. Degrees(p, u)
  BY <1>1, <1>2, <1>3, <1>5, <1>9 DEF Degrees
<1>11. AfterDeps(p, u.order)
  <2> SUFFICES ASSUME NEW a \in DOMAIN u.order, NEW i \in DOMAIN p, p[i].name = u.order[a],
                      NEW k \in DOMAIN p[i].deps
               PROVE  \E b \in 1 .. a - 1 : u.order[b] = p[i].deps[k]
    BY DEF AfterDeps
  <2>1. CASE a \in DOMAIN t.order
    <3>1. PICK b \in 1 .. a - 1 : t.order[b] = p[i].deps[k]
      BY <1>2, <1>5, <2>1 DEF AfterDeps
    <3>2. b \in DOMAIN t.order
      BY <1>5, <2>1
    <3> QED
      BY <1>5, <3>1, <3>2
  <2>2. CASE a = Len(t.order) + 1
    <3>1. Cardinality(LeftOf(p, t, i)) = 0
      BY <1>2, <1>3, <1>5, <2>2 DEF Degrees
    <3>2. LeftOf(p, t, i) = {}
      <4>1. IsFiniteSet(LeftOf(p, t, i))
        BY <1>2, ListTypes, FS_Subset DEF LeftOf
      <4> QED
        BY <3>1, <4>1, FS_EmptySet
    <3>3. p[i].deps[k] \in ToSet(t.order)
      BY <1>2, <1>7, <3>2, CountedIs DEF LeftOf
    <3>4. PICK b \in DOMAIN t.order : t.order[b] = p[i].deps[k]
      BY <3>3 DEF ToSet
    <3>5. b \in 1 .. a - 1
      BY <1>5, <2>2
    <3> QED
      BY <1>5, <3>4, <3>5
  <2> QED
    BY <1>5, <2>1, <2>2
<1>12. Sorting(p, u)
  BY <1>1, <1>2, <1>3, <1>4, <1>5, <1>6, <1>8, <1>10, <1>11 DEF Sorting
<1> QED
  BY <1>1, <1>2, <1>12 DEF SortGood, u

\* A dependent loses the entries that name the step that was popped, and is queued
\* with the last of them.
LEMMA ReduceGood ==
    ASSUME SortGood(steps, sort), ReduceDegree
    PROVE  SortGood(steps, sort')
<1> DEFINE p == steps
           t == sort
           u == sort'
           i == t.next
           n == p[i].name
           m == Mentions(p[i], Last(t.order))
           left == t.inDegree[n] - m
<1>1. /\ SortRecord(u) /\ u.pc = (IF i = Len(p) THEN "sort" ELSE "reduce") /\ u.next = i + 1
      /\ u.inDegree = [t.inDegree EXCEPT ![n] = left]
      /\ u.queue = (IF m > 0 /\ left = 0 THEN Append(t.queue, n) ELSE t.queue)
      /\ u.order = t.order
  BY DEF ReduceDegree, Onward, SortGood, SortRecord
<1>2. /\ Checked(p) /\ p \in Seq(ConfiguredStep) /\ SortTyped(p, t) /\ t.pc = "reduce"
      /\ i \in 1 .. Len(p) /\ t.order # <<>> /\ Once(t.order) /\ Once(t.queue)
      /\ ToSet(t.order) \cap ToSet(t.queue) = {} /\ Degrees(p, t) /\ AfterDeps(p, t.order)
      /\ t.order \in Seq(NamesOf(p)) /\ t.queue \in Seq(NamesOf(p))
      /\ t.inDegree \in [NamesOf(p) -> Int]
  BY DEF ReduceDegree, SortGood, Sorting, SortTyped
<1> HIDE DEF t, u
<1>3. /\ Len(p) \in Nat /\ DOMAIN p = 1 .. Len(p) /\ i \in DOMAIN p /\ i \in Nat
      /\ n \in NamesOf(p) /\ IsFiniteSet(DOMAIN p[i].deps)
  <2>1. Len(p) \in Nat /\ DOMAIN p = 1 .. Len(p)
    BY <1>2, ListTypes
  <2> HIDE DEF i
  <2>2. i \in DOMAIN p /\ i \in Nat
    BY <1>2, <2>1
  <2> QED
    BY <1>2, <2>1, <2>2, ListTypes
<1> DEFINE gone == {k \in DOMAIN p[i].deps : p[i].deps[k] = Last(t.order)}
<1>4. IsFiniteSet(gone) /\ m = Cardinality(gone) /\ m \in Nat
  <2>1. IsFiniteSet(gone)
    BY <1>3, FS_Subset
  <2> QED
    BY <2>1, FS_CardinalityType DEF Mentions
<1> HIDE DEF i, n, m, left
<1>5. u.inDegree \in [NamesOf(p) -> Int] /\ left = t.inDegree[n] - m /\ left \in Int
  BY <1>1, <1>2, <1>3, <1>4 DEF left
<1>6. /\ u.queue \in Seq(NamesOf(p))
      /\ ToSet(u.queue) = ToSet(t.queue) \cup (IF m > 0 /\ left = 0 THEN {n} ELSE {})
  BY <1>1, <1>2, <1>3, AppendSet
<1>7. SortTyped(p, u)
  <2>1. u.pc = "reduce" => i + 1 \in 1 .. Len(p)
    BY <1>1, <1>3
  <2> QED
    BY <1>1, <1>2, <1>5, <1>6, <2>1 DEF SortTyped
<1>8. ASSUME NEW j \in DOMAIN p, j # i PROVE LeftOf(p, u, j) = LeftOf(p, t, j)
  <2>1. (u.pc = "reduce" /\ j >= u.next) <=> (t.pc = "reduce" /\ j >= t.next)
    BY <1>1, <1>2, <1>3, <1>8 DEF i
  <2>2. Counted(u, j) = Counted(t, j)
    BY <1>1, <2>1 DEF Counted
  <2> QED
    BY <2>2 DEF LeftOf
<1>9. /\ gone \subseteq LeftOf(p, t, i) /\ LeftOf(p, u, i) = LeftOf(p, t, i) \ gone
      /\ LeftOf(p, u, i) \cap gone = {}
  <2> DEFINE before == {t.order[k] : k \in 1 .. Len(t.order) - 1}
  <2>1. Counted(t, i) = before
    BY <1>2, <1>3, CountedIs, SMTT(30) DEF i
  <2>2. Counted(u, i) = ToSet(t.order)
    <3>1. ~(u.pc = "reduce" /\ i >= u.next)
      BY <1>1, <1>3
    <3> QED
      BY <1>1, <1>3, <1>7, <3>1, CountedIs
  <2>3. Last(t.order) \notin before /\ ToSet(t.order) = before \cup {Last(t.order)}
    BY <1>2, LastPopped
  <2> HIDE DEF before
  <2> QED
    BY <2>1, <2>2, <2>3 DEF LeftOf
<1>10. left = Cardinality(LeftOf(p, u, i)) /\ left \in Nat
  <2>1. IsFiniteSet(LeftOf(p, t, i))
    BY <1>3, FS_Subset DEF LeftOf
  <2>2. /\ IsFiniteSet(LeftOf(p, t, i) \ gone)
        /\ Cardinality(LeftOf(p, t, i) \ gone)
             = Cardinality(LeftOf(p, t, i)) - Cardinality(LeftOf(p, t, i) \cap gone)
    BY <2>1, FS_Difference
  <2>3. LeftOf(p, t, i) \cap gone = gone
    BY <1>9
  <2>4. t.inDegree[n] = Cardinality(LeftOf(p, t, i))
    BY <1>2, <1>3 DEF Degrees, n
  <2> QED
    BY <1>4, <1>5, <1>9, <2>2, <2>3, <2>4, FS_CardinalityType
<1>11. /\ t.inDegree[n] = 0 <=> n \in ToSet(t.order) \cup ToSet(t.queue)
       /\ t.inDegree[n] = left + m /\ u.inDegree[n] = left
  BY <1>1, <1>2, <1>3, <1>4, <1>5 DEF Degrees, n
<1>12. m > 0 /\ left = 0 => n \notin ToSet(t.order) \cup ToSet(t.queue)
  BY <1>4, <1>5, <1>11
<1>13. left = 0 <=> n \in ToSet(u.order) \cup ToSet(u.queue)
  BY <1>1, <1>4, <1>6, <1>10, <1>11
<1>14. Degrees(p, u)
  <2> SUFFICES ASSUME NEW j \in DOMAIN p
               PROVE  /\ u.inDegree[p[j].name] = Cardinality(LeftOf(p, u, j))
                      /\ u.inDegree[p[j].name] = 0 <=> p[j].name \in ToSet(u.order) \cup ToSet(u.queue)
    BY DEF Degrees
  <2>1. CASE j = i
    BY <1>10, <1>11, <1>13, <2>1 DEF n
  <2>2. CASE j # i
    <3>1. p[j].name # n /\ p[j].name \in NamesOf(p)
      BY <1>2, <1>3, <2>2, ListTypes DEF Checked, n
    <3>2. u.inDegree[p[j].name] = t.inDegree[p[j].name]
      BY <1>1, <1>2, <3>1
    <3> QED
      BY <1>1, <1>2, <1>6, <1>8, <2>2, <3>1, <3>2 DEF Degrees
  <2> QED
    BY <2>1, <2>2
<1>15. Once(u.queue) /\ ToSet(u.order) \cap ToSet(u.queue) = {}
  <2>1. CASE m > 0 /\ left = 0
    BY <1>1, <1>2, <1>3, <1>6, <1>12, <2>1, AppendOnce
  <2>2. CASE ~(m > 0 /\ left = 0)
    BY <1>1, <1>2, <2>2
  <2> QED
    BY <2>1, <2>2
<1>16. Sorting(p, u)
  BY <1>1, <1>2, <1>7, <1>14, <1>15 DEF Sorting
<1> QED
  BY <1>1, <1>2, <1>16 DEF SortGood, u

\* The end of the sort changes neither the order nor the degrees.
LEMMA EndGood ==
    ASSUME SortGood(steps, sort), EndSort
    PROVE  SortGood(steps, sort')
<1> DEFINE p == steps
           t == sort
           u == sort'
<1>1. /\ SortRecord(u) /\ u.inDegree = t.inDegree /\ u.queue = t.queue /\ u.order = t.order
      /\ \/ u.pc = "accepted" /\ Len(t.order) = Len(p)
         \/ /\ u.pc = "cycle" /\ Len(t.order) # Len(p)
            /\ u.cycle = {n \in NamesOf(p) : t.inDegree[n] > 0}
  BY DEF EndSort, SortGood, SortRecord, StepNames, NamesOf
<1>2. Sorting(p, t) /\ t.pc = "sort" /\ t.queue = <<>> /\ p \in Seq(ConfiguredStep)
  BY DEF EndSort, SortGood
<1> HIDE DEF t, u
<1>3. \A i : Counted(u, i) = Counted(t, i)
  BY <1>1, <1>2 DEF Counted
<1>4. Degrees(p, u)
  BY <1>1, <1>2, <1>3 DEF Degrees, LeftOf, Sorting
<1>5. Sorting(p, u)
  BY <1>1, <1>2, <1>4 DEF Sorting, SortTyped
<1> QED
  BY <1>1, <1>2, <1>5 DEF SortGood, u

-----------------------------------------------------------------------------
(* What Define guarantees.                                                 *)

\* Define keeps the invariant of the sort, and so does a step of the caller.
LEMMA NextSort ==
    ASSUME SortGood(steps, sort), [(DefineStep /\ UNCHANGED saga) \/ SagaStep]_vars
    PROVE  SortGood(steps', sort')
<1>1. CASE RejectSteps
  <2>1. steps' = steps /\ sort' = [sort EXCEPT !.pc = "rejected"]
    BY <1>1 DEF RejectSteps
  <2>2. SortRecord(sort') /\ sort'.pc = "rejected"
    BY <2>1 DEF SortGood, SortRecord
  <2> QED
    BY <2>1, <2>2 DEF SortGood
<1>2. CASE StartSort \/ PopQueue \/ ReduceDegree \/ EndSort
  <2>1. steps' = steps
    BY <1>2 DEF StartSort, PopQueue, ReduceDegree, EndSort
  <2> QED
    BY <1>2, <2>1, StartGood, PopGood, ReduceGood, EndGood
<1>3. CASE SagaStep \/ UNCHANGED vars
  <2>1. steps' = steps /\ sort' = sort
    BY <1>3 DEF SagaStep, CompleteStep, RunCompensation, CollectStep, StartCompensation,
       CompensateStep, CompensationFails, EndCompensation, vars
  <2> QED
    BY <2>1
<1> QED
  BY <1>1, <1>2, <1>3 DEF DefineStep

\* In every reachable state the sort's variables say of each step which of its
\* dependencies are still to come.
THEOREM SortCorrect == Spec => []SortGood(steps, sort)
<1>1. SagaInit => SortGood(steps, sort)
  BY DefinitionsAssumption DEF SagaInit, Init, SortGood, SortRecord
<1>2. SortGood(steps, sort) /\ [(DefineStep /\ UNCHANGED saga) \/ SagaStep]_vars
        => SortGood(steps, sort)'
  BY NextSort
<1> QED
  BY <1>1, <1>2, PTL DEF Spec

\* A step of the order comes after what it depends on, and only once.
LEMMA OrderPlaces ==
    ASSUME NEW q, Once(q), AfterDeps(steps, q), DOMAIN q = 1 .. Len(q), Len(q) \in Nat,
           NEW a \in DOMAIN q, NEW d, DependsOn(q[a], d)
    PROVE  \E b \in DOMAIN q : b < a /\ q[b] = d
<1>1. PICK i \in DOMAIN steps : /\ steps[i].name = q[a]
                                /\ \E k \in DOMAIN steps[i].deps : steps[i].deps[k] = d
  BY DEF DependsOn, ToSet
<1>2. PICK k \in DOMAIN steps[i].deps : steps[i].deps[k] = d
  BY <1>1
<1>3. PICK b \in 1 .. a - 1 : q[b] = d
  BY <1>1, <1>2 DEF AfterDeps
<1> QED
  BY <1>3

\* No circular set has a step of the order: of those, the first one depends on no
\* other step of the set that comes before it.
LEMMA CircularIsLeft ==
    ASSUME NEW q, Once(q), AfterDeps(steps, q), DOMAIN q = 1 .. Len(q), Len(q) \in Nat,
           NEW T, Circular(T)
    PROVE  T \cap ToSet(q) = {}
<1> DEFINE A == {a \in DOMAIN q : q[a] \in T}
<1>1. SUFFICES ASSUME A # {} PROVE FALSE
  BY DEF ToSet
<1>2. PICK a \in A : \A b \in A : a <= b
  <2>1. A \subseteq Nat
    OBVIOUS
  <2> HIDE DEF A
  <2> QED
    BY <1>1, <2>1, LeastNumber
<1>3. PICK d \in T : DependsOn(q[a], d)
  BY DEF Circular
<1>4. PICK b \in DOMAIN q : b < a /\ q[b] = d
  BY <1>3, OrderPlaces
<1> QED
  BY <1>2, <1>3, <1>4

\* What an accepted sort has in its order.
LEMMA AcceptedAll ==
    ASSUME NEW p, NEW t, SortGood(p, t), t.pc \in {"accepted", "cycle"}
    PROVE  Len(t.order) = Len(p) <=> ToSet(t.order) = NamesOf(p)
<1>1. Checked(p) /\ t.order \in Seq(NamesOf(p)) /\ Once(t.order)
  BY DEF SortGood, Sorting, SortTyped
<1>2. IsFiniteSet(NamesOf(p)) /\ Cardinality(NamesOf(p)) = Len(p)
  BY <1>1, NamesCount
<1>3. Cardinality(ToSet(t.order)) = Len(t.order)
  BY <1>1, OnceLength
<1>4. ToSet(t.order) \subseteq NamesOf(p)
  BY <1>1 DEF ToSet
<1> QED
  BY <1>2, <1>3, <1>4, FS_Subset

\* The order of an accepted definition has each step once, after all the steps
\* that it depends on, for every list of steps and every order that Go's maps give
\* the first queue (topologicalSort).
THEOREM OrderSoundCorrect == Spec => []OrderIsSound
<1>1. SortGood(steps, sort) => OrderIsSound
  <2> SUFFICES ASSUME SortGood(steps, sort), sort.pc = "accepted"
               PROVE  /\ ToSet(sort.order) = StepNames
                      /\ \A i, j \in DOMAIN sort.order :
                            /\ sort.order[i] = sort.order[j] => i = j
                            /\ DependsOn(sort.order[i], sort.order[j]) => j < i
    BY DEF OrderIsSound
  <2>1. /\ Once(sort.order) /\ AfterDeps(steps, sort.order) /\ Len(sort.order) = Len(steps)
        /\ Len(sort.order) \in Nat /\ DOMAIN sort.order = 1 .. Len(sort.order)
    BY DEF SortGood, Sorting, SortTyped
  <2>2. ToSet(sort.order) = StepNames
    BY <2>1, AcceptedAll DEF StepNames, NamesOf
  <2>3. ASSUME NEW i \in DOMAIN sort.order, NEW j \in DOMAIN sort.order,
               DependsOn(sort.order[i], sort.order[j])
        PROVE  j < i
    <3>1. PICK b \in DOMAIN sort.order : b < i /\ sort.order[b] = sort.order[j]
      BY <2>1, <2>3, OrderPlaces
    <3> QED
      BY <2>1, <3>1 DEF Once
  <2> QED
    BY <2>1, <2>2, <2>3 DEF Once
<1> QED
  BY <1>1, SortCorrect, PTL

\* Define accepts a list of steps exactly when it has no circular set of steps,
\* and its panic names the steps of the cycles and those that hang on them: what
\* Workflow assumes of the dependencies is what Define guarantees.
THEOREM CyclesCorrect == Spec => []CyclesFound
<1>1. SortGood(steps, sort) => CyclesFound
  <2> DEFINE circular == {T \in SUBSET StepNames : Circular(T)}
             left == StepNames \ ToSet(sort.order)
  <2>0. SUFFICES ASSUME SortGood(steps, sort)
                 PROVE  /\ sort.pc = "accepted" => ~Duplicate /\ ~UnknownDep /\ circular = {}
                        /\ sort.pc = "cycle" => circular # {} /\ sort.cycle = UNION circular
    BY DEF CyclesFound
  <2>1. ASSUME sort.pc \in {"accepted", "cycle"}
        PROVE  /\ Checked(steps) /\ Once(sort.order) /\ AfterDeps(steps, sort.order)
               /\ Len(sort.order) \in Nat /\ DOMAIN sort.order = 1 .. Len(sort.order)
               /\ StepNames = NamesOf(steps) /\ Degrees(steps, sort)
               /\ SortTyped(steps, sort)
    BY <2>0, <2>1 DEF SortGood, Sorting, SortTyped, StepNames, NamesOf
  <2>2. ASSUME sort.pc \in {"accepted", "cycle"}, NEW T \in circular
        PROVE  T \subseteq left /\ T # {}
    <3>1. T \cap ToSet(sort.order) = {}
      BY <2>1, <2>2, CircularIsLeft
    <3> QED
      BY <3>1 DEF Circular
  <2>3. CASE sort.pc = "accepted"
    <3>1. ToSet(sort.order) = StepNames
      BY <2>0, <2>1, <2>3, AcceptedAll DEF SortGood
    <3>2. circular = {}
      BY <2>2, <2>3, <3>1
    <3>3. ~Duplicate
      BY <2>1, <2>3 DEF Duplicate, Checked
    <3>4. ~UnknownDep
      BY <2>1, <2>3 DEF UnknownDep, Checked, ToSet
    <3> QED
      BY <2>3, <3>2, <3>3, <3>4
  <2>4. CASE sort.pc = "cycle"
    <3>1. left # {}
      <4>1. ToSet(sort.order) \subseteq StepNames
        BY <2>1, <2>4 DEF SortTyped, ToSet
      <4>2. Len(sort.order) # Len(steps)
        BY <2>0, <2>4 DEF SortGood
      <4>3. ToSet(sort.order) # NamesOf(steps)
        BY <2>0, <2>4, <4>2, AcceptedAll
      <4> QED
        BY <2>1, <2>4, <4>1, <4>3
    <3>2. sort.cycle = left
      <4>1. \A i \in DOMAIN steps : steps[i].name \in left <=> sort.inDegree[steps[i].name] > 0
        <5> SUFFICES ASSUME NEW i \in DOMAIN steps
                     PROVE  steps[i].name \in left <=> sort.inDegree[steps[i].name] > 0
          OBVIOUS
        <5>1. /\ sort.inDegree[steps[i].name] = Cardinality(LeftOf(steps, sort, i))
              /\ sort.inDegree[steps[i].name] = 0 <=> steps[i].name \in ToSet(sort.order)
          BY <2>0, <2>1, <2>4 DEF SortGood, Degrees, ToSet
        <5>2. Cardinality(LeftOf(steps, sort, i)) \in Nat
          BY <2>1, <2>4, ListTypes, FS_Subset, FS_CardinalityType DEF LeftOf, Checked
        <5>3. steps[i].name \in StepNames
          BY DEF StepNames
        <5> QED
          BY <5>1, <5>2, <5>3
      <4>2. sort.cycle = {n \in StepNames : sort.inDegree[n] > 0}
        BY <2>0, <2>1, <2>4 DEF SortGood
      <4> QED
        BY <4>1, <4>2 DEF StepNames
    <3>3. Circular(left)
      <4> SUFFICES ASSUME NEW n \in left PROVE \E d \in left : DependsOn(n, d)
        BY <3>1 DEF Circular
      <4>1. PICK i \in DOMAIN steps : n = steps[i].name
        BY DEF StepNames
      <4>2. LeftOf(steps, sort, i) # {}
        <5>1. sort.inDegree[n] = Cardinality(LeftOf(steps, sort, i)) /\ sort.inDegree[n] # 0
          BY <2>0, <2>1, <2>4, <4>1 DEF SortGood, Degrees, ToSet
        <5> QED
          BY <5>1, FS_EmptySet
      <4>3. PICK k \in DOMAIN steps[i].deps : steps[i].deps[k] \notin Counted(sort, i)
        BY <4>2 DEF LeftOf
      <4>4. Counted(sort, i) = ToSet(sort.order)
        BY <2>4 DEF Counted, ToSet
      <4>5. steps[i].deps[k] \in left
        BY <2>1, <2>4, <4>3, <4>4 DEF Checked
      <4>6. DependsOn(n, steps[i].deps[k])
        BY <4>1 DEF DependsOn, ToSet
      <4> QED
        BY <4>5, <4>6
    <3>4. left \in circular
      BY <3>3
    <3>5. UNION circular = left
      BY <2>2, <2>4, <3>4
    <3> QED
      BY <2>4, <3>2, <3>4, <3>5
  <2> QED
    BY <2>3, <2>4
<1> QED
  BY <1>1, SortCorrect, PTL

-----------------------------------------------------------------------------
(* The invariant of the compensation, of a list p of steps and the record  *)
(* g of its variables.                                                     *)

SagaRecord(g) ==
    g = [pc |-> g.pc, completed |-> g.completed, trigger |-> g.trigger,
         compensation |-> g.compensation, at |-> g.at, undo |-> g.undo,
         compensated |-> g.compensated, failed |-> g.failed, events |-> g.events]

SagaEvent ==
    [type : {"compensation.started", "compensation.failed", "compensation.completed"},
     steps : Seq(Names)]

\* The steps whose compensation was tried.
TriedOf(g) == ToSet(g.compensated) \cup ToSet(g.failed)

SagaTyped(p, g) ==
    /\ g.pc \in {"run", "collect", "undo", "ended"}
    /\ g.completed \in Seq(Names) /\ ToSet(g.completed) \subseteq NamesOf(p)
    /\ g.at \in 0 .. Len(g.completed)
    /\ g.undo \in Seq(Names) /\ g.compensated \in Seq(Names) /\ g.failed \in Seq(Names)
    /\ g.events \in Seq(SagaEvent)

\* Where the function is, and what it has not yet written.
SagaPlace(g) ==
    /\ g.pc \in {"run", "collect"} => g.compensated = <<>> /\ g.failed = <<>>
    /\ g.pc = "run" => g.undo = <<>>
    /\ g.pc \in {"undo", "ended"} => g.at = 0
    /\ g.pc = "ended" => g.undo = <<>>

\* Of the completed steps that the loop has passed, those with a compensation are
\* tried or still to be undone, and no other step is.
Collected(g) ==
    /\ TriedOf(g) \cup ToSet(g.undo) \subseteq ToSet(g.completed)
    /\ g.pc # "run" =>
          \A i \in DOMAIN g.completed :
              g.completed[i] \in TriedOf(g) \cup ToSet(g.undo)
                  <=> i > g.at /\ g.completed[i] \in g.compensation

\* What is tried was completed later than what is to be undone, and that is in the
\* reverse order of completion.
FromTheEnd(g) ==
    /\ \A i, j \in DOMAIN g.completed :
          g.completed[i] \in TriedOf(g) /\ g.completed[j] \in ToSet(g.undo) => j < i
    /\ \A a, b \in DOMAIN g.undo : \A i, j \in DOMAIN g.completed :
          a < b /\ g.undo[a] = g.completed[i] /\ g.undo[b] = g.completed[j] => j < i

\* No step is tried twice.
TriedOnce(g) ==
    Once(g.compensated) /\ Once(g.failed) /\ ToSet(g.compensated) \cap ToSet(g.failed) = {}

\* The first event lists all that is to be undone, and the others are those of the
\* failures so far, one each and in their order.
Told(g) ==
    /\ Len(g.events) > Len(g.failed)
    /\ g.events[1].type = "compensation.started"
    /\ ToSet(g.events[1].steps) = TriedOf(g) \cup ToSet(g.undo)
    /\ TriedOf(g) \cup ToSet(g.undo) # {}
    /\ \A i \in DOMAIN g.failed : g.events[i + 1] = FailedEvent(g.failed[i])

EventsTell(g) ==
    /\ g.pc \in {"run", "collect"} => g.events = <<>>
    /\ g.pc = "undo" => Told(g) /\ Len(g.events) = Len(g.failed) + 1
    /\ g.pc = "ended" =>
          \/ g.events = <<>> /\ TriedOf(g) = {}
          \/ /\ Told(g)
             /\ IF g.failed # <<>> THEN Len(g.events) = Len(g.failed) + 1
                ELSE /\ Len(g.events) = 2
                     /\ g.events[2] = [type |-> "compensation.completed", steps |-> g.compensated]

SagaGood(p, g) ==
    /\ SagaRecord(g) /\ SagaTyped(p, g) /\ SagaPlace(g)
    /\ Once(g.completed) /\ AfterDeps(p, g.completed)
    /\ Collected(g) /\ FromTheEnd(g) /\ TriedOnce(g) /\ EventsTell(g)

-----------------------------------------------------------------------------
(* The steps of the compensation.                                          *)

\* The caller completes a step: what it depends on is completed.
LEMMA CompleteGood ==
    ASSUME SortGood(steps, sort), SagaGood(steps, saga), CompleteStep
    PROVE  SagaGood(steps, saga')
<1> DEFINE p == steps
           g == saga
           h == saga'
<1>1. PICK n \in Runnable : h = [g EXCEPT !.completed = Append(@, n)]
  BY DEF CompleteStep
<1>2. /\ SagaRecord(h) /\ h.pc = "run" /\ g.pc = "run" /\ h.completed = Append(g.completed, n)
      /\ h.at = g.at /\ h.undo = <<>> /\ h.compensated = <<>> /\ h.failed = <<>>
      /\ h.events = <<>> /\ g.events = <<>>
  BY <1>1 DEF CompleteStep, SagaGood, SagaRecord, SagaPlace, EventsTell
<1>3. /\ p \in Seq(ConfiguredStep) /\ Checked(p) /\ SagaTyped(p, g) /\ Once(g.completed)
      /\ AfterDeps(p, g.completed) /\ StepNames = NamesOf(p)
  BY DEF CompleteStep, SortGood, SagaGood, Sorting, StepNames, NamesOf
<1>4. n \in NamesOf(p) /\ n \notin ToSet(g.completed)
  BY <1>3 DEF Runnable, Done
<1>5. NamesOf(p) \subseteq Names
  <2>1. \A i \in DOMAIN p : p[i] \in ConfiguredStep
    BY <1>3
  <2> QED
    BY <2>1 DEF NamesOf, ConfiguredStep
<1>6. \A i \in DOMAIN p : p[i].name = n =>
         \A k \in DOMAIN p[i].deps : p[i].deps[k] \in ToSet(g.completed)
  BY <1>3 DEF Runnable, Done, DependsOn, Checked, ToSet
<1> HIDE DEF g, h
<1>7. /\ h.completed \in Seq(Names) /\ ToSet(h.completed) = ToSet(g.completed) \cup {n}
      /\ Len(g.completed) \in Nat /\ DOMAIN g.completed = 1 .. Len(g.completed)
      /\ Len(h.completed) = Len(g.completed) + 1
      /\ DOMAIN h.completed = 1 .. Len(g.completed) + 1
      /\ \A i \in DOMAIN g.completed : h.completed[i] = g.completed[i]
      /\ h.completed[Len(g.completed) + 1] = n
  BY <1>2, <1>3, <1>4, <1>5, AppendSet DEF SagaTyped
<1>8. Once(h.completed)
  BY <1>2, <1>3, <1>4, <1>5, AppendOnce DEF SagaTyped
<1>9. AfterDeps(p, h.completed)
  <2> SUFFICES ASSUME NEW a \in DOMAIN h.completed, NEW i \in DOMAIN p,
                      p[i].name = h.completed[a], NEW k \in DOMAIN p[i].deps
               PROVE  \E b \in 1 .. a - 1 : h.completed[b] = p[i].deps[k]
    BY DEF AfterDeps
  <2>1. CASE a \in DOMAIN g.completed
    <3>1. PICK b \in 1 .. a - 1 : g.completed[b] = p[i].deps[k]
      BY <1>3, <1>7, <2>1 DEF AfterDeps
    <3>2. b \in DOMAIN g.completed
      BY <1>7, <2>1
    <3> QED
      BY <1>7, <3>1, <3>2
  <2>2. CASE a = Len(g.completed) + 1
    <3>1. PICK b \in DOMAIN g.completed : g.completed[b] = p[i].deps[k]
      BY <1>6, <1>7, <2>2 DEF ToSet
    <3>2. b \in 1 .. a - 1
      BY <1>7, <2>2
    <3> QED
      BY <1>7, <3>1, <3>2
  <2> QED
    BY <1>7, <2>1, <2>2
<1>10. SagaTyped(p, h) /\ SagaPlace(h)
  <2>1. h.at \in 0 .. Len(h.completed)
    BY <1>2, <1>3, <1>7 DEF SagaTyped
  <2> QED
    BY <1>2, <1>3, <1>4, <1>7, <2>1 DEF SagaTyped, SagaPlace
<1>11. Collected(h) /\ FromTheEnd(h) /\ TriedOnce(h) /\ EventsTell(h)
  BY <1>2 DEF Collected, FromTheEnd, TriedOnce, EventsTell, TriedOf, ToSet, Once
<1> QED
  BY <1>2, <1>8, <1>9, <1>10, <1>11 DEF SagaGood, h

\* A step fails, and the loop starts at the last completed step.
LEMMA RunGood ==
    ASSUME SagaGood(steps, saga), RunCompensation
    PROVE  SagaGood(steps, saga')
<1> DEFINE p == steps
           g == saga
           h == saga'
<1>1. PICK n \in Runnable, compensation \in CompensationSets :
        h = [g EXCEPT !.pc = "collect", !.trigger = n, !.compensation = compensation,
                      !.at = Len(g.completed)]
  BY DEF RunCompensation
<1>2. /\ SagaRecord(h) /\ h.pc = "collect" /\ g.pc = "run" /\ h.completed = g.completed
      /\ h.at = Len(g.completed) /\ h.undo = <<>> /\ h.compensated = <<>> /\ h.failed = <<>>
      /\ h.events = <<>> /\ g.events = <<>>
  BY <1>1 DEF RunCompensation, SagaGood, SagaRecord, SagaPlace, EventsTell
<1>3. SagaTyped(p, g) /\ Once(g.completed) /\ AfterDeps(p, g.completed)
  BY DEF SagaGood
<1> HIDE DEF g, h
<1>4. Len(g.completed) \in Nat /\ DOMAIN g.completed = 1 .. Len(g.completed)
  BY <1>3 DEF SagaTyped
<1>5. SagaTyped(p, h) /\ SagaPlace(h)
  BY <1>2, <1>3, <1>4 DEF SagaTyped, SagaPlace
<1>6. TriedOf(h) = {} /\ ToSet(h.undo) = {} /\ \A i \in DOMAIN h.completed : ~(i > h.at)
  BY <1>2, <1>4 DEF TriedOf, ToSet
<1>7. Collected(h) /\ FromTheEnd(h) /\ TriedOnce(h) /\ EventsTell(h)
  BY <1>2, <1>6 DEF Collected, FromTheEnd, TriedOnce, EventsTell, ToSet, Once
<1> QED
  BY <1>2, <1>3, <1>5, <1>7 DEF SagaGood, h

\* The loop adds a step that was completed before those it has added.
LEMMA CollectGood ==
    ASSUME SagaGood(steps, saga), CollectStep
    PROVE  SagaGood(steps, saga')
<1> DEFINE p == steps
           g == saga
           h == saga'
           n == g.completed[g.at]
<1>1. /\ SagaRecord(h) /\ h.pc = "collect" /\ g.pc = "collect" /\ h.completed = g.completed
      /\ h.compensation = g.compensation /\ h.at = g.at - 1 /\ g.at > 0
      /\ h.undo = (IF n \in g.compensation THEN Append(g.undo, n) ELSE g.undo)
      /\ h.compensated = <<>> /\ h.failed = <<>> /\ h.events = <<>>
      /\ g.compensated = <<>> /\ g.failed = <<>> /\ g.events = <<>>
  BY DEF CollectStep, WithStep, SagaGood, SagaRecord, SagaPlace, EventsTell
<1>2. /\ SagaTyped(p, g) /\ Once(g.completed) /\ AfterDeps(p, g.completed) /\ Collected(g)
      /\ FromTheEnd(g)
  BY DEF SagaGood
<1> HIDE DEF g, h
<1>3. /\ Len(g.completed) \in Nat /\ DOMAIN g.completed = 1 .. Len(g.completed)
      /\ g.at \in DOMAIN g.completed /\ g.at \in Nat /\ n \in Names
  BY <1>1, <1>2 DEF SagaTyped
<1>4. TriedOf(g) = {} /\ TriedOf(h) = {}
  BY <1>1 DEF TriedOf, ToSet
<1>5. \A i \in DOMAIN g.completed :
         g.completed[i] \in ToSet(g.undo) <=> i > g.at /\ g.completed[i] \in g.compensation
  BY <1>1, <1>2, <1>4 DEF Collected
<1> HIDE DEF n
<1>6. /\ h.undo \in Seq(Names)
      /\ ToSet(h.undo) = ToSet(g.undo) \cup (IF n \in g.compensation THEN {n} ELSE {})
  BY <1>1, <1>2, <1>3, AppendSet DEF SagaTyped
<1>7. SagaTyped(p, h) /\ SagaPlace(h)
  <2>1. h.at \in 0 .. Len(h.completed)
    BY <1>1, <1>3
  <2> QED
    BY <1>1, <1>2, <1>6, <2>1 DEF SagaTyped, SagaPlace
<1>8. Collected(h)
  <2>1. ToSet(h.undo) \subseteq ToSet(h.completed)
    <3>1. n \in ToSet(g.completed)
      BY <1>3 DEF ToSet, n
    <3>2. ToSet(g.undo) \subseteq ToSet(g.completed)
      BY <1>2 DEF Collected
    <3> QED
      BY <1>1, <1>6, <3>1, <3>2
  <2>2. ASSUME NEW i \in DOMAIN h.completed
        PROVE  h.completed[i] \in ToSet(h.undo) <=> i > h.at /\ h.completed[i] \in h.compensation
    <3>1. CASE i = g.at
      BY <1>1, <1>3, <1>5, <1>6, <3>1 DEF n
    <3>2. CASE i # g.at
      <4>1. h.completed[i] # n
        BY <1>1, <1>2, <1>3, <3>2 DEF Once, n
      <4>2. i > h.at <=> i > g.at
        BY <1>1, <1>3, <3>2
      <4> QED
        BY <1>1, <1>5, <1>6, <4>1, <4>2
    <3> QED
      BY <3>1, <3>2
  <2> QED
    BY <1>4, <2>1, <2>2 DEF Collected
<1>9. FromTheEnd(h)
  <2>1. ASSUME NEW a \in DOMAIN h.undo, NEW b \in DOMAIN h.undo, a < b,
               NEW i \in DOMAIN h.completed, NEW j \in DOMAIN h.completed,
               h.undo[a] = h.completed[i], h.undo[b] = h.completed[j]
        PROVE  j < i
    <3>1. CASE h.undo = g.undo
      BY <1>1, <1>2, <2>1, <3>1 DEF FromTheEnd
    <3>2. CASE h.undo = Append(g.undo, n)
      <4>1. /\ DOMAIN g.undo = 1 .. Len(g.undo) /\ DOMAIN h.undo = 1 .. Len(g.undo) + 1
            /\ Len(g.undo) \in Nat /\ h.undo[Len(g.undo) + 1] = n
            /\ \A k \in DOMAIN g.undo : h.undo[k] = g.undo[k]
        BY <1>2, <1>3, <3>2, AppendSet DEF SagaTyped
      <4>2. a \in DOMAIN g.undo /\ (b \in DOMAIN g.undo \/ b = Len(g.undo) + 1)
        BY <2>1, <4>1
      <4>3. CASE b \in DOMAIN g.undo
        BY <1>1, <1>2, <2>1, <4>1, <4>2, <4>3 DEF FromTheEnd
      <4>4. CASE b = Len(g.undo) + 1
        <5>1. j = g.at
          BY <1>1, <1>2, <1>3, <2>1, <4>1, <4>4 DEF Once, n
        <5>2. g.completed[i] \in ToSet(g.undo)
          BY <1>1, <2>1, <4>1, <4>2 DEF ToSet
        <5>3. i > g.at
          BY <1>1, <1>5, <5>2
        <5> QED
          BY <1>1, <1>3, <5>1, <5>3
      <4> QED
        BY <4>2, <4>3, <4>4
    <3> QED
      BY <1>1, <3>1, <3>2
  <2> QED
    BY <1>4, <2>1 DEF FromTheEnd
<1>10. TriedOnce(h) /\ EventsTell(h)
  BY <1>1 DEF TriedOnce, EventsTell, ToSet, Once
<1> QED
  BY <1>1, <1>2, <1>7, <1>8, <1>9, <1>10 DEF SagaGood, h

\* The loop has passed all completed steps.
LEMMA StartsGood ==
    ASSUME SagaGood(steps, saga), StartCompensation
    PROVE  SagaGood(steps, saga')
<1> DEFINE p == steps
           g == saga
           h == saga'
           e == [type |-> "compensation.started", steps |-> g.undo]
<1>1. /\ SagaRecord(h) /\ h.completed = g.completed /\ h.compensation = g.compensation
      /\ h.at = 0 /\ g.at = 0 /\ h.undo = g.undo /\ h.compensated = <<>> /\ h.failed = <<>>
      /\ g.compensated = <<>> /\ g.failed = <<>> /\ g.pc = "collect" /\ g.events = <<>>
      /\ \/ h.pc = "ended" /\ g.undo = <<>> /\ h.events = g.events
         \/ h.pc = "undo" /\ g.undo # <<>> /\ h.events = Append(g.events, e)
  BY DEF StartCompensation, SagaGood, SagaRecord, SagaPlace, EventsTell
<1>2. /\ SagaTyped(p, g) /\ Once(g.completed) /\ AfterDeps(p, g.completed) /\ Collected(g)
      /\ FromTheEnd(g)
  BY DEF SagaGood
<1> HIDE DEF g, h
<1>3. e \in SagaEvent
  <2>1. g.undo \in Seq(Names)
    BY <1>2 DEF SagaTyped
  <2> QED
    BY <2>1 DEF SagaEvent
<1>8. e.type = "compensation.started" /\ e.steps = g.undo
  OBVIOUS
<1> HIDE DEF e
<1>4. SagaTyped(p, h) /\ SagaPlace(h)
  <2>1. g.events \in Seq(SagaEvent) /\ Len(h.completed) \in Nat
    BY <1>1, <1>2 DEF SagaTyped
  <2>2. h.events \in Seq(SagaEvent)
    BY <1>1, <1>3, <2>1, AppendProperties
  <2>3. h.at \in 0 .. Len(h.completed) /\ h.pc \in {"undo", "ended"}
    BY <1>1, <2>1
  <2> QED
    BY <1>1, <1>2, <2>2, <2>3 DEF SagaTyped, SagaPlace
<1>5. TriedOf(g) = {} /\ TriedOf(h) = {}
  BY <1>1 DEF TriedOf, ToSet
<1>6. Collected(h) /\ FromTheEnd(h)
  BY <1>1, <1>2, <1>5 DEF Collected, FromTheEnd
<1>7. TriedOnce(h)
  BY <1>1, <1>5 DEF TriedOnce, ToSet, Once
<1>9. EventsTell(h)
  <2>1. CASE h.pc = "ended" /\ h.events = g.events
    BY <1>1, <1>5, <2>1 DEF EventsTell
  <2>2. CASE h.pc = "undo" /\ g.undo # <<>> /\ h.events = Append(g.events, e)
    <3>1. Len(h.events) = 1 /\ h.events[1] = e /\ Len(h.failed) = 0 /\ DOMAIN h.failed = {}
      BY <1>1, <2>2
    <3>2. ToSet(h.undo) # {}
      <4>1. g.undo \in Seq(Names)
        BY <1>2 DEF SagaTyped
      <4>2. 1 \in DOMAIN g.undo
        BY <2>2, <4>1
      <4> QED
        BY <1>1, <4>2 DEF ToSet
    <3>3. Told(h)
      BY <1>1, <1>5, <1>8, <3>1, <3>2 DEF Told
    <3> QED
      BY <2>2, <3>1, <3>3 DEF EventsTell
  <2> QED
    BY <1>1, <2>1, <2>2
<1> QED
  BY <1>1, <1>2, <1>4, <1>6, <1>7, <1>9 DEF SagaGood, h

\* The next compensation runs, and fails or not: the step was completed before all
\* that were tried, and after all that are left.
LEMMA UndoGood ==
    ASSUME SagaGood(steps, saga), CompensateStep \/ CompensationFails
    PROVE  SagaGood(steps, saga')
<1> DEFINE p == steps
           g == saga
           h == saga'
           x == Head(g.undo)
           e == FailedEvent(x)
           succeeds == h.compensated = Append(g.compensated, x) /\ h.failed = g.failed
                       /\ h.events = g.events
           fails == h.compensated = g.compensated /\ h.failed = Append(g.failed, x)
                    /\ h.events = Append(g.events, e)
<1>1. /\ SagaRecord(h) /\ h.completed = g.completed /\ h.compensation = g.compensation
      /\ h.at = g.at /\ h.pc = "undo" /\ g.pc = "undo" /\ g.undo # <<>> /\ h.undo = Tail(g.undo)
      /\ succeeds \/ fails
  BY DEF CompensateStep, CompensationFails, FailedEvent, Undoing, SagaGood, SagaRecord
<1>2. /\ SagaTyped(p, g) /\ SagaPlace(g) /\ Once(g.completed) /\ AfterDeps(p, g.completed)
      /\ Collected(g) /\ FromTheEnd(g) /\ TriedOnce(g) /\ EventsTell(g)
  BY DEF SagaGood
<1> HIDE DEF g, h
<1>3. /\ g.undo \in Seq(Names) /\ g.compensated \in Seq(Names) /\ g.failed \in Seq(Names)
      /\ g.events \in Seq(SagaEvent) /\ Len(g.completed) \in Nat /\ g.at \in 0 .. Len(g.completed)
  BY <1>2 DEF SagaTyped
<1>4. /\ Len(g.undo) \in Nat /\ DOMAIN g.undo = 1 .. Len(g.undo) /\ 1 \in DOMAIN g.undo
      /\ x = g.undo[1] /\ DOMAIN h.undo = 1 .. Len(g.undo) - 1
      /\ \A a \in DOMAIN h.undo : a + 1 \in DOMAIN g.undo /\ h.undo[a] = g.undo[a + 1]
  BY <1>1, <1>3
<1>5. \A a \in DOMAIN g.undo : \E i \in DOMAIN g.completed : g.undo[a] = g.completed[i]
  BY <1>2 DEF Collected, ToSet
<1>6. Once(g.undo)
  <2> SUFFICES ASSUME NEW a \in DOMAIN g.undo, NEW b \in DOMAIN g.undo,
                      g.undo[a] = g.undo[b], a < b \/ b < a
               PROVE  FALSE
    BY <1>4 DEF Once
  <2>1. PICK i \in DOMAIN g.completed : g.undo[a] = g.completed[i]
    BY <1>5
  <2>2. i < i
    BY <1>2, <2>1 DEF FromTheEnd
  <2>3. i \in Nat
    BY <1>2 DEF SagaTyped
  <2> QED
    BY <2>2, <2>3
<1>7. /\ x \in Names /\ h.undo \in Seq(Names) /\ ToSet(g.undo) = ToSet(h.undo) \cup {x}
      /\ x \notin ToSet(h.undo)
  BY <1>1, <1>3, <1>6, HeadSet
<1>8. x \notin TriedOf(g)
  <2>1. PICK i \in DOMAIN g.completed : x = g.completed[i]
    BY <1>4, <1>5
  <2>2. x \in TriedOf(g) => i < i
    BY <1>2, <1>7, <2>1 DEF FromTheEnd
  <2>3. i \in Nat
    BY <1>2 DEF SagaTyped
  <2> QED
    BY <2>2, <2>3
<1> HIDE DEF x
<1>9. /\ h.compensated \in Seq(Names) /\ h.failed \in Seq(Names)
      /\ \/ ToSet(h.compensated) = ToSet(g.compensated) \cup {x} /\ ToSet(h.failed) = ToSet(g.failed)
         \/ ToSet(h.compensated) = ToSet(g.compensated) /\ ToSet(h.failed) = ToSet(g.failed) \cup {x}
  <2>1. CASE succeeds
    BY <1>3, <1>7, <2>1, AppendSet
  <2>2. CASE fails
    BY <1>3, <1>7, <2>2, AppendSet
  <2> QED
    BY <1>1, <2>1, <2>2
<1>10. TriedOf(h) = TriedOf(g) \cup {x}
  BY <1>9 DEF TriedOf
<1>11. e \in SagaEvent
  <2>1. <<x>> \in Seq(Names)
    BY <1>7
  <2> QED
    BY <2>1 DEF SagaEvent, FailedEvent
<1> HIDE DEF e
<1>12. SagaTyped(p, h) /\ SagaPlace(h)
  <2>1. h.events \in Seq(SagaEvent)
    BY <1>1, <1>3, <1>11, AppendProperties
  <2> QED
    BY <1>1, <1>2, <1>7, <1>9, <2>1 DEF SagaTyped, SagaPlace
<1>13. Collected(h)
  <2>1. TriedOf(h) \cup ToSet(h.undo) = TriedOf(g) \cup ToSet(g.undo)
    BY <1>7, <1>10
  <2> QED
    BY <1>1, <1>2, <2>1 DEF Collected
<1>14. FromTheEnd(h)
  <2>1. ASSUME NEW i \in DOMAIN h.completed, NEW j \in DOMAIN h.completed,
               h.completed[i] \in TriedOf(h), h.completed[j] \in ToSet(h.undo)
        PROVE  j < i
    <3>1. CASE h.completed[i] \in TriedOf(g)
      BY <1>1, <1>2, <1>7, <2>1, <3>1 DEF FromTheEnd
    <3>2. CASE h.completed[i] = x
      <4>1. PICK b \in DOMAIN h.undo : h.completed[j] = h.undo[b]
        BY <2>1 DEF ToSet
      <4>2. b + 1 \in DOMAIN g.undo /\ 1 < b + 1 /\ g.completed[j] = g.undo[b + 1]
        BY <1>1, <1>4, <4>1
      <4> QED
        BY <1>1, <1>2, <1>4, <3>2, <4>2 DEF FromTheEnd
    <3> QED
      BY <1>10, <2>1, <3>1, <3>2
  <2>2. ASSUME NEW a \in DOMAIN h.undo, NEW b \in DOMAIN h.undo, a < b,
               NEW i \in DOMAIN h.completed, NEW j \in DOMAIN h.completed,
               h.undo[a] = h.completed[i], h.undo[b] = h.completed[j]
        PROVE  j < i
    <3>1. /\ a + 1 \in DOMAIN g.undo /\ b + 1 \in DOMAIN g.undo /\ a + 1 < b + 1
          /\ g.undo[a + 1] = g.completed[i] /\ g.undo[b + 1] = g.completed[j]
      BY <1>1, <1>4, <2>2
    <3> QED
      BY <1>1, <1>2, <3>1 DEF FromTheEnd
  <2> QED
    BY <2>1, <2>2 DEF FromTheEnd
<1>15. TriedOnce(h)
  <2>1. x \notin ToSet(g.compensated) /\ x \notin ToSet(g.failed)
    BY <1>8 DEF TriedOf
  <2>2. Once(h.compensated) /\ Once(h.failed)
    BY <1>1, <1>2, <1>3, <1>7, <2>1, AppendOnce DEF TriedOnce
  <2> QED
    BY <1>2, <1>9, <2>1, <2>2 DEF TriedOnce
<1>16. EventsTell(h)
  <2>0. /\ Told(g) /\ Len(g.events) = Len(g.failed) + 1
    BY <1>1, <1>2 DEF EventsTell
  <2>1. TriedOf(h) \cup ToSet(h.undo) = TriedOf(g) \cup ToSet(g.undo)
    BY <1>7, <1>10
  <2>2. CASE succeeds
    <3>1. Told(h)
      BY <2>0, <2>1, <2>2 DEF Told
    <3> QED
      BY <1>1, <2>0, <2>2, <3>1 DEF EventsTell
  <2>3. CASE fails
    <3>1. /\ Len(g.failed) \in Nat /\ DOMAIN g.failed = 1 .. Len(g.failed)
          /\ Len(h.failed) = Len(g.failed) + 1 /\ DOMAIN h.failed = 1 .. Len(g.failed) + 1
          /\ \A i \in DOMAIN g.failed : h.failed[i] = g.failed[i]
          /\ h.failed[Len(g.failed) + 1] = x
      BY <1>3, <1>7, <2>3, AppendSet
    <3>2. /\ Len(g.events) \in Nat /\ DOMAIN g.events = 1 .. Len(g.events)
          /\ Len(h.events) = Len(g.events) + 1
          /\ \A i \in DOMAIN g.events : h.events[i] = g.events[i]
          /\ h.events[Len(g.events) + 1] = e
      BY <1>3, <1>11, <2>3, AppendSet
    <3>3. h.events[1] = g.events[1]
      BY <2>0, <3>1, <3>2
    <3>4. ASSUME NEW i \in DOMAIN h.failed PROVE h.events[i + 1] = FailedEvent(h.failed[i])
      <4>1. CASE i \in DOMAIN g.failed
        <5>1. g.events[i + 1] = FailedEvent(g.failed[i])
          BY <2>0, <4>1 DEF Told
        <5>2. i + 1 \in DOMAIN g.events
          BY <2>0, <3>1, <3>2, <4>1
        <5> QED
          BY <3>1, <3>2, <4>1, <5>1, <5>2
      <4>2. CASE i = Len(g.failed) + 1
        BY <2>0, <3>1, <3>2, <4>2 DEF e
      <4> QED
        BY <3>1, <4>1, <4>2
    <3>5. Len(h.events) = Len(h.failed) + 1 /\ Len(h.events) > Len(h.failed)
      BY <2>0, <3>1, <3>2
    <3>6. Told(h)
      BY <2>0, <2>1, <3>3, <3>4, <3>5 DEF Told
    <3> QED
      BY <1>1, <3>5, <3>6 DEF EventsTell
  <2> QED
    BY <1>1, <2>2, <2>3
<1> QED
  BY <1>1, <1>2, <1>12, <1>13, <1>14, <1>15, <1>16 DEF SagaGood, h

\* The compensations have run: without a failure one more event lists them all.
LEMMA EndsGood ==
    ASSUME SagaGood(steps, saga), EndCompensation
    PROVE  SagaGood(steps, saga')
<1> DEFINE p == steps
           g == saga
           h == saga'
           e == [type |-> "compensation.completed", steps |-> g.compensated]
<1>1. /\ SagaRecord(h) /\ h.completed = g.completed /\ h.compensation = g.compensation
      /\ h.at = g.at /\ h.pc = "ended" /\ g.pc = "undo" /\ g.undo = <<>> /\ h.undo = g.undo
      /\ h.compensated = g.compensated /\ h.failed = g.failed
      /\ \/ g.failed # <<>> /\ h.events = g.events
         \/ g.failed = <<>> /\ h.events = Append(g.events, e)
  BY DEF EndCompensation, SagaGood, SagaRecord
<1>2. /\ SagaTyped(p, g) /\ SagaPlace(g) /\ Once(g.completed) /\ AfterDeps(p, g.completed)
      /\ Collected(g) /\ FromTheEnd(g) /\ TriedOnce(g) /\ EventsTell(g)
  BY DEF SagaGood
<1> HIDE DEF g, h
<1>3. g.events \in Seq(SagaEvent) /\ g.compensated \in Seq(Names)
  BY <1>2 DEF SagaTyped
<1>4. e \in SagaEvent
  BY <1>3 DEF SagaEvent
<1> HIDE DEF e
<1>5. SagaTyped(p, h) /\ SagaPlace(h)
  <2>1. h.events \in Seq(SagaEvent)
    BY <1>1, <1>3, <1>4, AppendProperties
  <2> QED
    BY <1>1, <1>2, <2>1 DEF SagaTyped, SagaPlace
<1>6. TriedOf(h) = TriedOf(g)
  BY <1>1 DEF TriedOf
<1>7. Collected(h) /\ FromTheEnd(h) /\ TriedOnce(h)
  BY <1>1, <1>2, <1>6 DEF Collected, FromTheEnd, TriedOnce
<1>8. EventsTell(h)
  <2>0. /\ Told(g) /\ Len(g.events) = Len(g.failed) + 1
    BY <1>1, <1>2 DEF EventsTell
  <2>1. CASE g.failed # <<>> /\ h.events = g.events
    <3>1. Told(h)
      BY <1>1, <1>6, <2>0, <2>1 DEF Told
    <3> QED
      BY <1>1, <2>0, <2>1, <3>1 DEF EventsTell
  <2>2. CASE g.failed = <<>> /\ h.events = Append(g.events, e)
    <3>1. Len(g.events) = 1 /\ Len(h.failed) = 0 /\ DOMAIN h.failed = {}
      BY <1>1, <2>0, <2>2
    <3>2. /\ Len(h.events) = 2 /\ h.events[2] = e /\ h.events[1] = g.events[1]
      BY <1>3, <1>4, <2>2, <3>1, AppendSet
    <3>3. Told(h)
      BY <1>1, <1>6, <2>0, <3>1, <3>2 DEF Told
    <3> QED
      BY <1>1, <2>2, <3>2, <3>3 DEF EventsTell, e
  <2> QED
    BY <1>1, <2>1, <2>2
<1> QED
  BY <1>1, <1>2, <1>5, <1>7, <1>8 DEF SagaGood, h

LEMMA NextSaga ==
    ASSUME SortGood(steps, sort), SagaGood(steps, saga),
           [(DefineStep /\ UNCHANGED saga) \/ SagaStep]_vars
    PROVE  SagaGood(steps', saga')
<1>1. steps' = steps
  BY DEF vars, DefineStep, RejectSteps, StartSort, PopQueue, ReduceDegree, EndSort, SagaStep,
         CompleteStep, RunCompensation, CollectStep, StartCompensation, CompensateStep,
         CompensationFails, EndCompensation
<1>2. CASE UNCHANGED saga
  BY <1>1, <1>2
<1>3. CASE SagaStep
  <2>1. SagaGood(steps, saga')
    BY <1>3, CompleteGood, RunGood, CollectGood, StartsGood, UndoGood, EndsGood DEF SagaStep
  <2> QED
    BY <1>1, <2>1
<1> QED
  BY <1>2, <1>3 DEF vars

-----------------------------------------------------------------------------
(* What runCompensation guarantees.                                        *)

\* In every state the completed steps are once each and after what they depend on,
\* those that were tried and those still to be undone are the completed ones with a
\* compensation that the loop has passed, tried ones first and from the end, and
\* the events list them and each failure so far (workflow/saga.go, runCompensation).
THEOREM SagaCorrect == Spec => []SagaGood(steps, saga)
<1>1. SagaInit => SagaGood(steps, saga)
  <2> SUFFICES ASSUME SagaInit PROVE SagaGood(steps, saga)
    OBVIOUS
  <2> DEFINE g == saga
  <2>1. /\ SagaRecord(g) /\ g.pc = "run" /\ g.completed = <<>> /\ g.at = 0 /\ g.undo = <<>>
        /\ g.compensated = <<>> /\ g.failed = <<>> /\ g.events = <<>>
    BY DEF SagaInit, SagaRecord
  <2> HIDE DEF g
  <2>2. ToSet(<<>>) = {} /\ Len(<<>>) = 0
    BY DEF ToSet
  <2>3. SagaTyped(steps, g) /\ SagaPlace(g)
    BY <2>1, <2>2 DEF SagaTyped, SagaPlace
  <2>4. Once(g.completed) /\ AfterDeps(steps, g.completed)
    BY <2>1 DEF Once, AfterDeps
  <2>5. TriedOf(g) = {}
    BY <2>1, <2>2 DEF TriedOf
  <2>6. Collected(g) /\ FromTheEnd(g) /\ TriedOnce(g) /\ EventsTell(g)
    BY <2>1, <2>2, <2>5 DEF Collected, FromTheEnd, TriedOnce, EventsTell, Once
  <2> QED
    BY <2>1, <2>3, <2>4, <2>6 DEF SagaGood, g
<1>2. /\ SortGood(steps, sort) /\ SagaGood(steps, saga)
      /\ [(DefineStep /\ UNCHANGED saga) \/ SagaStep]_vars
      => SagaGood(steps, saga)'
  BY NextSaga
<1> QED
  BY <1>1, <1>2, SortCorrect, PTL DEF Spec

\* When the compensation of a step is tried, that of every completed step that
\* needs it, directly or not, has been tried (workflow/saga.go, the loop from the
\* last completed step down).
THEOREM UndoneCorrect == Spec => []UndoneFromTheEnd
<1>1. SagaGood(steps, saga) => UndoneFromTheEnd
  <2> SUFFICES ASSUME SagaGood(steps, saga), NEW n \in Done, NEW d \in Done, n # d, d \in Tried,
                      Needs(n, d), n \in saga.compensation
               PROVE  n \in Tried
    BY DEF UndoneFromTheEnd
  <2> DEFINE g == saga
             q == g.completed
  <2>1. /\ SagaTyped(steps, g) /\ SagaPlace(g) /\ Once(q) /\ AfterDeps(steps, q)
        /\ Collected(g) /\ FromTheEnd(g) /\ TriedOf(g) = Tried
    BY DEF SagaGood, TriedOf, Tried
  <2>2. PICK i \in DOMAIN q : n = q[i]
    BY DEF Done, ToSet
  <2>3. PICK j \in DOMAIN q : d = q[j]
    BY DEF Done, ToSet
  <2> HIDE DEF g
  <2>4. DOMAIN q = 1 .. Len(q) /\ Len(q) \in Nat /\ g.at \in Nat
    BY <2>1 DEF SagaTyped
  <2>5. ToSet(q) \subseteq StepNames
    BY <2>1 DEF SagaTyped, NamesOf, StepNames
  <2> DEFINE T == {q[k] : k \in 1 .. i}
  <2>6. T \in SUBSET StepNames /\ n \in T
    BY <2>2, <2>4, <2>5 DEF ToSet
  <2>7. ASSUME NEW a \in T, NEW b \in StepNames, DependsOn(a, b)
        PROVE  b \in T
    <3>1. PICK k \in 1 .. i : a = q[k]
      OBVIOUS
    <3>2. k \in DOMAIN q
      BY <2>4
    <3> HIDE DEF q
    <3>3. PICK m \in DOMAIN q : m < k /\ q[m] = b
      BY <2>1, <2>4, <2>7, <3>1, <3>2, OrderPlaces
    <3>4. m \in 1 .. i
      BY <2>4, <3>2, <3>3
    <3> QED
      BY <3>3, <3>4
  <2>8. d \in T
    BY <2>6, <2>7 DEF Needs
  <2>9. j < i
    <3>1. PICK k \in 1 .. i : d = q[k]
      BY <2>8
    <3>2. k \in DOMAIN q
      BY <2>4
    <3>3. k = j
      BY <2>1, <2>3, <3>1, <3>2 DEF Once
    <3>4. j # i
      BY <2>2, <2>3
    <3> QED
      BY <2>4, <3>3, <3>4
  <2>10. g.pc # "run"
    BY <2>1 DEF SagaPlace, TriedOf, ToSet
  <2>11. j > g.at
    BY <2>1, <2>3, <2>10 DEF Collected
  <2>12. i > g.at
    BY <2>4, <2>9, <2>11
  <2>13. n \in g.compensation
    BY DEF g
  <2>14. n \in Tried \/ n \in ToSet(g.undo)
    BY <2>1, <2>2, <2>10, <2>12, <2>13 DEF Collected
  <2>15. n \in ToSet(g.undo) => i < j
    BY <2>1, <2>2, <2>3 DEF FromTheEnd
  <2> QED
    BY <2>4, <2>9, <2>14, <2>15
<1> QED
  BY <1>1, SagaCorrect, PTL

\* When runCompensation has ended, the completed steps with a compensation were
\* tried, each once and no other, and the events tell it: the steps tried, then
\* each failure in its order, or that there was none (workflow/saga.go).
THEOREM EachUndoneCorrect == Spec => []EachUndoneOnce
<1>1. SagaGood(steps, saga) => EachUndoneOnce
  <2> SUFFICES ASSUME SagaGood(steps, saga), saga.pc = "ended"
               PROVE  EachUndoneOnce
    BY DEF EachUndoneOnce
  <2> DEFINE g == saga
  <2>1. /\ SagaTyped(steps, g) /\ SagaPlace(g) /\ Collected(g) /\ TriedOnce(g) /\ EventsTell(g)
        /\ TriedOf(g) = Tried /\ g.pc = "ended"
    BY DEF SagaGood, TriedOf, Tried
  <2> HIDE DEF g
  <2>2. /\ g.at = 0 /\ ToSet(g.undo) = {} /\ Len(g.completed) \in Nat
        /\ DOMAIN g.completed = 1 .. Len(g.completed)
    BY <2>1 DEF SagaPlace, SagaTyped, ToSet
  <2>3. \A i \in DOMAIN g.completed : i > g.at
    BY <2>2
  <2>4. Tried = ToSet(g.completed) \cap g.compensation
    <3>1. \A i \in DOMAIN g.completed : g.completed[i] \in Tried <=> g.completed[i] \in g.compensation
      BY <2>1, <2>2, <2>3 DEF Collected
    <3>2. Tried \subseteq ToSet(g.completed)
      BY <2>1 DEF Collected
    <3> QED
      BY <3>1, <3>2 DEF ToSet
  <2>5. Len(g.compensated) + Len(g.failed) = Cardinality(Tried)
    <3>1. /\ IsFiniteSet(ToSet(g.compensated)) /\ IsFiniteSet(ToSet(g.failed))
          /\ Cardinality(ToSet(g.compensated)) = Len(g.compensated)
          /\ Cardinality(ToSet(g.failed)) = Len(g.failed)
      BY <2>1, OnceLength DEF TriedOnce, SagaTyped
    <3>2. ToSet(g.compensated) \cap ToSet(g.failed) = {}
      BY <2>1 DEF TriedOnce
    <3>3. Cardinality(TriedOf(g)) =
            Cardinality(ToSet(g.compensated)) + Cardinality(ToSet(g.failed)) - Cardinality({})
      BY <3>1, <3>2, FS_Union DEF TriedOf
    <3>4. Len(g.compensated) \in Nat /\ Len(g.failed) \in Nat /\ Cardinality({}) = 0
      BY <2>1, FS_EmptySet DEF SagaTyped
    <3>5. Cardinality(Tried) = Len(g.compensated) + Len(g.failed) - 0
      BY <2>1, <3>1, <3>3, <3>4, Zenon
    <3> QED
      BY <3>4, <3>5
  <2>6. CASE g.events = <<>> /\ TriedOf(g) = {}
    BY <2>1, <2>4, <2>5, <2>6 DEF EachUndoneOnce, g
  <2>7. CASE /\ Told(g)
             /\ IF g.failed # <<>> THEN Len(g.events) = Len(g.failed) + 1
                ELSE /\ Len(g.events) = 2
                     /\ g.events[2] = [type |-> "compensation.completed", steps |-> g.compensated]
    <3>1. /\ Tried # {} /\ g.events[1].type = "compensation.started"
          /\ ToSet(g.events[1].steps) = Tried
          /\ \A i \in DOMAIN g.failed : g.events[i + 1] = FailedEvent(g.failed[i])
      BY <2>1, <2>2, <2>7 DEF Told
    <3>2. g.events # <<>>
      <4>1. Len(g.failed) \in Nat /\ Len(g.events) > Len(g.failed)
        BY <2>1, <2>7 DEF Told, SagaTyped
      <4>2. Len(g.events) # 0
        BY <4>1
      <4> QED
        BY <4>2
    <3> QED
      BY <2>4, <2>5, <2>7, <3>1, <3>2 DEF EachUndoneOnce, g
  <2> QED
    BY <2>1, <2>6, <2>7 DEF EventsTell
<1> QED
  BY <1>1, SagaCorrect, PTL
=============================================================================
