--------------------------- MODULE ChildrenProofs ---------------------------
(***************************************************************************)
(* What the calls of Run and Map leave in the log (workflow/map.go): each  *)
(* child once with one outcome, no map half done, whatever goroutines make *)
(* calls in the same wave and however often a run is replayed.  The        *)
(* argument is one of ownership: what is not over in a replay belongs to   *)
(* one goroutine, the counters keep the indexes of goroutines apart, and a *)
(* replay that has ended has no goroutine.                                 *)
(***************************************************************************)
EXTENDS HistoryProofs

-----------------------------------------------------------------------------
(* Children and maps.                                                      *)

Outcomes == {"child.completed", "child.failed"}

\* The entries of h about the child id.
Of(h, id) == {j \in DOMAIN h : ChildEventOf(h[j], id)}

\* Child id was not spawned, is spawned and under way, or was not spawned or
\* spawned once and has one outcome.
Unknown(h, id) == \A j \in DOMAIN h : ~ChildEventOf(h[j], id)

Half(h, id) == \E i \in DOMAIN h : h[i].type = "child.spawned" /\ Of(h, id) = {i}

Whole(h, id) ==
    \/ Unknown(h, id)
    \/ \E i, k \in DOMAIN h : /\ i < k
                              /\ h[i].type = "child.spawned" /\ h[k].type \in Outcomes
                              /\ Of(h, id) = {i, k}

\* Map m has its outcome in h.
MapSettled(h, m) == Settled(h, "map.completed", MapId(m)) \/ GetMapError(h, m)

\* Event i of h comes after one of that type about id.
SettledBefore(h, i, type, id) ==
    \E j \in DOMAIN h : j < i /\ h[j].type = type /\ h[j].child = id

\* In h, results come after the completion of each child of the map, and a
\* failure comes after that of the child that it names.
MapsAfter(h) ==
    \A i \in DOMAIN h :
        /\ h[i].type = "map.completed" =>
              \A k \in Items :
                 SettledBefore(h, i, "child.completed", ItemId(h[i].child.map, k))
        /\ h[i].type = "map.failed" => SettledBefore(h, i, "child.failed", h[i].child)

\* In a stored log every child and every map is over.
KidsOver(h) ==
    /\ \A id \in ChildId : Whole(h, id)
    /\ \A i \in DOMAIN h : h[i].child.map # -1 => MapSettled(h, h[i].child.map)
    /\ MapsAfter(h)

\* Goroutine g has a map under way; it waits for child id.
Mapping(g) == g.pc \in {"mapping", "panic"}

Pends(g, id) ==
    \/ g.pc = "child" /\ id = RunId(g.index)
    \/ g.pc = "mapping" /\ \E i \in Items : g.kids[i] = "running" /\ id = ItemId(g.index, i)

\* What the trace h of a replay has about the children of its goroutine g.
GoKids(h, g) ==
    /\ g.pc = "child" => Half(h, RunId(g.index))
    /\ g.pc = "mapping" =>
          /\ \A i \in Items :
                /\ g.kids[i] \in {"new", "cancelled"} => Unknown(h, ItemId(g.index, i))
                /\ g.kids[i] = "running" => Half(h, ItemId(g.index, i))
                /\ g.kids[i] = "done" => Settled(h, "child.completed", ItemId(g.index, i))
          /\ g.first # -1 =>
                g.first \in Items /\ Settled(h, "child.failed", ItemId(g.index, g.first))

\* The indexes in use are below the counters, and no two goroutines share one.
Counted(S) ==
    /\ \A k \in DOMAIN S.new : /\ S.new[k].child.map < S.mapCount
                               /\ S.new[k].child.map = -1 => S.new[k].child.item < S.childCount
    /\ \A s \in Steps : /\ S.go[s].pc = "child" => S.go[s].index < S.childCount
                        /\ Mapping(S.go[s]) => S.go[s].index < S.mapCount
    /\ \A s, t \in Steps : s # t =>
          /\ S.go[s].pc = "child" /\ S.go[t].pc = "child" => S.go[s].index # S.go[t].index
          /\ Mapping(S.go[s]) /\ Mapping(S.go[t]) => S.go[s].index # S.go[t].index

\* The invariant of one replay: what is not over belongs to a goroutine.
KidsGood(S) ==
    /\ KidsOver(S.hist)
    /\ Counted(S)
    /\ \A s \in Steps : /\ GoKids(Trace(S), S.go[s])
                        /\ \A k \in DOMAIN S.go[s].evs : S.go[s].evs[k].child = NoChild
    /\ \A id \in ChildId : Whole(Trace(S), id) \/ \E s \in Steps : Pends(S.go[s], id)
    /\ \A i \in DOMAIN Trace(S) : Trace(S)[i].child.map # -1 =>
          \/ MapSettled(Trace(S), Trace(S)[i].child.map)
          \/ \E s \in Steps : Mapping(S.go[s]) /\ S.go[s].index = Trace(S)[i].child.map
    /\ MapsAfter(Trace(S))

-----------------------------------------------------------------------------
(* What new events leave of children and maps.                             *)

\* Events that are not about child id.
LEMMA OthersGrow ==
    ASSUME NEW h \in Seq(Event), NEW b \in Seq(Event), NEW id,
           \A k \in DOMAIN b : ~ChildEventOf(b[k], id)
    PROVE  /\ Unknown(h, id) => Unknown(h \o b, id)
           /\ Half(h, id) => Half(h \o b, id)
           /\ Whole(h, id) => Whole(h \o b, id)
<1> DEFINE t == h \o b
<1>0. /\ \A i \in DOMAIN h : i \in DOMAIN t /\ t[i] = h[i]
      /\ \A i \in DOMAIN t : \/ i \in DOMAIN h /\ t[i] = h[i]
                             \/ \E k \in DOMAIN b : t[i] = b[k]
  BY Grown
<1> HIDE DEF t
<1>1. Of(t, id) = Of(h, id)
  BY <1>0 DEF Of
<1>2. Unknown(h, id) => Unknown(t, id)
  BY <1>0 DEF Unknown
<1>3. Half(h, id) => Half(t, id)
  BY <1>0, <1>1 DEF Half
<1>4. Whole(h, id) => Whole(t, id)
  BY <1>0, <1>1, <1>2 DEF Whole
<1> QED
  BY <1>2, <1>3, <1>4 DEF t

\* What is settled stays so.
LEMMA SettledGrows ==
    ASSUME NEW h \in Seq(Event), NEW b \in Seq(Event)
    PROVE  /\ \A type, id : Settled(h, type, id) => Settled(h \o b, type, id)
           /\ \A m : MapSettled(h, m) => MapSettled(h \o b, m)
<1> DEFINE t == h \o b
<1>0. \A i \in DOMAIN h : i \in DOMAIN t /\ t[i] = h[i]
  BY Grown
<1> HIDE DEF t
<1>1. \A type, id : Settled(h, type, id) => Settled(t, type, id)
  BY <1>0 DEF Settled
<1>2. \A m : GetMapError(h, m) => GetMapError(t, m)
  BY <1>0 DEF GetMapError
<1> QED
  BY <1>1, <1>2 DEF MapSettled, t

\* The event that is added.
LEMMA AddedEvent ==
    ASSUME NEW h \in Seq(Event), NEW e
    PROVE  /\ \A i \in DOMAIN h : i \in DOMAIN Append(h, e) /\ Append(h, e)[i] = h[i]
           /\ Len(h) + 1 \in DOMAIN Append(h, e) /\ Append(h, e)[Len(h) + 1] = e
           /\ \A i \in DOMAIN Append(h, e) :
                 i \in DOMAIN h \/ i = Len(h) + 1
           /\ \A i \in DOMAIN h : i < Len(h) + 1 /\ i # Len(h) + 1
           /\ Settled(Append(h, e), e.type, e.child)
<1> DEFINE t == Append(h, e)
           last == Len(h) + 1
<1>1. /\ \A i \in DOMAIN h : i \in DOMAIN t /\ t[i] = h[i]
      /\ last \in DOMAIN t /\ t[last] = e
      /\ \A i \in DOMAIN t : i \in DOMAIN h \/ i = last
      /\ \A i \in DOMAIN h : i < last /\ i # last
  OBVIOUS
<1> HIDE DEF t, last
<1>2. Settled(t, e.type, e.child)
  BY <1>1 DEF Settled
<1> QED
  BY <1>1, <1>2 DEF t, last

\* A child is spawned.
LEMMA Spawned ==
    ASSUME NEW h \in Seq(Event), NEW e, NEW id, Unknown(h, id),
           e.type = "child.spawned", e.child = id
    PROVE  Half(Append(h, e), id)
<1> DEFINE t == Append(h, e)
           last == Len(h) + 1
<1>1. /\ \A i \in DOMAIN h : t[i] = h[i]
      /\ last \in DOMAIN t /\ t[last] = e
      /\ \A i \in DOMAIN t : i \in DOMAIN h \/ i = last
  BY AddedEvent
<1> HIDE DEF t, last
<1>2. Of(t, id) = {last}
  BY <1>1 DEF Of, Unknown, ChildEventOf
<1>3. Half(t, id)
  BY <1>1, <1>2 DEF Half
<1> QED
  BY <1>3 DEF t

\* A child that was spawned has its outcome.
LEMMA CameBack ==
    ASSUME NEW h \in Seq(Event), NEW e, NEW id, Half(h, id),
           e.type \in Outcomes, e.child = id
    PROVE  Whole(Append(h, e), id)
<1> DEFINE t == Append(h, e)
           last == Len(h) + 1
<1>1. /\ \A i \in DOMAIN h : i \in DOMAIN t /\ t[i] = h[i]
      /\ last \in DOMAIN t /\ t[last] = e
      /\ \A i \in DOMAIN t : i \in DOMAIN h \/ i = last
      /\ \A i \in DOMAIN h : i < last
  BY AddedEvent
<1> HIDE DEF t, last
<1>2. PICK i \in DOMAIN h : h[i].type = "child.spawned" /\ Of(h, id) = {i}
  BY DEF Half
<1>3. Of(t, id) = {i, last}
  BY <1>1, <1>2 DEF Of, ChildEventOf, Outcomes
<1>4. Whole(t, id)
  BY <1>1, <1>2, <1>3 DEF Whole
<1> QED
  BY <1>4 DEF t

\* New events come after what they rest on.
LEMMA MapsAfterGrows ==
    ASSUME NEW h \in Seq(Event), NEW b \in Seq(Event), MapsAfter(h),
           \A k \in DOMAIN b :
              /\ b[k].type = "map.completed" =>
                    \A i \in Items : Settled(h, "child.completed", ItemId(b[k].child.map, i))
              /\ b[k].type = "map.failed" => Settled(h, "child.failed", b[k].child)
    PROVE  MapsAfter(h \o b)
<1> DEFINE t == h \o b
<1>0. /\ DOMAIN h = 1 .. Len(h) /\ DOMAIN b = 1 .. Len(b) /\ Len(h) \in Nat
      /\ \A i \in DOMAIN h : i \in DOMAIN t /\ t[i] = h[i]
      /\ \A i \in DOMAIN t : \/ i \in DOMAIN h /\ t[i] = h[i]
                             \/ i \notin DOMAIN h /\ \E k \in DOMAIN b : i = Len(h) + k /\ t[i] = b[k]
  BY Grown
<1> HIDE DEF t
<1>1. ASSUME NEW i \in DOMAIN h, NEW type, NEW id, SettledBefore(h, i, type, id)
      PROVE  SettledBefore(t, i, type, id)
  BY <1>0, <1>1 DEF SettledBefore
<1>2. ASSUME NEW k \in DOMAIN b, NEW type, NEW id, Settled(h, type, id)
      PROVE  SettledBefore(t, Len(h) + k, type, id)
  <2>1. PICK j \in DOMAIN h : h[j].type = type /\ h[j].child = id
    BY <1>2 DEF Settled
  <2>2. j < Len(h) + k
    BY <1>0
  <2> QED
    BY <1>0, <2>1, <2>2 DEF SettledBefore
<1>3. ASSUME NEW i \in DOMAIN t
      PROVE  /\ t[i].type = "map.completed" =>
                   \A k \in Items :
                      SettledBefore(t, i, "child.completed", ItemId(t[i].child.map, k))
             /\ t[i].type = "map.failed" => SettledBefore(t, i, "child.failed", t[i].child)
  <2>1. CASE i \in DOMAIN h /\ t[i] = h[i]
    BY <1>1, <2>1 DEF MapsAfter
  <2>2. CASE \E k \in DOMAIN b : i = Len(h) + k /\ t[i] = b[k]
    BY <1>2, <2>2
  <2> QED
    BY <1>0, <2>1, <2>2
<1>4. MapsAfter(t)
  BY <1>3 DEF MapsAfter
<1> QED
  BY <1>4 DEF t

\* Ids of children of Run and of different maps, and of the items of a map, are
\* different.
LEMMA IdsApart ==
    /\ RunId(0).map = -1
    /\ \A i, j : RunId(i) = RunId(j) <=> i = j
    /\ \A m, n, i, j : ItemId(m, i) = ItemId(n, j) <=> m = n /\ i = j
    /\ \A m, i : ItemId(m, i).map = m /\ ItemId(m, i).item = i
    /\ \A m : MapId(m).map = m /\ MapId(m).item = -1
    /\ \A i : RunId(i).map = -1 /\ RunId(i).item = i
    /\ NoChild.map = -1 /\ NoChild.item = -1
    /\ \A i \in Int : RunId(i) \in ChildId
    /\ \A m, i \in Int : ItemId(m, i) \in ChildId /\ MapId(m) \in ChildId
    /\ NoChild \in ChildId
  BY DEF RunId, ItemId, MapId, NoChild, ChildId

-----------------------------------------------------------------------------
(* Every step of a replay keeps KidsGood.                                  *)

\* The goroutine's children, when the new events are not about them.
LEMMA GoKidsGrow ==
    ASSUME NEW h \in Seq(Event), NEW b \in Seq(Event), NEW g, GoKids(h, g),
           g.pc = "child" => \A k \in DOMAIN b : ~ChildEventOf(b[k], RunId(g.index)),
           g.pc = "mapping" =>
              \A k \in DOMAIN b : \A i \in Items : ~ChildEventOf(b[k], ItemId(g.index, i))
    PROVE  GoKids(h \o b, g)
<1> DEFINE t == h \o b
<1>1. g.pc = "child" => Half(t, RunId(g.index))
  BY OthersGrow DEF GoKids
<1>2. ASSUME g.pc = "mapping", NEW i \in Items
      PROVE  /\ g.kids[i] \in {"new", "cancelled"} => Unknown(t, ItemId(g.index, i))
             /\ g.kids[i] = "running" => Half(t, ItemId(g.index, i))
             /\ g.kids[i] = "done" => Settled(t, "child.completed", ItemId(g.index, i))
  <2> DEFINE id == ItemId(g.index, i)
  <2>1. \A k \in DOMAIN b : ~ChildEventOf(b[k], id)
    BY <1>2
  <2>2. /\ g.kids[i] \in {"new", "cancelled"} => Unknown(h, id)
        /\ g.kids[i] = "running" => Half(h, id)
        /\ g.kids[i] = "done" => Settled(h, "child.completed", id)
    BY <1>2 DEF GoKids
  <2> HIDE DEF id
  <2>3. (Unknown(h, id) => Unknown(t, id)) /\ (Half(h, id) => Half(t, id))
    BY <2>1, OthersGrow
  <2>4. Settled(h, "child.completed", id) => Settled(t, "child.completed", id)
    BY SettledGrows
  <2> QED
    BY <2>2, <2>3, <2>4 DEF id
<1>3. g.pc = "mapping" /\ g.first # -1 =>
         g.first \in Items /\ Settled(t, "child.failed", ItemId(g.index, g.first))
  BY SettledGrows DEF GoKids
<1> HIDE DEF t
<1>4. GoKids(t, g)
  BY <1>1, <1>2, <1>3 DEF GoKids
<1> QED
  BY <1>4 DEF t

\* A batch of events about neither children nor maps.
Plain(b) == \A k \in DOMAIN b : b[k].child = NoChild /\ b[k].type \notin ChildTypes

\* Goroutine g has no call under way.
Closed(g) == g.pc \notin {"child", "mapping", "panic"}

\* T adds a plain batch to S, and the goroutines that moved had no call under way
\* and have none.
PlainMove(S, T, b) ==
    /\ Plain(b)
    /\ T.hist = S.hist /\ T.new = S.new \o b
    /\ S.childCount <= T.childCount /\ S.mapCount <= T.mapCount
    /\ \A s \in Steps : \/ T.go[s] = S.go[s]
                        \/ /\ Closed(S.go[s]) /\ Closed(T.go[s])
                           /\ \A k \in DOMAIN T.go[s].evs : T.go[s].evs[k].child = NoChild

\* The types of counters, indexes and ids.
LEMMA CountTypes ==
    ASSUME NEW S \in Session
    PROVE  /\ S.childCount \in Nat /\ S.mapCount \in Nat
           /\ \A s \in Steps : S.go[s].index \in Nat
           /\ \A k \in DOMAIN S.new : /\ S.new[k].child.map \in Int /\ S.new[k].child.item \in Int
                                      /\ S.new[k].child \in ChildId
<1>1. S.childCount \in Nat /\ S.mapCount \in Nat /\ \A s \in Steps : S.go[s].index \in Nat
  BY DEF Session, Goroutine
<1>2. \A k \in DOMAIN S.new : S.new[k] \in Event
  BY SessionTypes
<1> QED
  BY <1>1, <1>2 DEF Event, ChildId

\* Such a move keeps the invariant.
LEMMA PlainKeepsKids ==
    ASSUME NEW S \in Session, NEW T \in Session, NEW b \in Seq(Event), KidsGood(S),
           PlainMove(S, T, b)
    PROVE  KidsGood(T)
<1>0. Trace(T) = Trace(S) \o b /\ Trace(S) \in Seq(Event) /\ S.new \in Seq(Event)
  BY TraceGrows, SessionTypes DEF PlainMove
<1>1. \A k \in DOMAIN b : \A id : ~ChildEventOf(b[k], id)
  BY DEF PlainMove, Plain, ChildEventOf, ChildTypes
<1>2. ASSUME NEW s \in Steps
      PROVE  /\ GoKids(Trace(T), T.go[s])
             /\ \A k \in DOMAIN T.go[s].evs : T.go[s].evs[k].child = NoChild
  <2>1. CASE T.go[s] = S.go[s]
    <3>1. GoKids(Trace(S), S.go[s])
      BY DEF KidsGood
    <3>2. GoKids(Trace(S) \o b, S.go[s])
      BY <1>0, <1>1, <3>1, GoKidsGrow
    <3> QED
      BY <1>0, <2>1, <3>2 DEF KidsGood
  <2>2. CASE Closed(T.go[s]) /\ \A k \in DOMAIN T.go[s].evs : T.go[s].evs[k].child = NoChild
    BY <2>2 DEF Closed, GoKids
  <2> QED
    BY <2>1, <2>2 DEF PlainMove
<1>3. \A s \in Steps : (T.go[s].pc = "child" \/ Mapping(T.go[s])) => T.go[s] = S.go[s]
  BY DEF PlainMove, Closed, Mapping
<1>4. Counted(T)
  <2>0. /\ S.childCount \in Nat /\ S.mapCount \in Nat /\ T.childCount \in Nat /\ T.mapCount \in Nat
        /\ S.childCount <= T.childCount /\ S.mapCount <= T.mapCount
        /\ \A s \in Steps : S.go[s].index \in Nat
    BY CountTypes DEF PlainMove
  <2>1. ASSUME NEW k \in DOMAIN T.new
        PROVE  /\ T.new[k].child.map < T.mapCount
               /\ T.new[k].child.map = -1 => T.new[k].child.item < T.childCount
    <3>1. CASE \E m \in DOMAIN S.new : T.new[k] = S.new[m]
      <4>1. PICK m \in DOMAIN S.new : T.new[k] = S.new[m]
        BY <3>1
      <4>2. /\ S.new[m].child.map \in Int /\ S.new[m].child.item \in Int
            /\ S.new[m].child.map < S.mapCount
            /\ S.new[m].child.map = -1 => S.new[m].child.item < S.childCount
        BY CountTypes DEF KidsGood, Counted
      <4> QED
        BY <2>0, <4>1, <4>2
    <3>2. CASE \E m \in DOMAIN b : T.new[k] = b[m]
      <4>1. T.new[k].child = NoChild
        BY <3>2 DEF PlainMove, Plain
      <4> QED
        BY <2>0, <4>1, IdsApart
    <3> QED
      BY <1>0, <3>1, <3>2, Grown DEF PlainMove
  <2>2. \A s \in Steps : /\ T.go[s].pc = "child" => T.go[s].index < T.childCount
                         /\ Mapping(T.go[s]) => T.go[s].index < T.mapCount
    BY <1>3, <2>0 DEF KidsGood, Counted
  <2>3. \A s, t \in Steps : s # t =>
          /\ T.go[s].pc = "child" /\ T.go[t].pc = "child" => T.go[s].index # T.go[t].index
          /\ Mapping(T.go[s]) /\ Mapping(T.go[t]) => T.go[s].index # T.go[t].index
    BY <1>3 DEF KidsGood, Counted
  <2> QED
    BY <2>1, <2>2, <2>3 DEF Counted
<1>5. \A s \in Steps : (S.go[s].pc = "child" \/ Mapping(S.go[s])) => T.go[s] = S.go[s]
  BY DEF PlainMove, Closed, Mapping
<1>6. ASSUME NEW id \in ChildId PROVE Whole(Trace(T), id) \/ \E s \in Steps : Pends(T.go[s], id)
  <2>1. CASE Whole(Trace(S), id)
    BY <1>0, <1>1, <2>1, OthersGrow
  <2>2. CASE \E s \in Steps : Pends(S.go[s], id)
    BY <1>5, <2>2 DEF Pends, Mapping
  <2> QED
    BY <2>1, <2>2 DEF KidsGood
<1>7. ASSUME NEW i \in DOMAIN Trace(T), Trace(T)[i].child.map # -1
      PROVE  \/ MapSettled(Trace(T), Trace(T)[i].child.map)
             \/ \E s \in Steps : Mapping(T.go[s]) /\ T.go[s].index = Trace(T)[i].child.map
  <2>1. i \in DOMAIN Trace(S) /\ Trace(T)[i] = Trace(S)[i]
    BY <1>0, <1>7, Grown, IdsApart DEF PlainMove, Plain
  <2>2. CASE MapSettled(Trace(S), Trace(S)[i].child.map)
    BY <1>0, <2>1, <2>2, SettledGrows
  <2>3. CASE \E s \in Steps : Mapping(S.go[s]) /\ S.go[s].index = Trace(S)[i].child.map
    BY <1>5, <2>1, <2>3
  <2> QED
    BY <1>7, <2>1, <2>2, <2>3 DEF KidsGood
<1>8. MapsAfter(Trace(T))
  <2>1. \A k \in DOMAIN b : b[k].type # "map.completed" /\ b[k].type # "map.failed"
    BY DEF PlainMove, Plain, ChildTypes
  <2>2. MapsAfter(Trace(S))
    BY DEF KidsGood
  <2> QED
    BY <1>0, <2>1, <2>2, MapsAfterGrows
<1>9. KidsOver(T.hist)
  BY DEF KidsGood, PlainMove
<1> QED
  BY <1>2, <1>4, <1>6, <1>7, <1>8, <1>9 DEF KidsGood

\* No event, and one plain event, are plain batches.
LEMMA PlainBatch ==
    ASSUME NEW q \in Seq(ReplayerEvent), NEW n,
           \/ n = q
           \/ \E e \in ReplayerEvent : n = Append(q, e) /\ e.child = NoChild /\ e.type \notin ChildTypes
    PROVE  \E b \in Seq(Event) : n = q \o b /\ Plain(b)
<1>1. CASE n = q
  <2> DEFINE b == <<>>
  <2>1. n = q \o b /\ b \in Seq(Event) /\ DOMAIN b = {}
    BY <1>1
  <2> HIDE DEF b
  <2> QED
    BY <2>1 DEF Plain
<1>2. CASE \E e \in ReplayerEvent :
              n = Append(q, e) /\ e.child = NoChild /\ e.type \notin ChildTypes
  <2> PICK e \in ReplayerEvent :
              n = Append(q, e) /\ e.child = NoChild /\ e.type \notin ChildTypes
    BY <1>2
  <2> DEFINE b == << e >>
  <2>1. n = q \o b /\ b \in Seq(Event) /\ \A k \in DOMAIN b : b[k] = e
    BY OneEvent
  <2> HIDE DEF b
  <2> QED
    BY <2>1 DEF Plain
<1> QED
  BY <1>1, <1>2

\* A goroutine without a call under way moves, and has none afterwards.
LEMMA PlainGo ==
    ASSUME NEW S \in Session, NEW T \in Session, NEW s \in Steps, KidsGood(S),
           T.hist = S.hist,
           \/ T.new = S.new
           \/ \E e \in ReplayerEvent :
                 T.new = Append(S.new, e) /\ e.child = NoChild /\ e.type \notin ChildTypes,
           S.childCount <= T.childCount, S.mapCount <= T.mapCount,
           \A t \in Steps \ {s} : T.go[t] = S.go[t],
           Closed(S.go[s]), Closed(T.go[s]),
           \/ T.go[s].evs = S.go[s].evs
           \/ \E f : T.go[s].evs = Append(S.go[s].evs, f) /\ f.child = NoChild
    PROVE  KidsGood(T)
<1>0. S.new \in Seq(ReplayerEvent) /\ S.go[s].evs \in Seq(ReplayerEvent)
  BY SessionTypes
<1>1. PICK b \in Seq(Event) : T.new = S.new \o b /\ Plain(b)
  BY <1>0, PlainBatch
<1>2. \A k \in DOMAIN S.go[s].evs : S.go[s].evs[k].child = NoChild
  BY DEF KidsGood
<1>3. \A k \in DOMAIN T.go[s].evs : T.go[s].evs[k].child = NoChild
  <2>1. CASE T.go[s].evs = S.go[s].evs
    BY <1>2, <2>1
  <2>2. CASE \E f : T.go[s].evs = Append(S.go[s].evs, f) /\ f.child = NoChild
    <3>1. PICK f : T.go[s].evs = Append(S.go[s].evs, f) /\ f.child = NoChild
      BY <2>2
    <3>2. \A k \in DOMAIN T.go[s].evs :
             \/ k \in DOMAIN S.go[s].evs /\ T.go[s].evs[k] = S.go[s].evs[k]
             \/ T.go[s].evs[k] = f
      BY <1>0, <3>1, OneMore
    <3> QED
      BY <1>2, <3>1, <3>2
  <2> QED
    BY <2>1, <2>2
<1>4. PlainMove(S, T, b)
  BY <1>1, <1>3 DEF PlainMove
<1> QED
  BY <1>4, PlainKeepsKids

\* The events of executeStepWithEvents.
LEMMA PlainEvents ==
    /\ \A type, name, data : EvData(type, name, data).child = NoChild
                             /\ EvData(type, name, data).type = type
    /\ \A type, name, data, attempt : EvAttempt(type, name, data, attempt).child = NoChild
    /\ \A type, name : Ev(type, name).child = NoChild /\ Ev(type, name).type = type
  BY DEF Ev, EvData, EvAttempt

\* The steps of executeStepWithEvents.
LEMMA GoStepKids ==
    ASSUME TypedSessions, NEW w \in Replayers, NEW s \in Steps, KidsGood(sess[w]), GoStep(w, s)
    PROVE  KidsGood(sess'[w])
<1> DEFINE S == sess[w]
           T == sess'[w]
           g == S.go[s]
<1>0. S \in Session /\ T \in Session /\ g \in Goroutine /\ KidsGood(S)
  BY GoStepType, SessionTypes DEF TypedSessions
<1>1. \A X : SetSession(w, X) => T = X
  BY DEF SetSession, TypedSessions
<1>2. S.childCount \in Nat /\ S.mapCount \in Nat
  BY <1>0, CountTypes
<1> SUFFICES KidsGood(T)
  OBVIOUS
\* A goroutine replaced by x.
<1>3. ASSUME NEW x, T = [S EXCEPT !.go[s] = x], Closed(g), Closed(x),
             x.evs = g.evs \/ \E f : x.evs = Append(g.evs, f) /\ f.child = NoChild
      PROVE  KidsGood(T)
  <2> HIDE DEF S, T
  <2>1. /\ T.hist = S.hist /\ T.new = S.new /\ T.childCount = S.childCount
        /\ T.mapCount = S.mapCount /\ T.go[s] = x /\ \A t \in Steps \ {s} : T.go[t] = S.go[t]
    BY <1>0, <1>3 DEF Session
  <2>2. S.childCount <= T.childCount /\ S.mapCount <= T.mapCount
    BY <1>2, <2>1
  <2>3. /\ Closed(S.go[s]) /\ Closed(T.go[s])
        /\ \/ T.go[s].evs = S.go[s].evs
           \/ \E f : T.go[s].evs = Append(S.go[s].evs, f) /\ f.child = NoChild
    BY <1>3, <2>1
  <2> QED
    BY <1>0, <2>1, <2>2, <2>3, PlainGo
<1>4. CASE GoContextError(w, s)
  <2> DEFINE x == [g EXCEPT !.pc = "error"]
  <2>1. T = [S EXCEPT !.go[s] = x] /\ g.pc \in {"enter", "attempt"}
    BY <1>1, <1>4 DEF GoContextError, SetGo
  <2>2. x.pc = "error" /\ x.evs = g.evs
    <3> HIDE DEF g
    <3> QED
      BY <1>0 DEF Goroutine
  <2> HIDE DEF x, g, S, T
  <2> QED
    BY <1>3, <2>1, <2>2 DEF Closed
<1>5. CASE EnterStep(w, s)
  <2> DEFINE x == [g EXCEPT !.pc = "attempt", !.name = s]
  <2>1. T = [S EXCEPT !.go[s] = x] /\ g.pc = "enter"
    BY <1>1, <1>5 DEF EnterStep, SetGo
  <2>2. x.pc = "attempt" /\ x.evs = g.evs
    <3> HIDE DEF g
    <3> QED
      BY <1>0 DEF Goroutine
  <2> HIDE DEF x, g, S, T
  <2> QED
    BY <1>3, <2>1, <2>2 DEF Closed
<1>6. CASE StartAttempt(w, s)
  <2> DEFINE e == EvAttempt("step.started", g.name, None, g.attempt)
             x == [g EXCEPT !.pc = "running", !.got = <<>>, !.evs = Append(@, e)]
  <2>1. T = [S EXCEPT !.go[s] = x] /\ g.pc = "attempt" /\ e.child = NoChild
    BY <1>1, <1>6, PlainEvents DEF StartAttempt, SetGo
  <2>2. x.pc = "running" /\ x.evs = Append(g.evs, e)
    <3> HIDE DEF g, e
    <3> QED
      BY <1>0 DEF Goroutine
  <2> HIDE DEF x, g, S, T, e
  <2> QED
    BY <1>3, <2>1, <2>2 DEF Closed
<1>7. CASE StepFails(w, s)
  <2> DEFINE willRetry == ShouldRetry(s, g.attempt)
             pc == IF willRetry THEN "attempt" ELSE "error"
             attempt == IF willRetry THEN g.attempt + 1 ELSE g.attempt
             e == EvAttempt("step.failed", g.name,
                            IF willRetry THEN "willRetry" ELSE "noRetry", g.attempt)
             x == [g EXCEPT !.pc = pc, !.attempt = attempt, !.evs = Append(@, e)]
  <2>1. T = [S EXCEPT !.go[s] = x] /\ g.pc \in {"running", "failing"}
    BY <1>1, <1>7 DEF StepFails, SetGo, BodyMayFail
  <2>2. e.child = NoChild /\ pc \in {"attempt", "error"}
    BY PlainEvents
  <2>3. x.pc = pc /\ x.evs = Append(g.evs, e)
    <3> HIDE DEF g, e, pc, attempt
    <3> QED
      BY <1>0 DEF Goroutine
  <2> HIDE DEF x, g, S, T, e, pc
  <2> QED
    BY <1>3, <2>1, <2>2, <2>3 DEF Closed
<1>8. CASE StepSucceeds(w, s)
  <2> DEFINE n == g.name
             e == Ev("step.completed", n)
             x == [g EXCEPT !.pc = "ok", !.evs = Append(@, e)]
  <2>1. T = [S EXCEPT !.cache = @ \cup {n}, !.go[s] = x] /\ g.pc = "running" /\ e.child = NoChild
    BY <1>1, <1>8, PlainEvents DEF StepSucceeds
  <2>2. x.pc = "ok" /\ x.evs = Append(g.evs, e)
    <3> HIDE DEF g, e
    <3> QED
      BY <1>0 DEF Goroutine
  <2>3. Closed(x) /\ Closed(g)
    BY <2>1, <2>2 DEF Closed
  <2> HIDE DEF x, S, T, e, n
  <2>4. /\ T.hist = S.hist /\ T.new = S.new /\ T.childCount = S.childCount
        /\ T.mapCount = S.mapCount /\ T.go[s] = x /\ \A t \in Steps \ {s} : T.go[t] = S.go[t]
    BY <1>0, <2>1 DEF Session
  <2>5. S.childCount <= T.childCount /\ S.mapCount <= T.mapCount
    BY <1>2, <2>4
  <2>6. /\ Closed(S.go[s]) /\ Closed(T.go[s])
        /\ \E f : T.go[s].evs = Append(S.go[s].evs, f) /\ f.child = NoChild
    BY <2>1, <2>2, <2>3, <2>4
  <2> QED
    BY <1>0, <2>4, <2>5, <2>6, PlainGo
<1>9. CASE StepWaits(w, s)
  <2> DEFINE n == g.name
             x == [g EXCEPT !.pc = "waiting"]
  <2>0. n \in Names /\ g.pc = "running"
    BY <1>0, <1>9 DEF StepWaits, Goroutine, BodyPcs
  <2>1. PICK i \in DOMAIN Awaits[n] :
          T = [S EXCEPT !.new = IF SignalWaiting(S.hist, Awaits[n][i]) THEN @
                                ELSE Append(@, Ev("signal.waiting", Awaits[n][i])),
                        !.signals = @ \cup {Awaits[n][i]},
                        !.go[s] = [@ EXCEPT !.pc = "waiting"]]
    BY <1>1, <1>9 DEF StepWaits
  <2> DEFINE sig == Awaits[n][i]
             e == Ev("signal.waiting", sig)
             new == IF SignalWaiting(S.hist, sig) THEN S.new ELSE Append(S.new, e)
  <2>2. e \in ReplayerEvent /\ e.child = NoChild /\ e.type \notin ChildTypes
    BY <2>0, AwaitsAssumption, EvTypes, PlainEvents DEF ChildTypes
  <2>3. x.pc = "waiting" /\ x.evs = g.evs
    <3> HIDE DEF g
    <3> QED
      BY <1>0 DEF Goroutine
  <2>4. Closed(x) /\ Closed(g)
    BY <2>0, <2>3 DEF Closed
  <2>5. T = [S EXCEPT !.new = new, !.signals = @ \cup {sig}, !.go[s] = x]
    BY <2>1
  <2>6. new = S.new \/ new = Append(S.new, e)
    OBVIOUS
  <2> HIDE DEF x, S, T, e, n, sig, new
  <2>7. /\ T.hist = S.hist /\ T.new = new /\ T.childCount = S.childCount
        /\ T.mapCount = S.mapCount /\ T.go[s] = x /\ \A t \in Steps \ {s} : T.go[t] = S.go[t]
    BY <1>0, <2>5 DEF Session
  <2>8. S.childCount <= T.childCount /\ S.mapCount <= T.mapCount
    BY <1>2, <2>7
  <2> QED
    BY <1>0, <2>2, <2>3, <2>4, <2>6, <2>7, <2>8, PlainGo
<1>10. CASE EnterBranch(w, s)
  <2>1. PICK c \in Cases[s] :
          \/ T = [S EXCEPT !.go[s] = [g EXCEPT !.pc = "attempt", !.name = CaseName(s, c)]]
          \/ T = [S EXCEPT !.new = Append(@, EvData("branch.evaluated", s, c)),
                           !.go[s] = [g EXCEPT !.pc = "attempt", !.name = CaseName(s, c)]]
    BY <1>1, <1>10 DEF EnterBranch, SetGo
  <2> DEFINE n == CaseName(s, c)
             e == EvData("branch.evaluated", s, c)
             x == [g EXCEPT !.pc = "attempt", !.name = n]
  <2>2. e \in ReplayerEvent /\ e.child = NoChild /\ e.type \notin ChildTypes
    BY EvTypes, CasesAssumption, PlainEvents DEF ChildTypes
  <2>3. g.pc = "enter" /\ x.pc = "attempt" /\ x.evs = g.evs
    <3>1. g.pc = "enter"
      BY <1>10 DEF EnterBranch
    <3> HIDE DEF g, n
    <3> QED
      BY <1>0, <3>1 DEF Goroutine
  <2>4. Closed(x) /\ Closed(g)
    BY <2>3 DEF Closed
  <2>5. T = [S EXCEPT !.go[s] = x] \/ T = [S EXCEPT !.new = Append(@, e), !.go[s] = x]
    BY <2>1
  <2> HIDE DEF x, S, T, e, n
  <2>6. /\ T.hist = S.hist /\ T.new \in {S.new, Append(S.new, e)}
        /\ T.childCount = S.childCount /\ T.mapCount = S.mapCount
        /\ T.go[s] = x /\ \A t \in Steps \ {s} : T.go[t] = S.go[t]
    <3>1. CASE T = [S EXCEPT !.go[s] = x]
      BY <1>0, <3>1 DEF Session
    <3>2. CASE T = [S EXCEPT !.new = Append(@, e), !.go[s] = x]
      BY <1>0, <3>2 DEF Session
    <3> QED
      BY <2>5, <3>1, <3>2
  <2>7. S.childCount <= T.childCount /\ S.mapCount <= T.mapCount
    BY <1>2, <2>6
  <2> QED
    BY <1>0, <2>2, <2>3, <2>4, <2>6, <2>7, PlainGo
<1> QED
  BY <1>4, <1>5, <1>6, <1>7, <1>8, <1>9, <1>10 DEF GoStep

\* The wave loop: a wave begins, or ends with all of its goroutines returned, or
\* the replay does.
LEMMA WaveKids ==
    ASSUME TypedSessions, NEW w \in Replayers, SessionGood(sess[w]), KidsGood(sess[w]),
           Suspend(w) \/ CompleteReplay(w) \/ BeginWave(w) \/ EndWave(w) \/ CancelContext(w)
    PROVE  KidsGood(sess'[w])
<1> DEFINE S == sess[w]
           T == sess'[w]
           e == Ev("workflow.completed", None)
<1>0. S \in Session /\ T \in Session
  <2>1. S \in Session
    BY DEF TypedSessions
  <2>2. CASE CancelContext(w)
    <3>1. T = [S EXCEPT !.ctxDone = TRUE]
      BY <2>2 DEF CancelContext, SetSession, TypedSessions
    <3> HIDE DEF S, T
    <3> QED
      BY <2>1, <3>1 DEF Session
  <2> QED
    BY <2>1, <2>2, ReplayStepType DEF ReplayStep, TypedSessions
<1>1. e \in ReplayerEvent /\ e.child = NoChild /\ e.type \notin ChildTypes
  BY EvTypes, PlainEvents DEF ChildTypes
<1>2. KidsGood(S) /\ WaveShape(S) /\ S.childCount \in Nat /\ S.mapCount \in Nat
  BY <1>0, CountTypes DEF SessionGood
<1>3. /\ Closed(NoGoroutine) /\ Closed(NewGoroutine)
      /\ NoGoroutine.evs = <<>> /\ NewGoroutine.evs = <<>>
  BY DEF NoGoroutine, NewGoroutine, Closed
<1>4. ASSUME T.hist = S.hist, T.new \in {S.new, Append(S.new, e)},
             T.childCount = S.childCount, T.mapCount = S.mapCount,
             \/ \A s \in Steps : T.go[s] = S.go[s]
             \/ \A s \in Steps : /\ Closed(S.go[s])
                                 /\ T.go[s] = NoGoroutine \/ T.go[s] = NewGoroutine
      PROVE  KidsGood(T)
  <2> HIDE DEF S, T, e
  <2>1. S.new \in Seq(ReplayerEvent)
    BY <1>0, SessionTypes
  <2>2. PICK b \in Seq(Event) : T.new = S.new \o b /\ Plain(b)
    BY <1>1, <1>4, <2>1, PlainBatch
  <2>3. \A s \in Steps : \/ T.go[s] = S.go[s]
                         \/ /\ Closed(S.go[s]) /\ Closed(T.go[s])
                            /\ \A k \in DOMAIN T.go[s].evs : T.go[s].evs[k].child = NoChild
    BY <1>3, <1>4
  <2>4. S.childCount <= T.childCount /\ S.mapCount <= T.mapCount
    BY <1>2, <1>4
  <2>5. PlainMove(S, T, b)
    BY <1>4, <2>2, <2>3, <2>4 DEF PlainMove
  <2> QED
    BY <1>0, <1>2, <2>5, PlainKeepsKids
<1> SUFFICES KidsGood(T)
  OBVIOUS
<1>5. CASE Suspend(w) \/ CancelContext(w)
  <2>1. T = [S EXCEPT !.result = "suspended"] \/ T = [S EXCEPT !.ctxDone = TRUE]
    BY <1>5 DEF Suspend, CancelContext, SetSession, TypedSessions
  <2> HIDE DEF S, T
  <2>2. /\ T.hist = S.hist /\ T.new = S.new /\ T.go = S.go
        /\ T.childCount = S.childCount /\ T.mapCount = S.mapCount
    BY <1>0, <2>1 DEF Session
  <2> QED
    BY <1>4, <2>2
<1>6. CASE CompleteReplay(w)
  <2>1. T = [S EXCEPT !.new = Append(@, e), !.result = "completed"]
    BY <1>6 DEF CompleteReplay, SetSession, TypedSessions
  <2> HIDE DEF S, T, e
  <2>2. /\ T.hist = S.hist /\ T.new = Append(S.new, e) /\ T.go = S.go
        /\ T.childCount = S.childCount /\ T.mapCount = S.mapCount
    BY <1>0, <2>1 DEF Session
  <2> QED
    BY <1>4, <2>2
<1>7. CASE BeginWave(w)
  <2> DEFINE ready == FindReadySteps(S)
             go == [s \in Steps |-> IF s \in ready THEN NewGoroutine ELSE NoGoroutine]
  <2>1. T = [S EXCEPT !.ready = ready, !.left = ready, !.go = go] /\ S.ready = {}
    BY <1>7 DEF BeginWave, BetweenWaves, SetSession, TypedSessions
  <2>2. \A s \in Steps : go[s] = NoGoroutine \/ go[s] = NewGoroutine
    OBVIOUS
  <2> HIDE DEF S, T, e, ready, go
  <2>3. /\ T.hist = S.hist /\ T.new = S.new /\ T.go = go
        /\ T.childCount = S.childCount /\ T.mapCount = S.mapCount
    BY <1>0, <2>1 DEF Session
  <2>4. \A s \in Steps : Closed(S.go[s])
    BY <1>2, <2>1 DEF WaveShape, Closed
  <2> QED
    BY <1>4, <2>2, <2>3, <2>4
<1>8. CASE EndWave(w)
  <2> DEFINE verdict == WaveVerdict(S)
  <2>1. T = [S EXCEPT !.ready = {}, !.go = NoGoroutines, !.result = verdict] /\ WaveDone(S)
    BY <1>8 DEF EndWave, SetSession, TypedSessions
  <2>2. \A s \in Steps : NoGoroutines[s] = NoGoroutine
    BY DEF NoGoroutines
  <2> HIDE DEF S, T, e, verdict
  <2>3. /\ T.hist = S.hist /\ T.new = S.new /\ T.go = NoGoroutines
        /\ T.childCount = S.childCount /\ T.mapCount = S.mapCount
    BY <1>0, <2>1 DEF Session
  <2>4. \A s \in Steps : Closed(S.go[s])
    BY <1>2, <2>1 DEF WaveShape, WaveDone, Closed
  <2> QED
    BY <1>4, <2>2, <2>3, <2>4
<1> QED
  BY <1>5, <1>6, <1>7, <1>8

\* A result is collected: the events of a goroutine are about its step.
LEMMA CollectKids ==
    ASSUME TypedSessions, NEW w \in Replayers, NEW s \in Steps, SessionGood(sess[w]),
           KidsGood(sess[w]), CollectResult(w, s)
    PROVE  KidsGood(sess'[w])
<1> DEFINE S == sess[w]
           T == sess'[w]
           b == S.go[s].evs
           completed == IF S.go[s].pc = "ok" THEN S.completed \cup {s} ELSE S.completed
<1>0. S \in Session /\ T \in Session
  BY ReplayStepType DEF ReplayStep, TypedSessions
<1>1. s \in S.left /\ T = [S EXCEPT !.new = @ \o b, !.left = @ \ {s}, !.completed = completed]
  BY DEF CollectResult, SetSession, TypedSessions
<1>2. SessionGood(S) /\ KidsGood(S) /\ b \in Seq(Event)
  BY <1>0, SessionTypes
<1> SUFFICES KidsGood(T)
  OBVIOUS
<1> HIDE DEF S, T, completed
<1>3. /\ T.hist = S.hist /\ T.new = S.new \o b /\ T.go = S.go
      /\ T.childCount = S.childCount /\ T.mapCount = S.mapCount
  BY <1>0, <1>1 DEF Session
<1>4. S.childCount <= T.childCount /\ S.mapCount <= T.mapCount
  BY <1>0, <1>3, CountTypes
<1>5. Plain(b)
  <2>1. \A k \in DOMAIN b : b[k].child = NoChild
    BY <1>2 DEF KidsGood
  <2>2. GoShape(S, s)
    BY <1>1, <1>2 DEF SessionGood, WaveShape
  <2>3. \A k \in DOMAIN b : b[k].type \notin ChildTypes
    BY <2>2 DEF GoShape, ChildTypes
  <2> QED
    BY <2>1, <2>3 DEF Plain
<1>6. PlainMove(S, T, b)
  <2> HIDE DEF b
  <2> QED
    BY <1>3, <1>4, <1>5 DEF PlainMove
<1> QED
  BY <1>0, <1>2, <1>6, PlainKeepsKids

-----------------------------------------------------------------------------
(* The steps of Run and Map.                                               *)

\* T is S with goroutine s moved and the batch b added; the counters do not go
\* back.
CallMove(S, T, s, b) ==
    /\ T.hist = S.hist /\ T.new = S.new \o b
    /\ S.childCount <= T.childCount /\ S.mapCount <= T.mapCount
    /\ \A t \in Steps \ {s} : T.go[t] = S.go[t]
    /\ T.go[s].evs = S.go[s].evs

\* The ids in the batch are below the counters, and a call under way keeps its
\* index or took the next one.
CallCounted(S, T, s, b) ==
    /\ \A k \in DOMAIN b : /\ b[k].child.map < T.mapCount
                           /\ b[k].child.map = -1 => b[k].child.item < T.childCount
    /\ T.go[s].pc = "child" =>
          \/ S.go[s].pc = "child" /\ T.go[s].index = S.go[s].index
          \/ T.go[s].index = S.childCount /\ T.childCount = S.childCount + 1
    /\ Mapping(T.go[s]) =>
          \/ Mapping(S.go[s]) /\ T.go[s].index = S.go[s].index
          \/ T.go[s].index = S.mapCount /\ T.mapCount = S.mapCount + 1

\* Such a move keeps the indexes apart.
LEMMA CallKeepsCount ==
    ASSUME NEW S \in Session, NEW T \in Session, NEW s \in Steps, NEW b \in Seq(Event),
           KidsGood(S), CallMove(S, T, s, b), CallCounted(S, T, s, b)
    PROVE  Counted(T)
<1>0. /\ S.childCount \in Nat /\ S.mapCount \in Nat /\ T.childCount \in Nat /\ T.mapCount \in Nat
      /\ S.childCount <= T.childCount /\ S.mapCount <= T.mapCount
      /\ \A t \in Steps : S.go[t].index \in Nat /\ T.go[t].index \in Nat
  BY CountTypes DEF CallMove
<1>1. Counted(S) /\ S.new \in Seq(Event)
  BY SessionTypes DEF KidsGood
<1>2. ASSUME NEW k \in DOMAIN T.new
      PROVE  /\ T.new[k].child.map < T.mapCount
             /\ T.new[k].child.map = -1 => T.new[k].child.item < T.childCount
  <2>1. CASE \E m \in DOMAIN S.new : T.new[k] = S.new[m]
    <3>1. PICK m \in DOMAIN S.new : T.new[k] = S.new[m]
      BY <2>1
    <3>2. /\ S.new[m].child.map \in Int /\ S.new[m].child.item \in Int
          /\ S.new[m].child.map < S.mapCount
          /\ S.new[m].child.map = -1 => S.new[m].child.item < S.childCount
      BY <1>1, CountTypes DEF Counted
    <3> QED
      BY <1>0, <3>1, <3>2
  <2>2. CASE \E m \in DOMAIN b : T.new[k] = b[m]
    BY <2>2 DEF CallCounted
  <2> QED
    BY <1>1, <2>1, <2>2, Grown DEF CallMove
<1>3. ASSUME NEW t \in Steps
      PROVE  /\ T.go[t].pc = "child" => T.go[t].index < T.childCount
             /\ Mapping(T.go[t]) => T.go[t].index < T.mapCount
  <2>0. /\ S.go[t].pc = "child" => S.go[t].index < S.childCount
        /\ Mapping(S.go[t]) => S.go[t].index < S.mapCount
    BY <1>1 DEF Counted
  <2>1. CASE t = s
    BY <1>0, <2>0, <2>1 DEF CallCounted
  <2>2. CASE t # s
    <3>1. T.go[t] = S.go[t]
      BY <2>2 DEF CallMove
    <3> QED
      BY <1>0, <2>0, <3>1
  <2> QED
    BY <2>1, <2>2
\* The index of s differs from those of the others.
<1>4. ASSUME NEW t \in Steps, t # s
      PROVE  /\ T.go[s].pc = "child" /\ S.go[t].pc = "child" => T.go[s].index # S.go[t].index
             /\ Mapping(T.go[s]) /\ Mapping(S.go[t]) => T.go[s].index # S.go[t].index
  <2>1. /\ S.go[t].pc = "child" => S.go[t].index < S.childCount
        /\ Mapping(S.go[t]) => S.go[t].index < S.mapCount
    BY <1>1 DEF Counted
  <2>2. /\ S.go[s].pc = "child" /\ S.go[t].pc = "child" => S.go[s].index # S.go[t].index
        /\ Mapping(S.go[s]) /\ Mapping(S.go[t]) => S.go[s].index # S.go[t].index
    BY <1>1, <1>4 DEF Counted
  <2>3. \A i, n \in Nat : i < n => i # n
    OBVIOUS
  <2> QED
    BY <1>0, <2>1, <2>2, <2>3 DEF CallCounted
<1>5. \A t, u \in Steps : t # u =>
          /\ T.go[t].pc = "child" /\ T.go[u].pc = "child" => T.go[t].index # T.go[u].index
          /\ Mapping(T.go[t]) /\ Mapping(T.go[u]) => T.go[t].index # T.go[u].index
  BY <1>1, <1>4, SMTT(30) DEF Counted, CallMove
<1> QED
  BY <1>2, <1>3, <1>5 DEF Counted

\* What a move of goroutine s has to show of its own children and of its batch.
CallKids(S, T, s, b) ==
    /\ GoKids(Trace(T), T.go[s])
    /\ \A t \in Steps \ {s} : \A k \in DOMAIN b :
          /\ S.go[t].pc = "child" => ~ChildEventOf(b[k], RunId(S.go[t].index))
          /\ S.go[t].pc = "mapping" =>
                \A i \in Items : ~ChildEventOf(b[k], ItemId(S.go[t].index, i))
    /\ \A id \in ChildId : (Pends(S.go[s], id) \/ \E k \in DOMAIN b : ChildEventOf(b[k], id)) =>
          Whole(Trace(T), id) \/ Pends(T.go[s], id)
    /\ Mapping(S.go[s]) => \/ MapSettled(Trace(T), S.go[s].index)
                           \/ Mapping(T.go[s]) /\ T.go[s].index = S.go[s].index
    /\ \A k \in DOMAIN b : b[k].child.map # -1 =>
          \/ MapSettled(Trace(T), b[k].child.map)
          \/ Mapping(T.go[s]) /\ T.go[s].index = b[k].child.map
    /\ \A k \in DOMAIN b :
          /\ b[k].type = "map.completed" =>
                \A i \in Items : Settled(Trace(S), "child.completed", ItemId(b[k].child.map, i))
          /\ b[k].type = "map.failed" => Settled(Trace(S), "child.failed", b[k].child)

\* Such a move keeps the invariant.
LEMMA CallKeepsKids ==
    ASSUME NEW S \in Session, NEW T \in Session, NEW s \in Steps, NEW b \in Seq(Event),
           KidsGood(S), CallMove(S, T, s, b), CallCounted(S, T, s, b), CallKids(S, T, s, b)
    PROVE  KidsGood(T)
<1>0. Trace(T) = Trace(S) \o b /\ Trace(S) \in Seq(Event)
  BY TraceGrows, SessionTypes DEF CallMove
<1>1. Counted(T)
  BY CallKeepsCount
<1>2. ASSUME NEW t \in Steps
      PROVE  /\ GoKids(Trace(T), T.go[t])
             /\ \A k \in DOMAIN T.go[t].evs : T.go[t].evs[k].child = NoChild
  <2>0. /\ GoKids(Trace(S), S.go[t])
        /\ \A k \in DOMAIN S.go[t].evs : S.go[t].evs[k].child = NoChild
    BY DEF KidsGood
  <2>1. CASE t = s
    BY <2>0, <2>1 DEF CallKids, CallMove
  <2>2. CASE t # s
    <3>1. T.go[t] = S.go[t]
      BY <2>2 DEF CallMove
    <3>2. GoKids(Trace(S) \o b, S.go[t])
      BY <1>0, <2>0, <2>2, GoKidsGrow DEF CallKids
    <3> QED
      BY <1>0, <2>0, <3>1, <3>2
  <2> QED
    BY <2>1, <2>2
<1>3. ASSUME NEW id \in ChildId PROVE Whole(Trace(T), id) \/ \E t \in Steps : Pends(T.go[t], id)
  <2>1. CASE Pends(S.go[s], id) \/ \E k \in DOMAIN b : ChildEventOf(b[k], id)
    BY <2>1 DEF CallKids
  <2>2. CASE Whole(Trace(S), id) /\ \A k \in DOMAIN b : ~ChildEventOf(b[k], id)
    BY <1>0, <2>2, OthersGrow
  <2>3. CASE \E t \in Steps \ {s} : Pends(S.go[t], id)
    BY <2>3 DEF CallMove
  <2> QED
    BY <2>1, <2>2, <2>3 DEF KidsGood
<1>4. ASSUME NEW i \in DOMAIN Trace(T), Trace(T)[i].child.map # -1
      PROVE  \/ MapSettled(Trace(T), Trace(T)[i].child.map)
             \/ \E t \in Steps : Mapping(T.go[t]) /\ T.go[t].index = Trace(T)[i].child.map
  <2>1. CASE \E k \in DOMAIN b : Trace(T)[i] = b[k]
    BY <1>4, <2>1 DEF CallKids
  <2>2. CASE i \in DOMAIN Trace(S) /\ Trace(T)[i] = Trace(S)[i]
    <3> DEFINE m == Trace(S)[i].child.map
    <3>1. MapSettled(Trace(S), m) \/ \E t \in Steps : Mapping(S.go[t]) /\ S.go[t].index = m
      BY <1>4, <2>2 DEF KidsGood
    <3>2. CASE MapSettled(Trace(S), m)
      BY <1>0, <2>2, <3>2, SettledGrows
    <3>3. CASE \E t \in Steps : Mapping(S.go[t]) /\ S.go[t].index = m
      <4>1. PICK t \in Steps : Mapping(S.go[t]) /\ S.go[t].index = m
        BY <3>3
      <4>2. CASE t = s
        BY <2>2, <4>1, <4>2 DEF CallKids
      <4>3. CASE t # s
        BY <2>2, <4>1, <4>3 DEF CallMove
      <4> QED
        BY <4>2, <4>3
    <3> QED
      BY <3>1, <3>2, <3>3
  <2> QED
    BY <1>0, <2>1, <2>2, Grown
<1>5. MapsAfter(Trace(T))
  <2>1. MapsAfter(Trace(S))
    BY DEF KidsGood
  <2> QED
    BY <1>0, <2>1, MapsAfterGrows DEF CallKids
<1>6. KidsOver(T.hist)
  BY DEF KidsGood, CallMove
<1> QED
  BY <1>1, <1>2, <1>3, <1>4, <1>5, <1>6 DEF KidsGood

\* The same for one event: T adds event e to S and moves goroutine s; the other
\* goroutines stay.
EventMove(S, T, s, e) ==
    /\ T.hist = S.hist /\ T.new = Append(S.new, e)
    /\ \A t \in Steps \ {s} : T.go[t] = S.go[t]
    /\ T.go[s].evs = S.go[s].evs

EventCounted(S, T, s, e) ==
    /\ S.childCount <= T.childCount /\ S.mapCount <= T.mapCount
    /\ e.child.map < T.mapCount
    /\ e.child.map = -1 => e.child.item < T.childCount
    /\ T.go[s].pc = "child" =>
          \/ S.go[s].pc = "child" /\ T.go[s].index = S.go[s].index
          \/ T.go[s].index = S.childCount /\ T.childCount = S.childCount + 1
    /\ Mapping(T.go[s]) =>
          \/ Mapping(S.go[s]) /\ T.go[s].index = S.go[s].index
          \/ T.go[s].index = S.mapCount /\ T.mapCount = S.mapCount + 1

\* Event e is about none of the children of the other goroutines.
EventApart(S, s, e) ==
    \A t \in Steps \ {s} :
       /\ S.go[t].pc = "child" => ~ChildEventOf(e, RunId(S.go[t].index))
       /\ S.go[t].pc = "mapping" => \A i \in Items : ~ChildEventOf(e, ItemId(S.go[t].index, i))

\* A child that goroutine s waited for, or that e is about, is over or waited for.
EventPends(S, T, s, e, h) ==
    \A id \in ChildId : Pends(S.go[s], id) \/ ChildEventOf(e, id) =>
       Whole(h, id) \/ Pends(T.go[s], id)

\* So for maps, whose outcomes come after those of their children.
EventMaps(S, T, s, e, h) ==
    /\ Mapping(S.go[s]) => \/ MapSettled(h, S.go[s].index)
                           \/ Mapping(T.go[s]) /\ T.go[s].index = S.go[s].index
    /\ e.child.map # -1 => \/ MapSettled(h, e.child.map)
                           \/ Mapping(T.go[s]) /\ T.go[s].index = e.child.map
    /\ e.type = "map.completed" =>
          \A i \in Items : Settled(Trace(S), "child.completed", ItemId(e.child.map, i))
    /\ e.type = "map.failed" => Settled(Trace(S), "child.failed", e.child)

\* A move that shows this keeps the invariant.
LEMMA EventKeepsKids ==
    ASSUME NEW S \in Session, NEW T \in Session, NEW s \in Steps, NEW e \in ReplayerEvent,
           KidsGood(S), EventMove(S, T, s, e), EventCounted(S, T, s, e), EventApart(S, s, e),
           NEW h, h = Append(Trace(S), e),
           GoKids(h, T.go[s]), EventPends(S, T, s, e, h), EventMaps(S, T, s, e, h)
    PROVE  KidsGood(T)
<1> DEFINE b == << e >>
<1>1. /\ S.new \in Seq(ReplayerEvent) /\ Trace(S) \in Seq(Event)
      /\ b \in Seq(Event) /\ DOMAIN b = {1} /\ \A k \in DOMAIN b : b[k] = e
  <2>1. DOMAIN b = {1}
    OBVIOUS
  <2> QED
    BY <2>1, SessionTypes, OneEvent
<1>2. T.new = S.new \o b /\ h = Trace(S) \o b
  BY <1>1 DEF EventMove
<1> HIDE DEF b
<1>3. Trace(T) = h
  BY <1>1, <1>2, TraceGrows DEF EventMove
<1>4. CallMove(S, T, s, b)
  BY <1>2 DEF CallMove, EventMove, EventCounted
<1>5. CallCounted(S, T, s, b)
  BY <1>1 DEF CallCounted, EventCounted
<1>6. CallKids(S, T, s, b)
  BY <1>1, <1>3 DEF CallKids, EventApart, EventPends, EventMaps
<1> QED
  BY <1>1, <1>4, <1>5, <1>6, CallKeepsKids

\* A child that the history does not settle is not in the trace either: the
\* counter gives every call of a replay an index of its own.
LEMMA FreshRun ==
    ASSUME NEW S \in Session, KidsGood(S), NEW id, id = RunId(S.childCount),
           ~Settled(S.hist, "child.completed", id), ~Settled(S.hist, "child.failed", id)
    PROVE  Unknown(Trace(S), id)
<1>1. S.hist \in Seq(Event) /\ S.new \in Seq(Event) /\ S.childCount \in Nat
  BY SessionTypes, CountTypes
<1>2. id \in ChildId /\ id.map = -1 /\ id.item = S.childCount
  BY <1>1, IdsApart
<1>3. Unknown(S.hist, id)
  <2>1. Whole(S.hist, id)
    BY <1>2 DEF KidsGood, KidsOver
  <2>2. CASE \E i, k \in DOMAIN S.hist : /\ S.hist[k].type \in Outcomes
                                         /\ Of(S.hist, id) = {i, k}
    BY <2>2 DEF Of, ChildEventOf, Outcomes, Settled
  <2> QED
    BY <2>1, <2>2 DEF Whole
<1>4. \A k \in DOMAIN S.new : ~ChildEventOf(S.new[k], id)
  <2>1. \A k \in DOMAIN S.new : S.new[k].child.map = -1 => S.new[k].child.item < S.childCount
    BY DEF KidsGood, Counted
  <2>2. \A n \in Nat : ~(n < n)
    OBVIOUS
  <2> QED
    BY <1>1, <1>2, <2>1, <2>2 DEF ChildEventOf
<1> QED
  BY <1>1, <1>3, <1>4, OthersGrow DEF Trace

\* The children of a map that the history does not settle are not in the trace.
LEMMA FreshMap ==
    ASSUME NEW S \in Session, KidsGood(S), NEW m, m = S.mapCount,
           ~Settled(S.hist, "map.completed", MapId(m)), ~GetMapError(S.hist, m)
    PROVE  \A i \in Items : Unknown(Trace(S), ItemId(m, i))
<1>1. S.hist \in Seq(Event) /\ S.new \in Seq(Event) /\ m \in Nat
  BY SessionTypes, CountTypes
<1> SUFFICES ASSUME NEW i \in Items PROVE Unknown(Trace(S), ItemId(m, i))
  OBVIOUS
<1> DEFINE id == ItemId(m, i)
<1>2. id.map = m /\ m # -1
  BY <1>1, IdsApart
<1> HIDE DEF id
<1>3. \A k \in DOMAIN S.hist : ~ChildEventOf(S.hist[k], id)
  BY <1>2 DEF KidsGood, KidsOver, MapSettled, ChildEventOf
<1>4. \A k \in DOMAIN S.new : ~ChildEventOf(S.new[k], id)
  <2>1. \A k \in DOMAIN S.new : S.new[k].child.map < m
    BY DEF KidsGood, Counted
  <2>2. ~(m < m)
    BY <1>1
  <2> QED
    BY <1>2, <2>1, <2>2 DEF ChildEventOf
<1>5. Unknown(Trace(S), id)
  BY <1>1, <1>3, <1>4, OthersGrow DEF Trace, Unknown
<1> QED
  BY <1>5 DEF id

\* Run spawns a child.
LEMMA RunSpawns ==
    ASSUME NEW S \in Session, NEW T \in Session, NEW s \in Steps, NEW e \in ReplayerEvent,
           KidsGood(S), EventMove(S, T, s, e), Closed(S.go[s]),
           T.childCount = S.childCount + 1, T.mapCount = S.mapCount,
           T.go[s].pc = "child", T.go[s].index = S.childCount,
           e.type = "child.spawned", e.child = RunId(S.childCount),
           ~Settled(S.hist, "child.completed", e.child), ~Settled(S.hist, "child.failed", e.child)
    PROVE  KidsGood(T)
<1> DEFINE h == Append(Trace(S), e)
           id == RunId(S.childCount)
<1>0. /\ Trace(S) \in Seq(Event) /\ S.childCount \in Nat /\ S.mapCount \in Nat
      /\ \A t \in Steps : S.go[t].index \in Nat
  BY SessionTypes, CountTypes
<1>1. id.map = -1 /\ id.item = S.childCount /\ e.child = id
  BY IdsApart
<1>2. Half(h, id)
  BY <1>0, <1>1, FreshRun, Spawned
<1>3. ~Mapping(T.go[s]) /\ ~Mapping(S.go[s]) /\ \A x : ~Pends(S.go[s], x)
  BY DEF Mapping, Closed, Pends
<1>4. GoKids(h, T.go[s])
  BY <1>2 DEF GoKids
<1>5. ASSUME NEW t \in Steps \ {s}
      PROVE  /\ S.go[t].pc = "child" => ~ChildEventOf(e, RunId(S.go[t].index))
             /\ S.go[t].pc = "mapping" =>
                   \A i \in Items : ~ChildEventOf(e, ItemId(S.go[t].index, i))
  <2>1. S.go[t].pc = "child" => S.go[t].index < S.childCount
    BY DEF KidsGood, Counted
  <2>2. \A n \in Nat : ~(n < n) /\ n # -1
    OBVIOUS
  <2>3. S.go[t].pc = "child" => RunId(S.go[t].index) # id
    BY <1>0, <2>1, <2>2, IdsApart
  <2>4. \A i \in Items : ItemId(S.go[t].index, i) # id
    BY <1>0, <1>1, <2>2, IdsApart
  <2> QED
    BY <1>1, <2>3, <2>4 DEF ChildEventOf
<1>6. \A x \in ChildId : ChildEventOf(e, x) => Pends(T.go[s], x)
  BY <1>1 DEF ChildEventOf, Pends
<1>7. /\ e.child.map < T.mapCount /\ e.child.map = -1 /\ e.child.item < T.childCount
      /\ S.childCount <= T.childCount /\ S.mapCount <= T.mapCount
  BY <1>0, <1>1
<1> HIDE DEF h, id
<1>8. EventCounted(S, T, s, e)
  BY <1>3, <1>7 DEF EventCounted
<1>9. EventApart(S, s, e)
  BY <1>5 DEF EventApart
<1>10. EventPends(S, T, s, e, h)
  BY <1>3, <1>6 DEF EventPends
<1>11. EventMaps(S, T, s, e, h)
  BY <1>3, <1>7 DEF EventMaps
<1> QED
  BY <1>4, <1>8, <1>9, <1>10, <1>11, EventKeepsKids DEF h

\* The child of Run has its outcome.
LEMMA RunComesBack ==
    ASSUME NEW S \in Session, NEW T \in Session, NEW s \in Steps, NEW e \in ReplayerEvent,
           KidsGood(S), EventMove(S, T, s, e), S.go[s].pc = "child", Closed(T.go[s]),
           T.childCount = S.childCount, T.mapCount = S.mapCount,
           e.type \in Outcomes, e.child = RunId(S.go[s].index)
    PROVE  KidsGood(T)
<1> DEFINE h == Append(Trace(S), e)
           id == RunId(S.go[s].index)
<1>0. /\ Trace(S) \in Seq(Event) /\ S.childCount \in Nat /\ S.mapCount \in Nat
      /\ \A t \in Steps : S.go[t].index \in Nat
  BY SessionTypes, CountTypes
<1>1. id.map = -1 /\ id.item = S.go[s].index /\ e.child = id
  BY IdsApart
<1>2. Whole(h, id)
  <2>1. Half(Trace(S), id)
    BY DEF KidsGood, GoKids
  <2> QED
    BY <1>0, <1>1, <2>1, CameBack
<1>3. ~Mapping(T.go[s]) /\ ~Mapping(S.go[s]) /\ T.go[s].pc # "child"
  BY DEF Mapping, Closed
<1>4. GoKids(h, T.go[s])
  BY DEF GoKids, Closed
<1>5. ASSUME NEW t \in Steps \ {s}
      PROVE  /\ S.go[t].pc = "child" => ~ChildEventOf(e, RunId(S.go[t].index))
             /\ S.go[t].pc = "mapping" =>
                   \A i \in Items : ~ChildEventOf(e, ItemId(S.go[t].index, i))
  <2>1. S.go[t].pc = "child" => S.go[t].index # S.go[s].index
    BY DEF KidsGood, Counted
  <2>2. \A n \in Nat : n # -1
    OBVIOUS
  <2>3. S.go[t].pc = "child" => RunId(S.go[t].index) # id
    BY <2>1, IdsApart
  <2>4. \A i \in Items : ItemId(S.go[t].index, i) # id
    BY <1>0, <1>1, <2>2, IdsApart
  <2> QED
    BY <1>1, <2>3, <2>4 DEF ChildEventOf
<1>6. \A x \in ChildId : Pends(S.go[s], x) \/ ChildEventOf(e, x) => Whole(h, x)
  BY <1>1, <1>2 DEF ChildEventOf, Pends
<1>7. /\ e.child.map < T.mapCount /\ e.child.map = -1 /\ e.child.item < T.childCount
      /\ S.childCount <= T.childCount /\ S.mapCount <= T.mapCount
  <2>1. S.go[s].index < S.childCount
    BY DEF KidsGood, Counted
  <2> QED
    BY <1>0, <1>1, <2>1
<1>8. e.type # "map.completed" /\ e.type # "map.failed"
  BY DEF Outcomes
<1> HIDE DEF h, id
<1>9. EventCounted(S, T, s, e)
  BY <1>3, <1>7 DEF EventCounted
<1>10. EventApart(S, s, e)
  BY <1>5 DEF EventApart
<1>11. EventPends(S, T, s, e, h)
  BY <1>6 DEF EventPends
<1>12. EventMaps(S, T, s, e, h)
  BY <1>3, <1>7, <1>8 DEF EventMaps
<1> QED
  BY <1>4, <1>9, <1>10, <1>11, <1>12, EventKeepsKids DEF h

\* Map starts: none of its children is known.
LEMMA MapStarts ==
    ASSUME NEW S \in Session, NEW T \in Session, NEW s \in Steps, NEW e \in ReplayerEvent,
           KidsGood(S), EventMove(S, T, s, e), Closed(S.go[s]),
           T.childCount = S.childCount, T.mapCount = S.mapCount + 1,
           T.go[s].pc = "mapping", T.go[s].index = S.mapCount, T.go[s].first = -1,
           \A i \in Items : T.go[s].kids[i] = "new",
           e.type = "map.started", e.child = MapId(S.mapCount),
           ~Settled(S.hist, "map.completed", MapId(S.mapCount)), ~GetMapError(S.hist, S.mapCount)
    PROVE  KidsGood(T)
<1> DEFINE h == Append(Trace(S), e)
           m == S.mapCount
<1>0. /\ Trace(S) \in Seq(Event) /\ S.childCount \in Nat /\ m \in Nat
      /\ \A t \in Steps : S.go[t].index \in Nat
  BY SessionTypes, CountTypes
<1>1. e.child.map = m /\ \A id : ~ChildEventOf(e, id)
  BY IdsApart DEF ChildEventOf
<1>2. Mapping(T.go[s]) /\ ~Mapping(S.go[s]) /\ \A x : ~Pends(S.go[s], x)
  BY DEF Mapping, Closed, Pends
<1>3. GoKids(h, T.go[s])
  <2>1. \A i \in Items : Unknown(Trace(S), ItemId(m, i))
    BY FreshMap
  <2>2. \A i \in Items : Unknown(h, ItemId(m, i))
    BY <1>0, <1>1, <2>1, AddedEvent DEF Unknown
  <2> HIDE DEF h, m
  <2> QED
    BY <2>2 DEF GoKids, m
<1>4. /\ e.child.map < T.mapCount /\ e.child.map # -1
      /\ S.childCount <= T.childCount /\ S.mapCount <= T.mapCount
  BY <1>0, <1>1
<1>5. T.go[s].index = e.child.map
  BY <1>1
<1>6. EventApart(S, s, e) /\ EventPends(S, T, s, e, h)
  BY <1>1, <1>2 DEF EventApart, EventPends
<1> HIDE DEF h, m
<1>7. EventCounted(S, T, s, e)
  BY <1>2, <1>4 DEF EventCounted
<1>8. EventMaps(S, T, s, e, h)
  BY <1>2, <1>5 DEF EventMaps
<1> QED
  BY <1>3, <1>6, <1>7, <1>8, EventKeepsKids DEF h

\* Two maps under way have different children.
LEMMA MapsApart ==
    ASSUME NEW S \in Session, KidsGood(S), NEW s \in Steps, S.go[s].pc = "mapping",
           NEW e, NEW i, e.child = ItemId(S.go[s].index, i)
    PROVE  EventApart(S, s, e)
<1> SUFFICES ASSUME NEW t \in Steps \ {s}
             PROVE  /\ S.go[t].pc = "child" => ~ChildEventOf(e, RunId(S.go[t].index))
                    /\ S.go[t].pc = "mapping" =>
                          \A k \in Items : ~ChildEventOf(e, ItemId(S.go[t].index, k))
  BY DEF EventApart
<1>1. S.go[s].index \in Nat /\ e.child.map = S.go[s].index
  BY CountTypes, IdsApart
<1>2. S.go[t].pc = "mapping" => S.go[t].index # S.go[s].index
  BY DEF KidsGood, Counted, Mapping
<1>3. S.go[s].index # -1
  BY <1>1
<1> QED
  BY <1>1, <1>2, <1>3, IdsApart DEF ChildEventOf

\* The goroutine of an item of the map moves: item i of goroutine s is then st,
\* the others stay.
ItemMove(S, T, s, i, st) ==
    /\ S.go[s].pc = "mapping" /\ T.go[s].pc = "mapping"
    /\ T.go[s].index = S.go[s].index
    /\ T.childCount = S.childCount /\ T.mapCount = S.mapCount
    /\ T.go[s].kids[i] = st
    /\ \A j \in Items \ {i} : T.go[s].kids[j] = S.go[s].kids[j]

\* The counters and the map of such a move.
LEMMA ItemCounted ==
    ASSUME NEW S \in Session, NEW T \in Session, NEW s \in Steps, KidsGood(S),
           NEW i \in Items, NEW st, ItemMove(S, T, s, i, st),
           NEW e, e.child = ItemId(S.go[s].index, i), NEW h,
           e.type # "map.completed", e.type # "map.failed"
    PROVE  EventCounted(S, T, s, e) /\ EventMaps(S, T, s, e, h)
<1>1. /\ S.childCount \in Nat /\ S.mapCount \in Nat /\ S.go[s].index \in Nat
      /\ e.child.map = S.go[s].index
  BY CountTypes, IdsApart
<1>2. S.go[s].index < S.mapCount /\ Mapping(S.go[s]) /\ Mapping(T.go[s])
  BY DEF KidsGood, Counted, Mapping, ItemMove
<1>3. /\ e.child.map < T.mapCount /\ e.child.map # -1
      /\ S.childCount <= T.childCount /\ S.mapCount <= T.mapCount
  BY <1>1, <1>2 DEF ItemMove
<1> QED
  BY <1>1, <1>2, <1>3 DEF ItemMove, EventCounted, EventMaps

\* The children of the other items, and the first failure, after an event.
LEMMA OtherItems ==
    ASSUME NEW S \in Session, NEW T \in Session, NEW s \in Steps, KidsGood(S),
           NEW i \in Items, NEW st, ItemMove(S, T, s, i, st),
           NEW e \in ReplayerEvent, e.child = ItemId(S.go[s].index, i),
           NEW h, h = Append(Trace(S), e)
    PROVE  /\ \A j \in Items \ {i} :
                 /\ T.go[s].kids[j] \in {"new", "cancelled"} => Unknown(h, ItemId(T.go[s].index, j))
                 /\ T.go[s].kids[j] = "running" => Half(h, ItemId(T.go[s].index, j))
                 /\ T.go[s].kids[j] = "done" =>
                       Settled(h, "child.completed", ItemId(T.go[s].index, j))
           /\ S.go[s].first # -1 =>
                 /\ S.go[s].first \in Items
                 /\ Settled(h, "child.failed", ItemId(T.go[s].index, S.go[s].first))
<1> DEFINE b == << e >>
<1>0. /\ Trace(S) \in Seq(Event) /\ b \in Seq(Event) /\ \A k \in DOMAIN b : b[k] = e
      /\ T.go[s].index = S.go[s].index /\ GoKids(Trace(S), S.go[s]) /\ S.go[s].pc = "mapping"
  BY SessionTypes, OneEvent DEF KidsGood, ItemMove
<1>1. h = Trace(S) \o b
  BY <1>0
<1> HIDE DEF b
<1>2. ASSUME NEW j \in Items \ {i}
      PROVE  /\ T.go[s].kids[j] \in {"new", "cancelled"} => Unknown(h, ItemId(T.go[s].index, j))
             /\ T.go[s].kids[j] = "running" => Half(h, ItemId(T.go[s].index, j))
             /\ T.go[s].kids[j] = "done" =>
                   Settled(h, "child.completed", ItemId(T.go[s].index, j))
  <2> DEFINE id == ItemId(S.go[s].index, j)
  <2>1. \A k \in DOMAIN b : ~ChildEventOf(b[k], id)
    BY <1>0, IdsApart DEF ChildEventOf
  <2>2. /\ S.go[s].kids[j] \in {"new", "cancelled"} => Unknown(Trace(S), id)
        /\ S.go[s].kids[j] = "running" => Half(Trace(S), id)
        /\ S.go[s].kids[j] = "done" => Settled(Trace(S), "child.completed", id)
    BY <1>0 DEF GoKids
  <2>3. T.go[s].kids[j] = S.go[s].kids[j]
    BY DEF ItemMove
  <2> HIDE DEF id
  <2>4. /\ Unknown(Trace(S), id) => Unknown(h, id)
        /\ Half(Trace(S), id) => Half(h, id)
        /\ Settled(Trace(S), "child.completed", id) => Settled(h, "child.completed", id)
    BY <1>0, <1>1, <2>1, OthersGrow, SettledGrows
  <2> QED
    BY <1>0, <2>2, <2>3, <2>4 DEF id
<1>3. S.go[s].first # -1 =>
         /\ S.go[s].first \in Items
         /\ Settled(h, "child.failed", ItemId(S.go[s].index, S.go[s].first))
  BY <1>0, <1>1, SettledGrows DEF GoKids
<1> QED
  BY <1>0, <1>2, <1>3

\* The goroutine of an item spawns its child.
LEMMA ItemSpawns ==
    ASSUME NEW S \in Session, NEW T \in Session, NEW s \in Steps, NEW e \in ReplayerEvent,
           KidsGood(S), EventMove(S, T, s, e),
           NEW i \in Items, ItemMove(S, T, s, i, "running"),
           S.go[s].kids[i] = "new", T.go[s].first = S.go[s].first,
           e.type = "child.spawned", e.child = ItemId(S.go[s].index, i)
    PROVE  KidsGood(T)
<1> DEFINE h == Append(Trace(S), e)
           id == ItemId(S.go[s].index, i)
<1>0. Trace(S) \in Seq(Event) /\ T.go[s].index = S.go[s].index /\ S.go[s].pc = "mapping"
  BY SessionTypes DEF ItemMove
<1>1. Half(h, id)
  <2>1. Unknown(Trace(S), id)
    BY <1>0 DEF KidsGood, GoKids
  <2> HIDE DEF id
  <2> QED
    BY <1>0, <2>1, Spawned DEF id
<1>2. GoKids(h, T.go[s])
  <2> HIDE DEF h
  <2>1. /\ \A j \in Items \ {i} :
             /\ T.go[s].kids[j] \in {"new", "cancelled"} => Unknown(h, ItemId(T.go[s].index, j))
             /\ T.go[s].kids[j] = "running" => Half(h, ItemId(T.go[s].index, j))
             /\ T.go[s].kids[j] = "done" => Settled(h, "child.completed", ItemId(T.go[s].index, j))
        /\ S.go[s].first # -1 =>
             /\ S.go[s].first \in Items
             /\ Settled(h, "child.failed", ItemId(T.go[s].index, S.go[s].first))
    BY OtherItems DEF h
  <2> QED
    BY <1>0, <1>1, <2>1 DEF GoKids, ItemMove
<1>3. EventPends(S, T, s, e, h)
  <2>1. \A x : ChildEventOf(e, x) => x = id
    BY DEF ChildEventOf
  <2>2. \A x : Pends(S.go[s], x) => Pends(T.go[s], x)
    BY DEF Pends, ItemMove
  <2>3. Pends(T.go[s], id)
    BY DEF Pends, ItemMove
  <2> QED
    BY <2>1, <2>2, <2>3 DEF EventPends
<1>4. EventApart(S, s, e) /\ EventCounted(S, T, s, e) /\ EventMaps(S, T, s, e, h)
  <2> HIDE DEF h
  <2> QED
    BY <1>0, MapsApart, ItemCounted
<1> HIDE DEF h
<1> QED
  BY <1>2, <1>3, <1>4, EventKeepsKids DEF h

\* The child of an item has its outcome; the first failure is kept.
LEMMA ItemComesBack ==
    ASSUME NEW S \in Session, NEW T \in Session, NEW s \in Steps, NEW e \in ReplayerEvent,
           KidsGood(S), EventMove(S, T, s, e),
           NEW i \in Items, NEW st, ItemMove(S, T, s, i, st), S.go[s].kids[i] = "running",
           e.child = ItemId(S.go[s].index, i),
           \/ /\ e.type = "child.completed" /\ st = "done"
              /\ T.go[s].first = S.go[s].first
           \/ /\ e.type = "child.failed" /\ st = "failed"
              /\ T.go[s].first = IF S.go[s].first = -1 THEN i ELSE S.go[s].first
    PROVE  KidsGood(T)
<1> DEFINE h == Append(Trace(S), e)
           id == ItemId(S.go[s].index, i)
<1>0. /\ Trace(S) \in Seq(Event) /\ T.go[s].index = S.go[s].index
      /\ S.go[s].pc = "mapping" /\ T.go[s].pc = "mapping" /\ T.go[s].kids[i] = st
  BY SessionTypes DEF ItemMove
<1>1. Whole(h, id)
  <2>1. Half(Trace(S), id)
    BY <1>0 DEF KidsGood, GoKids
  <2> HIDE DEF id
  <2> QED
    BY <1>0, <2>1, CameBack DEF id, Outcomes
<1>2. Settled(h, e.type, id)
  BY <1>0, AddedEvent
<1>3. GoKids(h, T.go[s])
  <2> HIDE DEF h
  <2>1. /\ \A j \in Items \ {i} :
             /\ T.go[s].kids[j] \in {"new", "cancelled"} => Unknown(h, ItemId(T.go[s].index, j))
             /\ T.go[s].kids[j] = "running" => Half(h, ItemId(T.go[s].index, j))
             /\ T.go[s].kids[j] = "done" => Settled(h, "child.completed", ItemId(T.go[s].index, j))
        /\ S.go[s].first # -1 =>
             /\ S.go[s].first \in Items
             /\ Settled(h, "child.failed", ItemId(T.go[s].index, S.go[s].first))
    BY OtherItems DEF h
  <2>2. /\ T.go[s].kids[i] \notin {"new", "cancelled", "running"}
        /\ T.go[s].kids[i] = "done" => Settled(h, "child.completed", id)
    BY <1>0, <1>2
  <2>3. T.go[s].first # -1 =>
           T.go[s].first \in Items /\ Settled(h, "child.failed", ItemId(T.go[s].index, T.go[s].first))
    BY <1>0, <1>2, <2>1
  <2>4. T.go[s].pc # "child"
    BY <1>0
  <2> QED
    BY <1>0, <2>1, <2>2, <2>3, <2>4 DEF GoKids
<1>4. EventPends(S, T, s, e, h)
  <2>1. \A x : ChildEventOf(e, x) => x = id
    BY DEF ChildEventOf
  <2>2. \A x : Pends(S.go[s], x) => x = id \/ Pends(T.go[s], x)
    BY DEF Pends, ItemMove
  <2> QED
    BY <1>1, <2>1, <2>2 DEF EventPends
<1>5. EventApart(S, s, e) /\ EventCounted(S, T, s, e) /\ EventMaps(S, T, s, e, h)
  <2> HIDE DEF h
  <2> QED
    BY <1>0, MapsApart, ItemCounted
<1> HIDE DEF h
<1> QED
  BY <1>3, <1>4, <1>5, EventKeepsKids DEF h

\* Map records its results, or the first failure.
LEMMA MapEnds ==
    ASSUME NEW S \in Session, NEW T \in Session, NEW s \in Steps, NEW e \in ReplayerEvent,
           KidsGood(S), EventMove(S, T, s, e), GroupEnded(S.go[s]), Closed(T.go[s]),
           T.childCount = S.childCount, T.mapCount = S.mapCount,
           \/ /\ \A i \in Items : S.go[s].kids[i] = "done"
              /\ e.type = "map.completed" /\ e.child = MapId(S.go[s].index)
           \/ /\ S.go[s].first # -1
              /\ e.type = "map.failed" /\ e.child = ItemId(S.go[s].index, S.go[s].first)
    PROVE  KidsGood(T)
<1> DEFINE h == Append(Trace(S), e)
           m == S.go[s].index
<1>0. /\ Trace(S) \in Seq(Event) /\ S.childCount \in Nat /\ S.mapCount \in Nat /\ m \in Nat
      /\ S.go[s].pc = "mapping" /\ GoKids(Trace(S), S.go[s])
  BY SessionTypes, CountTypes DEF GroupEnded, KidsGood
<1>1. e.child.map = m /\ \A id : ~ChildEventOf(e, id)
  BY IdsApart DEF ChildEventOf
<1>2. Mapping(S.go[s]) /\ ~Mapping(T.go[s]) /\ T.go[s].pc # "child" /\ m < S.mapCount
  BY <1>0 DEF Mapping, Closed, KidsGood, Counted
<1>3. \A id : ~Pends(S.go[s], id)
  BY DEF GroupEnded, Pends
<1>4. MapSettled(h, m)
  <2>1. /\ Len(Trace(S)) + 1 \in DOMAIN h /\ h[Len(Trace(S)) + 1] = e
        /\ Settled(h, e.type, e.child)
    BY <1>0, AddedEvent
  <2> HIDE DEF h, m
  <2>2. CASE e.type = "map.completed" /\ e.child = MapId(m)
    BY <2>1, <2>2 DEF MapSettled
  <2>3. CASE e.type = "map.failed"
    BY <1>1, <2>1, <2>3 DEF MapSettled, GetMapError
  <2> QED
    BY <2>2, <2>3 DEF m
<1>5. /\ e.type = "map.completed" =>
            \A i \in Items : Settled(Trace(S), "child.completed", ItemId(m, i))
      /\ e.type = "map.failed" => Settled(Trace(S), "child.failed", e.child)
  BY <1>0 DEF GoKids
<1>6. GoKids(h, T.go[s])
  BY DEF GoKids, Closed
<1>7. EventApart(S, s, e) /\ EventPends(S, T, s, e, h)
  BY <1>1, <1>3 DEF EventApart, EventPends
<1>8. EventMaps(S, T, s, e, h)
  <2> HIDE DEF h
  <2> QED
    BY <1>1, <1>4, <1>5 DEF EventMaps
<1>9. EventCounted(S, T, s, e)
  <2>1. /\ e.child.map < T.mapCount /\ e.child.map # -1
        /\ S.childCount <= T.childCount /\ S.mapCount <= T.mapCount
    BY <1>0, <1>1, <1>2
  <2> QED
    BY <1>2, <2>1 DEF EventCounted
<1> HIDE DEF h
<1> QED
  BY <1>6, <1>7, <1>8, <1>9, EventKeepsKids DEF h

\* A goroutine with a map under way moves and adds no event: item i is skipped,
\* or Map panics.
LEMMA MapSilent ==
    ASSUME NEW S \in Session, NEW T \in Session, NEW s \in Steps, KidsGood(S),
           T.hist = S.hist, T.new = S.new,
           T.childCount = S.childCount, T.mapCount = S.mapCount,
           \A t \in Steps \ {s} : T.go[t] = S.go[t],
           S.go[s].pc = "mapping", Mapping(T.go[s]),
           T.go[s].evs = S.go[s].evs, T.go[s].index = S.go[s].index,
           GoKids(Trace(S), T.go[s]),
           \A id : Pends(S.go[s], id) => Pends(T.go[s], id)
    PROVE  KidsGood(T)
<1> DEFINE b == <<>>
<1>1. b \in Seq(Event) /\ DOMAIN b = {} /\ T.new = S.new \o b
  BY SessionTypes
<1> HIDE DEF b
<1>2. Trace(T) = Trace(S) /\ S.childCount <= T.childCount /\ S.mapCount <= T.mapCount
  BY CountTypes DEF Trace
<1>3. CallMove(S, T, s, b)
  BY <1>1, <1>2 DEF CallMove
<1>4. CallCounted(S, T, s, b)
  BY <1>1 DEF CallCounted, Mapping
<1>5. CallKids(S, T, s, b)
  BY <1>1, <1>2 DEF CallKids, Mapping
<1> QED
  BY <1>1, <1>3, <1>4, <1>5, CallKeepsKids

\* The goroutine of an item finds the group's context done.
LEMMA ItemSkips ==
    ASSUME NEW S \in Session, NEW T \in Session, NEW s \in Steps, KidsGood(S),
           T.hist = S.hist, T.new = S.new,
           \A t \in Steps \ {s} : T.go[t] = S.go[t],
           T.go[s].evs = S.go[s].evs, T.go[s].first = S.go[s].first,
           NEW i \in Items, S.go[s].kids[i] = "new", ItemMove(S, T, s, i, "cancelled")
    PROVE  KidsGood(T)
<1>1. /\ S.go[s].pc = "mapping" /\ Mapping(T.go[s]) /\ T.go[s].index = S.go[s].index
      /\ T.childCount = S.childCount /\ T.mapCount = S.mapCount
  BY DEF ItemMove, Mapping
<1>2. GoKids(Trace(S), S.go[s])
  BY DEF KidsGood
<1>3. GoKids(Trace(S), T.go[s])
  <2>1. ASSUME NEW j \in Items
        PROVE  T.go[s].kids[j] = S.go[s].kids[j] \/ (j = i /\ T.go[s].kids[j] = "cancelled")
    BY DEF ItemMove
  <2> QED
    BY <1>1, <1>2, <2>1 DEF GoKids, ItemMove
<1>4. \A id : Pends(S.go[s], id) => Pends(T.go[s], id)
  BY DEF Pends, ItemMove
<1> QED
  BY <1>1, <1>3, <1>4, MapSilent

\* Map panics: no child is under way.
LEMMA MapBreaks ==
    ASSUME NEW S \in Session, NEW T \in Session, NEW s \in Steps, KidsGood(S),
           T.hist = S.hist, T.new = S.new,
           T.childCount = S.childCount, T.mapCount = S.mapCount,
           \A t \in Steps \ {s} : T.go[t] = S.go[t],
           T.go[s].evs = S.go[s].evs, T.go[s].index = S.go[s].index,
           GroupEnded(S.go[s]), T.go[s].pc = "panic"
    PROVE  KidsGood(T)
<1>1. S.go[s].pc = "mapping" /\ Mapping(T.go[s])
  BY DEF GroupEnded, Mapping
<1>2. GoKids(Trace(S), T.go[s])
  BY DEF GoKids
<1>3. \A id : Pends(S.go[s], id) => Pends(T.go[s], id)
  BY DEF Pends, GroupEnded
<1> QED
  BY <1>1, <1>2, <1>3, MapSilent

\* The fields of what Run and Map record, and of the goroutine they leave.
LEMMA CallFields ==
    /\ \A type, n, d, id : EvChild(type, n, d, id).type = type /\ EvChild(type, n, d, id).child = id
    /\ \A g \in Goroutine :
          /\ \A y : Returns(g, y).pc = "running" /\ Returns(g, y).evs = g.evs
          /\ ReturnsError(g).pc = "failing" /\ ReturnsError(g).evs = g.evs
<1>1. \A type, n, d, id : EvChild(type, n, d, id).type = type /\ EvChild(type, n, d, id).child = id
  BY DEF EvChild, EvData
<1>2. \A g \in Goroutine : \A y : Returns(g, y).pc = "running" /\ Returns(g, y).evs = g.evs
  BY DEF Returns, Goroutine
<1>3. \A g \in Goroutine : ReturnsError(g).pc = "failing" /\ ReturnsError(g).evs = g.evs
  BY DEF ReturnsError, Goroutine
<1> QED
  BY <1>1, <1>2, <1>3

\* Run.
LEMMA CallRunKids ==
    ASSUME TypedSessions, NEW w \in Replayers, NEW s \in Steps, KidsGood(sess[w]), CallRun(w, s)
    PROVE  KidsGood(sess'[w])
<1> DEFINE S == sess[w]
           T == sess'[w]
           g == S.go[s]
           id == RunId(S.childCount)
           e == EvChild("child.spawned", g.name, None, id)
           x == [g EXCEPT !.pc = "child", !.index = S.childCount]
<1>0. S \in Session /\ T \in Session /\ g \in Goroutine /\ KidsGood(S)
  BY ChildStepType, SessionTypes DEF ChildStep, TypedSessions
<1>1. g.pc = "running" /\ g.name \in Names /\ S.childCount \in Nat /\ S.mapCount \in Nat
  BY <1>0, BodyTypes, CountTypes DEF CallRun, NextCall, BodyPcs
<1>2. \A X : SetSession(w, X) => T = X
  BY DEF SetSession, TypedSessions
<1>3. e \in ReplayerEvent /\ e.type = "child.spawned" /\ e.child = id
  BY <1>1, CallFields, ChildEventsNeutral
<1>4. x.pc = "child" /\ x.index = S.childCount /\ x.evs = g.evs
  <2> DEFINE c == S.childCount
  <2> HIDE DEF g, c
  <2>1. [g EXCEPT !.pc = "child", !.index = c].pc = "child"
        /\ [g EXCEPT !.pc = "child", !.index = c].index = c
        /\ [g EXCEPT !.pc = "child", !.index = c].evs = g.evs
    BY <1>0 DEF Goroutine
  <2> QED
    BY <2>1 DEF c
<1>5. \/ \E i \in DOMAIN S.hist :
            T = [S EXCEPT !.childCount = @ + 1,
                          !.go[s] = IF S.hist[i].data = "noOutput" THEN ReturnsError(g)
                                    ELSE Returns(g, S.hist[i].name)]
      \/ T = [S EXCEPT !.childCount = @ + 1, !.go[s] = ReturnsError(g)]
      \/ /\ T = [S EXCEPT !.childCount = @ + 1, !.new = Append(@, e), !.go[s] = x]
         /\ ~Settled(S.hist, "child.completed", id) /\ ~Settled(S.hist, "child.failed", id)
  BY <1>2 DEF CallRun, ChildEvent, GetChildError
<1>6. /\ \A y : Returns(g, y).pc = "running" /\ Returns(g, y).evs = g.evs
      /\ ReturnsError(g).pc = "failing" /\ ReturnsError(g).evs = g.evs
  BY <1>0, CallFields, Zenon
<1> SUFFICES KidsGood(T)
  OBVIOUS
<1> HIDE DEF S, T, e, x, id
\* The history has the child's outcome.
<1>7. ASSUME NEW y, T = [S EXCEPT !.childCount = @ + 1, !.go[s] = y],
             y.pc \in {"running", "failing"}, y.evs = g.evs
      PROVE  KidsGood(T)
  <2>1. /\ T.hist = S.hist /\ T.new = S.new /\ T.childCount = S.childCount + 1
        /\ T.mapCount = S.mapCount /\ T.go[s] = y /\ \A t \in Steps \ {s} : T.go[t] = S.go[t]
    BY <1>0, <1>7 DEF Session
  <2>2. S.childCount <= T.childCount /\ S.mapCount <= T.mapCount
    BY <1>1, <2>1
  <2>3. Closed(S.go[s]) /\ Closed(T.go[s]) /\ T.go[s].evs = S.go[s].evs
    BY <1>1, <1>7, <2>1 DEF Closed
  <2> QED
    BY <1>0, <2>1, <2>2, <2>3, PlainGo
<1>8. CASE /\ T = [S EXCEPT !.childCount = @ + 1, !.new = Append(@, e), !.go[s] = x]
           /\ ~Settled(S.hist, "child.completed", id) /\ ~Settled(S.hist, "child.failed", id)
  <2>1. /\ T.hist = S.hist /\ T.new = Append(S.new, e) /\ T.childCount = S.childCount + 1
        /\ T.mapCount = S.mapCount /\ T.go[s] = x /\ \A t \in Steps \ {s} : T.go[t] = S.go[t]
    BY <1>0, <1>8 DEF Session
  <2>2. EventMove(S, T, s, e)
    BY <1>4, <2>1 DEF EventMove
  <2>3. /\ Closed(S.go[s]) /\ T.go[s].pc = "child" /\ T.go[s].index = S.childCount
        /\ ~Settled(S.hist, "child.completed", e.child) /\ ~Settled(S.hist, "child.failed", e.child)
        /\ e.child = RunId(S.childCount)
    BY <1>1, <1>3, <1>4, <1>8, <2>1 DEF Closed, id
  <2> QED
    BY <1>0, <1>3, <2>1, <2>2, <2>3, RunSpawns
<1> HIDE DEF g
<1>9. CASE \E i \in DOMAIN S.hist :
              T = [S EXCEPT !.childCount = @ + 1,
                            !.go[s] = IF S.hist[i].data = "noOutput" THEN ReturnsError(g)
                                      ELSE Returns(g, S.hist[i].name)]
  <2>1. PICK i \in DOMAIN S.hist :
              T = [S EXCEPT !.childCount = @ + 1,
                            !.go[s] = IF S.hist[i].data = "noOutput" THEN ReturnsError(g)
                                      ELSE Returns(g, S.hist[i].name)]
    BY <1>9
  <2> DEFINE y == IF S.hist[i].data = "noOutput" THEN ReturnsError(g) ELSE Returns(g, S.hist[i].name)
  <2>2. y.pc \in {"running", "failing"} /\ y.evs = g.evs
    BY <1>6
  <2>3. T = [S EXCEPT !.childCount = @ + 1, !.go[s] = y]
    BY <2>1
  <2> HIDE DEF y
  <2> QED
    BY <1>7, <2>2, <2>3
<1>10. CASE T = [S EXCEPT !.childCount = @ + 1, !.go[s] = ReturnsError(g)]
  <2> DEFINE y == ReturnsError(g)
  <2>1. T = [S EXCEPT !.childCount = @ + 1, !.go[s] = y] /\ y.pc = "failing" /\ y.evs = g.evs
    BY <1>6, <1>10
  <2> HIDE DEF y
  <2> QED
    BY <1>7, <2>1
<1> QED
  BY <1>5, <1>8, <1>9, <1>10

\* A child of Run returns.
LEMMA RunReturnsKids ==
    ASSUME TypedSessions, NEW w \in Replayers, NEW s \in Steps, KidsGood(sess[w]),
           RunReturns(w, s)
    PROVE  KidsGood(sess'[w])
<1> DEFINE S == sess[w]
           T == sess'[w]
           g == S.go[s]
           id == RunId(g.index)
<1>0. S \in Session /\ T \in Session /\ g \in Goroutine /\ KidsGood(S)
  BY ChildStepType, SessionTypes DEF ChildStep, TypedSessions
<1>1. g.pc = "child" /\ g.name \in Names /\ g.index \in Nat
  BY <1>0, BodyTypes DEF RunReturns, BodyPcs
<1>2. \A X : SetSession(w, X) => T = X
  BY DEF SetSession, TypedSessions
<1>3. \A type \in Outcomes : \A d \in {None, "noOutput"} :
         /\ EvChild(type, g.name, d, id) \in ReplayerEvent
         /\ EvChild(type, g.name, d, id).type \in Outcomes
         /\ EvChild(type, g.name, d, id).child = id
  <2>1. id \in ChildId
    BY <1>1, IdsApart
  <2> HIDE DEF g, id
  <2> QED
    BY <1>1, <2>1, CallFields, ChildEventsNeutral DEF Outcomes
<1>4. \E type \in Outcomes : \E d \in {None, "noOutput"} :
         \/ \E y : T = [S EXCEPT !.new = Append(@, EvChild(type, g.name, d, id)),
                                 !.go[s] = Returns(g, y)]
         \/ T = [S EXCEPT !.new = Append(@, EvChild(type, g.name, d, id)),
                          !.go[s] = ReturnsError(g)]
  BY <1>2 DEF RunReturns, ChildEvent, Outcomes
<1>5. /\ \A y : Returns(g, y).pc = "running" /\ Returns(g, y).evs = g.evs
      /\ ReturnsError(g).pc = "failing" /\ ReturnsError(g).evs = g.evs
  BY <1>0, CallFields, Zenon
<1> SUFFICES KidsGood(T)
  OBVIOUS
<1> HIDE DEF S, T
<1>6. ASSUME NEW x, NEW e \in ReplayerEvent, T = [S EXCEPT !.new = Append(@, e), !.go[s] = x],
             x.pc \in {"running", "failing"}, x.evs = g.evs, e.type \in Outcomes, e.child = id
      PROVE  KidsGood(T)
  <2>1. /\ T.hist = S.hist /\ T.new = Append(S.new, e) /\ T.childCount = S.childCount
        /\ T.mapCount = S.mapCount /\ T.go[s] = x /\ \A t \in Steps \ {s} : T.go[t] = S.go[t]
    BY <1>0, <1>6 DEF Session
  <2>2. EventMove(S, T, s, e)
    BY <1>6, <2>1 DEF EventMove
  <2>3. S.go[s].pc = "child" /\ Closed(T.go[s]) /\ e.child = RunId(S.go[s].index)
    BY <1>1, <1>6, <2>1 DEF Closed
  <2> QED
    BY <1>0, <1>6, <2>1, <2>2, <2>3, RunComesBack
<1> HIDE DEF g, id
<1>7. PICK type \in Outcomes, d \in {None, "noOutput"} :
         \/ \E y : T = [S EXCEPT !.new = Append(@, EvChild(type, g.name, d, id)),
                                 !.go[s] = Returns(g, y)]
         \/ T = [S EXCEPT !.new = Append(@, EvChild(type, g.name, d, id)),
                          !.go[s] = ReturnsError(g)]
  BY <1>4
<1> DEFINE e == EvChild(type, g.name, d, id)
<1>8. e \in ReplayerEvent /\ e.type \in Outcomes /\ e.child = id
  BY <1>3
<1>9. PICK x : /\ x.pc \in {"running", "failing"} /\ x.evs = g.evs
               /\ T = [S EXCEPT !.new = Append(@, e), !.go[s] = x]
  BY <1>5, <1>7
<1> HIDE DEF e
<1> QED
  BY <1>6, <1>8, <1>9

\* Map.
LEMMA CallMapKids ==
    ASSUME TypedSessions, NEW w \in Replayers, NEW s \in Steps, KidsGood(sess[w]), CallMap(w, s)
    PROVE  KidsGood(sess'[w])
<1> DEFINE S == sess[w]
           T == sess'[w]
           g == S.go[s]
           m == S.mapCount
           fresh == [i \in Items |-> "new"]
           e == EvChild("map.started", g.name, None, MapId(m))
           x == [g EXCEPT !.pc = "mapping", !.index = m, !.kids = fresh, !.first = -1]
<1>0. S \in Session /\ T \in Session /\ g \in Goroutine /\ KidsGood(S)
  BY ChildStepType, SessionTypes DEF ChildStep, TypedSessions
<1>1. g.pc = "running" /\ g.name \in Names /\ S.childCount \in Nat /\ m \in Nat
  BY <1>0, BodyTypes, CountTypes DEF CallMap, NextCall, BodyPcs
<1>2. \A X : SetSession(w, X) => T = X
  BY DEF SetSession, TypedSessions
<1>3. e \in ReplayerEvent /\ e.type = "map.started" /\ e.child = MapId(m)
  BY <1>1, CallFields, ChildEventsNeutral
<1>4. /\ x.pc = "mapping" /\ x.index = m /\ x.first = -1 /\ x.evs = g.evs
      /\ x.kids = fresh
  <2> HIDE DEF g, m, fresh
  <2> QED
    BY <1>0 DEF Goroutine
<1>5. \A i \in Items : x.kids[i] = "new"
  BY <1>4
<1>6. \/ \E y : T = [S EXCEPT !.mapCount = @ + 1, !.go[s] = Returns(g, y)]
      \/ T = [S EXCEPT !.mapCount = @ + 1, !.go[s] = ReturnsError(g)]
      \/ /\ T = [S EXCEPT !.mapCount = @ + 1, !.new = Append(@, e), !.go[s] = x]
         /\ ~Settled(S.hist, "map.completed", MapId(m)) /\ ~GetMapError(S.hist, m)
  BY <1>2 DEF CallMap, ChildEvent
<1>7. /\ \A y : Returns(g, y).pc = "running" /\ Returns(g, y).evs = g.evs
      /\ ReturnsError(g).pc = "failing" /\ ReturnsError(g).evs = g.evs
  BY <1>0, CallFields, Zenon
<1> SUFFICES KidsGood(T)
  OBVIOUS
<1> HIDE DEF S, T, e, x
\* The history has the map's outcome.
<1>8. ASSUME NEW y, T = [S EXCEPT !.mapCount = @ + 1, !.go[s] = y],
             y.pc \in {"running", "failing"}, y.evs = g.evs
      PROVE  KidsGood(T)
  <2>1. /\ T.hist = S.hist /\ T.new = S.new /\ T.childCount = S.childCount
        /\ T.mapCount = S.mapCount + 1 /\ T.go[s] = y /\ \A t \in Steps \ {s} : T.go[t] = S.go[t]
    BY <1>0, <1>8 DEF Session
  <2>2. S.childCount <= T.childCount /\ S.mapCount <= T.mapCount
    BY <1>1, <2>1
  <2>3. Closed(S.go[s]) /\ Closed(T.go[s]) /\ T.go[s].evs = S.go[s].evs
    BY <1>1, <1>8, <2>1 DEF Closed
  <2> QED
    BY <1>0, <2>1, <2>2, <2>3, PlainGo
<1>9. CASE /\ T = [S EXCEPT !.mapCount = @ + 1, !.new = Append(@, e), !.go[s] = x]
           /\ ~Settled(S.hist, "map.completed", MapId(m)) /\ ~GetMapError(S.hist, m)
  <2>1. /\ T.hist = S.hist /\ T.new = Append(S.new, e) /\ T.childCount = S.childCount
        /\ T.mapCount = S.mapCount + 1 /\ T.go[s] = x /\ \A t \in Steps \ {s} : T.go[t] = S.go[t]
    BY <1>0, <1>9 DEF Session
  <2>2. EventMove(S, T, s, e)
    BY <1>4, <2>1 DEF EventMove
  <2>3. /\ Closed(S.go[s]) /\ T.go[s].pc = "mapping" /\ T.go[s].index = S.mapCount
        /\ T.go[s].first = -1 /\ \A i \in Items : T.go[s].kids[i] = "new"
    BY <1>1, <1>4, <1>5, <2>1 DEF Closed
  <2>4. /\ e.child = MapId(S.mapCount) /\ e.type = "map.started" /\ e \in ReplayerEvent
        /\ ~Settled(S.hist, "map.completed", MapId(S.mapCount))
        /\ ~GetMapError(S.hist, S.mapCount)
    BY <1>3, <1>9
  <2> QED
    BY <1>0, <2>1, <2>2, <2>3, <2>4, MapStarts
<1> HIDE DEF g
<1>10. ASSUME NEW y, T = [S EXCEPT !.mapCount = @ + 1, !.go[s] = Returns(g, y)]
       PROVE  KidsGood(T)
  <2> DEFINE z == Returns(g, y)
  <2>1. T = [S EXCEPT !.mapCount = @ + 1, !.go[s] = z] /\ z.pc = "running" /\ z.evs = g.evs
    BY <1>7, <1>10
  <2> HIDE DEF z
  <2> QED
    BY <1>8, <2>1
<1>11. CASE T = [S EXCEPT !.mapCount = @ + 1, !.go[s] = ReturnsError(g)]
  <2> DEFINE z == ReturnsError(g)
  <2>1. T = [S EXCEPT !.mapCount = @ + 1, !.go[s] = z] /\ z.pc = "failing" /\ z.evs = g.evs
    BY <1>7, <1>11
  <2> HIDE DEF z
  <2> QED
    BY <1>8, <2>1
<1> QED
  BY <1>6, <1>9, <1>10, <1>11

\* Map returns, or panics.
LEMMA MapReturnsKids ==
    ASSUME TypedSessions, NEW w \in Replayers, NEW s \in Steps, KidsGood(sess[w]),
           MapReturns(w, s) \/ MapPanics(w, s)
    PROVE  KidsGood(sess'[w])
<1> DEFINE S == sess[w]
           T == sess'[w]
           g == S.go[s]
           c == EvChild("map.completed", g.name, None, MapId(g.index))
           f == EvChild("map.failed", g.name, None, ItemId(g.index, g.first))
<1>0. S \in Session /\ T \in Session /\ g \in Goroutine /\ KidsGood(S)
  BY ChildStepType, SessionTypes DEF ChildStep, TypedSessions
<1>1. GroupEnded(g) /\ g.name \in Names /\ g.index \in Nat /\ g.first \in Int
  BY <1>0, BodyTypes DEF MapReturns, MapPanics, GroupEnded, BodyPcs
<1>2. \A X : SetSession(w, X) => T = X
  BY DEF SetSession, TypedSessions
<1>3. /\ c \in ReplayerEvent /\ c.type = "map.completed" /\ c.child = MapId(g.index)
      /\ f \in ReplayerEvent /\ f.type = "map.failed" /\ f.child = ItemId(g.index, g.first)
  <2>1. MapId(g.index) \in ChildId /\ ItemId(g.index, g.first) \in ChildId
    BY <1>1, IdsApart
  <2> HIDE DEF g
  <2> QED
    BY <1>1, <2>1, CallFields, ChildEventsNeutral
<1>4. \/ /\ T = [S EXCEPT !.new = Append(@, c), !.go[s] = Returns(g, g.name)]
         /\ \A i \in Items : g.kids[i] = "done"
      \/ /\ T = [S EXCEPT !.new = Append(@, f), !.go[s] = ReturnsError(g)]
         /\ g.first # -1
      \/ T = [S EXCEPT !.go[s] = [g EXCEPT !.pc = "panic"]]
  BY <1>2 DEF MapReturns, MapPanics, SetGo, ChildEvent
<1>5. /\ \A y : Returns(g, y).pc = "running" /\ Returns(g, y).evs = g.evs
      /\ ReturnsError(g).pc = "failing" /\ ReturnsError(g).evs = g.evs
  BY <1>0, CallFields, Zenon
<1> SUFFICES KidsGood(T)
  OBVIOUS
<1> HIDE DEF S, T, c, f
<1>6. ASSUME NEW x, NEW e \in ReplayerEvent, T = [S EXCEPT !.new = Append(@, e), !.go[s] = x],
             x.pc \in {"running", "failing"}, x.evs = g.evs,
             \/ /\ \A i \in Items : g.kids[i] = "done"
                /\ e.type = "map.completed" /\ e.child = MapId(g.index)
             \/ /\ g.first # -1
                /\ e.type = "map.failed" /\ e.child = ItemId(g.index, g.first)
      PROVE  KidsGood(T)
  <2>1. /\ T.hist = S.hist /\ T.new = Append(S.new, e) /\ T.childCount = S.childCount
        /\ T.mapCount = S.mapCount /\ T.go[s] = x /\ \A t \in Steps \ {s} : T.go[t] = S.go[t]
    BY <1>0, <1>6 DEF Session
  <2>2. EventMove(S, T, s, e)
    BY <1>6, <2>1 DEF EventMove
  <2>3. GroupEnded(S.go[s]) /\ Closed(T.go[s])
    BY <1>1, <1>6, <2>1 DEF Closed
  <2> QED
    BY <1>0, <1>6, <2>1, <2>2, <2>3, MapEnds
<1>7. CASE T = [S EXCEPT !.go[s] = [g EXCEPT !.pc = "panic"]]
  <2> DEFINE x == [g EXCEPT !.pc = "panic"]
  <2>1. x.pc = "panic" /\ x.evs = g.evs /\ x.index = g.index
    <3> HIDE DEF g
    <3> QED
      BY <1>0 DEF Goroutine
  <2>2. T = [S EXCEPT !.go[s] = x]
    BY <1>7
  <2> HIDE DEF x
  <2>3. /\ T.hist = S.hist /\ T.new = S.new /\ T.childCount = S.childCount
        /\ T.mapCount = S.mapCount /\ T.go[s] = x /\ \A t \in Steps \ {s} : T.go[t] = S.go[t]
    BY <1>0, <2>2 DEF Session
  <2>4. /\ T.go[s].evs = S.go[s].evs /\ T.go[s].index = S.go[s].index
        /\ GroupEnded(S.go[s]) /\ T.go[s].pc = "panic"
    BY <1>1, <2>1, <2>3
  <2> QED
    BY <1>0, <2>3, <2>4, MapBreaks
<1>8. CASE /\ T = [S EXCEPT !.new = Append(@, c), !.go[s] = Returns(g, g.name)]
           /\ \A i \in Items : g.kids[i] = "done"
  <2> DEFINE x == Returns(g, g.name)
  <2>1. T = [S EXCEPT !.new = Append(@, c), !.go[s] = x] /\ x.pc = "running" /\ x.evs = g.evs
    BY <1>5, <1>8
  <2> HIDE DEF x, g
  <2> QED
    BY <1>3, <1>6, <1>8, <2>1
<1>9. CASE /\ T = [S EXCEPT !.new = Append(@, f), !.go[s] = ReturnsError(g)]
           /\ g.first # -1
  <2> DEFINE x == ReturnsError(g)
  <2>1. T = [S EXCEPT !.new = Append(@, f), !.go[s] = x] /\ x.pc = "failing" /\ x.evs = g.evs
    BY <1>5, <1>9
  <2> HIDE DEF x, g
  <2> QED
    BY <1>3, <1>6, <1>9, <2>1
<1> QED
  BY <1>4, <1>7, <1>8, <1>9

\* The goroutine of an item.
LEMMA ItemKids ==
    ASSUME TypedSessions, NEW w \in Replayers, NEW s \in Steps, NEW i \in Items,
           KidsGood(sess[w]), SkipItem(w, s, i) \/ SpawnItem(w, s, i) \/ ItemReturns(w, s, i)
    PROVE  KidsGood(sess'[w])
<1> DEFINE S == sess[w]
           T == sess'[w]
           g == S.go[s]
           id == ItemId(g.index, i)
           first == IF g.first = -1 THEN i ELSE g.first
<1>0. S \in Session /\ T \in Session /\ g \in Goroutine /\ KidsGood(S)
  BY ChildStepType, SessionTypes DEF ChildStep, TypedSessions
<1>1. g.pc = "mapping" /\ g.name \in Names /\ g.index \in Nat /\ i \in Int
  <2>1. g.pc = "mapping"
    BY DEF SkipItem, SpawnItem, ItemReturns
  <2>2. i \in Int
    BY DEF Items
  <2> QED
    BY <2>1, <2>2, BodyTypes DEF BodyPcs
<1>2. \A X : SetSession(w, X) => T = X
  BY DEF SetSession, TypedSessions
<1>3. \A type \in {"child.spawned", "child.completed", "child.failed"} :
         \A d \in {None, "noOutput"} :
            /\ EvChild(type, g.name, d, id) \in ReplayerEvent
            /\ EvChild(type, g.name, d, id).type = type
            /\ EvChild(type, g.name, d, id).child = id
  <2>1. id \in ChildId
    BY <1>1, IdsApart
  <2> HIDE DEF g, id
  <2> QED
    BY <1>1, <2>1, CallFields, ChildEventsNeutral
\* The goroutine of s, with item i then in st and fst the first failure.
<1> DEFINE Item(x, st, fst) ==
              /\ x.pc = "mapping" /\ x.evs = g.evs /\ x.index = g.index /\ x.first = fst
              /\ x.kids[i] = st /\ \A j \in Items \ {i} : x.kids[j] = g.kids[j]
<1>4. /\ \A st : Item([g EXCEPT !.kids[i] = st], st, g.first)
      /\ \A st, fst : Item([g EXCEPT !.kids[i] = st, !.first = fst], st, fst)
  <2> HIDE DEF g
  <2>1. \A st : Item([g EXCEPT !.kids[i] = st], st, g.first)
    BY <1>0, <1>1 DEF Goroutine
  <2>2. \A st, fst : Item([g EXCEPT !.kids[i] = st, !.first = fst], st, fst)
    BY <1>0, <1>1 DEF Goroutine
  <2> QED
    BY <2>1, <2>2
<1> SUFFICES KidsGood(T)
  OBVIOUS
<1>5. CASE SkipItem(w, s, i)
  <2> DEFINE x == [g EXCEPT !.kids[i] = "cancelled"]
  <2>1. T = [S EXCEPT !.go[s] = x] /\ g.kids[i] = "new"
    BY <1>2, <1>5 DEF SkipItem, SetGo
  <2>2. Item(x, "cancelled", g.first)
    BY <1>4, Zenon
  <2> HIDE DEF S, T, x
  <2>3. /\ T.hist = S.hist /\ T.new = S.new /\ T.childCount = S.childCount
        /\ T.mapCount = S.mapCount /\ T.go[s] = x /\ \A t \in Steps \ {s} : T.go[t] = S.go[t]
    BY <1>0, <2>1 DEF Session
  <2>4. ItemMove(S, T, s, i, "cancelled")
    BY <1>1, <2>2, <2>3 DEF ItemMove
  <2>5. /\ T.go[s].evs = S.go[s].evs /\ T.go[s].first = S.go[s].first
        /\ S.go[s].kids[i] = "new"
    BY <2>1, <2>2, <2>3
  <2> QED
    BY <1>0, <2>3, <2>4, <2>5, ItemSkips
<1>6. CASE SpawnItem(w, s, i)
  <2> DEFINE e == EvChild("child.spawned", g.name, None, id)
             x == [g EXCEPT !.kids[i] = "running"]
  <2>1. T = [S EXCEPT !.new = Append(@, e), !.go[s] = x] /\ g.kids[i] = "new"
    BY <1>2, <1>6 DEF SpawnItem, ChildEvent
  <2>2. Item(x, "running", g.first)
    BY <1>4, Zenon
  <2>3. e \in ReplayerEvent /\ e.type = "child.spawned" /\ e.child = id
    BY <1>3
  <2> HIDE DEF S, T, x, e
  <2>4. /\ T.hist = S.hist /\ T.new = Append(S.new, e) /\ T.childCount = S.childCount
        /\ T.mapCount = S.mapCount /\ T.go[s] = x /\ \A t \in Steps \ {s} : T.go[t] = S.go[t]
    BY <1>0, <2>1 DEF Session
  <2>5. ItemMove(S, T, s, i, "running") /\ EventMove(S, T, s, e)
    BY <1>1, <2>2, <2>4 DEF ItemMove, EventMove
  <2>6. /\ T.go[s].first = S.go[s].first /\ S.go[s].kids[i] = "new"
        /\ e.child = ItemId(S.go[s].index, i)
    BY <2>1, <2>2, <2>3, <2>4
  <2> QED
    BY <1>0, <2>3, <2>5, <2>6, ItemSpawns
<1>7. CASE ItemReturns(w, s, i)
  <2>0. g.kids[i] = "running"
    BY <1>7 DEF ItemReturns
  <2>1. ASSUME NEW e \in ReplayerEvent, e.child = id, NEW st, NEW fst,
               NEW x, T = [S EXCEPT !.new = Append(@, e), !.go[s] = x],
               Item(x, st, fst),
               \/ e.type = "child.completed" /\ st = "done" /\ fst = g.first
               \/ e.type = "child.failed" /\ st = "failed" /\ fst = first
        PROVE  KidsGood(T)
    <3>1. Item(x, st, fst)
      BY <2>1
    <3> HIDE DEF S, T
    <3>2. /\ T.hist = S.hist /\ T.new = Append(S.new, e) /\ T.childCount = S.childCount
          /\ T.mapCount = S.mapCount /\ T.go[s] = x /\ \A t \in Steps \ {s} : T.go[t] = S.go[t]
      BY <1>0, <2>1 DEF Session
    <3>3. ItemMove(S, T, s, i, st) /\ EventMove(S, T, s, e)
      BY <1>1, <3>1, <3>2 DEF ItemMove, EventMove
    <3>4. /\ S.go[s].kids[i] = "running" /\ e.child = ItemId(S.go[s].index, i)
          /\ \/ /\ e.type = "child.completed" /\ st = "done"
                /\ T.go[s].first = S.go[s].first
             \/ /\ e.type = "child.failed" /\ st = "failed"
                /\ T.go[s].first = IF S.go[s].first = -1 THEN i ELSE S.go[s].first
      BY <2>0, <2>1, <3>1, <3>2
    <3> QED
      BY <1>0, <3>3, <3>4, ItemComesBack
  <2> DEFINE c == EvChild("child.completed", g.name, None, id)
             n == EvChild("child.completed", g.name, "noOutput", id)
             f == EvChild("child.failed", g.name, None, id)
  <2>2. /\ c \in ReplayerEvent /\ c.type = "child.completed" /\ c.child = id
        /\ n \in ReplayerEvent /\ n.type = "child.completed" /\ n.child = id
        /\ f \in ReplayerEvent /\ f.type = "child.failed" /\ f.child = id
    BY <1>3
  <2>3. \/ T = [S EXCEPT !.new = Append(@, c), !.go[s] = [g EXCEPT !.kids[i] = "done"]]
        \/ T = [S EXCEPT !.new = Append(@, n), !.go[s] = [g EXCEPT !.kids[i] = "done"]]
        \/ T = [S EXCEPT !.new = Append(@, f),
                         !.go[s] = [g EXCEPT !.kids[i] = "failed", !.first = first]]
    BY <1>2, <1>7 DEF ItemReturns, ChildEvent
  <2> DEFINE done == [g EXCEPT !.kids[i] = "done"]
             failed == [g EXCEPT !.kids[i] = "failed", !.first = first]
  <2>4. Item(done, "done", g.first) /\ Item(failed, "failed", first)
    <3> HIDE DEF first
    <3>1. Item(done, "done", g.first)
      BY <1>4, Zenon
    <3>2. Item(failed, "failed", first)
      <4> HIDE DEF g
      <4> QED
        BY <1>0, <1>1 DEF Goroutine
    <3> QED
      BY <3>1, <3>2
  <2>5. \/ T = [S EXCEPT !.new = Append(@, c), !.go[s] = done]
        \/ T = [S EXCEPT !.new = Append(@, n), !.go[s] = done]
        \/ T = [S EXCEPT !.new = Append(@, f), !.go[s] = failed]
    BY <2>3
  <2> HIDE DEF S, T, g, c, n, f, first, id, Item, done, failed
  <2>6. ASSUME T = [S EXCEPT !.new = Append(@, c), !.go[s] = done] PROVE KidsGood(T)
    BY <2>1, <2>2, <2>4, <2>6
  <2>7. ASSUME T = [S EXCEPT !.new = Append(@, n), !.go[s] = done] PROVE KidsGood(T)
    BY <2>1, <2>2, <2>4, <2>7
  <2>8. ASSUME T = [S EXCEPT !.new = Append(@, f), !.go[s] = failed] PROVE KidsGood(T)
    BY <2>1, <2>2, <2>4, <2>8
  <2> QED
    BY <2>5, <2>6, <2>7, <2>8
<1> QED
  BY <1>5, <1>6, <1>7

\* Every step of a replay.
LEMMA ReplayKids ==
    ASSUME TypedSessions, NEW w \in Replayers, SessionGood(sess[w]), KidsGood(sess[w]),
           ReplayStep(w) \/ ChildStep(w) \/ CancelContext(w)
    PROVE  KidsGood(sess'[w])
<1>1. ASSUME NEW s \in Steps, GoStep(w, s) \/ CollectResult(w, s) PROVE KidsGood(sess'[w])
  BY <1>1, GoStepKids, CollectKids
<1>2. ASSUME ChildStep(w) PROVE KidsGood(sess'[w])
  BY <1>2, CallRunKids, RunReturnsKids, CallMapKids, MapReturnsKids, ItemKids DEF ChildStep
<1> QED
  BY <1>1, <1>2, WaveKids DEF ReplayStep

-----------------------------------------------------------------------------
(* Children and maps in the log.                                           *)

\* In the log every child and every map is over; in a replay, those that are not
\* belong to a goroutine.
KidsHold == KidsOver(log) /\ \A w \in Workers : KidsGood(sess[w])

\* An event about neither children nor maps, added to a history.
LEMMA OverAppend ==
    ASSUME NEW h \in Seq(Event), KidsOver(h), NEW e \in Event, e.child = NoChild,
           e.type \notin ChildTypes
    PROVE  KidsOver(Append(h, e))
<1> DEFINE b == << e >>
           t == h \o b
<1>1. b \in Seq(Event) /\ Append(h, e) = t /\ \A k \in DOMAIN b : b[k] = e
  OBVIOUS
<1> HIDE DEF b
<1>2. \A k \in DOMAIN b : \A id : ~ChildEventOf(b[k], id)
  BY <1>1 DEF ChildEventOf, ChildTypes
<1>3. \A id \in ChildId : Whole(t, id)
  BY <1>1, <1>2, OthersGrow DEF KidsOver
<1>4. MapsAfter(t)
  <2>1. \A k \in DOMAIN b : b[k].type # "map.completed" /\ b[k].type # "map.failed"
    BY <1>1 DEF ChildTypes
  <2> QED
    BY <1>1, <2>1, MapsAfterGrows DEF KidsOver
<1>5. ASSUME NEW i \in DOMAIN t, t[i].child.map # -1 PROVE MapSettled(t, t[i].child.map)
  <2>1. i \in DOMAIN h /\ t[i] = h[i]
    BY <1>1, <1>5, Grown, IdsApart
  <2>2. MapSettled(h, h[i].child.map)
    BY <1>5, <2>1 DEF KidsOver
  <2> QED
    BY <1>1, <2>1, <2>2, SettledGrows
<1> HIDE DEF t
<1> QED
  BY <1>1, <1>3, <1>4, <1>5 DEF KidsOver

\* What API callers and the workers of timeouts and scheduled starts append.
LEMMA RunnerPlain ==
    /\ StartedEvent \in Event /\ StartedEvent.child = NoChild /\ StartedEvent.type \notin ChildTypes
    /\ CancelledEvent \in Event /\ CancelledEvent.child = NoChild
    /\ CancelledEvent.type \notin ChildTypes
    /\ FailedEvent \in Event /\ FailedEvent.child = NoChild /\ FailedEvent.type \notin ChildTypes
    /\ \A sig \in Signals : \A type \in {"signal.received", "signal.timeout"} :
          /\ Ev(type, sig) \in Event /\ Ev(type, sig).child = NoChild
          /\ Ev(type, sig).type \notin ChildTypes
<1>1. /\ StartedEvent \in Event /\ CancelledEvent \in Event /\ FailedEvent \in Event
      /\ \A sig \in Signals : \A type \in {"signal.received", "signal.timeout"} :
            Ev(type, sig) \in Event
  BY RunnerAppends
<1>2. \A type, name : Ev(type, name).child = NoChild /\ Ev(type, name).type = type
  BY PlainEvents
<1> QED
  BY <1>1, <1>2 DEF StartedEvent, CancelledEvent, FailedEvent, ChildTypes

\* A replay that has ended has no goroutine, so that its trace is over.
LEMMA EndedOver ==
    ASSUME NEW S \in Session, SessionGood(S), KidsGood(S), S.result # "running"
    PROVE  KidsOver(Trace(S))
<1>1. \A s \in Steps : S.go[s].pc = "none"
  BY DEF SessionGood, WaveShape
<1>2. \A s \in Steps : ~Mapping(S.go[s]) /\ \A id : ~Pends(S.go[s], id)
  BY <1>1 DEF Mapping, Pends
<1> QED
  BY <1>2 DEF KidsGood, KidsOver

\* API callers.
LEMMA ClientKeepsKids ==
    ASSUME TypeOK, ChecksHold, KidsHold, NEW c \in Clients,
           ClientCall(c) \/ ClientStep(c) \/ ClientCrash(c)
    PROVE  KidsHold'
<1>0. log \in Seq(Event) /\ KidsOver(log)
  BY DEF TypeOK, KidsHold
<1>1. UNCHANGED sess
  BY DEF ClientCall, ClientStep, ClientCrash, StartWorkflow, CancelWorkflow, SendSignal,
     AppendSignal, AppendCancel, InsertJob, ClientConflict
<1>2. KidsOver(log')
  <2>1. CASE StartWorkflow(c)
    BY <1>0, <2>1, RunnerPlain, OverAppend DEF StartWorkflow
  <2>2. CASE AppendSignal(c)
    <3> DEFINE e == Ev("signal.received", cl[c].sig)
    <3>1. cl[c].sig \in Signals /\ log' = Append(log, e)
      BY <2>2 DEF AppendSignal, ChecksHold, ClientChecked
    <3>2. e \in Event /\ e.child = NoChild /\ e.type \notin ChildTypes
      BY <3>1, RunnerPlain
    <3> HIDE DEF e
    <3> QED
      BY <1>0, <3>1, <3>2, OverAppend
  <2>3. CASE AppendCancel(c)
    BY <1>0, <2>3, RunnerPlain, OverAppend DEF AppendCancel
  <2>4. CASE UNCHANGED log
    BY <1>0, <2>4
  <2> QED
    BY <2>1, <2>2, <2>3, <2>4 DEF ClientCall, ClientStep, ClientCrash, SendSignal,
       CancelWorkflow, InsertJob, ClientConflict
<1> QED
  BY <1>1, <1>2 DEF KidsHold

\* What the result of a replay adds.
LEMMA ResultOver ==
    ASSUME NEW S \in Session, NEW h \in Seq(Event), KidsOver(h)
    PROVE  KidsOver(h \o ResultEvents(S))
<1>1. CASE S.result = "failed"
  <2>1. ResultEvents(S) = << FailedEvent >> /\ FailedEvent \in Event
    BY <1>1, RunnerPlain DEF ResultEvents
  <2>2. h \o << FailedEvent >> = Append(h, FailedEvent)
    BY <2>1
  <2> QED
    BY <2>1, <2>2, RunnerPlain, OverAppend
<1>2. CASE S.result # "failed"
  <2>1. ResultEvents(S) = <<>>
    BY <1>2 DEF ResultEvents
  <2> QED
    BY <2>1
<1> QED
  BY <1>1, <1>2

\* What a worker appends: the trace of a replay that has ended.
LEMMA WorkerLogOver ==
    ASSUME TypeOK, ChecksHold, HistoryGood, KidsHold, NEW w \in Workers,
           WorkerStep(w) \/ CancelReplay(w) \/ WorkerCrash(w)
    PROVE  KidsOver(log')
<1> DEFINE S == sess[w]
           t == Trace(S)
           r == ResultEvents(S)
<1>0. /\ log \in Seq(Event) /\ KidsOver(log)
      /\ S \in Session /\ SessionGood(S) /\ KidsGood(S)
      /\ S.hist \in Seq(Event) /\ S.new \in Seq(Event) /\ r \in Seq(Event) /\ t \in Seq(Event)
  BY ReplayEventsTypes, SessionTypes DEF KidsHold, HistoryGood, TypeOK
<1>1. CASE CommitReplay(w)
  <2>1. /\ Snapshot(S.hist, log) /\ Accepts(S.hist) /\ S.result # "running"
        /\ log' = log \o (S.new \o r)
    BY <1>1 DEF CommitReplay, ReplayEnded, ChecksHold, WorkerChecked
  <2>2. S.hist = log
    BY <1>0, <2>1, AcceptedEqual
  <2>3. log' = t \o r
    <3>1. \A x, y, z \in Seq(Event) : x \o (y \o z) = (x \o y) \o z
      OBVIOUS
    <3> QED
      BY <1>0, <2>1, <2>2, <3>1, ZenonT(40) DEF Trace
  <2> QED
    BY <1>0, <2>1, <2>3, EndedOver, ResultOver
<1>2. CASE AppendReplay(w)
  <2>1. /\ Snapshot(S.hist, log) /\ (S.new = <<>> \/ Accepts(S.hist)) /\ S.result # "running"
        /\ log' = log \o S.new
    BY <1>2 DEF AppendReplay, ReplayEnded, ChecksHold, WorkerChecked
  <2>2. CASE S.new = <<>>
    <3>1. log' = log
      BY <1>0, <2>1, <2>2
    <3> QED
      BY <1>0, <3>1
  <2>3. CASE Accepts(S.hist)
    <3>1. S.hist = log
      BY <1>0, <2>1, <2>3, AcceptedEqual
    <3>2. log' = t
      BY <2>1, <3>1 DEF Trace
    <3> QED
      BY <1>0, <2>1, <3>2, EndedOver
  <2> QED
    BY <2>1, <2>2, <2>3
<1>3. CASE FinishReplay(w)
  <2>1. log' = log \o r
    BY <1>3 DEF FinishReplay
  <2> QED
    BY <1>0, <2>1, ResultOver
<1>4. CASE AppendTimeout(w)
  <2> DEFINE e == Ev("signal.timeout", wk[w].job.sig)
  <2>1. wk[w].job.sig \in Signals /\ log' = Append(log, e)
    BY <1>4 DEF AppendTimeout, ChecksHold, WorkerChecked
  <2>2. e \in Event /\ e.child = NoChild /\ e.type \notin ChildTypes
    BY <2>1, RunnerPlain
  <2> HIDE DEF e
  <2> QED
    BY <1>0, <2>1, <2>2, OverAppend
<1>5. CASE ScheduledStart(w)
  BY <1>0, <1>5, RunnerPlain, OverAppend DEF ScheduledStart
<1>6. CASE UNCHANGED log
  BY <1>0, <1>6
<1> QED
  BY <1>1, <1>2, <1>3, <1>4, <1>5, <1>6 DEF WorkerStep, CancelReplay, WorkerCrash, TakeJob,
     SkipRun, LoadRun, Replay, AbortReplay, ReplayPanics, ReplayConflict, SkipTimeout,
     LoadTimeout, TimeoutConflict, ScheduledConflict, WorkerInsert, CompleteJob, EndAttempt

\* A replay that has not begun its first wave.
LEMMA FirstKids ==
    ASSUME NEW h \in Seq(Event), KidsOver(h), NEW S \in Session, S.hist = h,
           \A s \in Steps : S.go[s] = NoGoroutine,
           S.new = <<>> \/ S.new = << Ev("workflow.started", None) >>
    PROVE  KidsGood(S)
<1> DEFINE e == Ev("workflow.started", None)
<1>1. e \in Event /\ e.child = NoChild /\ e.type \notin ChildTypes
  BY EvTypes, PlainEvents DEF ChildTypes, ReplayerEvent
<1>2. KidsOver(Trace(S))
  <2> HIDE DEF e
  <2>1. h \o <<>> = h /\ h \o << e >> = Append(h, e)
    BY <1>1
  <2> QED
    BY <1>1, <2>1, OverAppend DEF Trace, e
<1>3. NoGoroutine.pc = "none" /\ NoGoroutine.evs = <<>> /\ DOMAIN <<>> = {}
  BY DEF NoGoroutine
<1>4. \A s \in Steps : /\ GoKids(Trace(S), S.go[s]) /\ ~Mapping(S.go[s]) /\ S.go[s].pc # "child"
                       /\ \A k \in DOMAIN S.go[s].evs : S.go[s].evs[k].child = NoChild
  BY <1>3 DEF GoKids, Mapping
<1>5. Counted(S)
  <2>1. \A k \in DOMAIN S.new : S.new[k].child = NoChild
    <3>1. DOMAIN << e >> = {1} /\ << e >>[1] = e
      OBVIOUS
    <3> QED
      BY <1>1, <1>3, <3>1
  <2>2. \A n \in Nat : -1 < n
    OBVIOUS
  <2>3. NoChild.map = -1 /\ NoChild.item = -1 /\ S.childCount \in Nat /\ S.mapCount \in Nat
    BY IdsApart, CountTypes
  <2> QED
    BY <1>4, <2>1, <2>2, <2>3 DEF Counted
<1> QED
  BY <1>2, <1>4, <1>5 DEF KidsGood, KidsOver

\* Workers without a replay, and with a new one.
LEMMA NewKids ==
    /\ KidsOver(<<>>)
    /\ KidsGood(NoSession)
    /\ \A h \in Seq(Event) : KidsOver(h) => KidsGood(NewReplayer(h))
<1>1. KidsOver(<<>>)
  BY DEF KidsOver, Whole, Unknown, MapsAfter
<1>2. \A s \in Steps : NoGoroutines[s] = NoGoroutine
  BY DEF NoGoroutines
<1>3. KidsGood(NoSession)
  <2>1. NoSession.hist = <<>> /\ NoSession.new = <<>> /\ NoSession.go = NoGoroutines
    BY DEF NoSession
  <2>2. <<>> \in Seq(Event) /\ NoSession \in Session
    BY NoSessionType
  <2> HIDE DEF NoSession
  <2> QED
    BY <1>1, <1>2, <2>1, <2>2, FirstKids
<1>4. ASSUME NEW h \in Seq(Event), KidsOver(h) PROVE KidsGood(NewReplayer(h))
  <2>1. /\ NewReplayer(h).hist = h /\ NewReplayer(h).go = NoGoroutines
        /\ \/ NewReplayer(h).new = <<>>
           \/ NewReplayer(h).new = << Ev("workflow.started", None) >>
    BY DEF NewReplayer, NoSession
  <2>2. NewReplayer(h) \in Session
    BY NewReplayerType
  <2> QED
    BY <1>2, <1>4, <2>1, <2>2, FirstKids
<1> QED
  BY <1>1, <1>3, <1>4

\* A worker's own replay.
LEMMA OwnReplayKids ==
    ASSUME TypeOK, HistoryGood, KidsHold, NEW w \in Workers,
           WorkerStep(w) \/ CancelReplay(w) \/ WorkerCrash(w)
    PROVE  KidsGood(sess'[w])
<1>0. /\ SessionGood(sess[w]) /\ KidsGood(sess[w]) /\ KidsOver(log)
      /\ TypedSessions /\ w \in Replayers /\ log \in Seq(Event)
  BY RunnerAssumption DEF HistoryGood, KidsHold, TypeOK, TypedSessions
<1>1. CASE Replay(w) \/ CancelReplay(w)
  <2>1. ReplayStep(w) \/ ChildStep(w) \/ CancelContext(w)
    BY <1>1 DEF Replay, CancelReplay
  <2> QED
    BY <1>0, <2>1, ReplayKids
<1>2. CASE EndAttempt(w)
  BY <1>2, SetSessionSets, NewKids DEF EndAttempt
<1>3. CASE LoadRun(w)
  BY <1>0, <1>3, SetSessionSets, NewKids DEF LoadRun
<1>4. CASE CommitReplay(w) \/ FinishReplay(w)
  BY <1>4, SetSessionSets, NewKids DEF CommitReplay, FinishReplay
<1>5. CASE UNCHANGED sess
  BY <1>0, <1>5
<1> QED
  BY <1>1, <1>2, <1>3, <1>4, <1>5
     DEF WorkerStep, WorkerCrash, AbortReplay, ReplayPanics, ReplayConflict, TimeoutConflict,
     ScheduledConflict, TakeJob, SkipRun, AppendReplay, SkipTimeout, LoadTimeout, AppendTimeout,
     ScheduledStart, WorkerInsert, CompleteJob

\* Every step of the runner keeps KidsHold.
LEMMA NextKids == TypeOK /\ ChecksHold /\ HistoryGood /\ KidsHold /\ [Next]_vars => KidsHold'
<1> SUFFICES ASSUME TypeOK, ChecksHold, HistoryGood, KidsHold, [Next]_vars PROVE KidsHold'
  OBVIOUS
<1>1. CASE UNCHANGED vars
  BY <1>1 DEF vars, KidsHold
<1>2. ASSUME NEW w \in Workers, WorkerStep(w) \/ CancelReplay(w) \/ WorkerCrash(w)
      PROVE  KidsHold'
  <2>1. \A x \in Workers \ {w} : sess'[x] = sess[x]
    BY <1>2, OthersReplay
  <2> QED
    BY <1>2, <2>1, WorkerLogOver, OwnReplayKids DEF KidsHold
<1> QED
  BY <1>1, <1>2, ClientKeepsKids DEF Next

\* Whatever is not over in the trace of a replay belongs to one of its
\* goroutines, and nothing is open in the log.
THEOREM KidsCorrect == Spec => []KidsHold
<1>1. Init => KidsHold
  BY NewKids DEF Init, KidsHold
<1>2. TypeOK /\ ChecksHold /\ HistoryGood /\ KidsHold /\ [Next]_vars => KidsHold'
  BY NextKids
<1> QED
  BY <1>1, <1>2, ChecksCorrect, HistoryCorrect, PTL DEF Spec

\* However often a run is replayed, retried and crashes, a child that is spawned
\* is spawned once and has one outcome, after it (Run, MapWithOptions).
THEOREM ChildrenCorrect == Spec => []ChildrenOnce
<1>1. TypeOK /\ KidsHold => ChildrenOnce
  <2> SUFFICES ASSUME TypeOK, KidsHold, NEW i \in DOMAIN log, log[i].type = "child.spawned"
               PROVE  \E k \in i + 1 .. Len(log) :
                         /\ log[k].type \in {"child.completed", "child.failed"}
                         /\ {j \in DOMAIN log : ChildEventOf(log[j], log[i].child)} = {i, k}
    BY DEF ChildrenOnce
  <2> DEFINE id == log[i].child
  <2>0. log \in Seq(Event) /\ DOMAIN log = 1 .. Len(log) /\ Len(log) \in Nat /\ log[i] \in Event
    BY DEF TypeOK
  <2>1. Whole(log, id)
    BY <2>0 DEF KidsHold, KidsOver, Event
  <2>2. i \in Of(log, id)
    BY DEF Of, ChildEventOf
  <2>3. PICK j \in DOMAIN log, k \in DOMAIN log :
            /\ j < k /\ log[j].type = "child.spawned" /\ log[k].type \in Outcomes
            /\ Of(log, id) = {j, k}
    BY <2>1, <2>2 DEF Whole, Unknown, Of
  <2>4. i = j
    BY <2>2, <2>3 DEF Outcomes
  <2>5. k \in i + 1 .. Len(log)
    BY <2>0, <2>3, <2>4
  <2> QED
    BY <2>3, <2>4, <2>5 DEF Of, Outcomes
<1> QED
  BY <1>1, KidsCorrect, TypeCorrect, PTL

\* A replay never finds a map half done: a stored map has its outcome, results
\* only after each child completed, a failure only after that of the child it
\* names (MapWithOptions).
THEOREM MapsCorrect == Spec => []MapsWhole
<1>1. TypeOK /\ KidsHold => MapsWhole
  <2> SUFFICES ASSUME TypeOK, KidsHold PROVE MapsWhole
    OBVIOUS
  <2>0. log \in Seq(Event) /\ DOMAIN log = 1 .. Len(log) /\ Len(log) \in Nat
    BY DEF TypeOK
  <2>1. ASSUME NEW i \in DOMAIN log, NEW type, NEW id, SettledBefore(log, i, type, id)
        PROVE  Settled(SubSeq(log, 1, i - 1), type, id)
    <3>1. PICK j \in DOMAIN log : j < i /\ log[j].type = type /\ log[j].child = id
      BY <2>1 DEF SettledBefore
    <3>2. j \in 1 .. i - 1 /\ i - 1 \in 0 .. Len(log)
      BY <2>0, <3>1
    <3> DEFINE before == SubSeq(log, 1, i - 1)
    <3>3. j \in DOMAIN before /\ before[j] = log[j]
      BY <2>0, <3>2
    <3> HIDE DEF before
    <3>4. Settled(before, type, id)
      BY <3>1, <3>3 DEF Settled
    <3> QED
      BY <3>4 DEF before
  <2>2. MapsAfter(log) /\ \A i \in DOMAIN log : log[i].child.map # -1 =>
                              MapSettled(log, log[i].child.map)
    BY DEF KidsHold, KidsOver
  <2> QED
    BY <2>1, <2>2 DEF MapsWhole, MapsAfter, MapSettled
<1> QED
  BY <1>1, KidsCorrect, TypeCorrect, PTL
=============================================================================
