------------------------------ MODULE Children ------------------------------
(***************************************************************************)
(* The child workflows that a step's body runs (workflow/map.go): Run, one *)
(* child at a time, and Map, one child for each item, each in a goroutine  *)
(* of its own.  A child is a replay from an empty history under the        *)
(* parent's context; of its result the parent's replay records one event.  *)
(* What happens inside a child is left to ChildResults.                    *)
(*                                                                         *)
(* The indexes that name children and maps come from counters that start   *)
(* at 0 in every replay.  A limit on concurrency only removes              *)
(* interleavings, so Map stands for MapWithOptions too.                    *)
(***************************************************************************)
EXTENDS Replayer

\* The body of step s is about to make a call of this kind.
NextCall(S, s, kind) ==
    LET g == S.go[s]
    IN  /\ g.pc = "running"
        /\ HasBody(S, s)
        /\ Len(g.got) < Len(Calls[g.name])
        /\ Calls[g.name][Len(g.got) + 1] = kind

\* The call of goroutine g returns x to the body, or an error.
Returns(g, x) == [g EXCEPT !.pc = "running", !.got = Append(@, x)]

ReturnsError(g) == [g EXCEPT !.pc = "failing"]

ChildEvent(S, s, type, id) == EvChild(type, S.go[s].name, None, id)

-----------------------------------------------------------------------------
(* Run.                                                                    *)

\* Mutant: the history is not asked about the child.
CallRunAnew(w, s) ==
    LET S  == sess[w]
        id == RunId(S.childCount)
    IN  /\ NextCall(S, s, "run")
        /\ SetSession(w, [S EXCEPT
               !.childCount = @ + 1,
               !.new = Append(@, ChildEvent(S, s, "child.spawned", id)),
               !.go[s] = [@ EXCEPT !.pc = "child", !.index = S.childCount]])

\* Run takes the next index.  The history may have the child's output (a nil
\* one cannot be decoded) or its failure; else the child is spawned.
CallRun(w, s) ==
    LET S  == sess[w]
        g  == S.go[s]
        id == RunId(S.childCount)
    IN  /\ NextCall(S, s, "run")
        /\ \/ \E i \in DOMAIN S.hist :
                /\ GetChildOutput(S.hist, id, i)
                /\ SetSession(w, [S EXCEPT
                       !.childCount = @ + 1,
                       !.go[s] = IF S.hist[i].data = "noOutput" THEN ReturnsError(g)
                                 ELSE Returns(g, S.hist[i].name)])
           \/ /\ ~Settled(S.hist, "child.completed", id)
              /\ GetChildError(S.hist, id)
              /\ SetSession(w, [S EXCEPT !.childCount = @ + 1, !.go[s] = ReturnsError(g)])
           \/ /\ ~Settled(S.hist, "child.completed", id)
              /\ ~GetChildError(S.hist, id)
              /\ SetSession(w, [S EXCEPT
                     !.childCount = @ + 1,
                     !.new = Append(@, ChildEvent(S, s, "child.spawned", id)),
                     !.go[s] = [g EXCEPT !.pc = "child", !.index = S.childCount]])

\* The child's replay returns.  Only a failed one is an error: a child that waits
\* for a signal, or that a dead context suspended, is recorded as completed with
\* no output, and the body gets the zero value.
RunReturns(w, s) ==
    LET S  == sess[w]
        g  == S.go[s]
        id == RunId(g.index)
    IN  /\ g.pc = "child"
        /\ \/ /\ "completed" \in ChildResults[g.name]
              /\ SetSession(w, [S EXCEPT
                     !.new = Append(@, ChildEvent(S, s, "child.completed", id)),
                     !.go[s] = Returns(g, g.name)])
           \/ /\ "waiting" \in ChildResults[g.name] \/ BodyContextDone(S, s)
              /\ SetSession(w, [S EXCEPT
                     !.new = Append(@, EvChild("child.completed", g.name, "noOutput", id)),
                     !.go[s] = Returns(g, None)])
           \/ /\ "failed" \in ChildResults[g.name] \/ BodyContextDone(S, s)
              /\ SetSession(w, [S EXCEPT
                     !.new = Append(@, ChildEvent(S, s, "child.failed", id)),
                     !.go[s] = ReturnsError(g)])

-----------------------------------------------------------------------------
(* Map.                                                                    *)

\* Map takes the next index.  The history may have the map's results or its
\* failure; else the group starts.  A history that has a child of the map has
\* the map's outcome too (MapsWhole), so the loop finds none of the children in
\* it and starts a goroutine for each.
CallMap(w, s) ==
    LET S == sess[w]
        g == S.go[s]
        m == S.mapCount
    IN  /\ NextCall(S, s, "map")
        /\ \/ \E i \in DOMAIN S.hist :
                /\ GetMapResults(S.hist, m, i)
                /\ SetSession(w, [S EXCEPT !.mapCount = @ + 1,
                                           !.go[s] = Returns(g, S.hist[i].name)])
           \/ /\ ~Settled(S.hist, "map.completed", MapId(m))
              /\ GetMapError(S.hist, m)
              /\ SetSession(w, [S EXCEPT !.mapCount = @ + 1, !.go[s] = ReturnsError(g)])
           \/ /\ ~Settled(S.hist, "map.completed", MapId(m))
              /\ ~GetMapError(S.hist, m)
              /\ SetSession(w, [S EXCEPT
                     !.mapCount = @ + 1,
                     !.new = Append(@, ChildEvent(S, s, "map.started", MapId(m))),
                     !.go[s] = [g EXCEPT !.pc = "mapping", !.index = m,
                                         !.kids = [i \in Items |-> "new"], !.first = -1]])

\* The group's context is done once the body's is, or a child's goroutine
\* returned an error.
GroupDone(S, s) ==
    \/ BodyContextDone(S, s)
    \/ \E i \in Items : S.go[s].kids[i] \in {"failed", "cancelled"}

\* The goroutine of item i finds the group's context done: no event.
SkipItem(w, s, i) ==
    /\ sess[w].go[s].pc = "mapping"
    /\ sess[w].go[s].kids[i] = "new"
    /\ GroupDone(sess[w], s)
    /\ SetGo(w, s, [sess[w].go[s] EXCEPT !.kids[i] = "cancelled"])

\* ... or spawns the child; a sibling that has recorded its failure may not have
\* cancelled the group yet.
SpawnItem(w, s, i) ==
    LET S == sess[w]
        g == S.go[s]
    IN  /\ g.pc = "mapping"
        /\ g.kids[i] = "new"
        /\ ~ContextDone(S, s)
        /\ SetSession(w, [S EXCEPT
               !.new = Append(@, ChildEvent(S, s, "child.spawned", ItemId(g.index, i))),
               !.go[s] = [g EXCEPT !.kids[i] = "running"]])

\* The child of item i returns, with the same three outcomes as in Run; the
\* first failure is kept for map.failed.
ItemReturns(w, s, i) ==
    LET S  == sess[w]
        g  == S.go[s]
        id == ItemId(g.index, i)
    IN  /\ g.pc = "mapping"
        /\ g.kids[i] = "running"
        /\ \/ /\ "completed" \in ChildResults[g.name]
              /\ SetSession(w, [S EXCEPT
                     !.new = Append(@, ChildEvent(S, s, "child.completed", id)),
                     !.go[s] = [g EXCEPT !.kids[i] = "done"]])
           \/ /\ "waiting" \in ChildResults[g.name] \/ GroupDone(S, s)
              /\ SetSession(w, [S EXCEPT
                     !.new = Append(@, EvChild("child.completed", g.name, "noOutput", id)),
                     !.go[s] = [g EXCEPT !.kids[i] = "done"]])
           \/ /\ "failed" \in ChildResults[g.name] \/ GroupDone(S, s)
              /\ SetSession(w, [S EXCEPT
                     !.new = Append(@, ChildEvent(S, s, "child.failed", id)),
                     !.go[s] = [g EXCEPT !.kids[i] = "failed",
                                         !.first = IF @ = -1 THEN i ELSE @]])

GroupEnded(g) ==
    g.pc = "mapping" /\ \A i \in Items : g.kids[i] \in {"done", "failed", "cancelled"}

\* Mutant: the group's error is dropped.
MapReturnsAnyway(w, s) ==
    LET S == sess[w]
        g == S.go[s]
    IN  /\ GroupEnded(g)
        /\ SetSession(w, [S EXCEPT
               !.new = Append(@, ChildEvent(S, s, "map.completed", MapId(g.index))),
               !.go[s] = Returns(g, g.name)])

\* After g.Wait(): every child is done, or the first failure is recorded.
MapReturns(w, s) ==
    LET S == sess[w]
        g == S.go[s]
    IN  /\ GroupEnded(g)
        /\ \/ /\ \A i \in Items : g.kids[i] = "done"
              /\ SetSession(w, [S EXCEPT
                     !.new = Append(@, ChildEvent(S, s, "map.completed", MapId(g.index))),
                     !.go[s] = Returns(g, g.name)])
           \/ /\ g.first # -1
              /\ SetSession(w, [S EXCEPT
                     !.new = Append(@, ChildEvent(S, s, "map.failed", ItemId(g.index, g.first))),
                     !.go[s] = ReturnsError(g)])

\* The group's error is its context's and no child failed: RecordMapFailed is
\* given a nil error and panics.
MapPanics(w, s) ==
    LET g == sess[w].go[s]
    IN  /\ GroupEnded(g)
        /\ g.first = -1
        /\ \E i \in Items : g.kids[i] = "cancelled"
        /\ SetGo(w, s, [g EXCEPT !.pc = "panic"])

ChildStep(w) ==
    \E s \in Steps :
        \/ CallRun(w, s)
        \/ RunReturns(w, s)
        \/ CallMap(w, s)
        \/ MapReturns(w, s)
        \/ MapPanics(w, s)
        \/ \E i \in Items : SkipItem(w, s, i) \/ SpawnItem(w, s, i) \/ ItemReturns(w, s, i)

Panicked(S) == \E s \in Steps : S.go[s].pc = "panic"
=============================================================================
