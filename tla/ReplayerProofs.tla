--------------------------- MODULE ReplayerProofs ---------------------------
(***************************************************************************)
(* Type correctness of replays: whatever step a replay takes, in the code  *)
(* of the wave loop, of a step's attempts or of its Run and Map calls, its *)
(* session keeps its type and no other session moves.  In particular it    *)
(* only ever produces replayer events, none of those that resolve a signal *)
(* or cancel a run.                                                        *)
(***************************************************************************)
EXTENDS Children, TLAPS

TypedSessions == sess \in [Replayers -> Session]

\* The goroutine that executeParallel starts, and the absence of one, have the
\* goroutine type.
LEMMA NewGoroutineTypes ==
    /\ NoGoroutine \in Goroutine
    /\ NewGoroutine \in Goroutine
    /\ NoGoroutines \in [Steps -> Goroutine]
<1>1. <<>> \in Seq(ReplayerEvent) /\ <<>> \in Seq(EventNames)
  OBVIOUS
<1>2. [i \in Items |-> "new"] \in [Items -> KidStates]
  BY DEF KidStates
<1>3. NoGoroutine \in Goroutine
  <2> DEFINE kids == [i \in Items |-> "new"]
  <2>1. kids \in [Items -> KidStates]
    BY <1>2
  <2> HIDE DEF kids
  <2>2. [pc |-> "none", attempt |-> 1, name |-> None, evs |-> <<>>, got |-> <<>>,
         index |-> 0, kids |-> kids, first |-> -1] \in Goroutine
    BY <1>1, <2>1 DEF Goroutine, GoPcs, BodyPcs
  <2> QED
    BY <2>2 DEF NoGoroutine, kids
<1>4. NewGoroutine \in Goroutine
  BY <1>3 DEF NewGoroutine, Goroutine, GoPcs, BodyPcs
<1> QED
  BY <1>3, <1>4 DEF NoGoroutines

\* A worker that replays nothing has a typed session.
LEMMA NoSessionType == NoSession \in Session
  BY NewGoroutineTypes DEF NoSession, Session

\* Whatever name, data, attempt and child a replay puts in an event, it has the
\* type of a replayer event.
LEMMA EvConstructors ==
    ASSUME NEW type \in ReplayerTypes, NEW name \in EventNames, NEW data \in EventData,
           NEW attempt \in Nat, NEW id \in ChildId
    PROVE  /\ EvData(type, name, data) \in ReplayerEvent
           /\ EvAttempt(type, name, data, attempt) \in ReplayerEvent
           /\ EvChild(type, name, data, id) \in ReplayerEvent
<1>1. NoChild \in ChildId /\ type \in EventTypes /\ 0 \in Nat
  BY DEF NoChild, ChildId, EventTypes, ReplayerTypes
<1> HIDE DEF ReplayerTypes
<1>2. EvData(type, name, data) \in Event
  BY <1>1 DEF EvData, Event
<1>3. EvAttempt(type, name, data, attempt) = [type |-> type, name |-> name, data |-> data,
                                               attempt |-> attempt, child |-> NoChild]
  BY DEF EvAttempt, EvData
<1>4. EvChild(type, name, data, id) = [type |-> type, name |-> name, data |-> data,
                                        attempt |-> 0, child |-> id]
  BY DEF EvChild, EvData
<1> QED
  BY <1>1, <1>2, <1>3, <1>4 DEF EvData, Event, ReplayerEvent

\* Each event that Replay and executeStepWithEvents emit is a replayer event.
LEMMA EvTypes ==
    /\ Ev("workflow.started", None) \in ReplayerEvent
    /\ Ev("workflow.completed", None) \in ReplayerEvent
    /\ \A n \in Names, k \in Nat : EvAttempt("step.started", n, None, k) \in ReplayerEvent
    /\ \A n \in Names : Ev("step.completed", n) \in ReplayerEvent
    /\ \A n \in Names, k \in Nat : EvAttempt("step.failed", n, "willRetry", k) \in ReplayerEvent
    /\ \A n \in Names, k \in Nat : EvAttempt("step.failed", n, "noRetry", k) \in ReplayerEvent
    /\ \A sig \in Signals : Ev("signal.waiting", sig) \in ReplayerEvent
    /\ \A s \in Steps, c \in CaseSteps \cup {NoCase} :
          EvData("branch.evaluated", s, c) \in ReplayerEvent
<1>1. /\ Names \subseteq EventNames /\ Signals \subseteq EventNames /\ None \in EventNames
      /\ Steps \subseteq EventNames
      /\ CaseSteps \cup {NoCase, None, "willRetry", "noRetry"} \subseteq EventData
      /\ NoChild \in ChildId
  BY DEF EventNames, EventData, Names, NoChild, ChildId
<1>2. {"workflow.started", "workflow.completed", "step.started", "step.completed",
       "step.failed", "signal.waiting", "branch.evaluated"} \subseteq ReplayerTypes
  BY DEF ReplayerTypes
<1> QED
  BY <1>1, <1>2, EvConstructors, 0 \in Nat, Zenon DEF Ev

\* NewReplayer makes a typed session of any loaded history.
LEMMA NewReplayerType ==
    ASSUME NEW h \in Seq(Event)
    PROVE  NewReplayer(h) \in Session
<1>1. (IF IsCancelled(h) \/ IsCompleted(h) \/ GetWorkflowInput(h)
       THEN <<>> ELSE << Ev("workflow.started", None) >>) \in Seq(ReplayerEvent)
  BY EvTypes
<1> QED
  BY NoSessionType, <1>1 DEF NewReplayer, Session

\* Replacing one session by a typed one keeps the sessions typed.
LEMMA SetSessionType ==
    ASSUME TypedSessions, NEW w \in Replayers, NEW S \in Session, SetSession(w, S)
    PROVE  TypedSessions'
  BY DEF TypedSessions, SetSession

\* A session whose goroutine s is replaced by a typed one.
LEMMA SetGoType ==
    ASSUME TypedSessions, NEW w \in Replayers, NEW s \in Steps, NEW g \in Goroutine,
           SetGo(w, s, g)
    PROVE  TypedSessions'
<1>1. [sess[w] EXCEPT !.go[s] = g] \in Session
  BY DEF TypedSessions, Session
<1> QED
  BY <1>1, SetSessionType DEF SetGo

\* The name under which a branch records its events is a step name
\* (GetCaseStepName).
LEMMA CaseNameType ==
    ASSUME NEW s \in Steps, NEW c \in Cases[s]
    PROVE  CaseName(s, c) \in Names
  BY CasesAssumption DEF CaseName, Names

\* What the type of the sessions says of one goroutine and its events.
LEMMA GoTypes ==
    ASSUME TypedSessions, NEW w \in Replayers, NEW s \in Steps
    PROVE  /\ sess[w] \in Session
           /\ sess[w].go[s] \in Goroutine
           /\ sess[w].go[s].evs \in Seq(ReplayerEvent)
           /\ sess[w].new \in Seq(ReplayerEvent)
           /\ sess[w].go[s].pc \in BodyPcs \cup {"attempt", "ok"} => sess[w].go[s].name \in Names
           /\ sess[w].go[s].attempt \in Nat
  BY DEF TypedSessions, Session, Goroutine

\* Entering a branch, its choice recorded or made now, keeps the types.
LEMMA EnterBranchType ==
    ASSUME TypedSessions, NEW w \in Replayers, NEW s \in Steps, EnterBranch(w, s)
    PROVE  TypedSessions'
<1> PICK c \in Cases[s] :
      \/ SetGo(w, s, [sess[w].go[s] EXCEPT !.pc = "attempt", !.name = CaseName(s, c)])
      \/ SetSession(w, [sess[w] EXCEPT
            !.new = Append(@, EvData("branch.evaluated", s, c)),
            !.go[s] = [@ EXCEPT !.pc = "attempt", !.name = CaseName(s, c)]])
  BY DEF EnterBranch
<1>1. CaseName(s, c) \in Names /\ c \in CaseSteps \cup {NoCase}
  BY CaseNameType, CasesAssumption
<1> DEFINE g == [sess[w].go[s] EXCEPT !.pc = "attempt", !.name = CaseName(s, c)]
<1>2. g \in Goroutine
  BY <1>1, GoTypes, ZenonT(40) DEF Goroutine, GoPcs, BodyPcs
<1>3. CASE SetGo(w, s, g)
  BY <1>2, <1>3, SetGoType
<1>4. CASE SetSession(w, [sess[w] EXCEPT
              !.new = Append(@, EvData("branch.evaluated", s, c)), !.go[s] = g])
  <2>1. Append(sess[w].new, EvData("branch.evaluated", s, c)) \in Seq(ReplayerEvent)
    BY <1>1, GoTypes, EvTypes
  <2>2. [sess[w] EXCEPT !.new = Append(@, EvData("branch.evaluated", s, c)),
                        !.go[s] = g] \in Session
    BY <1>2, <2>1, GoTypes DEF Session
  <2> QED
    BY <1>4, <2>2, SetSessionType
<1> QED
  BY <1>3, <1>4

\* A body that returns a value keeps the types.
LEMMA StepSucceedsType ==
    ASSUME TypedSessions, NEW w \in Replayers, NEW s \in Steps, StepSucceeds(w, s)
    PROVE  TypedSessions'
<1> DEFINE n == sess[w].go[s].name
           g == [sess[w].go[s] EXCEPT !.pc = "ok",
                                      !.evs = Append(@, Ev("step.completed", n))]
<1>1. n \in Names
  BY GoTypes DEF StepSucceeds, BodyPcs
<1>2. Append(sess[w].go[s].evs, Ev("step.completed", n)) \in Seq(ReplayerEvent)
  BY <1>1, GoTypes, EvTypes
<1>3. g \in Goroutine
  BY <1>1, <1>2, GoTypes, ZenonT(40) DEF Goroutine, GoPcs, BodyPcs
<1>4. [sess[w] EXCEPT !.cache = @ \cup {n}, !.go[s] = g] \in Session
  BY <1>1, <1>3, GoTypes DEF Session
<1>5. SetSession(w, [sess[w] EXCEPT !.cache = @ \cup {n}, !.go[s] = g])
  BY DEF StepSucceeds
<1> QED
  BY <1>4, <1>5, SetSessionType

\* A body that stops in WaitForSignal keeps the types.
LEMMA StepWaitsType ==
    ASSUME TypedSessions, NEW w \in Replayers, NEW s \in Steps, StepWaits(w, s)
    PROVE  TypedSessions'
<1> DEFINE n == sess[w].go[s].name
           g == [sess[w].go[s] EXCEPT !.pc = "waiting"]
           evs(i) == IF SignalWaiting(sess[w].hist, Awaits[n][i]) THEN sess[w].new
                     ELSE Append(sess[w].new, Ev("signal.waiting", Awaits[n][i]))
<1> PICK i \in DOMAIN Awaits[n] :
      SetSession(w, [sess[w] EXCEPT !.new = evs(i),
                                    !.signals = @ \cup {Awaits[n][i]},
                                    !.go[s] = g])
  BY DEF StepWaits
<1>0. sess[w] \in Session /\ sess[w].go[s] \in Goroutine /\ sess[w].new \in Seq(ReplayerEvent)
  BY GoTypes
<1>1. n \in Names
  BY GoTypes DEF StepWaits, BodyPcs
<1>2. Awaits[n][i] \in Signals
  BY <1>1, AwaitsAssumption
<1>3. evs(i) \in Seq(ReplayerEvent)
  <2> DEFINE e == Ev("signal.waiting", Awaits[n][i])
  <2>1. e \in ReplayerEvent
    BY <1>2, EvTypes
  <2> HIDE DEF e
  <2>2. Append(sess[w].new, e) \in Seq(ReplayerEvent)
    BY <1>0, <2>1
  <2> QED
    BY <1>0, <2>2 DEF e
<1>4. g \in Goroutine
  <2> DEFINE x == sess[w].go[s]
  <2>1. x \in Goroutine
    BY <1>0
  <2> HIDE DEF x
  <2>2. [x EXCEPT !.pc = "waiting"] \in Goroutine
    BY <2>1 DEF Goroutine, GoPcs, BodyPcs
  <2> QED
    BY <2>2 DEF x
<1>5. [sess[w] EXCEPT !.new = evs(i), !.signals = @ \cup {Awaits[n][i]}, !.go[s] = g]
        \in Session
  <2> DEFINE S == sess[w]
             new == evs(i)
             sig == Awaits[n][i]
  <2>1. S \in Session /\ new \in Seq(ReplayerEvent) /\ sig \in Signals /\ g \in Goroutine
    BY <1>0, <1>2, <1>3, <1>4
  <2> HIDE DEF S, new, sig, g
  <2>2. [S EXCEPT !.new = new, !.signals = @ \cup {sig}, !.go[s] = g] \in Session
    BY <2>1 DEF Session
  <2> QED
    BY <2>2 DEF S, new, sig
<1> QED
  BY <1>5, SetSessionType

\* A failed attempt, to be retried or not, keeps the types.
LEMMA StepFailsType ==
    ASSUME TypedSessions, NEW w \in Replayers, NEW s \in Steps, StepFails(w, s)
    PROVE  TypedSessions'
<1> DEFINE g == sess[w].go[s]
           willRetry == ShouldRetry(s, g.attempt)
           e == EvAttempt("step.failed", g.name,
                          IF willRetry THEN "willRetry" ELSE "noRetry", g.attempt)
           h == [g EXCEPT !.pc = IF willRetry THEN "attempt" ELSE "error",
                          !.attempt = IF willRetry THEN @ + 1 ELSE @,
                          !.evs = Append(@, e)]
<1>1. g.name \in Names /\ g.attempt \in Nat
  BY GoTypes DEF StepFails, BodyMayFail, BodyPcs
<1>2. Append(g.evs, e) \in Seq(ReplayerEvent)
  BY <1>1, GoTypes, EvTypes
<1>3. h \in Goroutine
  <2> DEFINE pc == IF willRetry THEN "attempt" ELSE "error"
             attempt == IF willRetry THEN g.attempt + 1 ELSE g.attempt
             evs == Append(g.evs, e)
  <2>1. pc \in {"attempt", "error"} /\ attempt \in Nat
    BY <1>1
  <2>2. h = [g EXCEPT !.pc = pc, !.attempt = attempt, !.evs = evs]
    OBVIOUS
  <2>3. evs \in Seq(ReplayerEvent) /\ g \in Goroutine
    BY <1>2, GoTypes
  <2> HIDE DEF pc, attempt, evs, h, g
  <2> QED
    BY <1>1, <2>1, <2>2, <2>3 DEF Goroutine, GoPcs, BodyPcs
<1> QED
  BY <1>3, SetGoType DEF StepFails

\* Every step of executeStepWithEvents keeps the types.
LEMMA GoStepType ==
    ASSUME TypedSessions, NEW w \in Replayers, NEW s \in Steps, GoStep(w, s)
    PROVE  TypedSessions'
<1>1. CASE GoContextError(w, s)
  <2>1. [sess[w].go[s] EXCEPT !.pc = "error"] \in Goroutine
    BY GoTypes, SMTT(30) DEF Goroutine, GoPcs, BodyPcs
  <2> QED
    BY <1>1, <2>1, SetGoType DEF GoContextError
<1>2. CASE EnterStep(w, s)
  <2>1. [sess[w].go[s] EXCEPT !.pc = "attempt", !.name = s] \in Goroutine
    BY GoTypes, ZenonT(40) DEF Goroutine, GoPcs, BodyPcs, Names
  <2> QED
    BY <1>2, <2>1, SetGoType DEF EnterStep
<1>3. CASE EnterBranch(w, s)
  BY <1>3, EnterBranchType
<1>4. CASE StartAttempt(w, s)
  <2> DEFINE g == [sess[w].go[s] EXCEPT
                     !.pc = "running",
                     !.got = <<>>,
                     !.evs = Append(@, EvAttempt("step.started", sess[w].go[s].name, None,
                                                 sess[w].go[s].attempt))]
  <2>1. sess[w].go[s].name \in Names
    BY <1>4, GoTypes DEF StartAttempt
  <2>2. Append(sess[w].go[s].evs, EvAttempt("step.started", sess[w].go[s].name, None,
                                            sess[w].go[s].attempt)) \in Seq(ReplayerEvent)
    BY <2>1, GoTypes, EvTypes
  <2>3. g \in Goroutine
    <3> DEFINE evs == Append(sess[w].go[s].evs,
                             EvAttempt("step.started", sess[w].go[s].name, None,
                                       sess[w].go[s].attempt))
    <3>1. evs \in Seq(ReplayerEvent) /\ <<>> \in Seq(EventNames) /\ sess[w].go[s] \in Goroutine
      BY <2>2, GoTypes
    <3> HIDE DEF evs
    <3>2. [sess[w].go[s] EXCEPT !.pc = "running", !.got = <<>>, !.evs = evs] \in Goroutine
      BY <2>1, <3>1 DEF Goroutine, GoPcs, BodyPcs
    <3> QED
      BY <3>2 DEF evs
  <2> QED
    BY <1>4, <2>3, SetGoType DEF StartAttempt
<1>5. CASE StepSucceeds(w, s)
  BY <1>5, StepSucceedsType
<1>6. CASE StepWaits(w, s)
  BY <1>6, StepWaitsType
<1>7. CASE StepFails(w, s)
  BY <1>7, StepFailsType
<1> QED
  BY <1>1, <1>2, <1>3, <1>4, <1>5, <1>6, <1>7 DEF GoStep

\* Collecting a result of a wave keeps the types.
LEMMA CollectResultType ==
    ASSUME TypedSessions, NEW w \in Replayers, NEW s \in Steps, CollectResult(w, s)
    PROVE  TypedSessions'
<1>1. sess[w].new \o sess[w].go[s].evs \in Seq(ReplayerEvent)
  BY GoTypes
<1>2. [sess[w] EXCEPT
         !.new = @ \o sess[w].go[s].evs,
         !.left = @ \ {s},
         !.completed = IF sess[w].go[s].pc = "ok" THEN @ \cup {s} ELSE @] \in Session
  BY <1>1, GoTypes DEF Session
<1> QED
  BY <1>2, SetSessionType DEF CollectResult

\* Every step of a replay keeps the sessions typed; what it emits are replayer
\* events only (workflow/replay.go).
THEOREM ReplayStepType ==
    ASSUME TypedSessions, NEW w \in Replayers, ReplayStep(w)
    PROVE  TypedSessions'
<1>0. sess[w] \in Session /\ sess[w].new \in Seq(ReplayerEvent)
  BY DEF TypedSessions, Session
<1>1. CASE Suspend(w)
  <2>1. [sess[w] EXCEPT !.result = "suspended"] \in Session
    BY <1>0 DEF Session
  <2> QED
    BY <1>1, <2>1, SetSessionType DEF Suspend
<1>2. CASE CompleteReplay(w)
  <2>1. Append(sess[w].new, Ev("workflow.completed", None)) \in Seq(ReplayerEvent)
    BY <1>0, EvTypes
  <2>2. [sess[w] EXCEPT !.new = Append(@, Ev("workflow.completed", None)),
                        !.result = "completed"] \in Session
    BY <1>0, <2>1 DEF Session
  <2> QED
    BY <1>2, <2>2, SetSessionType DEF CompleteReplay
<1>3. CASE BeginWave(w)
  <2> DEFINE ready == FindReadySteps(sess[w])
             go == [s \in Steps |-> IF s \in ready THEN NewGoroutine ELSE NoGoroutine]
  <2>1. go \in [Steps -> Goroutine] /\ ready \in SUBSET Steps
    BY NewGoroutineTypes DEF FindReadySteps
  <2>2. [sess[w] EXCEPT !.ready = ready, !.left = ready, !.go = go] \in Session
    <3> HIDE DEF ready, go
    <3> QED
      BY <1>0, <2>1 DEF Session
  <2> QED
    BY <1>3, <2>2, SetSessionType DEF BeginWave
<1>4. CASE EndWave(w)
  <2>1. WaveVerdict(sess[w]) \in {"waiting", "failed", "running"}
    BY DEF WaveVerdict
  <2>2. [sess[w] EXCEPT !.ready = {}, !.go = NoGoroutines,
                        !.result = WaveVerdict(sess[w])] \in Session
    BY <1>0, <2>1, NewGoroutineTypes DEF Session
  <2> QED
    BY <1>4, <2>2, SetSessionType DEF EndWave
<1>5. CASE \E s \in Steps : GoStep(w, s) \/ CollectResult(w, s)
  BY <1>5, GoStepType, CollectResultType
<1> QED
  BY <1>1, <1>2, <1>3, <1>4, <1>5 DEF ReplayStep

\* A step of w's replay is a step of its own session, and the history that it
\* resumed from stays as it was loaded.
LEMMA ReplayStepOwn ==
    ASSUME TypedSessions, NEW w \in Replayers, ReplayStep(w)
    PROVE  /\ sess'[w].hist = sess[w].hist
           /\ \A v \in Replayers \ {w} : sess'[v] = sess[v]
<1> USE DEF TypedSessions, Session, SetSession, SetGo
<1>1. CASE \E s \in Steps : GoStep(w, s)
  <2> PICK s \in Steps : GoStep(w, s)
    BY <1>1
  <2>1. CASE GoContextError(w, s)
    BY <2>1 DEF GoContextError
  <2>2. CASE EnterStep(w, s)
    BY <2>2 DEF EnterStep
  <2>3. CASE EnterBranch(w, s)
    BY <2>3 DEF EnterBranch
  <2>4. CASE StartAttempt(w, s)
    BY <2>4 DEF StartAttempt
  <2>5. CASE StepSucceeds(w, s)
    BY <2>5 DEF StepSucceeds
  <2>6. CASE StepWaits(w, s)
    BY <2>6 DEF StepWaits
  <2>7. CASE StepFails(w, s)
    BY <2>7 DEF StepFails
  <2> QED
    BY <2>1, <2>2, <2>3, <2>4, <2>5, <2>6, <2>7 DEF GoStep
<1>2. CASE \E s \in Steps : CollectResult(w, s)
  BY <1>2 DEF CollectResult
<1>3. CASE Suspend(w)
  BY <1>3 DEF Suspend
<1>4. CASE CompleteReplay(w)
  BY <1>4 DEF CompleteReplay
<1>5. CASE BeginWave(w)
  BY <1>5 DEF BeginWave
<1>6. CASE EndWave(w)
  BY <1>6 DEF EndWave
<1> QED
  BY <1>1, <1>2, <1>3, <1>4, <1>5, <1>6 DEF ReplayStep

-----------------------------------------------------------------------------
(* The steps that a replay takes in Run and Map.                           *)

\* What Run and Map do to a goroutine keeps its type.
LEMMA GoUpdateTypes ==
    ASSUME NEW g \in Goroutine, g.name \in Names, NEW x \in EventNames, NEW k \in Nat,
           NEW i \in Items, NEW st \in KidStates, NEW f \in Int
    PROVE  /\ Returns(g, x) \in Goroutine
           /\ ReturnsError(g) \in Goroutine
           /\ [g EXCEPT !.pc = "panic"] \in Goroutine
           /\ [g EXCEPT !.pc = "child", !.index = k] \in Goroutine
           /\ [g EXCEPT !.pc = "mapping", !.index = k, !.kids = [j \in Items |-> "new"],
                        !.first = -1] \in Goroutine
           /\ [g EXCEPT !.kids[i] = st] \in Goroutine
           /\ [g EXCEPT !.kids[i] = st, !.first = f] \in Goroutine
<1>1. Append(g.got, x) \in Seq(EventNames)
  BY DEF Goroutine
<1>2. Returns(g, x) \in Goroutine
  <2> DEFINE got == Append(g.got, x)
  <2>1. got \in Seq(EventNames)
    BY <1>1
  <2> HIDE DEF got
  <2>2. [g EXCEPT !.pc = "running", !.got = got] \in Goroutine
    BY <2>1 DEF Goroutine, GoPcs, BodyPcs
  <2> QED
    BY <2>2 DEF Returns, got
<1>3. ReturnsError(g) \in Goroutine /\ [g EXCEPT !.pc = "panic"] \in Goroutine
  BY DEF ReturnsError, Goroutine, GoPcs, BodyPcs
<1>4. [g EXCEPT !.pc = "child", !.index = k] \in Goroutine
  BY DEF Goroutine, GoPcs, BodyPcs
<1>5. [g EXCEPT !.pc = "mapping", !.index = k, !.kids = [j \in Items |-> "new"], !.first = -1]
        \in Goroutine
  <2> DEFINE kids  == [j \in Items |-> "new"]
             first == -1
  <2>1. kids \in [Items -> KidStates] /\ first \in Int
    BY DEF KidStates
  <2> HIDE DEF kids, first
  <2>2. [g EXCEPT !.kids = kids, !.first = first] \in Goroutine
    BY <2>1 DEF Goroutine
  <2>3. [g EXCEPT !.pc = "mapping", !.index = k, !.kids = kids, !.first = first] \in Goroutine
    BY <2>2 DEF Goroutine, GoPcs, BodyPcs
  <2> QED
    BY <2>3 DEF kids, first
<1>6. [g.kids EXCEPT ![i] = st] \in [Items -> KidStates]
  BY DEF Goroutine
<1>7. [g EXCEPT !.kids[i] = st] \in Goroutine /\ [g EXCEPT !.kids[i] = st, !.first = f] \in Goroutine
  <2> DEFINE kids == [g.kids EXCEPT ![i] = st]
  <2>1. kids \in [Items -> KidStates]
    BY <1>6
  <2> HIDE DEF kids
  <2>2. [g EXCEPT !.kids = kids] \in Goroutine /\ [g EXCEPT !.kids = kids, !.first = f] \in Goroutine
    BY <2>1 DEF Goroutine, GoPcs, BodyPcs
  <2> QED
    BY <2>2 DEF kids
<1> QED
  BY <1>2, <1>3, <1>4, <1>5, <1>7

\* A session stays typed when a goroutine is replaced, a counter is incremented
\* and an event is emitted.
LEMMA SessionUpdateTypes ==
    ASSUME NEW S \in Session, NEW s \in Steps, NEW g \in Goroutine, NEW e \in ReplayerEvent
    PROVE  /\ [S EXCEPT !.new = Append(@, e), !.go[s] = g] \in Session
           /\ [S EXCEPT !.childCount = @ + 1, !.go[s] = g] \in Session
           /\ [S EXCEPT !.mapCount = @ + 1, !.go[s] = g] \in Session
           /\ [S EXCEPT !.childCount = @ + 1, !.new = Append(@, e), !.go[s] = g] \in Session
           /\ [S EXCEPT !.mapCount = @ + 1, !.new = Append(@, e), !.go[s] = g] \in Session
<1> DEFINE go == [S.go EXCEPT ![s] = g]
           new == Append(S.new, e)
<1>1. go \in [Steps -> Goroutine] /\ new \in Seq(ReplayerEvent)
  BY DEF Session
<1>2. S.childCount + 1 \in Nat /\ S.mapCount + 1 \in Nat
  BY DEF Session
<1> HIDE DEF go, new
<1>3. /\ [S EXCEPT !.new = new, !.go = go] \in Session
      /\ [S EXCEPT !.childCount = @ + 1, !.go = go] \in Session
      /\ [S EXCEPT !.mapCount = @ + 1, !.go = go] \in Session
      /\ [S EXCEPT !.childCount = @ + 1, !.new = new, !.go = go] \in Session
      /\ [S EXCEPT !.mapCount = @ + 1, !.new = new, !.go = go] \in Session
  BY <1>1, <1>2 DEF Session
<1> QED
  BY <1>3 DEF go, new

\* The events that Run and Map record are replayer events.
LEMMA ChildEventTypes ==
    ASSUME NEW n \in Names, NEW i \in Int, NEW m \in Int
    PROVE  \A id \in {RunId(i), MapId(m), ItemId(m, i)} :
              \A type \in {"child.spawned", "child.completed", "child.failed",
                           "map.started", "map.completed", "map.failed"} :
                 /\ EvChild(type, n, None, id) \in ReplayerEvent
                 /\ EvChild(type, n, "noOutput", id) \in ReplayerEvent
<1>1. {RunId(i), MapId(m), ItemId(m, i)} \subseteq ChildId
  BY DEF RunId, MapId, ItemId, ChildId
<1>2. {"child.spawned", "child.completed", "child.failed",
       "map.started", "map.completed", "map.failed"} \subseteq ReplayerTypes
  BY DEF ReplayerTypes
<1>3. n \in EventNames /\ None \in EventData /\ "noOutput" \in EventData
  BY DEF EventNames, EventData
<1> QED
  BY <1>1, <1>2, <1>3, EvConstructors, 0 \in Nat, Zenon

\* What the type of the sessions says of a body that is in a call, or about to
\* make one.
LEMMA BodyTypes ==
    ASSUME TypedSessions, NEW w \in Replayers, NEW s \in Steps,
           sess[w].go[s].pc \in BodyPcs
    PROVE  /\ sess[w].go[s].name \in Names
           /\ sess[w].go[s].name \in EventNames
           /\ sess[w].go[s].index \in Nat
           /\ sess[w].go[s].first \in Int
           /\ sess[w].childCount \in Nat /\ sess[w].mapCount \in Nat
           /\ None \in EventNames
           /\ \A i \in DOMAIN sess[w].hist : sess[w].hist[i].name \in EventNames
<1>1. sess[w].go[s] \in Goroutine /\ sess[w] \in Session
  BY GoTypes
<1>2. sess[w].go[s].name \in Names /\ sess[w].go[s].name \in EventNames
  BY GoTypes DEF EventNames
<1>3. \A i \in DOMAIN sess[w].hist : sess[w].hist[i] \in Event
  BY <1>1 DEF Session
<1>4. \A i \in DOMAIN sess[w].hist : sess[w].hist[i].name \in EventNames
  BY <1>3 DEF Event
<1> QED
  BY <1>1, <1>2, <1>4 DEF Goroutine, Session, EventNames

\* Every step of Run keeps the sessions typed.
LEMMA RunType ==
    ASSUME TypedSessions, NEW w \in Replayers, NEW s \in Steps,
           CallRun(w, s) \/ RunReturns(w, s)
    PROVE  TypedSessions'
<1> DEFINE S == sess[w]
           g == S.go[s]
<1>0. g.pc \in BodyPcs
  BY DEF CallRun, RunReturns, NextCall, BodyPcs
<1>1. S \in Session /\ g \in Goroutine
  BY GoTypes
<1>2. /\ g.name \in Names /\ g.name \in EventNames /\ None \in EventNames
      /\ g.index \in Nat /\ S.childCount \in Nat
      /\ \A i \in DOMAIN S.hist : S.hist[i].name \in EventNames
  BY <1>0, BodyTypes
<1>3. /\ ReturnsError(g) \in Goroutine
      /\ \A x \in EventNames : Returns(g, x) \in Goroutine
      /\ [g EXCEPT !.pc = "child", !.index = S.childCount] \in Goroutine
  <2>1. 0 \in Items /\ "new" \in KidStates /\ 0 \in Int
    BY CallsAssumption DEF Items, KidStates
  <2> HIDE DEF g, S
  <2>2. \A x \in EventNames :
           ReturnsError(g) \in Goroutine /\ Returns(g, x) \in Goroutine
    BY <1>1, <1>2, <2>1, GoUpdateTypes, Zenon
  <2>3. [g EXCEPT !.pc = "child", !.index = S.childCount] \in Goroutine
    BY <1>1, <1>2, <2>1, GoUpdateTypes, Zenon
  <2> QED
    BY <1>2, <2>2, <2>3
<1>4. \A k \in Nat : \A type \in {"child.spawned", "child.completed", "child.failed"} :
         /\ EvChild(type, g.name, None, RunId(k)) \in ReplayerEvent
         /\ EvChild(type, g.name, "noOutput", RunId(k)) \in ReplayerEvent
  BY <1>2, ChildEventTypes, Nat \subseteq Int
<1>5. CASE CallRun(w, s)
  <2> DEFINE id == RunId(S.childCount)
             spawned == [S EXCEPT
                !.childCount = @ + 1,
                !.new = Append(@, ChildEvent(S, s, "child.spawned", id)),
                !.go[s] = [g EXCEPT !.pc = "child", !.index = S.childCount]]
  <2>1. \/ \E i \in DOMAIN S.hist :
              SetSession(w, [S EXCEPT
                  !.childCount = @ + 1,
                  !.go[s] = IF S.hist[i].data = "noOutput" THEN ReturnsError(g)
                            ELSE Returns(g, S.hist[i].name)])
        \/ SetSession(w, [S EXCEPT !.childCount = @ + 1, !.go[s] = ReturnsError(g)])
        \/ SetSession(w, spawned)
    BY <1>5 DEF CallRun
  <2>2. ASSUME NEW i \in DOMAIN S.hist
        PROVE  [S EXCEPT !.childCount = @ + 1,
                         !.go[s] = IF S.hist[i].data = "noOutput" THEN ReturnsError(g)
                                   ELSE Returns(g, S.hist[i].name)] \in Session
    BY <1>1, <1>2, <1>3, <1>4, SessionUpdateTypes
  <2>3. [S EXCEPT !.childCount = @ + 1, !.go[s] = ReturnsError(g)] \in Session
    BY <1>1, <1>2, <1>3, <1>4, SessionUpdateTypes
  <2>4. spawned \in Session
    BY <1>1, <1>2, <1>3, <1>4, SessionUpdateTypes DEF ChildEvent
  <2> QED
    BY <2>1, <2>2, <2>3, <2>4, SetSessionType
<1>6. CASE RunReturns(w, s)
  <2> DEFINE id == RunId(g.index)
             completed == [S EXCEPT
                !.new = Append(@, ChildEvent(S, s, "child.completed", id)),
                !.go[s] = Returns(g, g.name)]
             waiting == [S EXCEPT
                !.new = Append(@, EvChild("child.completed", g.name, "noOutput", id)),
                !.go[s] = Returns(g, None)]
             failed == [S EXCEPT
                !.new = Append(@, ChildEvent(S, s, "child.failed", id)),
                !.go[s] = ReturnsError(g)]
  <2>1. SetSession(w, completed) \/ SetSession(w, waiting) \/ SetSession(w, failed)
    BY <1>6 DEF RunReturns
  <2>2. completed \in Session
    BY <1>1, <1>2, <1>3, <1>4, SessionUpdateTypes DEF ChildEvent
  <2>3. waiting \in Session
    BY <1>1, <1>2, <1>3, <1>4, SessionUpdateTypes
  <2>4. failed \in Session
    BY <1>1, <1>2, <1>3, <1>4, SessionUpdateTypes DEF ChildEvent
  <2> QED
    BY <2>1, <2>2, <2>3, <2>4, SetSessionType
<1> QED
  BY <1>5, <1>6

\* Every step of Map, and of the goroutines of its group, keeps the sessions
\* typed.
LEMMA MapType ==
    ASSUME TypedSessions, NEW w \in Replayers, NEW s \in Steps,
           \/ CallMap(w, s) \/ MapReturns(w, s) \/ MapPanics(w, s)
           \/ \E i \in Items : SkipItem(w, s, i) \/ SpawnItem(w, s, i) \/ ItemReturns(w, s, i)
    PROVE  TypedSessions'
<1> DEFINE S == sess[w]
           g == S.go[s]
<1>0. g.pc \in BodyPcs
  BY DEF CallMap, MapReturns, MapPanics, SkipItem, SpawnItem, ItemReturns, GroupEnded,
         NextCall, BodyPcs
<1>1. S \in Session /\ g \in Goroutine
  BY GoTypes
<1>2. /\ g.name \in Names /\ g.name \in EventNames
      /\ g.index \in Nat /\ g.first \in Int /\ S.mapCount \in Nat
      /\ \A i \in DOMAIN S.hist : S.hist[i].name \in EventNames
  BY <1>0, BodyTypes
<1>3. \A m \in Nat, i \in Int :
         /\ \A type \in {"map.started", "map.completed"} :
               EvChild(type, g.name, None, MapId(m)) \in ReplayerEvent
         /\ \A type \in {"child.spawned", "child.completed", "child.failed", "map.failed"} :
               /\ EvChild(type, g.name, None, ItemId(m, i)) \in ReplayerEvent
               /\ EvChild(type, g.name, "noOutput", ItemId(m, i)) \in ReplayerEvent
  BY <1>2, ChildEventTypes, Nat \subseteq Int
<1>4. /\ ReturnsError(g) \in Goroutine
      /\ [g EXCEPT !.pc = "panic"] \in Goroutine
      /\ \A x \in EventNames : Returns(g, x) \in Goroutine
      /\ [g EXCEPT !.pc = "mapping", !.index = S.mapCount, !.kids = [i \in Items |-> "new"],
                   !.first = -1] \in Goroutine
      /\ \A i \in Items, st \in KidStates : [g EXCEPT !.kids[i] = st] \in Goroutine
      /\ \A i \in Items, f \in Int : [g EXCEPT !.kids[i] = "failed", !.first = f] \in Goroutine
  <2>1. 0 \in Items /\ "failed" \in KidStates /\ 0 \in Int
    BY CallsAssumption DEF Items, KidStates
  <2> HIDE DEF g, S
  <2>2. \A x \in EventNames : /\ ReturnsError(g) \in Goroutine
                              /\ Returns(g, x) \in Goroutine
                              /\ [g EXCEPT !.pc = "panic"] \in Goroutine
    BY <1>1, <1>2, <2>1, GoUpdateTypes, Zenon
  <2>3. [g EXCEPT !.pc = "mapping", !.index = S.mapCount, !.kids = [i \in Items |-> "new"],
                  !.first = -1] \in Goroutine
    BY <1>1, <1>2, <2>1, GoUpdateTypes, Zenon
  <2>4. \A i \in Items, st \in KidStates : [g EXCEPT !.kids[i] = st] \in Goroutine
    BY <1>1, <1>2, <2>1, GoUpdateTypes, Zenon
  <2>5. \A i \in Items, f \in Int : [g EXCEPT !.kids[i] = "failed", !.first = f] \in Goroutine
    BY <1>1, <1>2, <2>1, GoUpdateTypes, Zenon
  <2> QED
    BY <1>2, <2>2, <2>3, <2>4, <2>5
<1>5. CASE CallMap(w, s)
  <2> DEFINE started == [S EXCEPT
                !.mapCount = @ + 1,
                !.new = Append(@, ChildEvent(S, s, "map.started", MapId(S.mapCount))),
                !.go[s] = [g EXCEPT !.pc = "mapping", !.index = S.mapCount,
                                    !.kids = [i \in Items |-> "new"], !.first = -1]]
  <2>1. \/ \E i \in DOMAIN S.hist :
              SetSession(w, [S EXCEPT !.mapCount = @ + 1, !.go[s] = Returns(g, S.hist[i].name)])
        \/ SetSession(w, [S EXCEPT !.mapCount = @ + 1, !.go[s] = ReturnsError(g)])
        \/ SetSession(w, started)
    BY <1>5 DEF CallMap
  <2>2. ASSUME NEW i \in DOMAIN S.hist
        PROVE  [S EXCEPT !.mapCount = @ + 1, !.go[s] = Returns(g, S.hist[i].name)] \in Session
    BY <1>1, <1>2, <1>3, <1>4, SessionUpdateTypes
  <2>3. [S EXCEPT !.mapCount = @ + 1, !.go[s] = ReturnsError(g)] \in Session
    BY <1>1, <1>2, <1>3, <1>4, SessionUpdateTypes
  <2>4. started \in Session
    BY <1>1, <1>2, <1>3, <1>4, SessionUpdateTypes DEF ChildEvent
  <2> QED
    BY <2>1, <2>2, <2>3, <2>4, SetSessionType
<1>6. CASE MapReturns(w, s)
  <2> DEFINE completed == [S EXCEPT
                !.new = Append(@, ChildEvent(S, s, "map.completed", MapId(g.index))),
                !.go[s] = Returns(g, g.name)]
             failed == [S EXCEPT
                !.new = Append(@, ChildEvent(S, s, "map.failed", ItemId(g.index, g.first))),
                !.go[s] = ReturnsError(g)]
  <2>1. SetSession(w, completed) \/ SetSession(w, failed)
    BY <1>6 DEF MapReturns
  <2>2. completed \in Session
    BY <1>1, <1>2, <1>3, <1>4, SessionUpdateTypes DEF ChildEvent
  <2>3. failed \in Session
    BY <1>1, <1>2, <1>3, <1>4, SessionUpdateTypes DEF ChildEvent
  <2> QED
    BY <2>1, <2>2, <2>3, SetSessionType
<1>7. CASE MapPanics(w, s)
  BY <1>4, <1>7, SetGoType DEF MapPanics
<1>8. ASSUME NEW i \in Items, SkipItem(w, s, i) PROVE TypedSessions'
  BY <1>4, <1>8, SetGoType DEF SkipItem, KidStates
<1>9. ASSUME NEW i \in Items, SpawnItem(w, s, i) PROVE TypedSessions'
  <2> DEFINE spawned == [S EXCEPT
                !.new = Append(@, ChildEvent(S, s, "child.spawned", ItemId(g.index, i))),
                !.go[s] = [g EXCEPT !.kids[i] = "running"]]
  <2>1. "running" \in KidStates /\ i \in Int
    BY DEF KidStates, Items
  <2>2. spawned \in Session
    BY <1>1, <1>2, <1>3, <1>4, <2>1, SessionUpdateTypes DEF ChildEvent
  <2> QED
    BY <1>9, <2>2, SetSessionType DEF SpawnItem
<1>10. ASSUME NEW i \in Items, ItemReturns(w, s, i) PROVE TypedSessions'
  <2> DEFINE id == ItemId(g.index, i)
             first == IF g.first = -1 THEN i ELSE g.first
             completed == [S EXCEPT
                !.new = Append(@, ChildEvent(S, s, "child.completed", id)),
                !.go[s] = [g EXCEPT !.kids[i] = "done"]]
             waiting == [S EXCEPT
                !.new = Append(@, EvChild("child.completed", g.name, "noOutput", id)),
                !.go[s] = [g EXCEPT !.kids[i] = "done"]]
             failed == [S EXCEPT
                !.new = Append(@, ChildEvent(S, s, "child.failed", id)),
                !.go[s] = [g EXCEPT !.kids[i] = "failed", !.first = first]]
  <2>1. SetSession(w, completed) \/ SetSession(w, waiting) \/ SetSession(w, failed)
    BY <1>10 DEF ItemReturns
  <2>2. "done" \in KidStates /\ i \in Int /\ first \in Int
    BY <1>2 DEF KidStates, Items
  <2>3. completed \in Session
    BY <1>1, <1>2, <1>3, <1>4, <2>2, SessionUpdateTypes DEF ChildEvent
  <2>4. waiting \in Session
    BY <1>1, <1>2, <1>3, <1>4, <2>2, SessionUpdateTypes
  <2>5. failed \in Session
    <3> HIDE DEF first
    <3> QED
      BY <1>1, <1>2, <1>3, <1>4, <2>2, SessionUpdateTypes DEF ChildEvent
  <2> QED
    BY <2>1, <2>3, <2>4, <2>5, SetSessionType
<1> QED
  BY <1>5, <1>6, <1>7, <1>8, <1>9, <1>10

\* Every step that a replay takes in Run and Map keeps the sessions typed; what
\* it emits are replayer events only (workflow/map.go).
THEOREM ChildStepType ==
    ASSUME TypedSessions, NEW w \in Replayers, ChildStep(w)
    PROVE  TypedSessions'
  BY RunType, MapType DEF ChildStep

\* A step in Run or Map is a step of the replay's own session, and the history
\* that it resumed from stays as it was loaded.
LEMMA ChildStepOwn ==
    ASSUME TypedSessions, NEW w \in Replayers, ChildStep(w)
    PROVE  /\ sess'[w].hist = sess[w].hist
           /\ \A v \in Replayers \ {w} : sess'[v] = sess[v]
<1> USE DEF TypedSessions, Session, SetSession, SetGo
<1> PICK s \in Steps :
      \/ CallRun(w, s) \/ RunReturns(w, s) \/ CallMap(w, s) \/ MapReturns(w, s) \/ MapPanics(w, s)
      \/ \E i \in Items : SkipItem(w, s, i) \/ SpawnItem(w, s, i) \/ ItemReturns(w, s, i)
  BY DEF ChildStep
<1>1. CASE CallRun(w, s)
  BY <1>1 DEF CallRun
<1>2. CASE RunReturns(w, s)
  BY <1>2 DEF RunReturns
<1>3. CASE CallMap(w, s)
  BY <1>3 DEF CallMap
<1>4. CASE MapReturns(w, s)
  BY <1>4 DEF MapReturns
<1>5. CASE MapPanics(w, s)
  BY <1>5 DEF MapPanics
<1>6. CASE \E i \in Items : SkipItem(w, s, i)
  BY <1>6 DEF SkipItem
<1>7. CASE \E i \in Items : SpawnItem(w, s, i)
  BY <1>7 DEF SpawnItem
<1>8. CASE \E i \in Items : ItemReturns(w, s, i)
  BY <1>8, ZenonT(40) DEF ItemReturns
<1> QED
  BY <1>1, <1>2, <1>3, <1>4, <1>5, <1>6, <1>7, <1>8
=============================================================================
