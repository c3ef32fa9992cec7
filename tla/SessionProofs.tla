--------------------------- MODULE SessionProofs ----------------------------
(***************************************************************************)
(* What one replay adds to a history (workflow/replay.go, branch.go,       *)
(* signal.go): an invariant of the history followed by the replay's new    *)
(* events, and of the goroutines of a wave, that every step of a replay    *)
(* keeps.  Everything here is about one session, whatever the other        *)
(* processes do; HistoryProofs carries it over to the log.                 *)
(***************************************************************************)
EXTENDS RunnerProofs

-----------------------------------------------------------------------------
(* The invariant of a history.                                             *)

\* Event e is in h.
Has(h, e) == \E i \in DOMAIN h : h[i] = e

\* The events of step s carry the name n, by the choices that h records.
NameOf(h, s, n) ==
    \/ Cases[s] = {} /\ n = s
    \/ \E choice \in Cases[s] :
          n = CaseName(s, choice) /\ Has(h, EvData("branch.evaluated", s, choice))

\* Every signal that the body named n waits for is resolved in h.
Resolved(h, n) == \A k \in DOMAIN Awaits[n] : SignalResolved(h, Awaits[n][k])

\* A completed name is no branch's own, had its signals resolved, and a step's
\* name completes once.
DoneOnce(h) ==
    \A i \in DOMAIN h : h[i].type = "step.completed" =>
        /\ h[i].name \in Names
        /\ Resolved(h, h[i].name)
        /\ h[i].name \in Steps =>
              /\ Cases[h[i].name] = {}
              /\ \A j \in DOMAIN h :
                    h[j].type = "step.completed" /\ h[j].name = h[i].name => j = i

\* A branch is decided once, for one of its cases.
DecidedOnce(h) ==
    \A i \in DOMAIN h : h[i].type = "branch.evaluated" =>
        /\ \E b \in Steps : \E choice \in Cases[b] : h[i] = EvData("branch.evaluated", b, choice)
        /\ \A j \in DOMAIN h :
              h[j].type = "branch.evaluated" /\ h[j].name = h[i].name => j = i

\* Before position i, step d is completed under one of its names.
DoneBefore(h, i, d) ==
    \E k \in DOMAIN h :
        k < i /\ h[k].type = "step.completed" /\ h[k].name \in RecordedNames(d)

\* What starts belongs to a step whose dependencies are completed.
StartsAfterDeps(h) ==
    \A i \in DOMAIN h : h[i].type = "step.started" =>
        \E s \in Steps : /\ h[i].name \in RecordedNames(s)
                         /\ \A d \in Deps[s] : DoneBefore(h, i, d)

\* A signal that is waited for is one that the body of some step waits for.
WaitsHaveSteps(h) ==
    \A i \in DOMAIN h : h[i].type = "signal.waiting" =>
        \E s \in Steps, n \in Names :
            NameOf(h, s, n) /\ \E k \in DOMAIN Awaits[n] : Awaits[n][k] = h[i].name

\* workflow.completed comes last, when every step is done and no signal is
\* waited for.
EndIsLast(h) ==
    \A i \in DOMAIN h : h[i].type = "workflow.completed" =>
        /\ i = Len(h) /\ h[i].name = None
        /\ \A s \in Steps : \E n \in RecordedNames(s) : HasCompleted(h, n)
        /\ \A sig \in Signals : SignalWaiting(h, sig) => SignalResolved(h, sig)

\* What holds of every log and of every replay's history with its new events.
LogGood(h) ==
    DoneOnce(h) /\ DecidedOnce(h) /\ StartsAfterDeps(h) /\ WaitsHaveSteps(h) /\ EndIsLast(h)

Open(h) == \A i \in DOMAIN h : h[i].type # "workflow.completed"

\* A step failed for good.
HasCause(h) == \E i \in DOMAIN h : h[i].type = "step.failed" /\ h[i].data = "noRetry"

-----------------------------------------------------------------------------
(* The invariant of a replay.                                              *)

\* The history of a replay followed by its new events.
Trace(S) == S.hist \o S.new

Returned == {"ok", "waiting", "error"}

\* Only the goroutines of a wave are there, results are collected when all of
\* them have returned, and a replay that has ended has no wave.
WaveShape(S) ==
    /\ S.left \subseteq S.ready
    /\ \A s \in Steps \ S.ready : S.go[s].pc = "none"
    /\ \A s \in S.ready : S.go[s].pc # "none"
    /\ S.left # S.ready => \A s \in S.ready : S.go[s].pc \in Returned
    /\ S.result # "running" => S.ready = {}

\* The events of a goroutine are about its step, under the name that is on
\* record, and one that completed says so last.
GoShape(S, s) ==
    LET g == S.go[s]
    IN  /\ g.pc = "enter" => g.evs = <<>>
        /\ g.pc \in BodyPcs \cup {"attempt", "ok", "waiting"} \/ g.evs # <<>> =>
              g.name \in Names /\ NameOf(Trace(S), s, g.name)
        /\ \A k \in DOMAIN g.evs :
              /\ g.evs[k].name = g.name
              /\ g.evs[k].type \in {"step.started", "step.failed", "step.completed"}
              /\ g.evs[k].type = "step.completed" => g.pc = "ok" /\ k = Len(g.evs)
        /\ g.pc = "ok" =>
              /\ HasCompleted(g.evs, g.name)
              /\ g.name \in S.cache
              /\ Resolved(S.hist, g.name)
              /\ Cases[s] # {} => g.name # s

\* A completed step is completed under a name on record, its output can be read
\* and its signals are resolved; the steps of a wave come after those they need;
\* a step that the events show as completed is completed.
StepsShape(S) ==
    /\ \A s \in S.completed : \E n \in Names :
          /\ NameOf(Trace(S), s, n)
          /\ HasCompleted(Trace(S), n)
          /\ GetOutput(S, n)
          /\ Resolved(S.hist, n)
          /\ Cases[s] # {} => n # s
    /\ \A s \in S.ready : Deps[s] \subseteq S.completed
    /\ S.left \cap S.completed = {}
    /\ \A s \in Steps : HasCompleted(Trace(S), s) => s \in S.completed

\* An output in the cache is in the new events, or in those of a goroutine whose
\* result is not yet collected.
CacheKept(S) ==
    \A n \in S.cache : \/ HasCompleted(S.new, n)
                       \/ \E s \in S.left : HasCompleted(S.go[s].evs, n)

\* Collected results are in the new events.
Collected(S) ==
    \A s \in S.ready \ S.left : \A k \in DOMAIN S.go[s].evs : Has(S.new, S.go[s].evs[k])

\* A replay fails, while its context lives, because a step failed for good.
CauseKept(S) ==
    ~S.ctxDone =>
        /\ (\E s \in S.ready : S.go[s].pc = "error") =>
              \E s \in S.ready : \/ S.go[s].pc = "waiting"
                                 \/ S.go[s].pc = "error" /\ HasCause(S.go[s].evs)
        /\ S.result = "failed" => HasCause(Trace(S))

\* A replay that records a wait does not go on after the wave, and one that goes
\* on has no step that failed for good before it.
WaitsKept(S) ==
    /\ \A sig \in Signals : SignalWaiting(S.new, sig) =>
          S.result = "waiting" \/ \E s \in S.ready : S.go[s].pc = "waiting"
    /\ S.result = "running" => \A s \in Steps : ~GetFatalError(S.hist, s)

SessionGood(S) ==
    /\ LogGood(Trace(S))
    /\ S.result # "completed" => Open(Trace(S))
    /\ WaveShape(S)
    /\ \A s \in S.ready : GoShape(S, s)
    /\ StepsShape(S)
    /\ CacheKept(S)
    /\ Collected(S)
    /\ CauseKept(S)
    /\ WaitsKept(S)

-----------------------------------------------------------------------------
(* What stays true of a history when events are added to it.               *)

\* The entries of a history with a batch added.
LEMMA Grown ==
    ASSUME NEW h \in Seq(Event), NEW b \in Seq(Event)
    PROVE  /\ h \o b \in Seq(Event)
           /\ Len(h \o b) = Len(h) + Len(b)
           /\ DOMAIN h = 1 .. Len(h) /\ DOMAIN b = 1 .. Len(b)
           /\ DOMAIN (h \o b) = 1 .. Len(h) + Len(b)
           /\ Len(h) \in Nat /\ Len(b) \in Nat
           /\ \A i \in DOMAIN h : i \in DOMAIN (h \o b) /\ (h \o b)[i] = h[i]
           /\ \A k \in DOMAIN b :
                 Len(h) + k \in DOMAIN (h \o b) /\ (h \o b)[Len(h) + k] = b[k]
           /\ \A i \in DOMAIN (h \o b) :
                 \/ i \in DOMAIN h /\ (h \o b)[i] = h[i]
                 \/ i \notin DOMAIN h /\ \E k \in DOMAIN b : i = Len(h) + k /\ (h \o b)[i] = b[k]
<1>1. /\ h \o b \in Seq(Event) /\ Len(h \o b) = Len(h) + Len(b)
      /\ DOMAIN h = 1 .. Len(h) /\ DOMAIN b = 1 .. Len(b)
      /\ DOMAIN (h \o b) = 1 .. Len(h) + Len(b)
      /\ Len(h) \in Nat /\ Len(b) \in Nat
  BY ConcatFacts
<1>2. \A i \in DOMAIN h : i \in DOMAIN (h \o b) /\ (h \o b)[i] = h[i]
  BY <1>1, ConcatFacts
<1>3. ASSUME NEW k \in DOMAIN b
      PROVE  Len(h) + k \in DOMAIN (h \o b) /\ (h \o b)[Len(h) + k] = b[k]
  BY <1>1, ConcatFacts
<1>4. \A i \in DOMAIN (h \o b) :
         \/ i \in DOMAIN h /\ (h \o b)[i] = h[i]
         \/ i \notin DOMAIN h /\ \E k \in DOMAIN b : i = Len(h) + k /\ (h \o b)[i] = b[k]
  BY ConcatElement
<1> QED
  BY <1>1, <1>2, <1>3, <1>4

\* What is logged in a history with a batch added.
LEMMA GrownLogged ==
    ASSUME NEW h \in Seq(Event), NEW b \in Seq(Event)
    PROVE  /\ \A type, name : Logged(h, type, name) => Logged(h \o b, type, name)
           /\ \A type, name : Logged(b, type, name) => Logged(h \o b, type, name)
           /\ \A type, name : Logged(h \o b, type, name) =>
                                 Logged(h, type, name) \/ Logged(b, type, name)
           /\ \A e : Has(h, e) => Has(h \o b, e)
           /\ \A e : Has(b, e) => Has(h \o b, e)
           /\ \A n : Resolved(h, n) => Resolved(h \o b, n)
           /\ \A s, n : NameOf(h, s, n) => NameOf(h \o b, s, n)
           /\ HasCause(h) => HasCause(h \o b)
           /\ HasCause(b) => HasCause(h \o b)
<1>1. ASSUME NEW type, NEW name
      PROVE  /\ Logged(h, type, name) => Logged(h \o b, type, name)
             /\ Logged(b, type, name) => Logged(h \o b, type, name)
             /\ Logged(h \o b, type, name) => Logged(h, type, name) \/ Logged(b, type, name)
  <2>1. Logged(h, type, name) => Logged(h \o b, type, name)
    BY Grown DEF Logged
  <2>2. Logged(b, type, name) => Logged(h \o b, type, name)
    <3> SUFFICES ASSUME NEW k \in DOMAIN b, b[k].type = type, b[k].name = name
                 PROVE  Logged(h \o b, type, name)
      BY DEF Logged
    <3>1. Len(h) + k \in DOMAIN (h \o b) /\ (h \o b)[Len(h) + k] = b[k]
      BY Grown
    <3> QED
      BY <3>1, Zenon DEF Logged
  <2>3. Logged(h \o b, type, name) => Logged(h, type, name) \/ Logged(b, type, name)
    BY Grown DEF Logged
  <2> QED
    BY <2>1, <2>2, <2>3
<1>2. \A e : Has(h, e) => Has(h \o b, e)
  BY Grown DEF Has
<1>3. ASSUME NEW k \in DOMAIN b PROVE Has(h \o b, b[k])
  <2>1. Len(h) + k \in DOMAIN (h \o b) /\ (h \o b)[Len(h) + k] = b[k]
    BY Grown
  <2> QED
    BY <2>1, Zenon DEF Has
<1>4. \A n : Resolved(h, n) => Resolved(h \o b, n)
  BY <1>1 DEF Resolved, SignalResolved, SignalReceived, SignalTimedOut
<1>5. \A s, n : NameOf(h, s, n) => NameOf(h \o b, s, n)
  BY <1>2 DEF NameOf
<1>6. HasCause(h) => HasCause(h \o b)
  BY Grown DEF HasCause
<1>7. HasCause(b) => HasCause(h \o b)
  BY <1>3, Zenon DEF HasCause, Has
<1>8. \A e : Has(b, e) => Has(h \o b, e)
  BY <1>3, Zenon DEF Has
<1> QED
  BY <1>1, <1>2, <1>4, <1>5, <1>6, <1>7, <1>8

\* Completions of new names, with their signals resolved, keep DoneOnce.
LEMMA DoneOnceGrows ==
    ASSUME NEW h \in Seq(Event), NEW b \in Seq(Event), DoneOnce(h),
           \A k \in DOMAIN b : b[k].type = "step.completed" =>
              /\ b[k].name \in Names
              /\ Resolved(h, b[k].name)
              /\ b[k].name \in Steps =>
                    /\ Cases[b[k].name] = {}
                    /\ ~HasCompleted(h, b[k].name)
                    /\ \A m \in DOMAIN b :
                          b[m].type = "step.completed" /\ b[m].name = b[k].name => m = k
    PROVE  DoneOnce(h \o b)
<1> DEFINE t == h \o b
<1>0. /\ \A i \in DOMAIN h : i \in DOMAIN t /\ t[i] = h[i]
      /\ \A i \in DOMAIN t : \/ i \in DOMAIN h /\ t[i] = h[i]
                             \/ i \notin DOMAIN h /\ \E k \in DOMAIN b : i = Len(h) + k /\ t[i] = b[k]
  BY Grown
<1>1. \A n : Resolved(h, n) => Resolved(t, n)
  BY GrownLogged
<1>2. \A i \in DOMAIN h : h[i].type = "step.completed" => HasCompleted(h, h[i].name)
  BY DEF HasCompleted, Logged
<1> HIDE DEF t
<1>3. ASSUME NEW i \in DOMAIN t, t[i].type = "step.completed"
      PROVE  /\ t[i].name \in Names
             /\ Resolved(t, t[i].name)
             /\ t[i].name \in Steps =>
                   /\ Cases[t[i].name] = {}
                   /\ \A j \in DOMAIN t :
                         t[j].type = "step.completed" /\ t[j].name = t[i].name => j = i
  <2>1. CASE i \in DOMAIN h /\ t[i] = h[i]
    BY <1>0, <1>1, <1>2, <1>3, <2>1 DEF DoneOnce
  <2>2. CASE \E k \in DOMAIN b : i = Len(h) + k /\ t[i] = b[k]
    BY <1>0, <1>1, <1>2, <1>3, <2>2
  <2> QED
    BY <1>0, <2>1, <2>2
<1>4. DoneOnce(t)
  BY <1>3 DEF DoneOnce
<1> QED
  BY <1>4 DEF t

\* A decision of a branch that has none keeps DecidedOnce.
LEMMA DecidedOnceGrows ==
    ASSUME NEW h \in Seq(Event), NEW b \in Seq(Event), DecidedOnce(h),
           \A k \in DOMAIN b : b[k].type = "branch.evaluated" =>
              /\ \E s \in Steps : \E choice \in Cases[s] :
                    b[k] = EvData("branch.evaluated", s, choice)
              /\ ~Logged(h, "branch.evaluated", b[k].name)
              /\ \A m \in DOMAIN b :
                    b[m].type = "branch.evaluated" /\ b[m].name = b[k].name => m = k
    PROVE  DecidedOnce(h \o b)
<1> DEFINE t == h \o b
<1>0. /\ \A i \in DOMAIN h : i \in DOMAIN t /\ t[i] = h[i]
      /\ \A i \in DOMAIN t : \/ i \in DOMAIN h /\ t[i] = h[i]
                             \/ i \notin DOMAIN h /\ \E k \in DOMAIN b : i = Len(h) + k /\ t[i] = b[k]
  BY Grown
<1>1. \A i \in DOMAIN h : h[i].type = "branch.evaluated" =>
                             Logged(h, "branch.evaluated", h[i].name)
  BY DEF Logged
<1> HIDE DEF t
<1>2. ASSUME NEW i \in DOMAIN t, t[i].type = "branch.evaluated"
      PROVE  /\ \E s \in Steps : \E choice \in Cases[s] :
                   t[i] = EvData("branch.evaluated", s, choice)
             /\ \A j \in DOMAIN t :
                   t[j].type = "branch.evaluated" /\ t[j].name = t[i].name => j = i
  <2>1. CASE i \in DOMAIN h /\ t[i] = h[i]
    BY <1>0, <1>1, <1>2, <2>1 DEF DecidedOnce
  <2>2. CASE \E k \in DOMAIN b : i = Len(h) + k /\ t[i] = b[k]
    BY <1>0, <1>1, <1>2, <2>2
  <2> QED
    BY <1>0, <2>1, <2>2
<1>3. DecidedOnce(t)
  BY <1>2 DEF DecidedOnce
<1> QED
  BY <1>3 DEF t

\* Starts of steps whose dependencies are completed keep StartsAfterDeps.
LEMMA StartsGrow ==
    ASSUME NEW h \in Seq(Event), NEW b \in Seq(Event), StartsAfterDeps(h),
           \A k \in DOMAIN b : b[k].type = "step.started" =>
              \E s \in Steps : /\ b[k].name \in RecordedNames(s)
                               /\ \A d \in Deps[s] : StepDone(h, d)
    PROVE  StartsAfterDeps(h \o b)
<1> DEFINE t == h \o b
<1>0. /\ \A i \in DOMAIN h : i \in DOMAIN t /\ t[i] = h[i]
      /\ \A i \in DOMAIN t : \/ i \in DOMAIN h /\ t[i] = h[i]
                             \/ i \notin DOMAIN h /\ \E k \in DOMAIN b : i = Len(h) + k /\ t[i] = b[k]
      /\ DOMAIN h = 1 .. Len(h) /\ DOMAIN b = 1 .. Len(b) /\ Len(h) \in Nat /\ Len(b) \in Nat
  BY Grown
<1> HIDE DEF t
<1>1. ASSUME NEW i, NEW d, DoneBefore(h, i, d) PROVE DoneBefore(t, i, d)
  BY <1>0, <1>1 DEF DoneBefore
<1>2. ASSUME NEW d, NEW k \in DOMAIN b, StepDone(h, d) PROVE DoneBefore(t, Len(h) + k, d)
  <2>1. PICK n \in RecordedNames(d), m \in DOMAIN h : h[m].type = "step.completed" /\ h[m].name = n
    BY <1>2 DEF StepDone, HasCompleted, Logged
  <2>2. m \in DOMAIN t /\ t[m] = h[m] /\ m < Len(h) + k
    BY <1>0
  <2> QED
    BY <2>1, <2>2 DEF DoneBefore
<1>3. ASSUME NEW i \in DOMAIN t, t[i].type = "step.started"
      PROVE  \E s \in Steps : /\ t[i].name \in RecordedNames(s)
                              /\ \A d \in Deps[s] : DoneBefore(t, i, d)
  <2>1. CASE i \in DOMAIN h /\ t[i] = h[i]
    BY <1>1, <1>3, <2>1 DEF StartsAfterDeps
  <2>2. CASE \E k \in DOMAIN b : i = Len(h) + k /\ t[i] = b[k]
    BY <1>2, <1>3, <2>2
  <2> QED
    BY <1>0, <2>1, <2>2
<1>4. StartsAfterDeps(t)
  BY <1>3 DEF StartsAfterDeps
<1> QED
  BY <1>4 DEF t

\* Waits of bodies that are on record keep WaitsHaveSteps.
LEMMA WaitsGrow ==
    ASSUME NEW h \in Seq(Event), NEW b \in Seq(Event), WaitsHaveSteps(h),
           \A k \in DOMAIN b : b[k].type = "signal.waiting" =>
              \E s \in Steps, n \in Names :
                 NameOf(h, s, n) /\ \E m \in DOMAIN Awaits[n] : Awaits[n][m] = b[k].name
    PROVE  WaitsHaveSteps(h \o b)
<1> DEFINE t == h \o b
<1>0. \A i \in DOMAIN t : \/ i \in DOMAIN h /\ t[i] = h[i]
                          \/ \E k \in DOMAIN b : t[i] = b[k]
  BY Grown
<1>1. \A s, n : NameOf(h, s, n) => NameOf(t, s, n)
  BY GrownLogged
<1> HIDE DEF t
<1>2. ASSUME NEW i \in DOMAIN t, t[i].type = "signal.waiting"
      PROVE  \E s \in Steps, n \in Names :
                NameOf(t, s, n) /\ \E m \in DOMAIN Awaits[n] : Awaits[n][m] = t[i].name
  <2>1. CASE i \in DOMAIN h /\ t[i] = h[i]
    BY <1>1, <1>2, <2>1 DEF WaitsHaveSteps
  <2>2. CASE \E k \in DOMAIN b : t[i] = b[k]
    BY <1>1, <1>2, <2>2
  <2> QED
    BY <1>0, <2>1, <2>2
<1>3. WaitsHaveSteps(t)
  BY <1>2 DEF WaitsHaveSteps
<1> QED
  BY <1>3 DEF t

\* A history without workflow.completed stays so when none is added.
LEMMA StaysOpen ==
    ASSUME NEW h \in Seq(Event), NEW b \in Seq(Event), Open(h), Open(b)
    PROVE  Open(h \o b) /\ EndIsLast(h \o b)
<1>1. Open(h \o b)
  BY Grown DEF Open
<1> QED
  BY <1>1 DEF Open, EndIsLast

\* The types of the events that the invariant of a history speaks of.
Telling == {"step.completed", "branch.evaluated", "step.started", "signal.waiting",
            "workflow.completed"}

\* Events of other types keep the invariant of a history that is not completed.
LEMMA NeutralGrows ==
    ASSUME NEW h \in Seq(Event), NEW b \in Seq(Event), LogGood(h), Open(h),
           \A k \in DOMAIN b : b[k].type \notin Telling
    PROVE  LogGood(h \o b) /\ Open(h \o b)
<1>1. Open(b)
  BY DEF Open, Telling
<1>2. DoneOnce(h \o b)
  BY DoneOnceGrows DEF LogGood, Telling
<1>3. DecidedOnce(h \o b)
  BY DecidedOnceGrows DEF LogGood, Telling
<1>4. StartsAfterDeps(h \o b)
  BY StartsGrow DEF LogGood, Telling
<1>5. WaitsHaveSteps(h \o b)
  BY WaitsGrow DEF LogGood, Telling
<1> QED
  BY <1>1, <1>2, <1>3, <1>4, <1>5, StaysOpen DEF LogGood

-----------------------------------------------------------------------------
(* A move of one goroutine.                                                *)

\* What the type of a session says of its parts.
LEMMA SessionTypes ==
    ASSUME NEW S \in Session
    PROVE  /\ S.hist \in Seq(Event) /\ S.new \in Seq(Event) /\ S.new \in Seq(ReplayerEvent)
           /\ Trace(S) \in Seq(Event)
           /\ S.ready \subseteq Steps /\ S.left \subseteq Steps /\ S.completed \subseteq Steps
           /\ S.cache \subseteq Names
           /\ \A s \in Steps : /\ S.go[s] \in Goroutine
                               /\ S.go[s].evs \in Seq(Event)
                               /\ S.go[s].evs \in Seq(ReplayerEvent)
<1>1. /\ S.hist \in Seq(Event) /\ S.new \in Seq(ReplayerEvent)
      /\ S.ready \subseteq Steps /\ S.left \subseteq Steps /\ S.completed \subseteq Steps
      /\ S.cache \subseteq Names
      /\ \A s \in Steps : S.go[s] \in Goroutine
  BY DEF Session
<1>2. \A q \in Seq(ReplayerEvent) : q \in Seq(Event)
  BY DEF ReplayerEvent
<1>3. \A s \in Steps : S.go[s].evs \in Seq(ReplayerEvent)
  BY <1>1 DEF Goroutine
<1>4. S.hist \o S.new \in Seq(Event)
  BY <1>1, <1>2
<1> QED
  BY <1>1, <1>2, <1>3, <1>4 DEF Trace

\* New events of a replay are added at the end of its trace.
LEMMA TraceGrows ==
    ASSUME NEW S \in Session, NEW T \in Session, NEW b \in Seq(Event),
           T.hist = S.hist, T.new = S.new \o b
    PROVE  Trace(T) = Trace(S) \o b
<1> DEFINE h == S.hist
           n == S.new
<1>1. h \in Seq(Event) /\ n \in Seq(Event)
  BY SessionTypes
<1> HIDE DEF h, n
<1>2. h \o (n \o b) = (h \o n) \o b
  BY <1>1
<1> QED
  BY <1>2 DEF Trace, h, n

\* Goroutine s moves: it has not returned before, the others stay, the batch b of
\* new events completes no step, what enters the cache is among the goroutine's
\* events, and an error has a dead context or a step that failed for good behind
\* it.
GoMove(S, T, s, b) ==
    /\ T.hist = S.hist
    /\ T.new = S.new \o b
    /\ T.completed = S.completed
    /\ T.ready = S.ready
    /\ T.left = S.left
    /\ T.result = S.result
    /\ T.ctxDone = S.ctxDone
    /\ S.go[s].pc \notin Returned \cup {"none"}
    /\ T.go[s].pc # "none"
    /\ \A t \in Steps \ {s} : T.go[t] = S.go[t]
    /\ S.cache \subseteq T.cache
    /\ \A n \in T.cache \ S.cache : HasCompleted(T.go[s].evs, n)
    /\ \A k \in DOMAIN b : /\ b[k].type # "step.completed"
                           /\ b[k].type = "signal.waiting" => T.go[s].pc = "waiting"
    /\ T.go[s].pc = "error" => ContextDone(S, s) \/ HasCause(T.go[s].evs)

\* A goroutine that moves belongs to the wave, none of whose results is
\* collected, and has completed nothing.
LEMMA MoverInWave ==
    ASSUME NEW S \in Session, NEW T \in Session, NEW s \in Steps, NEW b \in Seq(ReplayerEvent),
           SessionGood(S), GoMove(S, T, s, b)
    PROVE  /\ s \in S.ready
           /\ S.left = S.ready
           /\ S.result = "running"
           /\ \A k \in DOMAIN S.go[s].evs : S.go[s].evs[k].type # "step.completed"
           /\ \A n : ~HasCompleted(S.go[s].evs, n)
<1>1. s \in S.ready /\ S.left = S.ready /\ S.result = "running"
  BY DEF SessionGood, WaveShape, GoMove
<1>2. \A k \in DOMAIN S.go[s].evs : S.go[s].evs[k].type # "step.completed"
  BY <1>1 DEF SessionGood, GoShape, GoMove, Returned
<1> QED
  BY <1>1, <1>2 DEF HasCompleted, Logged

\* Such a move keeps the invariant of the replay, if the trace and the goroutine
\* itself keep theirs.
LEMMA GoMoveKeeps ==
    ASSUME NEW S \in Session, NEW T \in Session, NEW s \in Steps, NEW b \in Seq(ReplayerEvent),
           SessionGood(S), GoMove(S, T, s, b), GoShape(T, s),
           LogGood(Trace(T)), Open(Trace(T))
    PROVE  SessionGood(T)
<1>0. b \in Seq(Event)
  BY DEF ReplayerEvent
<1>1. Trace(T) = Trace(S) \o b /\ Trace(S) \in Seq(Event)
  BY <1>0, TraceGrows, SessionTypes DEF GoMove
<1>2. /\ \A type, name : Logged(Trace(S), type, name) => Logged(Trace(T), type, name)
      /\ \A type, name : Logged(Trace(T), type, name) =>
                            Logged(Trace(S), type, name) \/ Logged(b, type, name)
      /\ \A t, n : NameOf(Trace(S), t, n) => NameOf(Trace(T), t, n)
  BY <1>0, <1>1, GrownLogged
<1>3. /\ \A type, name : Logged(S.new, type, name) => Logged(T.new, type, name)
      /\ \A type, name : Logged(T.new, type, name) =>
                            Logged(S.new, type, name) \/ Logged(b, type, name)
  <2>1. T.new = S.new \o b /\ S.new \in Seq(Event)
    BY SessionTypes DEF GoMove
  <2> QED
    BY <1>0, <2>1, GrownLogged
<1>4. /\ s \in S.ready /\ S.left = S.ready /\ S.result = "running"
      /\ \A n : ~HasCompleted(S.go[s].evs, n)
      /\ S.ready \subseteq Steps
  BY MoverInWave, SessionTypes
<1>5. \A n : ~HasCompleted(b, n)
  BY DEF GoMove, HasCompleted, Logged
<1>6. WaveShape(T)
  BY <1>4 DEF SessionGood, WaveShape, GoMove
<1>7. ASSUME NEW t \in T.ready PROVE GoShape(T, t)
  <2>1. CASE t = s
    BY <2>1
  <2>2. CASE t # s
    <3>1. T.go[t] = S.go[t] /\ GoShape(S, t) /\ T.hist = S.hist /\ S.cache \subseteq T.cache
      BY <1>4, <1>7, <2>2 DEF GoMove, SessionGood
    <3> QED
      BY <1>2, <3>1 DEF GoShape
  <2> QED
    BY <2>1, <2>2
<1>8. StepsShape(T)
  <2>1. ASSUME NEW t \in T.completed
        PROVE  \E n \in Names :
                  /\ NameOf(Trace(T), t, n)
                  /\ HasCompleted(Trace(T), n)
                  /\ GetOutput(T, n)
                  /\ Resolved(T.hist, n)
                  /\ Cases[t] # {} => n # t
    <3>1. PICK n \in Names :
                  /\ NameOf(Trace(S), t, n)
                  /\ HasCompleted(Trace(S), n)
                  /\ GetOutput(S, n)
                  /\ Resolved(S.hist, n)
                  /\ Cases[t] # {} => n # t
      BY <2>1 DEF SessionGood, StepsShape, GoMove
    <3>2. GetOutput(T, n) /\ T.hist = S.hist
      BY <3>1 DEF GetOutput, GoMove
    <3> QED
      BY <1>2, <3>1, <3>2 DEF HasCompleted
  <2>2. \A t \in Steps : HasCompleted(Trace(T), t) => t \in T.completed
    BY <1>2, <1>5 DEF SessionGood, StepsShape, GoMove, HasCompleted
  <2> QED
    BY <2>1, <2>2 DEF SessionGood, StepsShape, GoMove
<1>9. CacheKept(T)
  <2> SUFFICES ASSUME NEW n \in T.cache
               PROVE  \/ HasCompleted(T.new, n)
                      \/ \E t \in T.left : HasCompleted(T.go[t].evs, n)
    BY DEF CacheKept
  <2>1. CASE n \in S.cache
    <3>1. \/ HasCompleted(S.new, n)
          \/ \E t \in S.left : HasCompleted(S.go[t].evs, n)
      BY <2>1 DEF SessionGood, CacheKept
    <3> QED
      BY <1>3, <1>4, <3>1 DEF GoMove, HasCompleted
  <2>2. CASE n \notin S.cache
    BY <1>4, <2>2 DEF GoMove
  <2> QED
    BY <2>1, <2>2
<1>10. Collected(T)
  BY <1>4 DEF Collected, GoMove
<1>11. CauseKept(T)
  <2> SUFFICES ASSUME ~T.ctxDone, \E t \in T.ready : T.go[t].pc = "error"
               PROVE  \E t \in T.ready : \/ T.go[t].pc = "waiting"
                                         \/ T.go[t].pc = "error" /\ HasCause(T.go[t].evs)
    BY <1>4 DEF CauseKept, GoMove
  <2>1. CASE \E t \in S.ready \ {s} : S.go[t].pc \in {"waiting", "error"}
    <3>1. PICK t \in S.ready : \/ S.go[t].pc = "waiting"
                               \/ S.go[t].pc = "error" /\ HasCause(S.go[t].evs)
      BY <2>1 DEF SessionGood, CauseKept, GoMove
    <3>2. t # s
      BY <3>1 DEF GoMove, Returned
    <3>3. T.go[t] = S.go[t] /\ t \in T.ready
      BY <1>4, <3>2 DEF GoMove
    <3> QED
      BY <3>1, <3>3
  <2>2. CASE HasCause(T.go[s].evs) /\ T.go[s].pc = "error"
    BY <1>4, <2>2 DEF GoMove
  <2> QED
    BY <1>4, <2>1, <2>2 DEF GoMove, ContextDone
<1>12. WaitsKept(T)
  <2>1. ASSUME NEW sig \in Signals, SignalWaiting(T.new, sig)
        PROVE  \E t \in T.ready : T.go[t].pc = "waiting"
    <3>1. CASE SignalWaiting(S.new, sig)
      <4>1. PICK t \in S.ready : S.go[t].pc = "waiting"
        BY <1>4, <3>1 DEF SessionGood, WaitsKept
      <4>2. t # s
        BY <4>1 DEF GoMove, Returned
      <4> QED
        BY <1>4, <4>1, <4>2 DEF GoMove
    <3>2. CASE SignalWaiting(b, sig)
      BY <1>4, <3>2 DEF GoMove, SignalWaiting, Logged
    <3> QED
      BY <1>3, <2>1, <3>1, <3>2 DEF SignalWaiting
  <2> QED
    BY <2>1 DEF SessionGood, WaitsKept, GoMove
<1> QED
  BY <1>6, <1>7, <1>8, <1>9, <1>10, <1>11, <1>12 DEF SessionGood

-----------------------------------------------------------------------------
(* Each step of executeStepWithEvents is such a move.                      *)

\* The fields of a session whose goroutine s is replaced.
LEMMA SetGoFields ==
    ASSUME NEW S \in Session, NEW s \in Steps, NEW g, NEW T, T = [S EXCEPT !.go[s] = g]
    PROVE  /\ T.hist = S.hist /\ T.new = S.new /\ T.completed = S.completed
           /\ T.cache = S.cache /\ T.ready = S.ready /\ T.left = S.left
           /\ T.result = S.result /\ T.ctxDone = S.ctxDone /\ T.signals = S.signals
           /\ T.go[s] = g
           /\ \A t \in Steps \ {s} : T.go[t] = S.go[t]
  BY DEF Session

\* The one event of a batch.
LEMMA OneEvent ==
    ASSUME NEW e \in ReplayerEvent
    PROVE  /\ << e >> \in Seq(ReplayerEvent) /\ << e >> \in Seq(Event)
           /\ \A k \in DOMAIN << e >> : << e >>[k] = e /\ k = 1
           /\ \A q \in Seq(ReplayerEvent) : Append(q, e) = q \o << e >>
           /\ Has(<< e >>, e)
<1>1. << e >> \in Seq(ReplayerEvent) /\ << e >> \in Seq(Event)
  BY DEF ReplayerEvent
<1>2. DOMAIN << e >> = {1} /\ << e >>[1] = e
  OBVIOUS
<1> QED
  BY <1>1, <1>2 DEF Has

\* The entries of a goroutine's events with one added.
LEMMA OneMore ==
    ASSUME NEW q \in Seq(ReplayerEvent), NEW e
    PROVE  /\ \A k \in DOMAIN Append(q, e) :
                 \/ k \in DOMAIN q /\ Append(q, e)[k] = q[k]
                 \/ k = Len(Append(q, e)) /\ Append(q, e)[k] = e
           /\ Len(q) + 1 \in DOMAIN Append(q, e)
           /\ Append(q, e)[Len(q) + 1] = e
<1>1. /\ DOMAIN q = 1 .. Len(q) /\ Len(q) \in Nat
      /\ Len(Append(q, e)) = Len(q) + 1
      /\ DOMAIN Append(q, e) = 1 .. Len(q) + 1
      /\ Append(q, e)[Len(q) + 1] = e
      /\ \A k \in 1 .. Len(q) : Append(q, e)[k] = q[k]
  OBVIOUS
<1> QED
  BY <1>1

\* A move that adds no event to the trace.
LEMMA SilentTrace ==
    ASSUME NEW S \in Session, NEW T \in Session, SessionGood(S), S.result = "running",
           T.hist = S.hist, T.new = S.new
    PROVE  /\ Trace(T) = Trace(S)
           /\ LogGood(Trace(T)) /\ Open(Trace(T))
           /\ <<>> \in Seq(ReplayerEvent)
           /\ T.new = S.new \o <<>>
<1>1. S.new \o <<>> = S.new
  BY SessionTypes
<1> QED
  BY <1>1 DEF Trace, SessionGood

\* An error of the context is behind no event.
LEMMA GoContextErrorGood ==
    ASSUME TypedSessions, NEW w \in Replayers, NEW s \in Steps,
           SessionGood(sess[w]), GoContextError(w, s)
    PROVE  SessionGood(sess'[w])
<1> DEFINE S == sess[w]
           T == sess'[w]
<1>0. S \in Session /\ T \in Session
  BY GoStepType DEF GoStep, TypedSessions
<1>1. T = [S EXCEPT !.go[s] = [S.go[s] EXCEPT !.pc = "error"]]
  BY DEF GoContextError, SetGo, SetSession, TypedSessions
<1>2. /\ S.go[s].pc \in {"enter", "attempt"} /\ ContextDone(S, s)
      /\ S.go[s] \in Goroutine
  BY <1>0, SessionTypes DEF GoContextError
<1> HIDE DEF S, T
<1>3. SessionGood(S)
  BY DEF S
<1>4. /\ T.go[s].pc = "error" /\ T.go[s].evs = S.go[s].evs /\ T.go[s].name = S.go[s].name
  <2>1. T.go[s] = [S.go[s] EXCEPT !.pc = "error"]
    BY <1>0, <1>1, SetGoFields
  <2> QED
    BY <1>2, <2>1 DEF Goroutine
<1>5. s \in S.ready /\ S.result = "running"
  BY <1>2, <1>3 DEF SessionGood, WaveShape
<1>6. /\ Trace(T) = Trace(S) /\ LogGood(Trace(T)) /\ Open(Trace(T))
      /\ <<>> \in Seq(ReplayerEvent) /\ T.new = S.new \o <<>>
  BY <1>0, <1>1, <1>3, <1>5, SilentTrace, SetGoFields
<1>7. GoMove(S, T, s, <<>>)
  BY <1>0, <1>1, <1>2, <1>4, <1>6, SetGoFields DEF GoMove, Returned
<1>8. GoShape(T, s)
  <2>1. GoShape(S, s)
    BY <1>3, <1>5 DEF SessionGood
  <2> QED
    BY <1>2, <1>4, <1>6, <2>1 DEF GoShape, BodyPcs
<1>9. SessionGood(T)
  BY <1>0, <1>3, <1>6, <1>7, <1>8, GoMoveKeeps
<1> QED
  BY <1>9 DEF T

\* A plain step enters under its own name.
LEMMA EnterStepGood ==
    ASSUME TypedSessions, NEW w \in Replayers, NEW s \in Steps,
           SessionGood(sess[w]), EnterStep(w, s)
    PROVE  SessionGood(sess'[w])
<1> DEFINE S == sess[w]
           T == sess'[w]
<1>0. S \in Session /\ T \in Session
  BY GoStepType DEF GoStep, TypedSessions
<1>1. T = [S EXCEPT !.go[s] = [S.go[s] EXCEPT !.pc = "attempt", !.name = s]]
  BY DEF EnterStep, SetGo, SetSession, TypedSessions
<1>2. /\ S.go[s].pc = "enter" /\ Cases[s] = {} /\ S.go[s] \in Goroutine
  BY <1>0, SessionTypes DEF EnterStep
<1> HIDE DEF S, T
<1>3. SessionGood(S)
  BY DEF S
<1>4. /\ T.go[s].pc = "attempt" /\ T.go[s].evs = S.go[s].evs /\ T.go[s].name = s
  <2>1. T.go[s] = [S.go[s] EXCEPT !.pc = "attempt", !.name = s]
    BY <1>0, <1>1, SetGoFields
  <2> QED
    BY <1>2, <2>1 DEF Goroutine
<1>5. s \in S.ready /\ S.result = "running"
  BY <1>2, <1>3 DEF SessionGood, WaveShape
<1>6. /\ Trace(T) = Trace(S) /\ LogGood(Trace(T)) /\ Open(Trace(T))
      /\ <<>> \in Seq(ReplayerEvent) /\ T.new = S.new \o <<>>
  BY <1>0, <1>1, <1>3, <1>5, SilentTrace, SetGoFields
<1>7. GoMove(S, T, s, <<>>)
  BY <1>0, <1>1, <1>2, <1>4, <1>6, SetGoFields DEF GoMove, Returned
<1>8. GoShape(T, s)
  <2>1. S.go[s].evs = <<>>
    BY <1>2, <1>3, <1>5 DEF SessionGood, GoShape
  <2>2. NameOf(Trace(T), s, s) /\ s \in Names
    BY <1>2 DEF NameOf, Names
  <2> QED
    BY <1>4, <2>1, <2>2 DEF GoShape, BodyPcs
<1>9. SessionGood(T)
  BY <1>0, <1>3, <1>6, <1>7, <1>8, GoMoveKeeps
<1> QED
  BY <1>9 DEF T

\* An attempt starts: step.started joins the goroutine's events.
LEMMA StartAttemptGood ==
    ASSUME TypedSessions, NEW w \in Replayers, NEW s \in Steps,
           SessionGood(sess[w]), StartAttempt(w, s)
    PROVE  SessionGood(sess'[w])
<1> DEFINE S == sess[w]
           T == sess'[w]
           e == EvAttempt("step.started", S.go[s].name, None, S.go[s].attempt)
<1>0. S \in Session /\ T \in Session
  BY GoStepType DEF GoStep, TypedSessions
<1>1. T = [S EXCEPT !.go[s] = [S.go[s] EXCEPT !.pc = "running", !.got = <<>>,
                                              !.evs = Append(@, e)]]
  BY DEF StartAttempt, SetGo, SetSession, TypedSessions
<1>2. /\ S.go[s].pc = "attempt" /\ S.go[s] \in Goroutine
      /\ S.go[s].evs \in Seq(ReplayerEvent)
  BY <1>0, SessionTypes DEF StartAttempt
<1>3. SessionGood(S) /\ e.type = "step.started" /\ e.name = S.go[s].name
  BY DEF EvAttempt, EvData
<1> HIDE DEF S, T, e
<1>4. /\ T.go[s].pc = "running" /\ T.go[s].evs = Append(S.go[s].evs, e)
      /\ T.go[s].name = S.go[s].name
  <2>1. T.go[s] = [S.go[s] EXCEPT !.pc = "running", !.got = <<>>, !.evs = Append(@, e)]
    BY <1>0, <1>1, SetGoFields
  <2> QED
    BY <1>2, <2>1 DEF Goroutine
<1>5. s \in S.ready /\ S.result = "running"
  BY <1>2, <1>3 DEF SessionGood, WaveShape
<1>6. /\ Trace(T) = Trace(S) /\ LogGood(Trace(T)) /\ Open(Trace(T))
      /\ <<>> \in Seq(ReplayerEvent) /\ T.new = S.new \o <<>>
  BY <1>0, <1>1, <1>3, <1>5, SilentTrace, SetGoFields
<1>7. GoMove(S, T, s, <<>>)
  BY <1>0, <1>1, <1>2, <1>4, <1>6, SetGoFields DEF GoMove, Returned
<1>8. GoShape(T, s)
  <2>1. GoShape(S, s)
    BY <1>3, <1>5 DEF SessionGood
  <2>2. ASSUME NEW k \in DOMAIN T.go[s].evs
        PROVE  /\ T.go[s].evs[k].name = S.go[s].name
               /\ T.go[s].evs[k].type \in {"step.started", "step.failed"}
    BY <1>2, <1>3, <1>4, <2>1, OneMore, SMTT(30) DEF GoShape
  <2>3. S.go[s].name \in Names /\ NameOf(Trace(S), s, S.go[s].name)
    BY <1>2, <2>1 DEF GoShape
  <2> QED
    BY <1>4, <1>6, <2>2, <2>3 DEF GoShape
<1>9. SessionGood(T)
  BY <1>0, <1>3, <1>6, <1>7, <1>8, GoMoveKeeps
<1> QED
  BY <1>9 DEF T

\* A branch that has no choice on record has no branch.evaluated at all.
LEMMA NoneRecorded ==
    ASSUME NEW h \in Seq(Event), NEW s \in Steps, DecidedOnce(h),
           \A c \in Cases[s] : ~GetBranchChoice(h, s, c)
    PROVE  ~Logged(h, "branch.evaluated", s)
<1> SUFFICES ASSUME NEW i \in DOMAIN h, h[i].type = "branch.evaluated", h[i].name = s
             PROVE  FALSE
  BY DEF Logged
<1>1. PICK t \in Steps : \E c \in Cases[t] : h[i] = EvData("branch.evaluated", t, c)
  BY DEF DecidedOnce
<1>2. PICK c \in Cases[t] : h[i] = EvData("branch.evaluated", t, c)
  BY <1>1
<1>5. t = s
  BY <1>2 DEF EvData
<1>3. ASSUME NEW j \in i + 1 .. Len(h), h[j].type = "branch.evaluated" PROVE h[j].name # s
  <2>1. DOMAIN h = 1 .. Len(h) /\ i \in 1 .. Len(h) /\ Len(h) \in Nat
    OBVIOUS
  <2>2. j \in DOMAIN h /\ j # i
    BY <2>1
  <2> QED
    BY <1>3, <2>2 DEF DecidedOnce
<1>4. GetBranchChoice(h, s, c)
  BY <1>2, <1>3, <1>5 DEF GetBranchChoice
<1> QED
  BY <1>2, <1>4, <1>5

\* A branch enters under the name of its choice, which is on record from then on.
LEMMA EnterBranchGood ==
    ASSUME TypedSessions, NEW w \in Replayers, NEW s \in Steps,
           SessionGood(sess[w]), EnterBranch(w, s)
    PROVE  SessionGood(sess'[w])
<1> DEFINE S == sess[w]
           T == sess'[w]
<1>0. S \in Session /\ T \in Session
  BY GoStepType DEF GoStep, TypedSessions
<1>1. PICK c \in Cases[s] :
        \/ /\ Recorded(S, s, c)
           /\ T = [S EXCEPT !.go[s] = [S.go[s] EXCEPT !.pc = "attempt", !.name = CaseName(s, c)]]
        \/ /\ \A x \in Cases[s] : ~Recorded(S, s, x)
           /\ T = [S EXCEPT
                     !.new = Append(@, EvData("branch.evaluated", s, c)),
                     !.go[s] = [@ EXCEPT !.pc = "attempt", !.name = CaseName(s, c)]]
  BY DEF EnterBranch, SetGo, SetSession, TypedSessions
<1>2. S.go[s].pc = "enter" /\ S.go[s] \in Goroutine
  BY <1>0, SessionTypes DEF EnterBranch
<1>3. SessionGood(S)
  OBVIOUS
<1> HIDE DEF S, T
<1> DEFINE n == CaseName(s, c)
           e == EvData("branch.evaluated", s, c)
<1>4. n \in Names /\ e \in ReplayerEvent /\ e.type = "branch.evaluated" /\ e.name = s
  BY CaseNameType, EvTypes, CasesAssumption DEF EvData
<1>5. s \in S.ready /\ S.result = "running" /\ S.go[s].evs = <<>>
  BY <1>2, <1>3 DEF SessionGood, WaveShape, GoShape
\* The name is on record afterwards, so the goroutine keeps its invariant.
<1>6. ASSUME T.go[s].pc = "attempt", T.go[s].name = n, T.go[s].evs = S.go[s].evs,
             Has(Trace(T), e)
      PROVE  GoShape(T, s)
  <2>1. NameOf(Trace(T), s, n)
    BY <1>6 DEF NameOf
  <2> QED
    BY <1>4, <1>5, <1>6, <2>1 DEF GoShape
<1>7. CASE /\ Recorded(S, s, c)
           /\ T = [S EXCEPT !.go[s] = [S.go[s] EXCEPT !.pc = "attempt", !.name = n]]
  <2>1. T.go[s].pc = "attempt" /\ T.go[s].evs = S.go[s].evs /\ T.go[s].name = n
    <3>1. T.go[s] = [S.go[s] EXCEPT !.pc = "attempt", !.name = n]
      BY <1>0, <1>7, SetGoFields
    <3> QED
      BY <1>2, <3>1 DEF Goroutine
  <2>2. /\ Trace(T) = Trace(S) /\ LogGood(Trace(T)) /\ Open(Trace(T))
        /\ <<>> \in Seq(ReplayerEvent) /\ T.new = S.new \o <<>>
    BY <1>0, <1>3, <1>5, <1>7, SilentTrace, SetGoFields
  <2>3. GoMove(S, T, s, <<>>)
    BY <1>0, <1>2, <1>7, <2>1, <2>2, SetGoFields DEF GoMove, Returned
  <2>4. Has(Trace(T), e)
    BY <1>7, <2>2 DEF Recorded, GetBranchChoice, Has, Trace
  <2>5. SessionGood(T)
    BY <1>0, <1>3, <1>6, <2>1, <2>2, <2>3, <2>4, GoMoveKeeps
  <2> QED
    BY <2>5 DEF T
<1>8. CASE /\ \A x \in Cases[s] : ~Recorded(S, s, x)
           /\ T = [S EXCEPT !.new = Append(@, e),
                            !.go[s] = [@ EXCEPT !.pc = "attempt", !.name = n]]
  <2>1. /\ T.hist = S.hist /\ T.new = Append(S.new, e) /\ T.completed = S.completed
        /\ T.cache = S.cache /\ T.ready = S.ready /\ T.left = S.left
        /\ T.result = S.result /\ T.ctxDone = S.ctxDone /\ T.signals = S.signals
        /\ T.go[s] = [S.go[s] EXCEPT !.pc = "attempt", !.name = n]
        /\ \A t \in Steps \ {s} : T.go[t] = S.go[t]
    <3> HIDE DEF n, e
    <3> QED
      BY <1>0, <1>8 DEF Session
  <2>2. T.go[s].pc = "attempt" /\ T.go[s].evs = S.go[s].evs /\ T.go[s].name = n
    BY <1>2, <2>1 DEF Goroutine
  <2>3. /\ << e >> \in Seq(ReplayerEvent) /\ << e >> \in Seq(Event)
        /\ \A k \in DOMAIN << e >> : << e >>[k] = e /\ k = 1
        /\ Append(S.new, e) = S.new \o << e >>
        /\ Has(<< e >>, e)
    BY <1>0, <1>4, OneEvent, SessionTypes
  <2>4. Trace(T) = Trace(S) \o << e >> /\ Trace(S) \in Seq(Event)
    <3>1. T.hist = S.hist /\ T.new = S.new \o << e >> /\ << e >> \in Seq(Event)
      BY <2>1, <2>3
    <3> HIDE DEF e
    <3> QED
      BY <1>0, <3>1, TraceGrows, SessionTypes
  <2>5. GoMove(S, T, s, << e >>)
    BY <1>2, <1>4, <2>1, <2>2, <2>3 DEF GoMove, Returned
  <2>6. LogGood(Trace(S)) /\ Open(Trace(S))
    BY <1>3, <1>5 DEF SessionGood
  <2> HIDE DEF e, n
  <2>7. DecidedOnce(Trace(S) \o << e >>)
    <3>1. ~Logged(Trace(S), "branch.evaluated", s)
      BY <1>8, <2>4, <2>6, NoneRecorded DEF LogGood, Recorded, Trace
    <3> QED
      BY <1>4, <2>3, <2>4, <2>6, <3>1, DecidedOnceGrows DEF LogGood, e
  <2>8. DoneOnce(Trace(S) \o << e >>)
    BY <1>4, <2>3, <2>4, <2>6, DoneOnceGrows DEF LogGood
  <2>9. StartsAfterDeps(Trace(S) \o << e >>)
    BY <1>4, <2>3, <2>4, <2>6, StartsGrow DEF LogGood
  <2>10. WaitsHaveSteps(Trace(S) \o << e >>)
    BY <1>4, <2>3, <2>4, <2>6, WaitsGrow DEF LogGood
  <2>11. Open(Trace(S) \o << e >>) /\ EndIsLast(Trace(S) \o << e >>)
    <3>1. Open(<< e >>)
      BY <1>4, <2>3 DEF Open
    <3> QED
      BY <2>3, <2>4, <2>6, <3>1, StaysOpen
  <2>12. LogGood(Trace(T)) /\ Open(Trace(T))
    BY <2>4, <2>7, <2>8, <2>9, <2>10, <2>11 DEF LogGood
  <2>13. Has(Trace(T), e)
    BY <2>3, <2>4, GrownLogged
  <2>14. SessionGood(T)
    BY <1>0, <1>3, <1>6, <2>2, <2>3, <2>5, <2>12, <2>13, GoMoveKeeps
  <2> QED
    BY <2>14 DEF T
<1> QED
  BY <1>1, <1>7, <1>8

\* A body returns a value: step.completed joins the goroutine's events and the
\* output is in the cache.
LEMMA StepSucceedsGood ==
    ASSUME TypedSessions, NEW w \in Replayers, NEW s \in Steps,
           SessionGood(sess[w]), StepSucceeds(w, s)
    PROVE  SessionGood(sess'[w])
<1> DEFINE S == sess[w]
           T == sess'[w]
           n == S.go[s].name
           e == Ev("step.completed", n)
<1>0. S \in Session /\ T \in Session
  BY GoStepType DEF GoStep, TypedSessions
<1>1. T = [S EXCEPT !.cache = @ \cup {n},
                    !.go[s] = [S.go[s] EXCEPT !.pc = "ok", !.evs = Append(@, e)]]
  BY DEF StepSucceeds, SetSession, TypedSessions
<1>2. /\ S.go[s].pc = "running" /\ S.go[s] \in Goroutine
      /\ S.go[s].evs \in Seq(ReplayerEvent)
      /\ Cases[s] # {} => n # s
      /\ Resolved(S.hist, n)
  BY <1>0, SessionTypes DEF StepSucceeds, HasBody, Resolved
<1>3. SessionGood(S) /\ e.type = "step.completed" /\ e.name = n
  BY DEF Ev, EvData
<1>4. /\ T.hist = S.hist /\ T.new = S.new /\ T.completed = S.completed
      /\ T.cache = S.cache \cup {n} /\ T.ready = S.ready /\ T.left = S.left
      /\ T.result = S.result /\ T.ctxDone = S.ctxDone /\ T.signals = S.signals
      /\ T.go[s] = [S.go[s] EXCEPT !.pc = "ok", !.evs = Append(@, e)]
      /\ \A t \in Steps \ {s} : T.go[t] = S.go[t]
  <2> HIDE DEF S, T, n, e
  <2> QED
    BY <1>0, <1>1 DEF Session
<1> HIDE DEF S, T, e
<1>5. /\ T.go[s].pc = "ok" /\ T.go[s].evs = Append(S.go[s].evs, e) /\ T.go[s].name = n
  BY <1>2, <1>4 DEF Goroutine
<1> HIDE DEF n
<1>6. s \in S.ready /\ S.result = "running"
  BY <1>2, <1>3 DEF SessionGood, WaveShape
<1>7. /\ Trace(T) = Trace(S) /\ LogGood(Trace(T)) /\ Open(Trace(T))
      /\ <<>> \in Seq(ReplayerEvent) /\ T.new = S.new \o <<>>
  BY <1>0, <1>3, <1>4, <1>6, SilentTrace
<1>8. HasCompleted(T.go[s].evs, n)
  <2> DEFINE last == Len(S.go[s].evs) + 1
  <2>1. last \in DOMAIN T.go[s].evs /\ T.go[s].evs[last] = e
    BY <1>2, <1>5, OneMore
  <2> HIDE DEF last
  <2> QED
    BY <1>3, <2>1 DEF HasCompleted, Logged
<1>9. GoMove(S, T, s, <<>>)
  BY <1>2, <1>4, <1>5, <1>7, <1>8 DEF GoMove, Returned
<1>10. GoShape(T, s)
  <2>1. GoShape(S, s)
    BY <1>3, <1>6 DEF SessionGood
  <2>2. ASSUME NEW k \in DOMAIN T.go[s].evs
        PROVE  /\ T.go[s].evs[k].name = n
               /\ T.go[s].evs[k].type \in {"step.started", "step.failed", "step.completed"}
               /\ T.go[s].evs[k].type = "step.completed" => k = Len(T.go[s].evs)
    <3>1. CASE k \in DOMAIN S.go[s].evs /\ T.go[s].evs[k] = S.go[s].evs[k]
      BY <1>2, <2>1, <3>1 DEF GoShape, n
    <3>2. CASE k = Len(T.go[s].evs) /\ T.go[s].evs[k] = e
      BY <1>3, <3>2
    <3> QED
      BY <1>2, <1>5, <3>1, <3>2, OneMore
  <2>3. n \in Names /\ NameOf(Trace(S), s, n)
    BY <1>2, <2>1 DEF GoShape, BodyPcs, n
  <2> QED
    BY <1>2, <1>4, <1>5, <1>7, <1>8, <2>2, <2>3 DEF GoShape
<1>11. SessionGood(T)
  BY <1>0, <1>3, <1>7, <1>9, <1>10, GoMoveKeeps
<1> QED
  BY <1>11 DEF T

\* A body stops in WaitForSignal: the wait joins the new events unless the history
\* has it.
LEMMA StepWaitsGood ==
    ASSUME TypedSessions, NEW w \in Replayers, NEW s \in Steps,
           SessionGood(sess[w]), StepWaits(w, s)
    PROVE  SessionGood(sess'[w])
<1> DEFINE S == sess[w]
           T == sess'[w]
           n == S.go[s].name
<1>0. S \in Session /\ T \in Session
  BY GoStepType DEF GoStep, TypedSessions
<1>1. PICK i \in DOMAIN Awaits[n] :
        T = [S EXCEPT !.new = IF SignalWaiting(S.hist, Awaits[n][i]) THEN @
                              ELSE Append(@, Ev("signal.waiting", Awaits[n][i])),
                      !.signals = @ \cup {Awaits[n][i]},
                      !.go[s] = [@ EXCEPT !.pc = "waiting"]]
  BY DEF StepWaits, SetSession, TypedSessions
<1>2. /\ S.go[s].pc = "running" /\ S.go[s] \in Goroutine /\ n \in Names
  BY <1>0, SessionTypes DEF StepWaits, Goroutine, BodyPcs
<1>3. SessionGood(S)
  OBVIOUS
<1> DEFINE sig == Awaits[n][i]
           e == Ev("signal.waiting", sig)
           new == IF SignalWaiting(S.hist, sig) THEN S.new ELSE Append(S.new, e)
<1>4. /\ T.hist = S.hist /\ T.new = new /\ T.completed = S.completed
      /\ T.cache = S.cache /\ T.ready = S.ready /\ T.left = S.left
      /\ T.result = S.result /\ T.ctxDone = S.ctxDone
      /\ T.go[s] = [S.go[s] EXCEPT !.pc = "waiting"]
      /\ \A t \in Steps \ {s} : T.go[t] = S.go[t]
  <2>1. T = [S EXCEPT !.new = new, !.signals = @ \cup {sig},
                      !.go[s] = [@ EXCEPT !.pc = "waiting"]]
    BY <1>1
  <2> HIDE DEF S, T, new, sig
  <2> QED
    BY <1>0, <2>1 DEF Session
<1> HIDE DEF S, T
<1>5. /\ T.go[s].pc = "waiting" /\ T.go[s].evs = S.go[s].evs /\ T.go[s].name = n
  BY <1>2, <1>4 DEF Goroutine
<1>6. sig \in Signals /\ e \in ReplayerEvent /\ e.type = "signal.waiting" /\ e.name = sig
  BY <1>2, AwaitsAssumption, EvTypes DEF Ev, EvData
<1>7. s \in S.ready /\ S.result = "running"
  BY <1>2, <1>3 DEF SessionGood, WaveShape
<1>8. GoShape(S, s) /\ NameOf(Trace(S), s, n)
  BY <1>2, <1>3, <1>7 DEF SessionGood, GoShape, BodyPcs
<1>9. ASSUME \A t, x : NameOf(Trace(S), t, x) => NameOf(Trace(T), t, x)
      PROVE  GoShape(T, s)
  BY <1>2, <1>5, <1>8, <1>9 DEF GoShape
<1>10. CASE SignalWaiting(S.hist, sig)
  <2>1. /\ Trace(T) = Trace(S) /\ LogGood(Trace(T)) /\ Open(Trace(T))
        /\ <<>> \in Seq(ReplayerEvent) /\ T.new = S.new \o <<>>
    BY <1>0, <1>3, <1>4, <1>7, <1>10, SilentTrace
  <2>2. GoMove(S, T, s, <<>>)
    BY <1>2, <1>4, <1>5, <2>1 DEF GoMove, Returned
  <2>3. SessionGood(T)
    BY <1>0, <1>3, <1>9, <2>1, <2>2, GoMoveKeeps
  <2> QED
    BY <2>3 DEF T
<1>11. CASE ~SignalWaiting(S.hist, sig)
  <2>1. /\ << e >> \in Seq(ReplayerEvent) /\ << e >> \in Seq(Event)
        /\ \A k \in DOMAIN << e >> : << e >>[k] = e /\ k = 1
        /\ Append(S.new, e) = S.new \o << e >>
    BY <1>0, <1>6, OneEvent, SessionTypes
  <2>2. T.new = S.new \o << e >>
    BY <1>4, <1>11, <2>1
  <2>3. /\ \E k \in DOMAIN Awaits[n] : Awaits[n][k] = e.name
        /\ e.type = "signal.waiting"
    BY <1>6
  <2> HIDE DEF e, new
  <2>4. Trace(T) = Trace(S) \o << e >> /\ Trace(S) \in Seq(Event)
    <3>1. T.hist = S.hist /\ T.new = S.new \o << e >> /\ << e >> \in Seq(Event)
      BY <1>4, <2>1, <2>2
    <3> QED
      BY <1>0, <3>1, TraceGrows, SessionTypes
  <2>5. GoMove(S, T, s, << e >>)
    BY <1>2, <1>4, <1>5, <2>1, <2>2, <2>3 DEF GoMove, Returned
  <2>6. LogGood(Trace(S)) /\ Open(Trace(S))
    BY <1>3, <1>7 DEF SessionGood
  <2>7. DecidedOnce(Trace(S) \o << e >>)
    BY <2>1, <2>3, <2>4, <2>6, DecidedOnceGrows DEF LogGood
  <2>8. DoneOnce(Trace(S) \o << e >>)
    BY <2>1, <2>3, <2>4, <2>6, DoneOnceGrows DEF LogGood
  <2>9. StartsAfterDeps(Trace(S) \o << e >>)
    BY <2>1, <2>3, <2>4, <2>6, StartsGrow DEF LogGood
  <2>10. WaitsHaveSteps(Trace(S) \o << e >>)
    BY <1>2, <1>8, <2>1, <2>3, <2>4, <2>6, WaitsGrow DEF LogGood
  <2>11. Open(Trace(S) \o << e >>) /\ EndIsLast(Trace(S) \o << e >>)
    <3>1. Open(<< e >>)
      BY <2>1, <2>3 DEF Open
    <3> QED
      BY <2>1, <2>4, <2>6, <3>1, StaysOpen
  <2>12. LogGood(Trace(T)) /\ Open(Trace(T))
    BY <2>4, <2>7, <2>8, <2>9, <2>10, <2>11 DEF LogGood
  <2>13. \A t, x : NameOf(Trace(S), t, x) => NameOf(Trace(T), t, x)
    BY <2>1, <2>4, GrownLogged
  <2>14. SessionGood(T)
    BY <1>0, <1>3, <1>9, <2>1, <2>5, <2>12, <2>13, GoMoveKeeps
  <2> QED
    BY <2>14 DEF T
<1> QED
  BY <1>10, <1>11

\* An attempt fails: step.failed joins the goroutine's events, and without a
\* retry it is the cause of the failure.
LEMMA StepFailsGood ==
    ASSUME TypedSessions, NEW w \in Replayers, NEW s \in Steps,
           SessionGood(sess[w]), StepFails(w, s)
    PROVE  SessionGood(sess'[w])
<1> DEFINE S == sess[w]
           T == sess'[w]
           g == S.go[s]
           willRetry == ShouldRetry(s, g.attempt)
           pc == IF willRetry THEN "attempt" ELSE "error"
           attempt == IF willRetry THEN g.attempt + 1 ELSE g.attempt
           e == EvAttempt("step.failed", g.name,
                          IF willRetry THEN "willRetry" ELSE "noRetry", g.attempt)
<1>0. S \in Session /\ T \in Session
  BY GoStepType DEF GoStep, TypedSessions
<1>1. T = [S EXCEPT !.go[s] = [g EXCEPT !.pc = pc, !.attempt = attempt, !.evs = Append(@, e)]]
  BY DEF StepFails, SetGo, SetSession, TypedSessions
<1>2. /\ g.pc \in {"running", "failing"} /\ g \in Goroutine
      /\ g.evs \in Seq(ReplayerEvent)
  BY <1>0, SessionTypes DEF StepFails, BodyMayFail
<1>3. /\ SessionGood(S) /\ e.type = "step.failed" /\ e.name = g.name
      /\ pc \in {"attempt", "error"}
      /\ pc = "error" => e.data = "noRetry"
  BY DEF EvAttempt, EvData
<1> HIDE DEF T, e, pc, attempt, willRetry
<1>4. /\ T.go[s].pc = pc /\ T.go[s].evs = Append(g.evs, e) /\ T.go[s].name = g.name
  <2>1. T.go[s] = [g EXCEPT !.pc = pc, !.attempt = attempt, !.evs = Append(@, e)]
    BY <1>0, <1>1, SetGoFields, SMTT(30)
  <2> HIDE DEF g
  <2> QED
    BY <1>2, <2>1 DEF Goroutine
<1> HIDE DEF S
<1>5. s \in S.ready /\ S.result = "running"
  BY <1>2, <1>3 DEF SessionGood, WaveShape
<1>6. /\ Trace(T) = Trace(S) /\ LogGood(Trace(T)) /\ Open(Trace(T))
      /\ <<>> \in Seq(ReplayerEvent) /\ T.new = S.new \o <<>>
  BY <1>0, <1>1, <1>3, <1>5, SilentTrace, SetGoFields
<1>7. pc = "error" => HasCause(T.go[s].evs)
  <2> DEFINE last == Len(g.evs) + 1
  <2>1. last \in DOMAIN T.go[s].evs /\ T.go[s].evs[last] = e
    BY <1>2, <1>4, OneMore
  <2> HIDE DEF last
  <2> QED
    BY <1>3, <2>1 DEF HasCause
<1>8. GoMove(S, T, s, <<>>)
  BY <1>0, <1>1, <1>2, <1>3, <1>4, <1>6, <1>7, SetGoFields DEF GoMove, Returned
<1>9. GoShape(T, s)
  <2>1. GoShape(S, s)
    BY <1>3, <1>5 DEF SessionGood
  <2>2. ASSUME NEW k \in DOMAIN T.go[s].evs
        PROVE  /\ T.go[s].evs[k].name = g.name
               /\ T.go[s].evs[k].type \in {"step.started", "step.failed"}
    BY <1>2, <1>3, <1>4, <2>1, OneMore, SMTT(30) DEF GoShape
  <2>3. g.name \in Names /\ NameOf(Trace(S), s, g.name)
    BY <1>2, <2>1 DEF GoShape, BodyPcs
  <2> HIDE DEF g
  <2> QED
    BY <1>3, <1>4, <1>6, <2>2, <2>3 DEF GoShape
<1>10. SessionGood(T)
  BY <1>0, <1>3, <1>6, <1>8, <1>9, GoMoveKeeps
<1> QED
  BY <1>10 DEF T

-----------------------------------------------------------------------------
(* Each step of Run and Map is such a move: it stays inside the body.      *)

\* Goroutine h is g, further on in the same body.
InBody(g, h) ==
    /\ g.pc \in BodyPcs /\ h.pc \in BodyPcs
    /\ h.evs = g.evs /\ h.name = g.name /\ h.attempt = g.attempt

\* T is S with goroutine s replaced by g, the batch b of new events added and
\* the counters moved.
BodyMove(S, T, s, g, b) ==
    /\ T.hist = S.hist /\ T.new = S.new \o b /\ T.completed = S.completed
    /\ T.cache = S.cache /\ T.ready = S.ready /\ T.left = S.left
    /\ T.result = S.result /\ T.ctxDone = S.ctxDone /\ T.signals = S.signals
    /\ T.go[s] = g
    /\ \A t \in Steps \ {s} : T.go[t] = S.go[t]

\* The types of the events that Run and Map record.
ChildTypes == {"child.spawned", "child.completed", "child.failed",
               "map.started", "map.completed", "map.failed"}

\* Goroutine s moves inside its body and adds events about children and maps.
InBodyMove(S, T, s) ==
    \E g, b : /\ b \in Seq(ReplayerEvent)
              /\ BodyMove(S, T, s, g, b)
              /\ InBody(S.go[s], g)
              /\ \A k \in DOMAIN b : b[k].type \in ChildTypes

\* Such a move keeps the invariant of the replay.
LEMMA BodyMoveKeeps ==
    ASSUME NEW S \in Session, NEW T \in Session, NEW s \in Steps, SessionGood(S),
           InBodyMove(S, T, s)
    PROVE  SessionGood(T)
<1> PICK g, b : /\ b \in Seq(ReplayerEvent)
                /\ BodyMove(S, T, s, g, b)
                /\ InBody(S.go[s], g)
                /\ \A k \in DOMAIN b : b[k].type \in ChildTypes
  BY DEF InBodyMove
<1>0. b \in Seq(Event) /\ \A k \in DOMAIN b : b[k].type \notin Telling
  BY DEF ReplayerEvent, ChildTypes, Telling
<1>1. Trace(T) = Trace(S) \o b /\ Trace(S) \in Seq(Event)
  BY <1>0, TraceGrows, SessionTypes DEF BodyMove
<1>2. s \in S.ready /\ S.result = "running"
  BY DEF SessionGood, WaveShape, InBody, BodyPcs
<1>3. LogGood(Trace(T)) /\ Open(Trace(T))
  <2>1. LogGood(Trace(S)) /\ Open(Trace(S))
    BY <1>2 DEF SessionGood
  <2> QED
    BY <1>0, <1>1, <2>1, NeutralGrows
<1>4. GoMove(S, T, s, b)
  BY <1>0 DEF BodyMove, InBody, GoMove, BodyPcs, Returned, Telling
<1>5. GoShape(T, s)
  <2>1. GoShape(S, s)
    BY <1>2 DEF SessionGood
  <2>2. \A n : NameOf(Trace(S), s, n) => NameOf(Trace(T), s, n)
    BY <1>0, <1>1, GrownLogged
  <2>3. /\ T.go[s].pc \in BodyPcs /\ S.go[s].pc \in BodyPcs
        /\ T.go[s].evs = S.go[s].evs /\ T.go[s].name = S.go[s].name
    BY DEF BodyMove, InBody
  <2> QED
    BY <2>1, <2>2, <2>3 DEF GoShape, BodyPcs
<1> QED
  BY <1>3, <1>4, <1>5, GoMoveKeeps

\* What Run and Map do to a goroutine stays inside its body.
LEMMA InBodyUpdates ==
    ASSUME NEW g \in Goroutine, g.pc \in BodyPcs
    PROVE  /\ \A x : InBody(g, Returns(g, x))
           /\ InBody(g, ReturnsError(g))
           /\ InBody(g, [g EXCEPT !.pc = "panic"])
           /\ \A k : InBody(g, [g EXCEPT !.pc = "child", !.index = k])
           /\ \A k, x, f : InBody(g, [g EXCEPT !.pc = "mapping", !.index = k, !.kids = x,
                                               !.first = f])
           /\ \A i, st : InBody(g, [g EXCEPT !.kids[i] = st])
           /\ \A i, st, f : InBody(g, [g EXCEPT !.kids[i] = st, !.first = f])
<1>1. \A x : InBody(g, Returns(g, x))
  BY DEF InBody, Returns, Goroutine, BodyPcs
<1>2. InBody(g, ReturnsError(g)) /\ InBody(g, [g EXCEPT !.pc = "panic"])
  BY DEF InBody, ReturnsError, Goroutine, BodyPcs
<1>3. \A k : InBody(g, [g EXCEPT !.pc = "child", !.index = k])
  BY DEF InBody, Goroutine, BodyPcs
<1>4. \A k, x, f : InBody(g, [g EXCEPT !.pc = "mapping", !.index = k, !.kids = x, !.first = f])
  BY DEF InBody, Goroutine, BodyPcs
<1>5. \A i, st : InBody(g, [g EXCEPT !.kids[i] = st])
  BY DEF InBody, Goroutine
<1>6. \A i, st, f : InBody(g, [g EXCEPT !.kids[i] = st, !.first = f])
  BY DEF InBody, Goroutine
<1> QED
  BY <1>1, <1>2, <1>3, <1>4, <1>5, <1>6

\* The ways in which Run and Map set the session.
LEMMA BodyUpdate ==
    ASSUME NEW S \in Session, NEW T \in Session, NEW s \in Steps, NEW g,
           InBody(S.go[s], g),
           \/ T = [S EXCEPT !.go[s] = g]
           \/ T = [S EXCEPT !.childCount = @ + 1, !.go[s] = g]
           \/ T = [S EXCEPT !.mapCount = @ + 1, !.go[s] = g]
    PROVE  InBodyMove(S, T, s)
<1> DEFINE b == <<>>
           x == S.childCount + 1
           y == S.mapCount + 1
<1>1. S.new \o b = S.new /\ b \in Seq(ReplayerEvent) /\ DOMAIN b = {}
  BY SessionTypes
<1> HIDE DEF b, x, y
<1>2. PICK c, m : T = [S EXCEPT !.childCount = c, !.mapCount = m, !.new = S.new, !.go[s] = g]
  <2>1. CASE T = [S EXCEPT !.go[s] = g]
    <3>1. T = [S EXCEPT !.childCount = S.childCount, !.mapCount = S.mapCount, !.new = S.new, !.go[s] = g]
      BY <2>1 DEF Session
    <3> QED
      BY <3>1
  <2>2. CASE T = [S EXCEPT !.childCount = x, !.go[s] = g]
    <3>1. T = [S EXCEPT !.childCount = x, !.mapCount = S.mapCount, !.new = S.new, !.go[s] = g]
      BY <2>2 DEF Session
    <3> QED
      BY <3>1
  <2>3. CASE T = [S EXCEPT !.mapCount = y, !.go[s] = g]
    <3>1. T = [S EXCEPT !.childCount = S.childCount, !.mapCount = y, !.new = S.new, !.go[s] = g]
      BY <2>3 DEF Session
    <3> QED
      BY <3>1
  <2> QED
    BY <2>1, <2>2, <2>3 DEF x, y
<1>3. /\ T.hist = S.hist /\ T.new = S.new /\ T.completed = S.completed
      /\ T.cache = S.cache /\ T.ready = S.ready /\ T.left = S.left
      /\ T.result = S.result /\ T.ctxDone = S.ctxDone /\ T.signals = S.signals
      /\ T.go[s] = g
      /\ \A t \in Steps \ {s} : T.go[t] = S.go[t]
  BY <1>2 DEF Session
<1>4. BodyMove(S, T, s, g, b)
  BY <1>1, <1>3 DEF BodyMove
<1> QED
  BY <1>1, <1>4 DEF InBodyMove

\* ... when they record an event e as well.
LEMMA BodyUpdateEvent ==
    ASSUME NEW S \in Session, NEW T \in Session, NEW s \in Steps, NEW g,
           NEW e \in ReplayerEvent, e.type \in ChildTypes,
           InBody(S.go[s], g),
           \/ T = [S EXCEPT !.new = Append(@, e), !.go[s] = g]
           \/ T = [S EXCEPT !.childCount = @ + 1, !.new = Append(@, e), !.go[s] = g]
           \/ T = [S EXCEPT !.mapCount = @ + 1, !.new = Append(@, e), !.go[s] = g]
    PROVE  InBodyMove(S, T, s)
<1> DEFINE b == << e >>
           new == Append(S.new, e)
           x == S.childCount + 1
           y == S.mapCount + 1
<1>1. /\ b \in Seq(ReplayerEvent) /\ \A k \in DOMAIN b : b[k] = e
      /\ new = S.new \o b
  BY OneEvent, SessionTypes
<1> HIDE DEF b, new, x, y
<1>2. PICK c, m : T = [S EXCEPT !.childCount = c, !.mapCount = m, !.new = new, !.go[s] = g]
  <2>1. CASE T = [S EXCEPT !.new = new, !.go[s] = g]
    <3>1. T = [S EXCEPT !.childCount = S.childCount, !.mapCount = S.mapCount, !.new = new, !.go[s] = g]
      BY <2>1 DEF Session
    <3> QED
      BY <3>1
  <2>2. CASE T = [S EXCEPT !.childCount = x, !.new = new, !.go[s] = g]
    <3>1. T = [S EXCEPT !.childCount = x, !.mapCount = S.mapCount, !.new = new, !.go[s] = g]
      BY <2>2 DEF Session
    <3> QED
      BY <3>1
  <2>3. CASE T = [S EXCEPT !.mapCount = y, !.new = new, !.go[s] = g]
    <3>1. T = [S EXCEPT !.childCount = S.childCount, !.mapCount = y, !.new = new, !.go[s] = g]
      BY <2>3 DEF Session
    <3> QED
      BY <3>1
  <2> QED
    BY <2>1, <2>2, <2>3 DEF x, y, new
<1>3. /\ T.hist = S.hist /\ T.new = new /\ T.completed = S.completed
      /\ T.cache = S.cache /\ T.ready = S.ready /\ T.left = S.left
      /\ T.result = S.result /\ T.ctxDone = S.ctxDone /\ T.signals = S.signals
      /\ T.go[s] = g
      /\ \A t \in Steps \ {s} : T.go[t] = S.go[t]
  BY <1>2 DEF Session
<1>4. BodyMove(S, T, s, g, b)
  BY <1>1, <1>3 DEF BodyMove
<1> QED
  BY <1>1, <1>4 DEF InBodyMove

\* The events that Run and Map record are typed, with one of their types.
LEMMA ChildEventsNeutral ==
    ASSUME NEW n \in Names
    PROVE  /\ \A id \in ChildId :
                 \A type \in {"child.spawned", "child.completed", "child.failed",
                              "map.started", "map.completed", "map.failed"} :
                    /\ EvChild(type, n, None, id) \in ReplayerEvent
                    /\ EvChild(type, n, "noOutput", id) \in ReplayerEvent
                    /\ EvChild(type, n, None, id).type \in ChildTypes
                    /\ EvChild(type, n, "noOutput", id).type \in ChildTypes
           /\ \A m, i \in Int : RunId(i) \in ChildId /\ MapId(m) \in ChildId
                                                   /\ ItemId(m, i) \in ChildId
<1>1. \A type, d, id : EvChild(type, n, d, id).type = type
  BY DEF EvChild, EvData
<1>2. \A type \in {"child.spawned", "child.completed", "child.failed",
                   "map.started", "map.completed", "map.failed"} :
         type \in ReplayerTypes /\ type \in ChildTypes
  BY DEF ReplayerTypes, ChildTypes
<1>3. n \in EventNames /\ None \in EventData /\ "noOutput" \in EventData
  BY DEF EventNames, EventData
<1>4. \A m, i \in Int : RunId(i) \in ChildId /\ MapId(m) \in ChildId /\ ItemId(m, i) \in ChildId
  BY DEF RunId, MapId, ItemId, ChildId
<1>5. ASSUME NEW id \in ChildId,
             NEW type \in {"child.spawned", "child.completed", "child.failed",
                           "map.started", "map.completed", "map.failed"}
      PROVE  /\ EvChild(type, n, None, id) \in ReplayerEvent
             /\ EvChild(type, n, "noOutput", id) \in ReplayerEvent
             /\ EvChild(type, n, None, id).type \in ChildTypes
             /\ EvChild(type, n, "noOutput", id).type \in ChildTypes
  <2>1. type \in ReplayerTypes /\ type \in ChildTypes
    BY <1>2
  <2> QED
    BY <1>1, <1>3, <2>1, EvConstructors, 0 \in Nat, Zenon
<1> QED
  BY <1>4, <1>5

\* Every step of Run is such a move.
LEMMA RunMoves ==
    ASSUME TypedSessions, NEW w \in Replayers, NEW s \in Steps,
           CallRun(w, s) \/ RunReturns(w, s)
    PROVE  InBodyMove(sess[w], sess'[w], s)
<1> DEFINE S == sess[w]
           T == sess'[w]
           g == S.go[s]
<1>0. S \in Session /\ T \in Session /\ g \in Goroutine
  BY ChildStepType, SessionTypes DEF ChildStep, TypedSessions
<1>1. g.pc \in BodyPcs
  BY DEF CallRun, RunReturns, NextCall, BodyPcs
<1>2. g.name \in Names /\ g.index \in Nat /\ S.childCount \in Nat
  BY <1>1, BodyTypes
<1>3. \A X : SetSession(w, X) => T = X
  BY DEF SetSession, TypedSessions
<1>4. /\ \A x : InBody(g, Returns(g, x))
      /\ InBody(g, ReturnsError(g))
      /\ \A k : InBody(g, [g EXCEPT !.pc = "child", !.index = k])
  BY <1>0, <1>1, InBodyUpdates
<1>5. \A k \in Nat : \A type \in {"child.spawned", "child.completed", "child.failed"} :
         /\ EvChild(type, g.name, None, RunId(k)) \in ReplayerEvent
         /\ EvChild(type, g.name, "noOutput", RunId(k)) \in ReplayerEvent
         /\ EvChild(type, g.name, None, RunId(k)).type \in ChildTypes
         /\ EvChild(type, g.name, "noOutput", RunId(k)).type \in ChildTypes
  <2>1. \A k \in Nat : RunId(k) \in ChildId
    BY <1>2, ChildEventsNeutral
  <2> HIDE DEF g
  <2> QED
    BY <1>2, <2>1, ChildEventsNeutral
<1>7. CASE CallRun(w, s)
  <2> DEFINE id == RunId(S.childCount)
             e == EvChild("child.spawned", g.name, None, id)
  <2>1. \/ \E i \in DOMAIN S.hist :
              T = [S EXCEPT !.childCount = @ + 1,
                            !.go[s] = IF S.hist[i].data = "noOutput" THEN ReturnsError(g)
                                      ELSE Returns(g, S.hist[i].name)]
        \/ T = [S EXCEPT !.childCount = @ + 1, !.go[s] = ReturnsError(g)]
        \/ T = [S EXCEPT !.childCount = @ + 1, !.new = Append(@, e),
                         !.go[s] = [g EXCEPT !.pc = "child", !.index = S.childCount]]
    BY <1>3, <1>7 DEF CallRun, ChildEvent
  <2>2. e \in ReplayerEvent /\ e.type \in ChildTypes
    BY <1>2, <1>5
  <2> HIDE DEF e, S, T, g
  <2>3. ASSUME NEW x, x = ReturnsError(g) \/ \E y : x = Returns(g, y),
               T = [S EXCEPT !.childCount = @ + 1, !.go[s] = x]
        PROVE  InBodyMove(S, T, s)
    <3>1. InBody(S.go[s], x)
      BY <1>4, <2>3 DEF g
    <3> QED
      BY <1>0, <2>3, <3>1, BodyUpdate, Zenon
  <2>4. ASSUME T = [S EXCEPT !.childCount = @ + 1, !.new = Append(@, e),
                             !.go[s] = [g EXCEPT !.pc = "child", !.index = S.childCount]]
        PROVE  InBodyMove(S, T, s)
    <3> DEFINE x == [g EXCEPT !.pc = "child", !.index = S.childCount]
    <3>1. InBody(S.go[s], x)
      BY <1>4, Zenon DEF g
    <3>2. T = [S EXCEPT !.childCount = @ + 1, !.new = Append(@, e), !.go[s] = x]
      BY <2>4
    <3> HIDE DEF x
    <3> QED
      BY <1>0, <2>2, <3>1, <3>2, BodyUpdateEvent, Zenon
  <2>5. InBodyMove(S, T, s)
    BY <2>1, <2>3, <2>4, ZenonT(40)
  <2> QED
    BY <2>5 DEF S, T
<1>8. CASE RunReturns(w, s)
  <2> DEFINE id == RunId(g.index)
  <2>1. \/ T = [S EXCEPT !.new = Append(@, EvChild("child.completed", g.name, None, id)),
                         !.go[s] = Returns(g, g.name)]
        \/ T = [S EXCEPT !.new = Append(@, EvChild("child.completed", g.name, "noOutput", id)),
                         !.go[s] = Returns(g, None)]
        \/ T = [S EXCEPT !.new = Append(@, EvChild("child.failed", g.name, None, id)),
                         !.go[s] = ReturnsError(g)]
    BY <1>3, <1>8 DEF RunReturns, ChildEvent
  <2>2. /\ EvChild("child.completed", g.name, None, id) \in ReplayerEvent
        /\ EvChild("child.completed", g.name, None, id).type \in ChildTypes
        /\ EvChild("child.completed", g.name, "noOutput", id) \in ReplayerEvent
        /\ EvChild("child.completed", g.name, "noOutput", id).type \in ChildTypes
        /\ EvChild("child.failed", g.name, None, id) \in ReplayerEvent
        /\ EvChild("child.failed", g.name, None, id).type \in ChildTypes
    BY <1>2, <1>5
  <2> HIDE DEF S, T, id
  <2>3. ASSUME NEW e \in ReplayerEvent, e.type \in ChildTypes,
               NEW x, x = ReturnsError(g) \/ \E y : x = Returns(g, y),
               T = [S EXCEPT !.new = Append(@, e), !.go[s] = x]
        PROVE  InBodyMove(S, T, s)
    <3>1. InBody(S.go[s], x)
      BY <1>4, <2>3
    <3> QED
      BY <1>0, <2>3, <3>1, BodyUpdateEvent, Zenon
  <2> HIDE DEF g
  <2>4. InBodyMove(S, T, s)
    <3>1. ASSUME NEW e \in ReplayerEvent, e.type \in ChildTypes,
                 \/ T = [S EXCEPT !.new = Append(@, e), !.go[s] = ReturnsError(g)]
                 \/ \E y : T = [S EXCEPT !.new = Append(@, e), !.go[s] = Returns(g, y)]
          PROVE  InBodyMove(S, T, s)
      BY <2>3, <3>1, ZenonT(40)
    <3> QED
      BY <2>1, <2>2, <3>1, Zenon
  <2> QED
    BY <2>4 DEF S, T
<1> QED
  BY <1>7, <1>8

\* Every step of Map, and of the goroutines of its group, is such a move.
LEMMA MapMoves ==
    ASSUME TypedSessions, NEW w \in Replayers, NEW s \in Steps,
           \/ CallMap(w, s) \/ MapReturns(w, s) \/ MapPanics(w, s)
           \/ \E i \in Items : SkipItem(w, s, i) \/ SpawnItem(w, s, i) \/ ItemReturns(w, s, i)
    PROVE  InBodyMove(sess[w], sess'[w], s)
<1> DEFINE S == sess[w]
           T == sess'[w]
           g == S.go[s]
<1>0. S \in Session /\ T \in Session /\ g \in Goroutine
  BY ChildStepType, SessionTypes DEF ChildStep, TypedSessions
<1>1. g.pc \in BodyPcs
  BY DEF CallMap, MapReturns, MapPanics, SkipItem, SpawnItem, ItemReturns, GroupEnded,
         NextCall, BodyPcs
<1>2. g.name \in Names /\ g.index \in Nat /\ g.first \in Int /\ S.mapCount \in Nat
  BY <1>1, BodyTypes
<1>3. \A X : SetSession(w, X) => T = X
  BY DEF SetSession, TypedSessions
<1>4. /\ \A x : InBody(g, Returns(g, x))
      /\ InBody(g, ReturnsError(g))
      /\ InBody(g, [g EXCEPT !.pc = "panic"])
      /\ \A k, x, f : InBody(g, [g EXCEPT !.pc = "mapping", !.index = k, !.kids = x, !.first = f])
      /\ \A i, st : InBody(g, [g EXCEPT !.kids[i] = st])
      /\ \A i, st, f : InBody(g, [g EXCEPT !.kids[i] = st, !.first = f])
  BY <1>0, <1>1, InBodyUpdates
<1>5. \A id \in ChildId :
         \A type \in {"child.spawned", "child.completed", "child.failed", "map.started",
                      "map.completed", "map.failed"} :
            /\ EvChild(type, g.name, None, id) \in ReplayerEvent
            /\ EvChild(type, g.name, "noOutput", id) \in ReplayerEvent
            /\ EvChild(type, g.name, None, id).type \in ChildTypes
            /\ EvChild(type, g.name, "noOutput", id).type \in ChildTypes
  BY <1>2, ChildEventsNeutral
<1>15. \A m, i \in Int : MapId(m) \in ChildId /\ ItemId(m, i) \in ChildId
  BY <1>2, ChildEventsNeutral
<1>7. ASSUME NEW x, InBody(g, x),
             \/ T = [S EXCEPT !.go[s] = x]
             \/ T = [S EXCEPT !.mapCount = @ + 1, !.go[s] = x]
      PROVE  InBodyMove(S, T, s)
  <2>1. InBody(S.go[s], x)
    BY <1>7
  <2> HIDE DEF S, T, g
  <2> QED
    BY <1>0, <1>7, <2>1, BodyUpdate, Zenon
<1>8. ASSUME NEW x, InBody(g, x), NEW e \in ReplayerEvent, e.type \in ChildTypes,
             \/ T = [S EXCEPT !.new = Append(@, e), !.go[s] = x]
             \/ T = [S EXCEPT !.mapCount = @ + 1, !.new = Append(@, e), !.go[s] = x]
      PROVE  InBodyMove(S, T, s)
  <2>1. InBody(S.go[s], x)
    BY <1>8
  <2> HIDE DEF S, T, g
  <2> QED
    BY <1>0, <1>8, <2>1, BodyUpdateEvent, Zenon
<1>9. CASE CallMap(w, s)
  <2> DEFINE e == EvChild("map.started", g.name, None, MapId(S.mapCount))
             x == [g EXCEPT !.pc = "mapping", !.index = S.mapCount,
                            !.kids = [i \in Items |-> "new"], !.first = -1]
  <2>1. \/ \E i \in DOMAIN S.hist :
              T = [S EXCEPT !.mapCount = @ + 1, !.go[s] = Returns(g, S.hist[i].name)]
        \/ T = [S EXCEPT !.mapCount = @ + 1, !.go[s] = ReturnsError(g)]
        \/ T = [S EXCEPT !.mapCount = @ + 1, !.new = Append(@, e), !.go[s] = x]
    BY <1>3, <1>9 DEF CallMap, ChildEvent
  <2>2. e \in ReplayerEvent /\ e.type \in ChildTypes
    BY <1>2, <1>5, <1>15
  <2>3. InBody(g, x)
    BY <1>4, Zenon
  <2> HIDE DEF e, x, S, T, g
  <2>4. InBodyMove(S, T, s)
    BY <1>4, <1>7, <1>8, <2>1, <2>2, <2>3, Zenon
  <2> QED
    BY <2>4 DEF S, T
<1>10. CASE MapReturns(w, s)
  <2> DEFINE c == EvChild("map.completed", g.name, None, MapId(g.index))
             f == EvChild("map.failed", g.name, None, ItemId(g.index, g.first))
  <2>1. \/ T = [S EXCEPT !.new = Append(@, c), !.go[s] = Returns(g, g.name)]
        \/ T = [S EXCEPT !.new = Append(@, f), !.go[s] = ReturnsError(g)]
    BY <1>3, <1>10 DEF MapReturns, ChildEvent
  <2>2. /\ c \in ReplayerEvent /\ c.type \in ChildTypes
        /\ f \in ReplayerEvent /\ f.type \in ChildTypes
    <3>1. MapId(g.index) \in ChildId /\ ItemId(g.index, g.first) \in ChildId
      BY <1>2, <1>15
    <3> HIDE DEF S, g
    <3> QED
      BY <1>5, <3>1
  <2> HIDE DEF c, f, S, T, g
  <2>3. InBodyMove(S, T, s)
    BY <1>4, <1>8, <2>1, <2>2, Zenon
  <2> QED
    BY <2>3 DEF S, T
<1>11. CASE MapPanics(w, s)
  <2>1. T = [S EXCEPT !.go[s] = [g EXCEPT !.pc = "panic"]]
    BY <1>3, <1>11 DEF MapPanics, SetGo
  <2> QED
    BY <1>4, <1>7, <2>1, Zenon
<1>12. ASSUME NEW i \in Items, SkipItem(w, s, i) PROVE InBodyMove(S, T, s)
  <2> DEFINE x == [g EXCEPT !.kids[i] = "cancelled"]
  <2>1. T = [S EXCEPT !.go[s] = x]
    BY <1>3, <1>12 DEF SkipItem, SetGo
  <2>2. InBody(g, x)
    BY <1>4
  <2> HIDE DEF S, T, g, x
  <2> QED
    BY <1>7, <2>1, <2>2
<1>13. ASSUME NEW i \in Items, SpawnItem(w, s, i) PROVE InBodyMove(S, T, s)
  <2> DEFINE e == EvChild("child.spawned", g.name, None, ItemId(g.index, i))
  <2>1. T = [S EXCEPT !.new = Append(@, e), !.go[s] = [g EXCEPT !.kids[i] = "running"]]
    BY <1>3, <1>13 DEF SpawnItem, ChildEvent
  <2>2. e \in ReplayerEvent /\ e.type \in ChildTypes
    <3>1. i \in Int
      BY DEF Items
    <3>2. ItemId(g.index, i) \in ChildId
      BY <1>2, <1>15, <3>1
    <3> HIDE DEF S, g
    <3> QED
      BY <1>5, <3>2
  <2> HIDE DEF e
  <2> QED
    BY <1>4, <1>8, <2>1, <2>2, Zenon
<1>14. ASSUME NEW i \in Items, ItemReturns(w, s, i) PROVE InBodyMove(S, T, s)
  <2> DEFINE id == ItemId(g.index, i)
             c == EvChild("child.completed", g.name, None, id)
             n == EvChild("child.completed", g.name, "noOutput", id)
             f == EvChild("child.failed", g.name, None, id)
             first == IF g.first = -1 THEN i ELSE g.first
  <2>1. \/ T = [S EXCEPT !.new = Append(@, c), !.go[s] = [g EXCEPT !.kids[i] = "done"]]
        \/ T = [S EXCEPT !.new = Append(@, n), !.go[s] = [g EXCEPT !.kids[i] = "done"]]
        \/ T = [S EXCEPT !.new = Append(@, f),
                         !.go[s] = [g EXCEPT !.kids[i] = "failed", !.first = first]]
    BY <1>3, <1>14 DEF ItemReturns, ChildEvent
  <2>2. /\ c \in ReplayerEvent /\ c.type \in ChildTypes
        /\ n \in ReplayerEvent /\ n.type \in ChildTypes
        /\ f \in ReplayerEvent /\ f.type \in ChildTypes
    <3>1. i \in Int
      BY DEF Items
    <3>2. ItemId(g.index, i) \in ChildId
      BY <1>2, <1>15, <3>1
    <3> HIDE DEF S, g
    <3> QED
      BY <1>5, <3>2
  <2> HIDE DEF c, n, f, first
  <2> QED
    BY <1>4, <1>8, <2>1, <2>2, Zenon
<1> QED
  BY <1>9, <1>10, <1>11, <1>12, <1>13, <1>14

\* Every step of a body's calls is such a move.
LEMMA ChildStepMoves ==
    ASSUME TypedSessions, NEW w \in Replayers, ChildStep(w)
    PROVE  \E s \in Steps : InBodyMove(sess[w], sess'[w], s)
  BY RunMoves, MapMoves DEF ChildStep

-----------------------------------------------------------------------------
(* The sequential steps of Replay.                                         *)

\* The name on record for a step is one of its names, and there is only one.
LEMMA NameFacts ==
    ASSUME NEW h, DecidedOnce(h), NEW s \in Steps, NEW n, NameOf(h, s, n)
    PROVE  /\ n \in RecordedNames(s)
           /\ \A m : NameOf(h, s, m) => m = n
           /\ n \in Steps /\ (Cases[s] # {} => n # s) => n = s /\ Cases[s] = {}
<1>1. n \in RecordedNames(s)
  BY DEF NameOf, RecordedNames
<1>2. ASSUME NEW m, NameOf(h, s, m) PROVE m = n
  <2>1. CASE Cases[s] = {}
    BY <1>2, <2>1 DEF NameOf
  <2>2. CASE Cases[s] # {}
    <3>1. PICK c \in Cases[s] : n = CaseName(s, c) /\ Has(h, EvData("branch.evaluated", s, c))
      BY <2>2 DEF NameOf
    <3>2. PICK d \in Cases[s] : m = CaseName(s, d) /\ Has(h, EvData("branch.evaluated", s, d))
      BY <1>2, <2>2 DEF NameOf
    <3>3. PICK i \in DOMAIN h : h[i] = EvData("branch.evaluated", s, c)
      BY <3>1 DEF Has
    <3>4. PICK j \in DOMAIN h : h[j] = EvData("branch.evaluated", s, d)
      BY <3>2 DEF Has
    <3>5. /\ h[i].type = "branch.evaluated" /\ h[i].name = s /\ h[i].data = c
          /\ h[j].type = "branch.evaluated" /\ h[j].name = s /\ h[j].data = d
      BY <3>3, <3>4 DEF EvData
    <3>6. i = j
      BY <3>5 DEF DecidedOnce
    <3> QED
      BY <3>1, <3>2, <3>5, <3>6
  <2> QED
    BY <2>1, <2>2
<1>3. n \in Steps /\ (Cases[s] # {} => n # s) => n = s /\ Cases[s] = {}
  BY NamesAreDistinct, CasesAssumption DEF NameOf, CaseName
<1> QED
  BY <1>1, <1>2, <1>3

\* When no step is ready, every step is completed: the dependencies have no
\* cycle and no step failed for good.
LEMMA NoneReady ==
    ASSUME NEW S \in Session, SessionGood(S), S.result = "running", FindReadySteps(S) = {}
    PROVE  \A s \in Steps : s \in S.completed
<1> DEFINE U == Steps \ S.completed
<1>1. SUFFICES ASSUME U # {} PROVE FALSE
  OBVIOUS
<1>2. PICK s \in U : Deps[s] \cap U = {}
  BY <1>1, DepsAssumption
<1>3. Deps[s] \subseteq S.completed
  BY <1>2, DepsAssumption
<1>4. s \in FindReadySteps(S)
  BY <1>2, <1>3 DEF FindReadySteps, SessionGood, WaitsKept
<1> QED
  BY <1>4

\* emitWorkflowCompleted: every step is done and no signal is waited for.
LEMMA CompleteReplayGood ==
    ASSUME TypedSessions, NEW w \in Replayers, SessionGood(sess[w]), CompleteReplay(w)
    PROVE  SessionGood(sess'[w])
<1> DEFINE S == sess[w]
           T == sess'[w]
           e == Ev("workflow.completed", None)
           b == << e >>
<1>0. S \in Session /\ T \in Session
  BY ReplayStepType DEF ReplayStep, TypedSessions
<1>1. T = [S EXCEPT !.new = Append(@, e), !.result = "completed"]
  BY DEF CompleteReplay, SetSession, TypedSessions
<1>2. /\ S.result = "running" /\ S.ready = {} /\ FindReadySteps(S) = {}
  BY DEF CompleteReplay, BetweenWaves
<1>3. SessionGood(S) /\ e.type = "workflow.completed" /\ e.name = None /\ e \in ReplayerEvent
  BY EvTypes DEF Ev, EvData
<1> HIDE DEF S, T, e
<1>4. /\ T.hist = S.hist /\ T.new = Append(S.new, e) /\ T.completed = S.completed
      /\ T.cache = S.cache /\ T.ready = S.ready /\ T.left = S.left
      /\ T.result = "completed" /\ T.ctxDone = S.ctxDone /\ T.go = S.go
  BY <1>0, <1>1 DEF Session
<1>5. /\ b \in Seq(Event)
      /\ \A k \in DOMAIN b : b[k] = e /\ k = 1
      /\ T.new = S.new \o b
      /\ S.new \in Seq(Event) /\ Len(b) = 1
  BY <1>0, <1>3, <1>4, OneEvent, SessionTypes
<1> HIDE DEF b
<1>6. Trace(T) = Trace(S) \o b /\ Trace(S) \in Seq(Event) /\ Trace(T) \in Seq(Event)
  BY <1>0, <1>4, <1>5, TraceGrows, SessionTypes
<1>7. LogGood(Trace(S)) /\ Open(Trace(S)) /\ S.left = {}
  BY <1>2, <1>3 DEF SessionGood, WaveShape
<1>8. /\ \A type, name : Logged(Trace(S), type, name) => Logged(Trace(T), type, name)
      /\ \A type, name : Logged(Trace(T), type, name) /\ type # "workflow.completed" =>
                            Logged(Trace(S), type, name)
      /\ \A type, name : Logged(S.new, type, name) => Logged(T.new, type, name)
      /\ \A type, name : Logged(T.new, type, name) /\ type # "workflow.completed" =>
                            Logged(S.new, type, name)
      /\ \A t, n : NameOf(Trace(S), t, n) => NameOf(Trace(T), t, n)
  <2>1. \A type, name : Logged(b, type, name) => type = "workflow.completed"
    BY <1>3, <1>5 DEF Logged
  <2>2. /\ \A type, name : Logged(Trace(S), type, name) => Logged(Trace(T), type, name)
        /\ \A type, name : Logged(Trace(T), type, name) =>
                              Logged(Trace(S), type, name) \/ Logged(b, type, name)
        /\ \A t, n : NameOf(Trace(S), t, n) => NameOf(Trace(T), t, n)
    BY <1>5, <1>6, GrownLogged
  <2>3. /\ \A type, name : Logged(S.new, type, name) => Logged(T.new, type, name)
        /\ \A type, name : Logged(T.new, type, name) =>
                              Logged(S.new, type, name) \/ Logged(b, type, name)
    BY <1>5, GrownLogged
  <2> QED
    BY <2>1, <2>2, <2>3
<1>9. \A s \in Steps : s \in S.completed
  BY <1>0, <1>2, <1>3, NoneReady
<1>10. DecidedOnce(Trace(T))
  BY <1>3, <1>5, <1>6, <1>7, DecidedOnceGrows DEF LogGood
<1>11. DoneOnce(Trace(T))
  BY <1>3, <1>5, <1>6, <1>7, DoneOnceGrows DEF LogGood
<1>12. StartsAfterDeps(Trace(T))
  BY <1>3, <1>5, <1>6, <1>7, StartsGrow DEF LogGood
<1>13. WaitsHaveSteps(Trace(T))
  BY <1>3, <1>5, <1>6, <1>7, WaitsGrow DEF LogGood
<1>14. StepsShape(T)
  <2>1. ASSUME NEW s \in T.completed
        PROVE  \E n \in Names :
                  /\ NameOf(Trace(T), s, n)
                  /\ HasCompleted(Trace(T), n)
                  /\ GetOutput(T, n)
                  /\ Resolved(T.hist, n)
                  /\ Cases[s] # {} => n # s
    BY <1>3, <1>4, <1>8, <2>1 DEF SessionGood, StepsShape, GetOutput, HasCompleted
  <2> QED
    BY <1>2, <1>4, <1>7, <1>9, <2>1 DEF StepsShape
<1>15. EndIsLast(Trace(T))
  <2>1. ASSUME NEW i \in DOMAIN Trace(T), Trace(T)[i].type = "workflow.completed"
        PROVE  i = Len(Trace(T)) /\ Trace(T)[i].name = None
    <3>1. /\ Len(Trace(T)) = Len(Trace(S)) + Len(b)
          /\ \/ i \in DOMAIN Trace(S) /\ Trace(T)[i] = Trace(S)[i]
             \/ \E k \in DOMAIN b : i = Len(Trace(S)) + k /\ Trace(T)[i] = b[k]
      <4> DEFINE h == Trace(S)
      <4>0. h \in Seq(Event) /\ b \in Seq(Event) /\ Trace(T) = h \o b
        BY <1>5, <1>6
      <4> HIDE DEF h
      <4>1. /\ Len(h \o b) = Len(h) + Len(b)
            /\ \A j \in DOMAIN (h \o b) :
                  \/ j \in DOMAIN h /\ (h \o b)[j] = h[j]
                  \/ j \notin DOMAIN h
                     /\ \E k \in DOMAIN b : j = Len(h) + k /\ (h \o b)[j] = b[k]
        BY <4>0, Grown
      <4> QED
        BY <4>0, <4>1, Zenon DEF h
    <3>2. CASE i \in DOMAIN Trace(S) /\ Trace(T)[i] = Trace(S)[i]
      BY <1>7, <2>1, <3>2 DEF Open
    <3>3. CASE \E k \in DOMAIN b : i = Len(Trace(S)) + k /\ Trace(T)[i] = b[k]
      BY <1>3, <1>5, <3>1, <3>3
    <3> QED
      BY <3>1, <3>2, <3>3
  <2>2. ASSUME NEW s \in Steps PROVE \E n \in RecordedNames(s) : HasCompleted(Trace(T), n)
    <3>1. s \in T.completed
      BY <1>4, <1>9
    <3>2. PICK n \in Names : NameOf(Trace(T), s, n) /\ HasCompleted(Trace(T), n)
      BY <1>14, <3>1 DEF StepsShape
    <3>3. n \in RecordedNames(s)
      BY <1>10, <3>2, NameFacts
    <3> QED
      BY <3>2, <3>3
  <2>3. ASSUME NEW sig \in Signals, SignalWaiting(Trace(T), sig)
        PROVE  SignalResolved(Trace(T), sig)
    <3>1. PICK i \in DOMAIN Trace(T) :
                  Trace(T)[i].type = "signal.waiting" /\ Trace(T)[i].name = sig
      BY <2>3 DEF SignalWaiting, Logged
    <3>2. PICK s \in Steps, n \in Names :
                  NameOf(Trace(T), s, n) /\ \E k \in DOMAIN Awaits[n] : Awaits[n][k] = sig
      BY <1>13, <3>1 DEF WaitsHaveSteps
    <3>3. s \in T.completed
      BY <1>4, <1>9
    <3>4. PICK m \in Names : NameOf(Trace(T), s, m) /\ Resolved(T.hist, m)
      BY <1>14, <3>3 DEF StepsShape
    <3>5. m = n
      BY <1>10, <3>2, <3>4, NameFacts
    <3>6. SignalResolved(T.hist, sig)
      BY <3>2, <3>4, <3>5 DEF Resolved
    <3>7. \A type, name : Logged(T.hist, type, name) => Logged(Trace(T), type, name)
      BY <1>0, SessionTypes, GrownLogged DEF Trace
    <3> QED
      BY <3>6, <3>7 DEF SignalResolved, SignalReceived, SignalTimedOut
  <2> QED
    BY <2>1, <2>2, <2>3 DEF EndIsLast
<1>16. CacheKept(T)
  BY <1>3, <1>4, <1>7, <1>8 DEF SessionGood, CacheKept, HasCompleted
<1>17. WaitsKept(T)
  BY <1>2, <1>3, <1>4, <1>8 DEF SessionGood, WaitsKept, SignalWaiting
<1>18. WaveShape(T) /\ Collected(T) /\ CauseKept(T)
  BY <1>2, <1>3, <1>4 DEF SessionGood, WaveShape, Collected, CauseKept
<1>19. SessionGood(T)
  BY <1>2, <1>4, <1>10, <1>11, <1>12, <1>13, <1>14, <1>15, <1>16, <1>17, <1>18
     DEF SessionGood, LogGood
<1> QED
  BY <1>19 DEF T

\* A replay is suspended between two waves, or its context dies.
LEMMA ContextGood ==
    ASSUME TypedSessions, NEW w \in Replayers, SessionGood(sess[w]),
           Suspend(w) \/ CancelContext(w)
    PROVE  SessionGood(sess'[w])
<1> DEFINE S == sess[w]
           T == sess'[w]
<1>0. S \in Session
  BY DEF TypedSessions
<1>1. \/ S.ready = {} /\ S.result = "running" /\ S.ctxDone /\ T = [S EXCEPT !.result = "suspended"]
      \/ S.result = "running" /\ T = [S EXCEPT !.ctxDone = TRUE]
  BY DEF Suspend, BetweenWaves, CancelContext, SetSession, TypedSessions
<1>2. SessionGood(S)
  OBVIOUS
<1> HIDE DEF S, T
<1>3. /\ T.hist = S.hist /\ T.new = S.new /\ T.completed = S.completed
      /\ T.cache = S.cache /\ T.ready = S.ready /\ T.left = S.left /\ T.go = S.go
      /\ T.ctxDone /\ S.result = "running"
      /\ T.result = "running" \/ (T.result = "suspended" /\ S.ready = {})
  BY <1>0, <1>1 DEF Session
<1>4. Trace(T) = Trace(S)
  BY <1>3 DEF Trace
<1>5. WaveShape(T) /\ CacheKept(T) /\ Collected(T) /\ CauseKept(T)
  BY <1>2, <1>3 DEF SessionGood, WaveShape, CacheKept, Collected, CauseKept
<1>6. WaitsKept(T)
  BY <1>2, <1>3 DEF SessionGood, WaitsKept
<1>7. \A s \in T.ready : GoShape(T, s)
  BY <1>2, <1>3, <1>4 DEF SessionGood, GoShape
<1>8. StepsShape(T)
  BY <1>2, <1>3, <1>4 DEF SessionGood, StepsShape, GetOutput
<1>9. SessionGood(T)
  BY <1>2, <1>3, <1>4, <1>5, <1>6, <1>7, <1>8 DEF SessionGood
<1> QED
  BY <1>9 DEF T

\* executeParallel starts a wave of steps whose dependencies are completed.
LEMMA BeginWaveGood ==
    ASSUME TypedSessions, NEW w \in Replayers, SessionGood(sess[w]), BeginWave(w)
    PROVE  SessionGood(sess'[w])
<1> DEFINE S == sess[w]
           T == sess'[w]
           ready == FindReadySteps(S)
           go == [s \in Steps |-> IF s \in ready THEN NewGoroutine ELSE NoGoroutine]
<1>0. S \in Session
  BY DEF TypedSessions
<1>1. S.result = "running" /\ S.ready = {} /\ T = [S EXCEPT !.ready = ready, !.left = ready, !.go = go]
  BY DEF BeginWave, BetweenWaves, SetSession, TypedSessions
<1>2. /\ SessionGood(S)
      /\ \A s \in ready : s \in Steps /\ s \notin S.completed /\ Deps[s] \subseteq S.completed
  BY DEF FindReadySteps
<1>3. /\ \A s \in ready : go[s].pc = "enter" /\ go[s].evs = <<>>
      /\ \A s \in Steps \ ready : go[s].pc = "none"
  BY <1>2 DEF NewGoroutine, NoGoroutine
<1> HIDE DEF S, T, ready, go
<1>4. /\ T.hist = S.hist /\ T.new = S.new /\ T.completed = S.completed
      /\ T.cache = S.cache /\ T.ready = ready /\ T.left = ready /\ T.go = go
      /\ T.ctxDone = S.ctxDone /\ T.result = "running"
  BY <1>0, <1>1 DEF Session
<1>5. Trace(T) = Trace(S)
  BY <1>4 DEF Trace
<1>6. WaveShape(T)
  BY <1>3, <1>4 DEF WaveShape
<1>7. \A s \in T.ready : GoShape(T, s)
  BY <1>3, <1>4 DEF GoShape, BodyPcs
<1>8. StepsShape(T)
  BY <1>2, <1>4, <1>5 DEF SessionGood, StepsShape, GetOutput
<1>9. CacheKept(T)
  BY <1>1, <1>2, <1>4 DEF SessionGood, WaveShape, CacheKept
<1>10. Collected(T) /\ CauseKept(T)
  BY <1>3, <1>4 DEF Collected, CauseKept
<1>11. WaitsKept(T)
  BY <1>1, <1>2, <1>4 DEF SessionGood, WaitsKept
<1>12. SessionGood(T)
  BY <1>1, <1>2, <1>4, <1>5, <1>6, <1>7, <1>8, <1>9, <1>10, <1>11 DEF SessionGood
<1> QED
  BY <1>12 DEF T

\* The verdict on a wave whose results are collected.
LEMMA EndWaveGood ==
    ASSUME TypedSessions, NEW w \in Replayers, SessionGood(sess[w]), EndWave(w)
    PROVE  SessionGood(sess'[w])
<1> DEFINE S == sess[w]
           T == sess'[w]
           verdict == WaveVerdict(S)
<1>0. S \in Session
  BY DEF TypedSessions
<1>1. /\ S.result = "running" /\ S.left = {}
      /\ T = [S EXCEPT !.ready = {}, !.go = NoGoroutines, !.result = verdict]
  BY DEF EndWave, WaveDone, SetSession, TypedSessions
<1>2. /\ SessionGood(S)
      /\ (\E s \in S.ready : S.go[s].pc = "waiting") => verdict = "waiting"
      /\ verdict = "failed" => /\ \A s \in S.ready : S.go[s].pc # "waiting"
                               /\ \E s \in S.ready : S.go[s].pc = "error"
      /\ verdict \in {"waiting", "failed", "running"}
      /\ \A s \in Steps : NoGoroutines[s].pc = "none"
  BY DEF WaveVerdict, NoGoroutines, NoGoroutine
<1> HIDE DEF S, T, verdict
<1>3. /\ T.hist = S.hist /\ T.new = S.new /\ T.completed = S.completed
      /\ T.cache = S.cache /\ T.ready = {} /\ T.left = {} /\ T.go = NoGoroutines
      /\ T.ctxDone = S.ctxDone /\ T.result = verdict
  BY <1>0, <1>1 DEF Session
<1>4. Trace(T) = Trace(S)
  BY <1>3 DEF Trace
<1>5. WaveShape(T)
  BY <1>2, <1>3 DEF WaveShape
<1>6. StepsShape(T)
  BY <1>2, <1>3, <1>4 DEF SessionGood, StepsShape, GetOutput
<1>7. CacheKept(T)
  BY <1>1, <1>2, <1>3 DEF SessionGood, CacheKept
<1>8. CauseKept(T)
  <2> SUFFICES ASSUME ~S.ctxDone, verdict = "failed" PROVE HasCause(Trace(S))
    BY <1>3, <1>4 DEF CauseKept
  <2>1. PICK s \in S.ready : HasCause(S.go[s].evs)
    BY <1>2 DEF SessionGood, CauseKept
  <2>2. \A k \in DOMAIN S.go[s].evs : Has(S.new, S.go[s].evs[k])
    BY <1>1, <1>2 DEF SessionGood, Collected
  <2>3. HasCause(S.new)
    BY <2>1, <2>2 DEF HasCause, Has
  <2> QED
    BY <1>0, <2>3, SessionTypes, GrownLogged DEF Trace
<1>9. WaitsKept(T)
  BY <1>1, <1>2, <1>3 DEF SessionGood, WaitsKept
<1>10. Collected(T)
  BY <1>3 DEF Collected
<1>11. SessionGood(T)
  BY <1>1, <1>2, <1>3, <1>4, <1>5, <1>6, <1>7, <1>8, <1>9, <1>10 DEF SessionGood
<1> QED
  BY <1>11 DEF T

\* A result is collected: the goroutine's events join the new events, and its step
\* is completed if they say so.
LEMMA CollectResultGood ==
    ASSUME TypedSessions, NEW w \in Replayers, NEW s \in Steps,
           SessionGood(sess[w]), CollectResult(w, s)
    PROVE  SessionGood(sess'[w])
<1> DEFINE S == sess[w]
           T == sess'[w]
           g == S.go[s]
           b == g.evs
           completed == IF g.pc = "ok" THEN S.completed \cup {s} ELSE S.completed
<1>0. S \in Session /\ T \in Session
  BY ReplayStepType DEF ReplayStep, TypedSessions
<1>1. /\ S.result = "running" /\ s \in S.left
      /\ \A t \in S.ready : S.go[t].pc \in Returned
      /\ T = [S EXCEPT !.new = @ \o b, !.left = @ \ {s}, !.completed = completed]
  BY DEF CollectResult, WaveDone, Returned, SetSession, TypedSessions
<1>2. /\ SessionGood(S) /\ b \in Seq(Event) /\ S.new \in Seq(Event) /\ S.hist \in Seq(Event)
      /\ Trace(S) \in Seq(Event)
  BY <1>0, SessionTypes
<1> HIDE DEF S, T, completed
<1>3. /\ T.hist = S.hist /\ T.new = S.new \o b /\ T.completed = completed
      /\ T.cache = S.cache /\ T.ready = S.ready /\ T.left = S.left \ {s} /\ T.go = S.go
      /\ T.ctxDone = S.ctxDone /\ T.result = S.result
  BY <1>0, <1>1 DEF Session
<1>4. Trace(T) = Trace(S) \o b
  BY <1>0, <1>2, <1>3, TraceGrows
<1>5. s \in S.ready /\ s \notin S.completed /\ GoShape(S, s) /\ LogGood(Trace(S)) /\ Open(Trace(S))
  BY <1>1, <1>2 DEF SessionGood, WaveShape, StepsShape
\* What the events say of the step.
<1>6. \A k \in DOMAIN b :
         /\ b[k].name = g.name
         /\ b[k].type \in {"step.started", "step.failed", "step.completed"}
         /\ b[k].type = "step.completed" => g.pc = "ok" /\ k = Len(b)
         /\ g.name \in Names /\ NameOf(Trace(S), s, g.name)
  <2>1. \A k \in DOMAIN b : b # <<>>
    BY <1>2
  <2> QED
    BY <1>5, <2>1 DEF GoShape
<1>7. g.pc = "ok" =>
         /\ HasCompleted(b, g.name) /\ g.name \in S.cache /\ Resolved(S.hist, g.name)
         /\ Cases[s] # {} => g.name # s
         /\ g.name \in Names /\ NameOf(Trace(S), s, g.name)
  BY <1>5 DEF GoShape
<1>8. /\ g.name \in Names /\ NameOf(Trace(S), s, g.name) => g.name \in RecordedNames(s)
      /\ g.pc = "ok" /\ g.name \in Steps => g.name = s /\ Cases[s] = {}
  BY <1>5, <1>7, NameFacts DEF LogGood
<1> HIDE DEF b, g
<1>9. /\ \A type, name : Logged(Trace(S), type, name) => Logged(Trace(T), type, name)
      /\ \A type, name : Logged(b, type, name) => Logged(Trace(T), type, name)
      /\ \A type, name : Logged(Trace(T), type, name) =>
                            Logged(Trace(S), type, name) \/ Logged(b, type, name)
      /\ \A t, n : NameOf(Trace(S), t, n) => NameOf(Trace(T), t, n)
  BY <1>2, <1>4, GrownLogged
<1>10. /\ \A type, name : Logged(S.new, type, name) => Logged(T.new, type, name)
       /\ \A type, name : Logged(b, type, name) => Logged(T.new, type, name)
       /\ \A type, name : Logged(T.new, type, name) =>
                             Logged(S.new, type, name) \/ Logged(b, type, name)
       /\ \A e : Has(S.new, e) => Has(T.new, e)
       /\ \A e : Has(b, e) => Has(T.new, e)
  BY <1>2, <1>3, GrownLogged
<1>11. DoneOnce(Trace(T))
  <2>1. \A n : Resolved(S.hist, n) => Resolved(Trace(S), n)
    BY <1>2, GrownLogged DEF Trace
  <2>2. s \in Steps /\ ~HasCompleted(Trace(S), s)
    BY <1>2, <1>5 DEF SessionGood, StepsShape
  <2>3. ASSUME NEW k \in DOMAIN b, b[k].type = "step.completed"
        PROVE  /\ b[k].name \in Names
               /\ Resolved(Trace(S), b[k].name)
               /\ b[k].name \in Steps =>
                     /\ Cases[b[k].name] = {}
                     /\ ~HasCompleted(Trace(S), b[k].name)
                     /\ \A m \in DOMAIN b :
                           b[m].type = "step.completed" /\ b[m].name = b[k].name => m = k
    BY <1>6, <1>7, <1>8, <2>1, <2>2, <2>3
  <2> QED
    BY <1>2, <1>4, <1>5, <2>3, DoneOnceGrows DEF LogGood
<1>12. DecidedOnce(Trace(T))
  BY <1>2, <1>4, <1>5, <1>6, DecidedOnceGrows DEF LogGood
<1>13. StartsAfterDeps(Trace(T))
  <2>1. ASSUME NEW d \in Deps[s] PROVE StepDone(Trace(S), d)
    <3>1. d \in S.completed /\ d \in Steps
      BY <1>2, <1>5, DepsAssumption DEF SessionGood, StepsShape
    <3>2. PICK n \in Names : NameOf(Trace(S), d, n) /\ HasCompleted(Trace(S), n)
      BY <1>2, <3>1 DEF SessionGood, StepsShape
    <3>3. n \in RecordedNames(d)
      BY <1>5, <3>1, <3>2, NameFacts DEF LogGood
    <3> QED
      BY <3>2, <3>3 DEF StepDone
  <2>2. ASSUME NEW k \in DOMAIN b, b[k].type = "step.started"
        PROVE  \E t \in Steps : b[k].name \in RecordedNames(t) /\ \A d \in Deps[t] : StepDone(Trace(S), d)
    BY <1>6, <1>8, <2>1
  <2> QED
    BY <1>2, <1>4, <1>5, <2>2, StartsGrow DEF LogGood
<1>14. WaitsHaveSteps(Trace(T))
  BY <1>2, <1>4, <1>5, <1>6, WaitsGrow DEF LogGood
<1>15. Open(Trace(T)) /\ EndIsLast(Trace(T))
  <2>1. Open(b)
    BY <1>6 DEF Open
  <2> QED
    BY <1>2, <1>4, <1>5, <2>1, StaysOpen
<1>16. WaveShape(T)
  BY <1>1, <1>2, <1>3 DEF SessionGood, WaveShape
<1>17. \A t \in T.ready : GoShape(T, t)
  BY <1>2, <1>3, <1>9 DEF SessionGood, GoShape
<1>18. StepsShape(T)
  <2>1. ASSUME NEW t \in T.completed
        PROVE  \E n \in Names :
                  /\ NameOf(Trace(T), t, n)
                  /\ HasCompleted(Trace(T), n)
                  /\ GetOutput(T, n)
                  /\ Resolved(T.hist, n)
                  /\ Cases[t] # {} => n # t
    <3>1. CASE t \in S.completed
      BY <1>2, <1>3, <1>9, <3>1 DEF SessionGood, StepsShape, GetOutput, HasCompleted
    <3>2. CASE t = s /\ g.pc = "ok"
      <4>1. /\ NameOf(Trace(T), s, g.name) /\ HasCompleted(Trace(T), g.name)
            /\ GetOutput(T, g.name) /\ Resolved(T.hist, g.name)
        BY <1>3, <1>7, <1>9, <3>2 DEF HasCompleted, GetOutput
      <4> QED
        BY <1>7, <3>2, <4>1
    <3> QED
      BY <1>3, <2>1, <3>1, <3>2 DEF completed
  <2>2. ASSUME NEW t \in Steps, HasCompleted(Trace(T), t) PROVE t \in T.completed
    <3>1. CASE HasCompleted(Trace(S), t)
      BY <1>2, <1>3, <3>1 DEF SessionGood, StepsShape, completed
    <3>2. CASE HasCompleted(b, t)
      <4>1. g.pc = "ok" /\ t = g.name
        BY <1>6, <3>2 DEF HasCompleted, Logged
      <4> QED
        BY <1>3, <1>8, <4>1 DEF completed
    <3> QED
      BY <1>9, <2>2, <3>1, <3>2 DEF HasCompleted
  <2>3. /\ \A t \in T.ready : Deps[t] \subseteq T.completed
        /\ T.left \cap T.completed = {}
    BY <1>2, <1>3 DEF SessionGood, StepsShape, completed
  <2> QED
    BY <2>1, <2>2, <2>3 DEF StepsShape
<1>19. CacheKept(T)
  <2> SUFFICES ASSUME NEW n \in T.cache
               PROVE  HasCompleted(T.new, n) \/ \E t \in T.left : HasCompleted(T.go[t].evs, n)
    BY DEF CacheKept
  <2>1. HasCompleted(S.new, n) \/ \E t \in S.left : HasCompleted(S.go[t].evs, n)
    BY <1>2, <1>3 DEF SessionGood, CacheKept
  <2>2. HasCompleted(S.go[s].evs, n) => HasCompleted(T.new, n)
    BY <1>10 DEF HasCompleted, b, g
  <2> QED
    BY <1>3, <1>10, <2>1, <2>2 DEF HasCompleted
<1>20. Collected(T)
  <2> SUFFICES ASSUME NEW t \in T.ready \ T.left, NEW k \in DOMAIN T.go[t].evs
               PROVE  Has(T.new, T.go[t].evs[k])
    BY DEF Collected
  <2>1. CASE t = s
    <3>1. Has(b, T.go[t].evs[k])
      BY <1>3, <2>1 DEF Has, b, g
    <3> QED
      BY <1>10, <3>1
  <2>2. CASE t # s
    BY <1>2, <1>3, <1>10, <2>2 DEF SessionGood, Collected
  <2> QED
    BY <2>1, <2>2
<1>21. CauseKept(T)
  BY <1>1, <1>2, <1>3 DEF SessionGood, CauseKept
<1>22. WaitsKept(T)
  <2>1. \A sig : ~SignalWaiting(b, sig)
    BY <1>6 DEF SignalWaiting, Logged
  <2> QED
    BY <1>2, <1>3, <1>10, <2>1 DEF SessionGood, WaitsKept, SignalWaiting
<1>23. SessionGood(T)
  BY <1>11, <1>12, <1>13, <1>14, <1>15, <1>16, <1>17, <1>18, <1>19, <1>20, <1>21, <1>22
     DEF SessionGood, LogGood
<1> QED
  BY <1>23 DEF T
\* A step of a replay, of the bodies' calls or of its context.
LEMMA ReplayGood ==
    ASSUME TypedSessions, NEW w \in Replayers, SessionGood(sess[w]),
           ReplayStep(w) \/ ChildStep(w) \/ CancelContext(w)
    PROVE  SessionGood(sess'[w])
<1>1. CASE \E s \in Steps : GoStep(w, s)
  <2> PICK s \in Steps : GoStep(w, s)
    BY <1>1
  <2> QED
    BY GoContextErrorGood, EnterStepGood, EnterBranchGood, StartAttemptGood,
       StepSucceedsGood, StepWaitsGood, StepFailsGood DEF GoStep
<1>2. CASE \E s \in Steps : CollectResult(w, s)
  BY <1>2, CollectResultGood
<1>3. CASE ReplayStep(w)
  BY <1>1, <1>2, <1>3, ContextGood, CompleteReplayGood, BeginWaveGood, EndWaveGood
     DEF ReplayStep
<1>4. CASE ChildStep(w)
  <2>1. sess[w] \in Session /\ sess'[w] \in Session
    BY <1>4, ChildStepType DEF TypedSessions
  <2>2. PICK s \in Steps : InBodyMove(sess[w], sess'[w], s)
    BY <1>4, ChildStepMoves
  <2> QED
    BY <2>1, <2>2, BodyMoveKeeps
<1> QED
  BY <1>3, <1>4, ContextGood

\* An empty history has everything that a history must have.
LEMMA EmptyGood == LogGood(<<>>) /\ Open(<<>>)
  BY DEF LogGood, Open, DoneOnce, DecidedOnce, StartsAfterDeps, WaitsHaveSteps, EndIsLast

\* A worker without a replay.
LEMMA NoSessionGood == SessionGood(NoSession)
<1>1. /\ NoSession.hist = <<>> /\ NoSession.new = <<>> /\ NoSession.completed = {}
      /\ NoSession.cache = {} /\ NoSession.ready = {} /\ NoSession.left = {}
      /\ NoSession.result = "idle"
      /\ \A s \in Steps : NoSession.go[s].pc = "none"
  BY DEF NoSession, NoGoroutines, NoGoroutine
<1>2. Trace(NoSession) = <<>>
  BY <1>1 DEF Trace
<1>3. \A type, name : ~Logged(<<>>, type, name)
  BY DEF Logged
<1> QED
  BY <1>1, <1>2, <1>3, EmptyGood DEF SessionGood, WaveShape, StepsShape, CacheKept, Collected,
     CauseKept, WaitsKept, HasCompleted, SignalWaiting

\* NewReplayer, on a history that is neither completed nor cancelled: what the
\* history has is what the replay takes as done.
LEMMA NewReplayerGood ==
    ASSUME NEW h \in Seq(Event), LogGood(h), ~IsCancelled(h), ~IsCompleted(h)
    PROVE  SessionGood(NewReplayer(h))
<1> DEFINE S == NewReplayer(h)
           b == IF GetWorkflowInput(h) THEN <<>> ELSE << Ev("workflow.started", None) >>
<1>1. /\ S.hist = h /\ S.new = b /\ S.completed = {s \in Steps : HasCompleted(h, s)}
      /\ S.cache = {} /\ S.ready = {} /\ S.left = {} /\ S.ctxDone = FALSE
      /\ S.result = IF \E s \in Steps : GetFatalError(h, s) THEN "failed" ELSE "running"
      /\ \A s \in Steps : S.go[s].pc = "none"
  BY DEF NewReplayer, NoSession, NoGoroutines, NoGoroutine
<1>2. /\ b \in Seq(Event)
      /\ \A k \in DOMAIN b : b[k].type = "workflow.started"
  <2> DEFINE e == Ev("workflow.started", None)
  <2>1. e \in ReplayerEvent /\ e.type = "workflow.started"
    BY EvTypes DEF Ev, EvData
  <2> HIDE DEF e
  <2>2. << e >> \in Seq(Event) /\ \A k \in DOMAIN << e >> : << e >>[k] = e
    BY <2>1, OneEvent
  <2>3. <<>> \in Seq(Event) /\ DOMAIN <<>> = {}
    OBVIOUS
  <2>4. b = <<>> \/ b = << e >>
    BY DEF e
  <2> QED
    BY <2>1, <2>2, <2>3, <2>4
<1> HIDE DEF S, b
<1>3. Trace(S) = h \o b
  BY <1>1 DEF Trace
<1>4. Open(h)
  BY DEF LogGood, EndIsLast, IsCompleted, Logged, Open
<1>5. LogGood(h \o b) /\ Open(h \o b)
  BY <1>2, <1>4, NeutralGrows DEF Telling
<1>6. /\ \A type, name : Logged(h, type, name) => Logged(h \o b, type, name)
      /\ \A type, name : Logged(b, type, name) => type = "workflow.started"
      /\ \A type, name : Logged(h \o b, type, name) =>
                            Logged(h, type, name) \/ Logged(b, type, name)
      /\ HasCause(h) => HasCause(h \o b)
  <2>1. \A type, name : Logged(b, type, name) => type = "workflow.started"
    BY <1>2 DEF Logged
  <2> QED
    BY <1>2, <2>1, GrownLogged
<1>7. StepsShape(S)
  <2>1. ASSUME NEW s \in S.completed
        PROVE  \E n \in Names :
                  /\ NameOf(Trace(S), s, n)
                  /\ HasCompleted(Trace(S), n)
                  /\ GetOutput(S, n)
                  /\ Resolved(S.hist, n)
                  /\ Cases[s] # {} => n # s
    <3>1. s \in Steps /\ HasCompleted(h, s)
      BY <1>1
    <3>2. s \in Names /\ Resolved(h, s) /\ Cases[s] = {}
      BY <3>1 DEF LogGood, DoneOnce, HasCompleted, Logged
    <3> QED
      BY <1>1, <1>3, <1>6, <3>1, <3>2 DEF NameOf, GetOutput, HasCompleted
  <2>2. \A s \in Steps : HasCompleted(Trace(S), s) => s \in S.completed
    BY <1>1, <1>3, <1>6 DEF HasCompleted
  <2> QED
    BY <1>1, <2>1, <2>2 DEF StepsShape
<1>8. CauseKept(S)
  BY <1>1, <1>3, <1>6 DEF CauseKept, GetFatalError, HasCause
<1>9. WaitsKept(S)
  BY <1>1, <1>6 DEF WaitsKept, SignalWaiting
<1>10. WaveShape(S) /\ CacheKept(S) /\ Collected(S) /\ \A s \in S.ready : GoShape(S, s)
  BY <1>1 DEF WaveShape, CacheKept, Collected
<1>11. SessionGood(S)
  BY <1>3, <1>5, <1>7, <1>8, <1>9, <1>10 DEF SessionGood
<1> QED
  BY <1>11 DEF S
=============================================================================
