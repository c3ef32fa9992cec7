---------------------------- MODULE Projections -----------------------------
(***************************************************************************)
(* The projections that dashboards show (project/project.go): folds of a   *)
(* run's events into its status, the invocations and counts of its steps,  *)
(* its children and its timeline, evaluated on the logs that the runner    *)
(* produces.  Timestamps, durations, messages and errors are left out.     *)
(*                                                                         *)
(* Where the code takes any entry of a Go map, the fold keeps the set of   *)
(* all its possible results.                                               *)
(***************************************************************************)
EXTENDS Runner, FiniteSets

CONSTANT Spelling   \* Spelling[n]: the bytes of the name n of a step or a case step

\* Names spelled alike are one name; Define refuses no other.
ASSUME SpellingAssumption ==
    /\ Spelling \in [Names -> Seq(0 .. 255)]
    /\ \A m, n \in Names : Spelling[m] = Spelling[n] => m = n

\* The loop of every projection: step on the events of h, from base on.
Project(step(_, _), base, h) ==
    LET acc[i \in 0 .. Len(h)] == IF i = 0 THEN base ELSE step(acc[i - 1], h[i])
    IN  acc[Len(h)]

-----------------------------------------------------------------------------
(* RunStatus: the last terminal event counts, and a wait that nothing has  *)
(* resolved, of whatever signal.                                           *)

\* Mutant: a cancellation is not looked at.
RunStatusStepNoCancel(r, e) ==
    CASE e.type = "workflow.completed" -> [r EXCEPT !.status = "completed"]
      [] e.type = "workflow.failed"    -> [r EXCEPT !.status = "failed"]
      [] e.type = "signal.waiting"     -> [r EXCEPT !.sig = e.name]
      [] e.type \in {"signal.received", "signal.timeout"} -> [r EXCEPT !.sig = None]
      [] OTHER -> r

RunStatusStep(r, e) ==
    CASE e.type = "workflow.completed" -> [r EXCEPT !.status = "completed"]
      [] e.type = "workflow.failed"    -> [r EXCEPT !.status = "failed"]
      [] e.type = "workflow.cancelled" -> [r EXCEPT !.status = "cancelled"]
      [] e.type = "signal.waiting"     -> [r EXCEPT !.sig = e.name]
      [] e.type \in {"signal.received", "signal.timeout"} -> [r EXCEPT !.sig = None]
      [] OTHER -> r

RunStatus(h) ==
    LET r == Project(RunStatusStep, [status |-> "running", sig |-> None], h)
    IN  IF h = <<>> THEN "pending"
        ELSE IF r.sig # None /\ r.status = "running" THEN "waiting"
        ELSE r.status

-----------------------------------------------------------------------------
(* StepInvocations and StepCounts.  Both keep a map of the attempts that   *)
(* have not ended, by a string made of the step's name and the attempt.    *)
(* The string is modelled byte by byte, since StepCounts reads the attempt *)
(* back from it.                                                           *)

Colon == 58

\* string(rune('0' + attempt)): what is no code point becomes U+FFFD.
Rune(attempt) ==
    LET c == 48 + attempt
    IN  IF c < 55296 \/ (57343 < c /\ c < 1114112) THEN c ELSE 65533

UTF8(c) ==
    LET Byte(d) == 128 + ((c \div d) % 64)
    IN  IF c < 128 THEN <<c>>
        ELSE IF c < 2048 THEN <<192 + (c \div 64), Byte(1)>>
        ELSE IF c < 65536 THEN <<224 + (c \div 4096), Byte(64), Byte(1)>>
        ELSE <<240 + (c \div 262144), Byte(4096), Byte(64), Byte(1)>>

StepAttemptKey(n, attempt) == Spelling[n] \o <<Colon>> \o UTF8(Rune(attempt))

\* An attempt without a number is the first.
StartedKey(e) == StepAttemptKey(e.name, IF e.attempt = 0 THEN 1 ELSE e.attempt)

\* What findRunningAttempt may return: a byte of any key that begins with the
\* name and a colon, 0 if there is none.
FindRunningAttempt(keys, n) ==
    LET len   == Len(Spelling[n])
        found == {k \in keys : /\ Len(k) > len + 1
                               /\ SubSeq(k, 1, len) = Spelling[n]
                               /\ k[len + 1] = Colon}
    IN  IF found = {} THEN {0} ELSE {(k[len + 2] - 48) % 256 : k \in found}

\* What findPendingAttempt may return.
FindPendingAttempt(pending, n) ==
    LET found == {k \in DOMAIN pending : pending[k].name = n}
    IN  IF found = {} THEN {0} ELSE {pending[k].attempt : k \in found}

\* The status that the end of an attempt gives its invocation.
Outcome(e) ==
    IF e.type = "step.completed" THEN "completed"
    ELSE IF e.data = "willRetry" THEN "retrying" ELSE "failed"

\* An attempt starts: at is the position of its invocation in the list.
InvocationStarts(v, e) ==
    [list    |-> Append(v.list, [name |-> e.name, status |-> "started"]),
     pending |-> [k \in DOMAIN v.pending \cup {StartedKey(e)} |->
                    IF k = StartedKey(e)
                    THEN [name |-> e.name, attempt |-> IF e.attempt = 0 THEN 1 ELSE e.attempt,
                          at |-> Len(v.list) + 1]
                    ELSE v.pending[k]]]

\* The attempt ends, if it is pending; 0 is no attempt, and no key has it.
InvocationEnds(v, e, attempt) ==
    LET key == StepAttemptKey(e.name, attempt)
    IN  IF attempt # 0 /\ key \in DOMAIN v.pending
        THEN [list    |-> [v.list EXCEPT ![v.pending[key].at].status = Outcome(e)],
              pending |-> [k \in DOMAIN v.pending \ {key} |-> v.pending[k]]]
        ELSE v

\* Mutant: one attempt is pending at a time, under any number.
InvocationsStepAnyAttempt(v, e) ==
    CASE e.type = "step.started" ->
           {[InvocationStarts(v, e) EXCEPT !.pending = [k \in {StartedKey(e)} |-> @[k]]]}
      [] e.type = "step.completed" ->
           {InvocationEnds(v, e, attempt) : attempt \in FindPendingAttempt(v.pending, e.name)}
      [] e.type = "step.failed" -> {InvocationEnds(v, e, 1)}
      [] OTHER -> {v}

\* A failure names its attempt, a completion takes any of the step's.
InvocationsStep(v, e) ==
    CASE e.type = "step.started" -> {InvocationStarts(v, e)}
      [] e.type = "step.completed" ->
           {InvocationEnds(v, e, attempt) : attempt \in FindPendingAttempt(v.pending, e.name)}
      [] e.type = "step.failed" -> {InvocationEnds(v, e, e.attempt)}
      [] OTHER -> {v}

\* The lists of invocations that StepInvocations may return.
StepInvocations(h) ==
    {v.list : v \in Project(LAMBDA vs, e : UNION {InvocationsStep(v, e) : v \in vs},
                             {[list |-> <<>>, pending |-> <<>>]}, h)}

NoCounts == [n \in Names |-> [total |-> 0, completed |-> 0, failed |-> 0, running |-> 0]]

CountStart(counts, n) == [counts EXCEPT ![n].total = @ + 1, ![n].running = @ + 1]

\* A failed attempt counts as failed whether it will be retried or not.
CountEnd(counts, e) ==
    IF e.type = "step.completed"
    THEN [counts EXCEPT ![e.name].running = @ - 1, ![e.name].completed = @ + 1]
    ELSE [counts EXCEPT ![e.name].running = @ - 1, ![e.name].failed = @ + 1]

\* The attempt ends, if it is running.
CountEnds(c, e, attempt) ==
    LET key == StepAttemptKey(e.name, attempt)
    IN  IF attempt # 0 /\ key \in c.keys
        THEN [counts |-> CountEnd(c.counts, e), keys |-> c.keys \ {key}]
        ELSE c

CountsStep(c, e) ==
    CASE e.type = "step.started" ->
           {[counts |-> CountStart(c.counts, e.name), keys |-> c.keys \cup {StartedKey(e)}]}
      [] e.type = "step.completed" ->
           {CountEnds(c, e, attempt) : attempt \in FindRunningAttempt(c.keys, e.name)}
      [] e.type = "step.failed" -> {CountEnds(c, e, e.attempt)}
      [] OTHER -> {c}

\* The counts that StepCounts may return.
StepCounts(h) ==
    {c.counts : c \in Project(LAMBDA cs, e : UNION {CountsStep(c, e) : c \in cs},
                               {[counts |-> NoCounts, keys |-> {}]}, h)}

-----------------------------------------------------------------------------
(* ChildWorkflows and Timeline.                                            *)

\* Mutant: the end of a child is matched with any child that runs.
ChildrenStepAny(v, e) ==
    CASE e.type = "child.spawned" ->
           Append(v, [child |-> e.child, status |-> "running"])
      [] e.type \in {"child.completed", "child.failed"}
           /\ \E i \in DOMAIN v : v[i].status = "running" ->
           LET i == CHOOSE i \in DOMAIN v : v[i].status = "running"
           IN  [v EXCEPT ![i].status = IF e.type = "child.failed" THEN "failed" ELSE "completed"]
      [] OTHER -> v

\* The end of a child is matched with the last spawn of its id, if that one is
\* still pending.
LastSpawn(v, id) == {i \in DOMAIN v : v[i].child = id /\ \A j \in i + 1 .. Len(v) : v[j].child # id}

ChildrenStep(v, e) ==
    CASE e.type = "child.spawned" ->
           Append(v, [child |-> e.child, status |-> "running"])
      [] e.type \in {"child.completed", "child.failed"} ->
           [i \in DOMAIN v |->
              IF i \in LastSpawn(v, e.child) /\ v[i].status = "running"
              THEN [v[i] EXCEPT !.status = IF e.type = "child.failed" THEN "failed" ELSE "completed"]
              ELSE v[i]]
      [] OTHER -> v

ChildWorkflows(h) == Project(ChildrenStep, <<>>, h)

\* The events that Timeline turns into entries, in the order of the log: no
\* branches and no maps.
TimelineTypes == EventTypes \ {"branch.evaluated", "map.started", "map.completed", "map.failed"}

TimelineStep(t, e) == IF e.type \in TimelineTypes THEN Append(t, e) ELSE t

Timeline(h) == Project(TimelineStep, <<>>, h)

-----------------------------------------------------------------------------
(* What the views must show.  A replay does not change the log, so it is   *)
(* enough to look at it while no replay is under way.                      *)

AtRest == \A w \in Workers : wk[w].pc # "replay"

Count(h, type, n) == Cardinality({i \in DOMAIN h : h[i].type = type /\ h[i].name = n})

\* The two independent computations of a run's status, RunStatus of the
\* projections and GetRun of the runner, agree on every log that the runner
\* produces, as long as no signal timed out: GetRun knows no timeout and goes on
\* showing the wait, so from then on only the end of the run is compared.
RunStatusAgrees ==
    AtRest =>
        IF \E sig \in Signals : SignalTimedOut(log, sig)
        THEN \A status \in {"completed", "failed", "cancelled"} :
                 RunStatus(log) = status <=> GetRun(log) = status
        ELSE RunStatus(log) = GetRun(log)

\* The name m begins with the name n and a colon.
Continues(m, n) ==
    /\ Len(Spelling[m]) > Len(Spelling[n])
    /\ SubSeq(Spelling[m], 1, Len(Spelling[n])) = Spelling[n]
    /\ Spelling[m][Len(Spelling[n]) + 1] = Colon

\* However often steps were retried, resumed and run again, and whichever entry
\* of its maps the code takes first, no end of an attempt is lost: StepCounts
\* and StepInvocations agree with each other and with the log.  Failures are
\* counted as the code and its tests do, also those that are retried.  It holds
\* in a workflow where no name Continues another and no step has 80 attempts, and
\* not in others (CompletionsCounted).
CountsAgree ==
    AtRest =>
        \A counts \in StepCounts(log) : \A list \in StepInvocations(log) : \A n \in Names :
            LET Shown(status) ==
                    Cardinality({i \in DOMAIN list : list[i].name = n /\ list[i].status \in status})
            IN  /\ counts[n].total = Shown({"started", "completed", "failed", "retrying"})
                /\ counts[n].running = Shown({"started"})
                /\ counts[n].completed = Shown({"completed"})
                /\ counts[n].completed = Count(log, "step.completed", n)
                /\ counts[n].failed = Shown({"failed", "retrying"})
                /\ counts[n].failed = Count(log, "step.failed", n)

\* The children spawned, in the order of their events.
SpawnedStep(ids, e) == IF e.type = "child.spawned" THEN Append(ids, e.child) ELSE ids

\* Every child that the log has is shown once, with the outcome that the log has
\* for it and never as running, and the timeline shows the spawns in that order.
ChildrenShown ==
    AtRest =>
        LET v       == ChildWorkflows(log)
            spawned == Project(SpawnedStep, <<>>, Timeline(log))
        IN  /\ Len(v) = Len(spawned)
            /\ \A i \in DOMAIN v :
                  /\ v[i].child = spawned[i]
                  /\ v[i].status = "completed" <=> Settled(log, "child.completed", v[i].child)
                  /\ v[i].status = "failed" <=> Settled(log, "child.failed", v[i].child)
                  /\ v[i].status # "running"

-----------------------------------------------------------------------------
(* What a comment says of StepCounts and the code does not keep.           *)

\* "Completed int // Successfully completed": each completion that the log has is
\* counted for its step, since findRunningAttempt looks "for any running attempt
\* for this step" (project/project.go, StepCountResult, findRunningAttempt).
CompletionsCounted ==
    AtRest => \A counts \in StepCounts(log) : \A n \in Names :
        counts[n].completed = Count(log, "step.completed", n)
=============================================================================
