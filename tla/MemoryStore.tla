---------------------------- MODULE MemoryStore -----------------------------
(***************************************************************************)
(* The in-memory event store (event/memory/store.go).  One mutex makes     *)
(* every operation a single step: a batch is checked as a whole against    *)
(* the logs of its runs and then appended as a whole, or refused.          *)
(*                                                                         *)
(* offered is the environment's: the batches that callers may present now. *)
(* A batch is a sequence of records with at least a run and a seq; ids are *)
(* fresh (uuid.New), so the check for duplicate ids is left out.           *)
(***************************************************************************)
EXTENDS Integers, Sequences, FiniteSets

CONSTANT Runs       \* run ids

VARIABLES events,   \* events[r]: the log of run r
          offered   \* the batches that callers may present

Init == events = [r \in Runs |-> <<>>]

\* int64(len(s.events[runID]))
GetLastSequence(r) == Len(events[r])

\* Mutant: each event is compared with the log, not with the batch before it.
ValidEach(b) == \A i \in DOMAIN b : b[i].seq = GetLastSequence(b[i].run) + 1

\* The events of each run are numbered on from the end of its log, in the
\* order of the batch, whatever events of other runs come in between.
Valid(b) ==
    \A i \in DOMAIN b :
        b[i].seq = GetLastSequence(b[i].run) + Cardinality({j \in 1 .. i : b[j].run = b[i].run})

\* The logs after the loop that appends the events of a batch one by one.
Appended(b) ==
    LET logs[i \in 0 .. Len(b)] ==
            IF i = 0 THEN events ELSE [logs[i - 1] EXCEPT ![b[i].run] = Append(@, b[i])]
    IN  logs[Len(b)]

\* AppendBatch; Append is a batch of one event.
AppendBatch(b) ==
    /\ Valid(b)
    /\ events' = Appended(b)

\* A refused batch, an empty one and the reads leave the store as it is.
Spec == Init /\ [][\E b \in offered : AppendBatch(b)]_events
=============================================================================
