------------------------------ MODULE EventLog ------------------------------
(***************************************************************************)
(* What event.EventStore promises (event/store.go): each run has a log     *)
(* whose events are numbered 1, 2, 3, ... without a gap; a write adds      *)
(* whole batches at the end of logs and changes nothing that is there.     *)
(***************************************************************************)
EXTENDS Integers, Sequences

CONSTANTS Runs,     \* run ids
          Entries   \* what a log holds

VARIABLE log

Init == log = [r \in Runs |-> <<>>]

Extends(new, old) ==
    /\ new \in Seq(Entries)
    /\ Len(old) <= Len(new)
    /\ SubSeq(new, 1, Len(old)) = old

AppendBatch == DOMAIN log' = Runs /\ \A r \in Runs : Extends(log'[r], log[r])

Spec == Init /\ [][AppendBatch]_log
=============================================================================
