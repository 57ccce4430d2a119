---------------------------- MODULE LayerStream ----------------------------
(***************************************************************************)
(* What LayerReader::batches() promises its caller, whatever the driver:   *)
(* an iterator that yields the rows of the layer once each and in order,   *)
(* in full batches but for the last one, and that then ends, unless it     *)
(* fails or the caller drops it first.  "The end" is only ever said of a   *)
(* layer all of whose rows were yielded.                                   *)
(***************************************************************************)
EXTENDS Naturals, Sequences

CONSTANT BatchSize    \* rows of a full batch, at least 1

VARIABLES rows,       \* rows of the layer, numbered 1..rows in stream order
          seen,       \* the rows the caller was given, in order
          outcome     \* "open", or how the iteration finished

vars == <<rows, seen, outcome>>

Outcomes == {"open", "end", "err", "cancelled"}

\* The n rows that follow the first k ones.
RowsAfter(k, n) == [i \in 1..n |-> k + i]

Init == rows \in Nat /\ seen = <<>> /\ outcome = "open"

\* One call of next() that returns Some(Ok(batch)).
Yield == /\ outcome = "open"
         /\ \E n \in 1..BatchSize :
              /\ Len(seen) + n <= rows
              /\ n = BatchSize \/ Len(seen) + n = rows
              /\ seen' = seen \o RowsAfter(Len(seen), n)
         /\ UNCHANGED <<rows, outcome>>

\* next() returns None.
End == /\ outcome = "open"
       /\ Len(seen) = rows
       /\ outcome' = "end"
       /\ UNCHANGED <<rows, seen>>

\* next() returns Some(Err(_)).
Fail == outcome = "open" /\ outcome' = "err" /\ UNCHANGED <<rows, seen>>

\* The caller drops the iterator, or the reader before it asked for one.
Cancel == outcome = "open" /\ outcome' = "cancelled" /\ UNCHANGED <<rows, seen>>

Next == Yield \/ End \/ Fail \/ Cancel

\* The iteration does not stall: some call of next() finishes it.
Spec == Init /\ [][Next]_vars /\ WF_vars(Next)
============================================================================
