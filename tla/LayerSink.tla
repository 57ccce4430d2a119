----------------------------- MODULE LayerSink -----------------------------
(***************************************************************************)
(* What conversions promise about their target, whatever the driver and    *)
(* whatever runs beside them: a load becomes durable in the order of the   *)
(* source, one transaction at a time, and a transaction only ever ends at  *)
(* one of the load's `cuts`; success is only ever reported of a load that  *)
(* is durable to the last row; nothing becomes durable once the result is  *)
(* known.                                                                  *)
(*                                                                         *)
(* A load is measured in whatever the driver's model counts, rows or       *)
(* batches.                                                                *)
(***************************************************************************)
EXTENDS Naturals

CONSTANTS Procs,    \* the conversions
          Size      \* the measure of a whole load

VARIABLES cuts,     \* cuts[p]: where a transaction of p may end
          loaded,   \* loaded[p]: how much of the load of p is durable
          result    \* result[p]: "none" while p runs, then "ok" or "err"

vars == <<cuts, loaded, result>>

Init == /\ cuts \in [Procs -> {C \in SUBSET (0..Size) : Size \in C}]
        /\ loaded = [p \in Procs |-> 0]
        /\ result = [p \in Procs |-> "none"]

\* c is the first cut after what is durable.
IsNextCut(p, c) == /\ loaded[p] < c
                   /\ \A d \in cuts[p] : d <= loaded[p] \/ c <= d

Advance(p) == \E c \in cuts[p] : /\ IsNextCut(p, c)
                                 /\ loaded' = [loaded EXCEPT ![p] = c]

\* A transaction commits and the load goes on.
Commit(p) == /\ result[p] = "none" /\ Advance(p)
             /\ UNCHANGED <<cuts, result>>

\* The command exits with status 0.
Succeed(p) == /\ result[p] = "none" /\ loaded[p] = Size
              /\ result' = [result EXCEPT ![p] = "ok"]
              /\ UNCHANGED <<cuts, loaded>>

\* The command fails or is killed: the transaction under way is rolled back,
\* or had been committed by the server when its answer was lost.
Fail(p) == /\ result[p] = "none"
           /\ result' = [result EXCEPT ![p] = "err"]
           /\ UNCHANGED loaded \/ Advance(p)
           /\ UNCHANGED cuts

Step(p) == Commit(p) \/ Succeed(p) \/ Fail(p)

Next == \E p \in Procs : Step(p)

\* Every command ends.
Spec == Init /\ [][Next]_vars /\ \A p \in Procs : WF_vars(Step(p))
============================================================================
