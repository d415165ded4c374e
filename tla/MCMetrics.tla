----------------------------- MODULE MCMetrics -----------------------------
(***************************************************************************)
(* Metrics with a request that fails, one that does not and differs in what *)
(* it adds to each counter.                                                 *)
(***************************************************************************)
EXTENDS Metrics, TLC

MCCost == {[requests |-> 1, bytes |-> 2, latencySum |-> 1, errors |-> 0],
           [requests |-> 1, bytes |-> 1, latencySum |-> 2, errors |-> 1]}

Symmetry == Permutations(Worker)
=============================================================================
