-------------------------- MODULE MCReconciliation --------------------------
(* Model values and bounds for the runs of Reconciliation. *)
EXTENDS Reconciliation, TLC

CONSTANTS k1, k2, w1, w2, f1

(* k1 has a row, as product:42; k2 has none, as product:404. *)
MCSeed == [k \in Key |-> IF k = k2 THEN 0 ELSE 1]

Symmetry == Permutations(Worker)
=============================================================================
