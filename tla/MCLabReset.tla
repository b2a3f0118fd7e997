----------------------------- MODULE MCLabReset -----------------------------
(* Model values and bounds for the runs of LabReset. *)
EXTENDS LabReset, TLC

CONSTANTS k1, p1, p2, r1, r2, f1, f2

(* k1 is product:42, which a reset warms; f1 and f2 are any two settings. *)
MCSeed == [k \in Key |-> 1]

Symmetry == Permutations(Operator) \cup Permutations(Field)
=============================================================================
