----------------------------- MODULE MCReadPath -----------------------------
(* Model values and settings for the runs of ReadPath. *)
EXTENDS ReadPath, TLC

CONSTANTS r1, r2, r3, i1, i2, w1, w2

Coalesce == [swr |-> FALSE, coalescing |-> TRUE, ttl |-> 1, window |-> 0,
             negativeTtl |-> 1]
Stale == [Coalesce EXCEPT !.swr = TRUE, !.window = 1]
Plain == [Coalesce EXCEPT !.coalescing = FALSE]

StaleOnly == {Stale}
AllModes == {Coalesce, Stale, Plain}

Symmetry == Permutations(Request) \cup Permutations(Instance)
              \cup Permutations(Worker)
=============================================================================
