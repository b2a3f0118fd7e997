---------------------------- MODULE MCCacheStore ----------------------------
(* Model values for the runs of CacheStore.                                *)
EXTENDS CacheStore, TLC

CONSTANTS c1, c2

Symmetry == Permutations(Client)
=============================================================================
