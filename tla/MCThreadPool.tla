----------------------------- MODULE MCThreadPool -----------------------------
(* Small instances of ThreadPool for TLC; the symmetry is for the run of   *)
(* an invariant alone, it is not sound for liveness.                       *)
EXTENDS ThreadPool, TLC

PoolSymmetry == Permutations(Workers) \union Permutations(Tasks)
=============================================================================
