----------------------------- MODULE MCMutexQueue -----------------------------
(* The queue is checked up to the names of threads, nodes and values.  All  *)
(* the properties are safety properties, for which that is sound.           *)
EXTENDS MutexQueue, TLC

Symmetry == Permutations(Threads) \union Permutations(Nodes) \union Permutations(Values)
=============================================================================
