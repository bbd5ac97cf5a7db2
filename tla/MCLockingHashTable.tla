------------------------- MODULE MCLockingHashTable -------------------------
(* Small instances of LockingHashTable. *)
EXTENDS LockingHashTable

\* Elements are addresses; threads are all alike.
Symmetry == Permutations(Elems) \cup Permutations(Threads)
=============================================================================
