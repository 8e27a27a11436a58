---------------------------- MODULE MCMemoryStore ----------------------------
(* Small instances of MemoryStore: two shards, nonces of both, room for one  *)
(* entry per shard: more than its share in one instance, less in the other.  *)
EXTENDS MemoryStore, TLC

CONSTANTS n1, n2, n3

MCShardOf == [n \in Nonces |-> IF n = n3 THEN 1 ELSE 0]

\* Calls are interchangeable, and so are the nonces of one shard.
Symmetry == Permutations(Callers) \cup Permutations({n1, n2})

=============================================================================
