--------------------------- MODULE MCShardedStore ---------------------------
(* Instances of ShardedStore for TLC. *)
EXTENDS ShardedStore, TLC

\* Interchangeable clients and values, and servers as well.
ClientSymmetry == Permutations(Clients) \cup Permutations(Values)
Symmetry       == ClientSymmetry \cup Permutations(Servers)
=============================================================================
