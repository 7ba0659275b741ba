----------------------------- MODULE MCCluster -----------------------------
(* Instances of Cluster for TLC. *)
EXTENDS Cluster, TLC

CONSTANTS s1, s2, s3, h1

\* Every server on one machine, where they contend for ports.
OneHost == [p \in Servers |-> h1]

\* The cells that Cluster!EnoughCells asks for.
MCCells == 1 .. 1 + Tries * (Cardinality(Servers) + MaxKills)

\* Servers on one machine are interchangeable.
Symmetry == Permutations(Servers)

\* Another program listens on the first port that a server tries.
FirstPort == {<<h1, 0>>}
=============================================================================
