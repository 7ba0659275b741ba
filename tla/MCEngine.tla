------------------------------ MODULE MCEngine ------------------------------
(* Instances of Engine for TLC. *)
EXTENDS Engine, TLC

\* Interchangeable values: clients, descriptors, handle addresses and files.
Symmetry == Permutations(Clients) \cup Permutations(Fds)
              \cup Permutations(Handles) \cup Permutations(Names)
=============================================================================
