---------------------------- MODULE MCDbRegistry ----------------------------
(* Instances of DbRegistry for TLC. *)
EXTENDS DbRegistry, TLC

Symmetry == Permutations(Callers) \cup Permutations(Names) \cup Permutations(Handles)

(* Once calls have met that must not meet nothing is claimed; what follows *)
(* is explored with two connections and two names at a time and for counts *)
(* of at most 2.                                                           *)
Explored ==
  \/ safe
  \/ /\ Cardinality({c \in Callers : pc[c] # "idle"}) <= 2
     /\ Cardinality({dbName[c] : c \in Callers} \cup Registered) <= 3
     /\ \A n \in Names : allOpenedDB[n].counter <= 2
=============================================================================
