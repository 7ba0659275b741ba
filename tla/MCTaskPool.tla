----------------------------- MODULE MCTaskPool -----------------------------
(* Instances of TaskPool for TLC. *)
EXTENDS TaskPool

CONSTANTS t1

(* Nothing is claimed once the server is not tidy; what follows is         *)
(* explored with one task and clients that neither close nor die.          *)
Explored ==
  \/ tidy
  \/ /\ \A t \in Tasks \ {t1} : taskq[t] = EmptyQueue /\ task[t].at = "wait" /\ main.i # t
     /\ \A fd \in Fds : peer[fd] \in Clients /\ (inbox[fd] # None => inbox[fd].cmd = "OTHER")
     /\ \A n \in Nodes : req[n] # None => req[n].msg.cmd = "OTHER"
=============================================================================
