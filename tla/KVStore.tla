------------------------------- MODULE KVStore -------------------------------
(***************************************************************************)
(* What the database service promises to a caller of remotedbapi.h: every  *)
(* SetRecordRemote, GetRecordRemote and DeleteRecordRemote call takes      *)
(* effect once, atomically, between call and return, on the database file  *)
(* the caller opened, and the answer is the one that file's contents give. *)
(* How the service finds the file (descriptors, handles, reference counts) *)
(* does not appear here.                                                   *)
(***************************************************************************)
CONSTANTS Clients,  \* callers, each with at most one call in flight
          Names,    \* database files
          Keys, Values,
          None      \* no record, no call, no answer

VARIABLES store,    \* store[n][k]: the value of key k in file n, or None
          pending,  \* pending[c]: the call of c that has not taken effect
          answer    \* answer[c]: the result c has not collected yet

kvVars == <<store, pending, answer>>

Calls   == [op: {"SET"}, db: Names, key: Keys, val: Values]
             \cup [op: {"GET", "DELETE"}, db: Names, key: Keys, val: {None}]
Answers == [cmd: {"SET", "DELETE", "ERROR"}, val: {None}]
             \cup [cmd: {"GET"}, val: Values]

(* The contents of r's record once r has taken effect. *)
After(r, old) == CASE r.op = "SET"    -> r.val
                   [] r.op = "DELETE" -> None
                   [] OTHER           -> old

(* What r returns: looking up or deleting an absent key is an error. *)
Outcome(r, old) ==
  IF r.op # "SET" /\ old = None
  THEN [cmd |-> "ERROR", val |-> None]
  ELSE [cmd |-> r.op, val |-> IF r.op = "GET" THEN old ELSE None]

KVInit == /\ store \in [Names -> [Keys -> Values \cup {None}]]
          /\ pending = [c \in Clients |-> None]
          /\ answer = [c \in Clients |-> None]

Call(c, r) == /\ pending[c] = None
              /\ answer[c] = None
              /\ pending' = [pending EXCEPT ![c] = r]
              /\ UNCHANGED <<store, answer>>

TakeEffect(c) ==
  /\ pending[c] # None
  /\ LET r   == pending[c]
         old == store[r.db][r.key]
     IN  /\ store' = [store EXCEPT ![r.db][r.key] = After(r, old)]
         /\ answer' = [answer EXCEPT ![c] = Outcome(r, old)]
  /\ pending' = [pending EXCEPT ![c] = None]

(* The caller collects its answer, or dies and never will. *)
Collect(c) == /\ answer[c] # None
              /\ answer' = [answer EXCEPT ![c] = None]
              /\ UNCHANGED <<store, pending>>

KVNext == \E c \in Clients : \/ \E r \in Calls : Call(c, r)
                             \/ TakeEffect(c)
                             \/ Collect(c)

KVSpec == KVInit /\ [][KVNext]_kvVars
=============================================================================
