---------------------------- MODULE ShardedStore ----------------------------
(***************************************************************************)
(* The database as a program sees it that calls dbapi.h on the client side *)
(* (clouddbapi.c): one database file on every server of the list, a record *)
(* on the server at position key % length.  Clients keep the list they got *)
(* when they opened the database, while servers join, are killed and start *)
(* again.                                                                  *)
(*                                                                         *)
(* The list is the one that Membership promises and Cluster implements; a  *)
(* server answers as KVStore promises and Engine implements, one request   *)
(* at a time.  What is added here is how a call finds its server and what  *)
(* it makes of a connection that breaks (remotedbapi.c).  The first port   *)
(* of a server is free, the list fits into a reply, the master is never    *)
(* killed, and each server process has a directory, thus a file, of its    *)
(* own.                                                                    *)
(***************************************************************************)
EXTENDS Naturals, Sequences, FiniteSets

CONSTANTS Servers,    \* servers other than the master, one address each
          Clients,    \* client processes
          Master,
          Database,   \* the one file that is opened
          Keys, Values,
          None,
          OldValues,  \* what a record may hold when the servers start
          MayKill,    \* whether servers are killed
          MaxStarts,  \* bound: starts of servers
          MaxAborts   \* bound: CreateDBs given up and clients ended, before
                      \* which a database may be opened

Nodes == Servers \cup {Master}

ASSUME StoreAssumption ==
  /\ Servers # {} /\ Master \notin Servers
  /\ IsFiniteSet(Clients)
  /\ Keys \subseteq Nat
  /\ None \notin Values
  /\ OldValues \subseteq Values \cup {None} /\ OldValues # {}
  /\ MayKill \in BOOLEAN
  /\ MaxStarts \in Nat /\ MaxAborts \in Nat

VARIABLES
  members,     \* the master's list
  up,          \* up[s]: "off", "registered" or "serving"
  starts,      \* number of starts
  refs,        \* refs[s]: the counter of the file in the registry of s
  records,     \* records[s]: the contents of the file of s
  cpc,         \* cpc[c]: where the client process stands
  serverList,  \* serverList[c]: the list got by CreateDB
  conn,        \* conn[c][i]: the connection to the i-th server of that list
  node,        \* node[c]: the position the current call is at
  wire,        \* wire[c]: what is on the way on that connection, or what
               \* recv() has come to: end-of-file or an error
  call,        \* call[c]: the last data call
  result,      \* result[c]: what it returned
  served,      \* served[c]: history, whether its server has executed it
  aborts       \* number of CreateDBs given up and clients ended

serverVars == <<members, up, starts>>
fileVars   == <<refs, records>>
callVars   == <<call, result, served>>
clientVars == <<cpc, serverList, conn, node, aborts>>
vars       == <<serverVars, fileVars, callVars, clientVars, wire>>

(* Requests, replies and the two ways in which recv() fails. *)
Data     == [op: {"SET"}, key: Keys, val: Values]
              \cup [op: {"GET", "DELETE"}, key: Keys, val: {None}]
OpenRequest  == [op |-> "OPEN", key |-> None, val |-> None]
CloseRequest == [op |-> "CLOSE", key |-> None, val |-> None]
Requests == Data \cup {OpenRequest, CloseRequest}
Replies  == [cmd: {"OPEN", "CLOSE", "SET", "DELETE", "ERROR"}, val: {None}]
              \cup [cmd: {"GET"}, val: Values]
Eof      == [cmd |-> "EOF", val |-> None]
Reset    == [cmd |-> "RESET", val |-> None]
Broken   == {Eof, Reset}
Arrived  == Replies \cup Broken

ASSUME NoneIsNoMessage == None \notin Requests \cup Arrived

TypeOK ==
  /\ members \in Seq(Nodes)
  /\ up \in [Nodes -> {"off", "registered", "serving"}]
  /\ starts \in 0 .. MaxStarts
  /\ refs \in [Nodes -> Nat]
  /\ records \in [Nodes -> [Keys -> Values \cup {None}]]
  /\ cpc \in [Clients -> {"off", "opening", "open", "calling", "closing", "exited"}]
  /\ serverList \in [Clients -> Seq(Nodes)]
  /\ \A c \in Clients :
       /\ conn[c] \in [DOMAIN serverList[c] -> {"none", "up", "eof", "reset"}]
       /\ node[c] \in 0 .. Len(serverList[c])
  /\ wire \in [Clients -> Requests \cup Arrived \cup {None}]
  /\ call \in [Clients -> Data \cup {None}]
  /\ result \in [Clients -> {"none", "SUCCESS", "FAILURE"}]
  /\ served \in [Clients -> BOOLEAN]
  /\ aborts \in Nat

(* The master serves; the files hold what an earlier run left in them.     *)
Init ==
  /\ members = <<Master>>
  /\ up = [s \in Nodes |-> IF s = Master THEN "serving" ELSE "off"]
  /\ starts = 0
  /\ refs = [s \in Nodes |-> 0]
  /\ records \in [Nodes -> [Keys -> OldValues]]
  /\ cpc = [c \in Clients |-> "off"]
  /\ serverList = [c \in Clients |-> << >>]
  /\ conn = [c \in Clients |-> << >>]
  /\ node = [c \in Clients |-> 0]
  /\ wire = [c \in Clients |-> None]
  /\ call = [c \in Clients |-> None]
  /\ result = [c \in Clients |-> "none"]
  /\ served = [c \in Clients |-> FALSE]
  /\ aborts = 0

-----------------------------------------------------------------------------
(* The database that the servers are together, and what it promises.       *)

(* The position and the server of key k in a list. *)
NodeIndex(list, k) == (k % Len(list)) + 1
Home(list, k)      == list[NodeIndex(list, k)]

(* The first list that any client can work with has two entries. *)
FirstList == IF Len(members) >= 2 THEN SubSeq(members, 1, 2)
             ELSE <<Master, CHOOSE s \in Servers : TRUE>>

Store == [d \in {Database} |-> [k \in Keys |-> records[Home(FirstList, k)][k]]]

Pending == [c \in Clients |->
              IF wire[c] \notin Data THEN None
              ELSE [op |-> wire[c].op, db |-> Database, key |-> wire[c].key,
                    val |-> wire[c].val]]

Answer == [c \in Clients |->
             IF cpc[c] = "calling" /\ wire[c] \in Replies THEN wire[c] ELSE None]

OneStore == INSTANCE KVStore WITH Names <- {Database},
              store <- Store, pending <- Pending, answer <- Answer

ASSUME NoneIsNoCall == None \notin OneStore!Calls

List == INSTANCE Membership WITH Addresses <- Servers

-----------------------------------------------------------------------------
(* Servers. *)

(* A process starts and is put on the list; it listens a little later.     *)
Register(s) ==
  /\ up[s] = "off"
  /\ starts < MaxStarts
  /\ starts' = starts + 1
  /\ List!Join(s)
  /\ up' = [up EXCEPT ![s] = "registered"]
  /\ UNCHANGED <<fileVars, callVars, clientVars, wire>>

Listen(s) ==
  /\ up[s] = "registered"
  /\ up' = [up EXCEPT ![s] = "serving"]
  /\ UNCHANGED <<members, starts, fileVars, callVars, clientVars, wire>>

(* The server that the current call of c talks to. *)
Target(c) == serverList[c][node[c]]

(* The clients whose requests wait at s. *)
Waiting(s) == {c \in Clients : wire[c] \in Requests /\ Target(c) = s}

(* The records after a data request. *)
After(s, r) == [records EXCEPT ![s][r.key] = OneStore!After(r, @)]

(* One pass of the loop of s: the request is executed and answered. *)
Handle(s, c) ==
  /\ up[s] = "serving"
  /\ c \in Waiting(s)
  /\ LET r == wire[c]
     IN  \/ /\ r.op \in {"OPEN", "CLOSE"}
            /\ refs' = [refs EXCEPT ![s] = IF r.op = "OPEN" THEN @ + 1 ELSE @ - 1]
            /\ wire' = [wire EXCEPT ![c] = [cmd |-> r.op, val |-> None]]
            /\ UNCHANGED <<records, served>>
         \/ /\ r \in Data
            /\ records' = After(s, r)
            /\ wire' = [wire EXCEPT ![c] = OneStore!Outcome(r, records[s][r.key])]
            /\ served' = [served EXCEPT ![c] = TRUE]
            /\ UNCHANGED refs
  /\ UNCHANGED <<serverVars, clientVars, call, result>>

(* The process of s is killed.  The kernel closes its connections: with a  *)
(* reset if the server has not read all that was sent to it, else with     *)
(* end-of-file.  It may have been in the middle of one request, before or  *)
(* after its effect.  Replies already sent arrive, the file survives.      *)
Kill(s) ==
  /\ MayKill
  /\ s # Master
  /\ up[s] # "off"
  /\ up' = [up EXCEPT ![s] = "off"]
  /\ refs' = [refs EXCEPT ![s] = 0]
  /\ \E read \in SUBSET Waiting(s) :
       /\ Cardinality(read) <= 1
       /\ \/ UNCHANGED <<records, served>>
          \/ \E c \in read : /\ wire[c] \in Data
                             /\ records' = After(s, wire[c])
                             /\ served' = [served EXCEPT ![c] = TRUE]
       /\ wire' = [c \in Clients |-> IF c \notin Waiting(s) THEN wire[c]
                                     ELSE IF c \in read THEN Eof ELSE Reset]
       /\ conn' = [c \in Clients |-> [i \in DOMAIN conn[c] |->
                     IF serverList[c][i] # s \/ conn[c][i] # "up" THEN conn[c][i]
                     ELSE IF i = node[c] /\ c \in Waiting(s) \ read
                          THEN "reset" ELSE "eof"]]
  /\ UNCHANGED <<members, starts, call, result, cpc, serverList, node, aborts>>

-----------------------------------------------------------------------------
(* Client processes. *)

(* The process ends; no server gives up a reference on end-of-file. *)
Exit(c) ==
  /\ cpc' = [cpc EXCEPT ![c] = "exited"]
  /\ serverList' = [serverList EXCEPT ![c] = << >>]
  /\ conn' = [conn EXCEPT ![c] = << >>]
  /\ node' = [node EXCEPT ![c] = 0]
  /\ wire' = [wire EXCEPT ![c] = None]
  /\ aborts' = aborts + 1

(* send() and recv() on the i-th connection.  The first request after      *)
(* end-of-file is sent and recv() returns 0; by the next one a reset may   *)
(* have come back, and sending after a reset raises SIGPIPE.               *)
Send(c, i, r, state) ==
  \/ /\ conn[c][i] = "up"
     /\ wire' = [wire EXCEPT ![c] = r]
     /\ cpc' = [cpc EXCEPT ![c] = state]
     /\ UNCHANGED <<serverList, conn, aborts>>
     /\ node' = [node EXCEPT ![c] = i]
  \/ /\ conn[c][i] = "eof"
     /\ wire' = [wire EXCEPT ![c] = Eof]
     /\ cpc' = [cpc EXCEPT ![c] = state]
     /\ \E after \in {"eof", "reset"} : conn' = [conn EXCEPT ![c][i] = after]
     /\ node' = [node EXCEPT ![c] = i]
     /\ UNCHANGED <<serverList, aborts>>
  \/ /\ conn[c][i] = "reset"
     /\ Exit(c)

(* CreateDB: the list is fetched; RegisterServer refuses one without       *)
(* servers, and CreateDB returns NULL.  A process that has ended may be    *)
(* replaced by a new one.                                                  *)
CreateDB(c) ==
  /\ cpc[c] \in {"off", "exited"}
  /\ aborts <= MaxAborts
  /\ Len(members) >= 2
  /\ cpc' = [cpc EXCEPT ![c] = "opening"]
  /\ serverList' = [serverList EXCEPT ![c] = members]
  /\ conn' = [conn EXCEPT ![c] = [i \in DOMAIN members |-> "none"]]
  /\ node' = [node EXCEPT ![c] = 1]
  /\ call' = [call EXCEPT ![c] = None]
  /\ result' = [result EXCEPT ![c] = "none"]
  /\ served' = [served EXCEPT ![c] = FALSE]
  /\ UNCHANGED <<serverVars, fileVars, wire, aborts>>

(* CreateRemoteDB: connect() and the request, or exit if nobody listens.   *)
Connect(c) ==
  /\ cpc[c] = "opening"
  /\ wire[c] = None
  /\ \/ /\ up[Target(c)] = "serving"
        /\ conn' = [conn EXCEPT ![c][node[c]] = "up"]
        /\ wire' = [wire EXCEPT ![c] = OpenRequest]
        /\ UNCHANGED <<cpc, serverList, node, aborts>>
     \/ /\ up[Target(c)] # "serving"
        /\ Exit(c)
  /\ UNCHANGED <<serverVars, fileVars, callVars>>

(* A mutant: the end of the list is not noticed.                           *)
OpenedPastEnd(c) ==
  /\ cpc[c] = "opening"
  /\ wire[c] \in Replies
  /\ wire' = [wire EXCEPT ![c] = None]
  /\ node' = [node EXCEPT ![c] = @ + 1]
  /\ UNCHANGED <<serverVars, fileVars, callVars, cpc, serverList, conn, aborts>>

(* OPEN_RSP: on to the next server, or the database is open on all.        *)
Opened(c) ==
  /\ cpc[c] = "opening"
  /\ wire[c] \in Replies
  /\ wire' = [wire EXCEPT ![c] = None]
  /\ IF node[c] < Len(serverList[c])
     THEN /\ node' = [node EXCEPT ![c] = @ + 1]
          /\ UNCHANGED cpc
     ELSE /\ cpc' = [cpc EXCEPT ![c] = "open"]
          /\ UNCHANGED node
  /\ UNCHANGED <<serverVars, fileVars, callVars, serverList, conn, aborts>>

(* A mutant: CreateDB begins anew with the first server.                   *)
OpenFailsRetry(c) ==
  /\ cpc[c] = "opening"
  /\ wire[c] \in Broken
  /\ wire' = [wire EXCEPT ![c] = None]
  /\ conn' = [conn EXCEPT ![c] = [i \in DOMAIN conn[c] |-> "none"]]
  /\ node' = [node EXCEPT ![c] = 1]
  /\ UNCHANGED <<serverVars, fileVars, callVars, cpc, serverList, aborts>>

(* CreateDB returns NULL: the connections made so far are forgotten, but   *)
(* neither closed nor their sessions.                                      *)
OpenFails(c) ==
  /\ cpc[c] = "opening"
  /\ wire[c] \in Broken
  /\ wire' = [wire EXCEPT ![c] = None]
  /\ cpc' = [cpc EXCEPT ![c] = "off"]
  /\ serverList' = [serverList EXCEPT ![c] = << >>]
  /\ conn' = [conn EXCEPT ![c] = << >>]
  /\ node' = [node EXCEPT ![c] = 0]
  /\ aborts' = aborts + 1
  /\ UNCHANGED <<serverVars, fileVars, callVars>>

(* SetRecordRemote, GetRecordRemote and DeleteRecordRemote, up to recv().  *)
Request(c, i, r) ==
  /\ cpc[c] = "open"
  /\ Send(c, i, r, "calling")
  /\ call' = [call EXCEPT ![c] = r]
  /\ result' = [result EXCEPT ![c] = "none"]
  /\ served' = [served EXCEPT ![c] = FALSE]
  /\ UNCHANGED <<serverVars, fileVars>>

SetRecord(c, k, v) == Request(c, NodeIndex(serverList[c], k), [op |-> "SET", key |-> k, val |-> v])

(* A mutant: GetRecord alone counts the positions from 1.                  *)
GetRecordNext(c, k) ==
  Request(c, NodeIndex(serverList[c], k + 1), [op |-> "GET", key |-> k, val |-> None])

GetRecord(c, k) == Request(c, NodeIndex(serverList[c], k), [op |-> "GET", key |-> k, val |-> None])

DeleteRecord(c, k) == Request(c, NodeIndex(serverList[c], k), [op |-> "DELETE", key |-> k, val |-> None])

(* A mutant: SET and GET, too, look at no reply but ERROR_RSP.             *)
ReturnedUnchecked(op, m) ==
  IF m.cmd \in {"EOF", "ERROR"} THEN "FAILURE" ELSE "SUCCESS"

(* What a data call returns.  End-of-file is a failure.  After an error of *)
(* recv() nothing is parsed and no command is set, which SET and GET       *)
(* compare with the reply they expect and DELETE only with ERROR_RSP.      *)
Returned(op, m) ==
  IF m.cmd \in {"EOF", "ERROR"} \/ (m = Reset /\ op # "DELETE")
  THEN "FAILURE" ELSE "SUCCESS"

(* A mutant: end-of-file is taken for a reply still to come.               *)
ReturnNotEof(c) ==
  /\ cpc[c] = "calling"
  /\ wire[c] \in Arrived \ {Eof}
  /\ result' = [result EXCEPT ![c] = Returned(call[c].op, wire[c])]
  /\ wire' = [wire EXCEPT ![c] = None]
  /\ cpc' = [cpc EXCEPT ![c] = "open"]
  /\ UNCHANGED <<serverVars, fileVars, call, served, serverList, conn, node, aborts>>

Return(c) ==
  /\ cpc[c] = "calling"
  /\ wire[c] \in Arrived
  /\ result' = [result EXCEPT ![c] = Returned(call[c].op, wire[c])]
  /\ wire' = [wire EXCEPT ![c] = None]
  /\ cpc' = [cpc EXCEPT ![c] = "open"]
  /\ UNCHANGED <<serverVars, fileVars, call, served, serverList, conn, node, aborts>>

(* CloseDB: CloseRemoteDB for each server of the list in turn. *)
CloseDB(c) ==
  /\ cpc[c] = "open"
  /\ Send(c, 1, CloseRequest, "closing")
  /\ UNCHANGED <<serverVars, fileVars, callVars>>

(* A mutant: CloseDB stops at the first server that does not answer.       *)
ClosedStop(c) ==
  /\ cpc[c] = "closing"
  /\ wire[c] \in Arrived
  /\ \/ /\ node[c] < Len(serverList[c]) /\ wire[c] \in Replies
        /\ Send(c, node[c] + 1, CloseRequest, "closing")
     \/ /\ node[c] = Len(serverList[c]) \/ wire[c] \in Broken
        /\ wire' = [wire EXCEPT ![c] = None]
        /\ cpc' = [cpc EXCEPT ![c] = "off"]
        /\ serverList' = [serverList EXCEPT ![c] = << >>]
        /\ conn' = [conn EXCEPT ![c] = << >>]
        /\ node' = [node EXCEPT ![c] = 0]
        /\ UNCHANGED aborts
  /\ UNCHANGED <<serverVars, fileVars, callVars>>

(* What CloseRemoteDB returns is not looked at: on to the next server, or  *)
(* the database is closed.                                                 *)
Closed(c) ==
  /\ cpc[c] = "closing"
  /\ wire[c] \in Arrived
  /\ \/ /\ node[c] < Len(serverList[c])
        /\ Send(c, node[c] + 1, CloseRequest, "closing")
     \/ /\ node[c] = Len(serverList[c])
        /\ wire' = [wire EXCEPT ![c] = None]
        /\ cpc' = [cpc EXCEPT ![c] = "off"]
        /\ serverList' = [serverList EXCEPT ![c] = << >>]
        /\ conn' = [conn EXCEPT ![c] = << >>]
        /\ node' = [node EXCEPT ![c] = 0]
        /\ UNCHANGED aborts
  /\ UNCHANGED <<serverVars, fileVars, callVars>>

-----------------------------------------------------------------------------
Proceed(c) == Connect(c) \/ Opened(c) \/ OpenFails(c) \/ Return(c) \/ Closed(c)

Operate(c) ==
  \/ CreateDB(c)
  \/ \E k \in Keys : GetRecord(c, k) \/ DeleteRecord(c, k)
  \/ \E k \in Keys, v \in Values : SetRecord(c, k, v)
  \/ CloseDB(c)

Next ==
  \/ \E s \in Servers : Register(s) \/ Listen(s) \/ Kill(s)
  \/ \E s \in Nodes, c \in Clients : Handle(s, c)
  \/ \E c \in Clients : Operate(c) \/ Proceed(c)

Spec == Init /\ [][Next]_vars

(* epoll reports the connections of a server in turn, and a process inside *)
(* a call is woken when recv() returns.  Programs need not make calls.     *)
Fairness == \A c \in Clients : /\ WF_vars(Proceed(c))
                               /\ \A s \in Nodes : WF_vars(Handle(s, c))

FairSpec == Spec /\ Fairness

-----------------------------------------------------------------------------
(* Properties. *)

(* While the list does not grow, the servers together are one store: each  *)
(* call of each client takes effect once, on the one record of its key,    *)
(* whichever client calls and whatever the others do meanwhile.            *)
ImplementsOneStore == OneStore!KVSpec

(* The connections of clients with an open session at s. *)
Sessions(s) ==
  {session \in Clients \X (1 .. Len(members)) :
     LET c == session[1]
         i == session[2]
     IN  /\ i \in DOMAIN serverList[c] /\ serverList[c][i] = s
         /\ conn[c][i] = "up"
         /\ i = node[c] => wire[c] # OpenRequest
         /\ cpc[c] = "closing" => \/ i > node[c]
                                  \/ i = node[c] /\ wire[c] = CloseRequest}

(* Every session is backed by a reference at its server, and no reference  *)
(* is left behind, by CloseDB least of all, even if a server is killed     *)
(* halfway: only CreateDBs given up and clients that ended leave any.      *)
SessionsAccounted ==
  \A s \in Nodes : up[s] = "serving" =>
    /\ Cardinality(Sessions(s)) <= refs[s]
    /\ aborts = 0 => refs[s] = Cardinality(Sessions(s))

(* A CreateDB given up halfway and a client that ends leave no more behind *)
(* than one reference for each entry of the list at its server.            *)
LeaksBounded ==
  \A s \in Nodes : up[s] = "serving" =>
    refs[s] <= Cardinality(Sessions(s))
                 + aborts * Cardinality({i \in DOMAIN members : members[i] = s})

(* A SetRecord or GetRecord that returns SUCCESS has been executed by its  *)
(* server, whenever that one was killed.                                   *)
AckedSetsAndGetsServed ==
  \A c \in Clients : /\ result[c] = "SUCCESS"
                     /\ call[c].op \in {"SET", "GET"}
                     => served[c]

(* A call on an open database returns and CloseDB ends (or the process     *)
(* does), although servers are killed.                                     *)
CallsEnd ==
  \A c \in Clients : /\ cpc[c] = "calling" ~> cpc[c] = "open"
                     /\ cpc[c] = "closing" ~> cpc[c] \in {"off", "exited"}

(* DeleteRecord: "delete a record by key ... return : SUCCESS(0)/FAILURE"  *)
(* (dbapi.h).  A delete that returns SUCCESS has been executed.            *)
AckedDeletesServed ==
  \A c \in Clients : /\ result[c] = "SUCCESS"
                     /\ call[c].op = "DELETE"
                     => served[c]
=============================================================================
