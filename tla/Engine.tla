------------------------------- MODULE Engine -------------------------------
(***************************************************************************)
(* One database server (engine.c, dbapi.c, the server side of net.c) and   *)
(* the connections of the client library (remotedbapi.c) that talk to it.  *)
(*                                                                         *)
(* The build has MAX_TASK_NUM = 0: ServiceEngine runs ServiceStart,        *)
(* RecvData and Handler in one thread, so serving a request is one step.   *)
(* The clients are other processes and interleave with it, and may die at  *)
(* any point (MaxDeaths bounds the deaths with a database open).  The      *)
(* library sends a request and waits for its reply, so a connection        *)
(* carries at most one message.                                            *)
(*                                                                         *)
(* Tokyo Cabinet and the kernel are external: a handle is the address of   *)
(* a TCHDB object, which may be reused once tchdbdel has freed it, and a   *)
(* descriptor number may be reused once close has freed it.                *)
(***************************************************************************)
EXTENDS Naturals, FiniteSets

CONSTANTS Clients,      \* connections of library clients
          Fds,          \* socket descriptors of the server
          Names,        \* database files
          Handles,      \* addresses of TCHDB objects
          Keys, Values,
          None,         \* NULL, no such record, no message
          MaxDeaths,    \* bound: clients that die with a database open
          DiskMayFail   \* whether tchdbput and tchdbout may fail to write

ASSUME ConstantsAssumption ==
  /\ IsFiniteSet(Fds) /\ IsFiniteSet(Clients)
  /\ None \notin Clients \cup Fds \cup Names \cup Handles \cup Keys \cup Values
  /\ MaxDeaths \in Nat
  /\ DiskMayFail \in BOOLEAN

VARIABLES
  pc,           \* pc[c]: where the client process of c stands
  dbname,       \* dbname[c]: the file c asked for, None before that
  inbox,        \* inbox[c]: request sent by c, not yet read by the server
  outbox,       \* outbox[c]: reply sent to c, not yet read by c
  backlog,      \* connections not yet accepted
  sock,         \* sock[fd]: the connection behind an open descriptor
  CDManager,    \* CDManager[fd]: the handle attached to a descriptor
  allOpenedDB,  \* allOpenedDB[n]: handle and reference count of file n
  live,         \* live[h]: the file open behind handle h, None if closed
  records,      \* records[n][k]: the record of key k in file n
  deaths        \* number of clients that died with a database open

clientVars == <<pc, dbname, deaths>>
netVars    == <<backlog, sock>>
dbVars     == <<CDManager, allOpenedDB, live, records>>
vars       == <<clientVars, inbox, outbox, netVars, dbVars>>

(* A request and a reply of protocol.h; "NONE" is the zeroed buffer that   *)
(* CreateRemoteDB sends when FormatData1 refuses a name that is too long.  *)
Requests == [op: {"OPEN"}, db: Names, key: {None}, val: {None}]
              \cup [op: {"CLOSE", "NONE"}, db: {None}, key: {None}, val: {None}]
              \cup [op: {"GET", "DELETE"}, db: {None}, key: Keys, val: {None}]
              \cup [op: {"SET"}, db: {None}, key: Keys, val: Values]
Replies  == [cmd: {"OPEN", "CLOSE", "SET", "DELETE", "ERROR"}, val: {None}]
              \cup [cmd: {"GET"}, val: Values]

ASSUME MessagesAssumption == None \notin Requests \cup Replies

Request(op, n, k, v) == [op |-> op, db |-> n, key |-> k, val |-> v]
Reply(cmd, v)        == [cmd |-> cmd, val |-> v]

(* An absent entry of the registry of open databases. *)
NotOpened == [hdb |-> None, counter |-> 0]

TypeOK ==
  /\ pc \in [Clients -> {"off", "linked", "waiting", "ready", "failed", "dead"}]
  /\ dbname \in [Clients -> Names \cup {None}]
  /\ inbox \in [Clients -> Requests \cup {None}]
  /\ outbox \in [Clients -> Replies \cup {None}]
  /\ backlog \in SUBSET Clients
  /\ sock \in [Fds -> Clients \cup {None}]
  /\ CDManager \in [Fds -> Handles \cup {None}]
  /\ allOpenedDB \in [Names -> [hdb: Handles \cup {None}, counter: Nat]]
  /\ live \in [Handles -> Names \cup {None}]
  /\ records \in [Names -> [Keys -> Values \cup {None}]]
  /\ deaths \in 0 .. MaxDeaths

(* The server has just started: no connection, no database open, and files *)
(* on disk with whatever an earlier run left in them.                      *)
Init ==
  /\ pc = [c \in Clients |-> "off"]
  /\ dbname = [c \in Clients |-> None]
  /\ inbox = [c \in Clients |-> None]
  /\ outbox = [c \in Clients |-> None]
  /\ backlog = {}
  /\ sock = [fd \in Fds |-> None]
  /\ CDManager = [fd \in Fds |-> None]
  /\ allOpenedDB = [n \in Names |-> NotOpened]
  /\ live = [h \in Handles |-> None]
  /\ records \in [Names -> [Keys -> Values \cup {None}]]
  /\ deaths = 0

-----------------------------------------------------------------------------
(* The client library. *)

(* The server still has a connection to c, accepted or not. *)
Held(c) == c \in backlog \/ \E fd \in Fds : sock[fd] = c

(* OpenRemoteService: connect() succeeds, the connection awaits accept().  *)
(* A new process may take the place of one that is dead and forgotten.     *)
Connect(c) ==
  /\ pc[c] \in {"off", "dead"}
  /\ ~Held(c)
  /\ pc' = [pc EXCEPT ![c] = "linked"]
  /\ dbname' = [dbname EXCEPT ![c] = None]
  /\ outbox' = [outbox EXCEPT ![c] = None]
  /\ backlog' = backlog \cup {c}
  /\ UNCHANGED <<deaths, inbox, sock, dbVars>>

Send(c, r) ==
  /\ inbox' = [inbox EXCEPT ![c] = r]
  /\ pc' = [pc EXCEPT ![c] = "waiting"]
  /\ UNCHANGED <<deaths, outbox, netVars, dbVars>>

SendOpen(c, n) ==
  /\ pc[c] = "linked"
  /\ dbname' = [dbname EXCEPT ![c] = n]
  /\ Send(c, Request("OPEN", n, None, None))

(* The name does not fit in the buffer; the zeroed buffer is sent instead. *)
SendUnformatted(c) ==
  /\ pc[c] = "linked"
  /\ UNCHANGED dbname
  /\ Send(c, Request("NONE", None, None, None))

SendSet(c, k, v) ==
  /\ pc[c] = "ready"
  /\ UNCHANGED dbname
  /\ Send(c, Request("SET", None, k, v))

SendLookup(c, op, k) ==
  /\ pc[c] = "ready"
  /\ UNCHANGED dbname
  /\ Send(c, Request(op, None, k, None))

SendClose(c) ==
  /\ pc[c] = "ready"
  /\ UNCHANGED dbname
  /\ Send(c, Request("CLOSE", None, None, None))

(* RecvData returns the reply.  CloseRemoteDB then closes the socket;      *)
(* CreateRemoteDB gives up on an error and keeps the socket; the other     *)
(* calls return and the caller may go on.                                  *)
ReceiveReply(c) ==
  /\ pc[c] = "waiting"
  /\ outbox[c] # None
  /\ outbox' = [outbox EXCEPT ![c] = None]
  /\ \/ /\ outbox[c].cmd = "CLOSE"
        /\ pc' = [pc EXCEPT ![c] = "off"]
        /\ dbname' = [dbname EXCEPT ![c] = None]
     \/ /\ outbox[c].cmd # "CLOSE"
        /\ pc' = [pc EXCEPT ![c] = IF dbname[c] = None THEN "failed" ELSE "ready"]
        /\ UNCHANGED dbname
  /\ UNCHANGED <<deaths, inbox, netVars, dbVars>>

(* The client process ends.  What it sent is still delivered, then the     *)
(* server reads end-of-file.                                               *)
Die(c) ==
  /\ pc[c] \notin {"off", "dead"}
  /\ dbname[c] # None => deaths < MaxDeaths
  /\ deaths' = IF dbname[c] # None THEN deaths + 1 ELSE deaths
  /\ pc' = [pc EXCEPT ![c] = "dead"]
  /\ UNCHANGED <<dbname, inbox, outbox, netVars, dbVars>>

-----------------------------------------------------------------------------
(* The server loop. *)

(* ServiceStart: the listening socket is readable; accept() gives the      *)
(* connection some free descriptor.                                        *)
Accept(c, fd) ==
  /\ c \in backlog
  /\ sock[fd] = None
  /\ sock' = [sock EXCEPT ![fd] = c]
  /\ backlog' = backlog \ {c}
  /\ UNCHANGED <<clientVars, inbox, outbox, dbVars>>

(* RecvData returns a request with command op; ParseData accepts it. *)
Received(fd, op) ==
  /\ sock[fd] # None
  /\ inbox[sock[fd]] # None
  /\ inbox[sock[fd]].op = op

(* SendData: the request has been consumed and the reply is on its way. *)
Respond(fd, reply) ==
  /\ inbox' = [inbox EXCEPT ![sock[fd]] = None]
  /\ outbox' = [outbox EXCEPT ![sock[fd]] = reply]

(* The descriptor is free for the next connection. *)
ServiceStop(fd) == sock' = [sock EXCEPT ![fd] = None]

(* A mutant: the registered handle is returned without counting it.        *)
CreateDBUncounted(n, h) ==
  \/ /\ allOpenedDB[n].hdb = h
     /\ UNCHANGED <<allOpenedDB, live>>
  \/ /\ allOpenedDB[n].hdb = None
     /\ live[h] = None
     /\ live' = [live EXCEPT ![h] = n]
     /\ allOpenedDB' = [allOpenedDB EXCEPT ![n] = [hdb |-> h, counter |-> 1]]

(* CreateDB(n) returns h: the registered handle with one more reference,   *)
(* or a new one for a file that is not registered.                         *)
CreateDB(n, h) ==
  \/ /\ allOpenedDB[n].hdb = h
     /\ allOpenedDB' = [allOpenedDB EXCEPT ![n].counter = @ + 1]
     /\ UNCHANGED live
  \/ /\ allOpenedDB[n].hdb = None
     /\ live[h] = None
     /\ live' = [live EXCEPT ![h] = n]
     /\ allOpenedDB' = [allOpenedDB EXCEPT ![n] = [hdb |-> h, counter |-> 1]]

(* Two mutants of Released: tcmdbout left out when the count reaches zero, *)
(* and the decremented count not written back with tcmdbput.               *)
ReleasedKept(entry) ==
  IF entry.counter = 0 THEN entry ELSE [entry EXCEPT !.counter = @ - 1]
ReleasedNoWriteBack(entry) == IF entry.counter <= 1 THEN NotOpened ELSE entry

(* An entry that has lost a reference; it is removed with the last one.    *)
Released(entry) ==
  IF entry.counter <= 1 THEN NotOpened ELSE [entry EXCEPT !.counter = @ - 1]

(* CloseDB(h): gives up a reference; the file of an entry that is removed  *)
(* is closed, as is a handle that is not registered.                       *)
CloseDB(h) ==
  /\ allOpenedDB' = [n \in Names |-> IF allOpenedDB[n].hdb = h
                                     THEN Released(allOpenedDB[n])
                                     ELSE allOpenedDB[n]]
  /\ live' = IF \E n \in Names : allOpenedDB[n].hdb = h /\ allOpenedDB[n].counter > 1
             THEN live
             ELSE [live EXCEPT ![h] = None]

(* Mutants of the table: an entry is kept if there is one (tcmdbputkeep    *)
(* for tcmdbput), and an entry is not taken out.                           *)
AttachCDKeep(fd, h) ==
  CDManager' = [CDManager EXCEPT ![fd] = IF @ = None THEN h ELSE @]
DettachCDNot(fd) == UNCHANGED CDManager

(* The table of descriptors and handles.  AttachCD overwrites an entry     *)
(* left under the same descriptor; GetMdb leaves the handle NULL if there  *)
(* is no entry.                                                            *)
AttachCD(fd, h) == CDManager' = [CDManager EXCEPT ![fd] = h]
DettachCD(fd)   == CDManager' = [CDManager EXCEPT ![fd] = None]
GetMdb(fd)      == CDManager[fd]

HandleOpen(fd) ==
  /\ Received(fd, "OPEN")
  /\ \E h \in Handles :
       /\ CreateDB(inbox[sock[fd]].db, h)
       /\ AttachCD(fd, h)
  /\ Respond(fd, Reply("OPEN", None))
  /\ UNCHANGED <<clientVars, netVars, records>>

(* The file that the handle attached to fd leads to.  None is a handle     *)
(* that is NULL or closed: to use it would bring the server down, which    *)
(* the guards below exclude and SessionsAttached shows never to arise.     *)
Attached(fd) == IF GetMdb(fd) = None THEN None ELSE live[GetMdb(fd)]

(* A mutant: FAILURE of GetRecord and DeleteRecord is not looked at.       *)
LookupReplyUnchecked(cmd, found) == Reply(cmd, IF cmd = "GET" THEN found ELSE None)

(* GetRecord and DeleteRecord fail if there is no such record. *)
LookupReply(cmd, found) ==
  IF found = None THEN Reply("ERROR", None)
  ELSE Reply(cmd, IF cmd = "GET" THEN found ELSE None)

(* The reply is SET_RSP whether or not SetRecord succeeded. *)
HandleSet(fd) ==
  /\ Received(fd, "SET")
  /\ Attached(fd) # None
  /\ LET r == inbox[sock[fd]]
     IN  \/ records' = [records EXCEPT ![Attached(fd)][r.key] = r.val]
         \/ DiskMayFail /\ UNCHANGED records
  /\ Respond(fd, Reply("SET", None))
  /\ UNCHANGED <<clientVars, netVars, CDManager, allOpenedDB, live>>

(* Values has no record too long for the reply, from which the request     *)
(* would go back (engine.c:264): no SET brings one (SetIsReadable of       *)
(* Console).                                                               *)
HandleGet(fd) ==
  /\ Received(fd, "GET")
  /\ Attached(fd) # None
  /\ Respond(fd, LookupReply("GET", records[Attached(fd)][inbox[sock[fd]].key]))
  /\ UNCHANGED <<clientVars, netVars, dbVars>>

HandleDelete(fd) ==
  /\ Received(fd, "DELETE")
  /\ Attached(fd) # None
  /\ LET key == inbox[sock[fd]].key
     IN  \/ /\ Respond(fd, LookupReply("DELETE", records[Attached(fd)][key]))
            /\ records' = [records EXCEPT ![Attached(fd)][key] = None]
         \/ /\ DiskMayFail
            /\ Respond(fd, Reply("ERROR", None))
            /\ UNCHANGED records
  /\ UNCHANGED <<clientVars, netVars, CDManager, allOpenedDB, live>>

(* CloseDB, the reply, DettachCD and ServiceStop, in this order. *)
HandleClose(fd) ==
  /\ Received(fd, "CLOSE")
  /\ Attached(fd) # None
  /\ CloseDB(GetMdb(fd))
  /\ Respond(fd, Reply("CLOSE", None))
  /\ DettachCD(fd)
  /\ ServiceStop(fd)
  /\ UNCHANGED <<clientVars, backlog, records>>

(* A mutant: the unknown request is dropped without an ErrorResponse.      *)
HandleUnknownSilent(fd) ==
  /\ Received(fd, "NONE")
  /\ inbox' = [inbox EXCEPT ![sock[fd]] = None]
  /\ UNCHANGED <<clientVars, outbox, netVars, dbVars>>

HandleUnknown(fd) ==
  /\ Received(fd, "NONE")
  /\ Respond(fd, Reply("ERROR", None))
  /\ UNCHANGED <<clientVars, netVars, dbVars>>

(* A mutant: end-of-file is ignored and the descriptor stays open.         *)
HangUpIgnored(fd) ==
  /\ sock[fd] # None
  /\ pc[sock[fd]] = "dead"
  /\ inbox[sock[fd]] = None
  /\ UNCHANGED vars

(* RecvData returns 0, closed by peer: ServiceStop, and nothing else. *)
HangUp(fd) ==
  /\ sock[fd] # None
  /\ pc[sock[fd]] = "dead"
  /\ inbox[sock[fd]] = None
  /\ ServiceStop(fd)
  /\ UNCHANGED <<clientVars, inbox, outbox, backlog, dbVars>>

-----------------------------------------------------------------------------
ClientStep(c) ==
  \/ Connect(c)
  \/ \E n \in Names : SendOpen(c, n)
  \/ SendUnformatted(c)
  \/ \E k \in Keys, v \in Values : SendSet(c, k, v)
  \/ \E op \in {"GET", "DELETE"}, k \in Keys : SendLookup(c, op, k)
  \/ SendClose(c)
  \/ ReceiveReply(c)
  \/ Die(c)

Serve(fd) ==
  \/ HandleOpen(fd)
  \/ HandleSet(fd)
  \/ HandleGet(fd)
  \/ HandleDelete(fd)
  \/ HandleClose(fd)
  \/ HandleUnknown(fd)
  \/ HangUp(fd)

Next ==
  \/ \E c \in Clients : ClientStep(c)
  \/ \E c \in Clients, fd \in Fds : Accept(c, fd)
  \/ \E fd \in Fds : Serve(fd)

Spec == Init /\ [][Next]_vars

(* epoll reports ready descriptors in turn, so neither the listening       *)
(* socket nor a client is passed over for ever, and a waiting client       *)
(* process blocks in recv() and is woken by its reply.                     *)
Fairness ==
  /\ \A c \in Clients : WF_vars(\E fd \in Fds : Accept(c, fd))
  /\ \A fd \in Fds : WF_vars(Serve(fd))
  /\ \A c \in Clients : WF_vars(ReceiveReply(c))

FairSpec == Spec /\ Fairness

-----------------------------------------------------------------------------
(* Properties. *)

(* The client behind fd has had its database opened and not yet closed. *)
InSession(fd) ==
  /\ sock[fd] # None
  /\ dbname[sock[fd]] # None
  /\ inbox[sock[fd]] # None => inbox[sock[fd]].op # "OPEN"

(* Whatever descriptors are reused and whoever closes or dies, a client in *)
(* session is attached to an open handle on the file it asked for: GetMdb  *)
(* never gives a request a NULL or closed handle, nor another client's     *)
(* file left in CDManager under the same descriptor number.                *)
SessionsAttached ==
  \A fd \in Fds : InSession(fd) => Attached(fd) = dbname[sock[fd]]

(* A file is open behind exactly the handle that is registered for it, so  *)
(* CreateDB never opens a file twice (tchdbopen would fail and CreateDB    *)
(* exit) and CloseDB never loses one.                                      *)
RegistryExact ==
  \A n \in Names :
    /\ allOpenedDB[n].hdb = None => allOpenedDB[n].counter = 0
    /\ \A h \in Handles : allOpenedDB[n].hdb = h <=> live[h] = n

(* The descriptors attached to file n. *)
AttachedTo(n) == {fd \in Fds : Attached(fd) = n}

(* CDManager holds no closed handle and no file is attached to more        *)
(* descriptors than it has references, so the CloseDB of one client never  *)
(* closes a file under another, nor one a stale entry still leads to.      *)
RefCountsCover ==
  /\ \A fd \in Fds : CDManager[fd] # None => Attached(fd) # None
  /\ \A n \in Names : Cardinality(AttachedTo(n)) <= allOpenedDB[n].counter

(* Clients waiting for CreateDB to count them, and living clients that     *)
(* asked for file n and have not been told that it is closed.              *)
Opening(n) == {c \in Clients : inbox[c] # None /\ inbox[c].op = "OPEN" /\ inbox[c].db = n}
Users(n)   == {c \in Clients : /\ pc[c] # "dead"
                               /\ dbname[c] = n
                               /\ outbox[c] # None => outbox[c].cmd # "CLOSE"}

(* The references to a file, held and requested, are those of its living   *)
(* users: one leaks only when a client dies with a database open, and      *)
(* while nobody dies a file is closed with its last session.               *)
ReferencesAccounted ==
  \A n \in Names :
    allOpenedDB[n].counter + Cardinality(Opening(n)) <= Cardinality(Users(n)) + deaths

(* A connection has at most one descriptor, and carries at most one        *)
(* message, which its client is waiting for (or died waiting for): OPEN is *)
(* the only request of a client with no database open, a client in session *)
(* sends no second OPEN, and the server closes a connection only with its  *)
(* reply to CLOSE or when the client is dead.  The server's table of       *)
(* descriptors is right only because of this.                              *)
OneFdPerClient ==
  /\ \A fd \in Fds : sock[fd] \notin backlog
  /\ \A fd1, fd2 \in Fds : sock[fd1] = sock[fd2] /\ sock[fd1] # None => fd1 = fd2

Disciplined(c) ==
  /\ inbox[c] # None => /\ pc[c] \in {"waiting", "dead"}
                        /\ Held(c)
                        /\ outbox[c] = None
                        /\ inbox[c].op = "OPEN" => inbox[c].db = dbname[c]
                        /\ inbox[c].op = "NONE" <=> dbname[c] = None
  /\ outbox[c] # None => (outbox[c].cmd = "CLOSE" => ~Held(c))
  /\ pc[c] \in {"off", "linked"} => dbname[c] = None
  /\ pc[c] = "ready" => dbname[c] # None
  /\ pc[c] \in {"off", "linked", "ready"} => outbox[c] = None
  /\ pc[c] \in {"linked", "ready"} => Held(c)
  /\ pc[c] = "waiting" => Held(c) \/ (outbox[c] # None /\ outbox[c].cmd = "CLOSE")
  /\ c \in backlog => outbox[c] = None
  /\ c \in backlog /\ dbname[c] # None => inbox[c] # None /\ inbox[c].op = "OPEN"

OneCallAtATime == OneFdPerClient /\ \A c \in Clients : Disciplined(c)

(* Every client that waits in recv() gets its reply or dies waiting. *)
Responsive == \A c \in Clients : pc[c] = "waiting" ~> pc[c] # "waiting"

(* A connection whose client died is accepted and closed in the end, with  *)
(* the request it left behind served first.                                *)
DeadReaped == \A c \in Clients : pc[c] = "dead" ~> ~Held(c)

(* SET_RSP means success (protocol.h): the step that sends it has stored   *)
(* the value.                                                              *)
AckedSetsStored ==
  [][\A fd \in Fds :
       Received(fd, "SET") /\ inbox'[sock[fd]] = None
         => records'[Attached(fd)][inbox[sock[fd]].key] = inbox[sock[fd]].val]_vars

(* The calls and answers of the service, as KVStore sees them: opening and *)
(* closing are invisible, and a call is on the file its caller opened.     *)
DataOps == {"SET", "GET", "DELETE"}

PendingCalls ==
  [c \in Clients |-> IF inbox[c] # None /\ inbox[c].op \in DataOps
                     THEN [inbox[c] EXCEPT !.db = dbname[c]] ELSE None]
DataAnswers ==
  [c \in Clients |-> IF /\ outbox[c] # None
                        /\ dbname[c] # None
                        /\ outbox[c].cmd \in DataOps \cup {"ERROR"}
                     THEN outbox[c] ELSE None]

KV == INSTANCE KVStore WITH store <- records, pending <- PendingCalls,
                            answer <- DataAnswers

ASSUME CallsAssumption == None \notin KV!Calls

(* The server implements the abstract store (on a disk that does not       *)
(* fail): each call takes effect exactly once, on its caller's own file,   *)
(* between request and reply, even if the caller dies meanwhile.           *)
ImplementsKVStore == KV!KVSpec
=============================================================================
