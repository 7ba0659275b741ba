---------------------------- MODULE EngineProofs ----------------------------
(* Proofs about Engine, for every value of its constants: types, then the  *)
(* safety invariants and the refinement of KVStore.                        *)
EXTENDS Engine, FiniteSetTheorems, TLAPS

USE DEF vars, clientVars, netVars, dbVars

(***************************************************************************)
(* Types.                                                                  *)
(***************************************************************************)

(* Formatted messages are messages of protocol.h. *)
LEMMA MessageTypes ==
  /\ \A n \in Names : Request("OPEN", n, None, None) \in Requests
  /\ Request("CLOSE", None, None, None) \in Requests
  /\ Request("NONE", None, None, None) \in Requests
  /\ \A op \in {"GET", "DELETE"}, k \in Keys : Request(op, None, k, None) \in Requests
  /\ \A k \in Keys, v \in Values : Request("SET", None, k, v) \in Requests
  /\ \A cmd \in {"OPEN", "CLOSE", "SET", "DELETE", "ERROR"} : Reply(cmd, None) \in Replies
  /\ \A cmd \in {"GET", "DELETE"}, v \in Values \cup {None} : LookupReply(cmd, v) \in Replies
BY DEF Request, Requests, Reply, Replies, LookupReply

(* What the command of a request says about its other fields. *)
LEMMA RequestFields ==
  \A r \in Requests :
    /\ r.op = "OPEN" => r.db \in Names
    /\ r.op \in {"SET", "GET", "DELETE"} => r.key \in Keys
    /\ r.op = "SET" => r.val \in Values
BY DEF Requests

(* The client of a connected descriptor and its request. *)
LEMMA ReceivedFacts ==
  ASSUME TypeOK, NEW fd \in Fds, NEW op, Received(fd, op)
  PROVE  /\ sock[fd] \in Clients
         /\ inbox[sock[fd]] \in Requests
         /\ inbox[sock[fd]].op = op
BY DEF TypeOK, Received

(* CreateDB of dbapi.c returns a handle of a well-typed registry. *)
LEMMA CreateDBTypes ==
  ASSUME TypeOK, NEW n \in Names, NEW h \in Handles, CreateDB(n, h)
  PROVE  /\ allOpenedDB' \in [Names -> [hdb: Handles \cup {None}, counter: Nat]]
         /\ live' \in [Handles -> Names \cup {None}]
<1>1. allOpenedDB[n] \in [hdb: Handles \cup {None}, counter: Nat]
  BY DEF TypeOK
<1>2. CASE /\ allOpenedDB' = [allOpenedDB EXCEPT ![n].counter = @ + 1]
           /\ UNCHANGED live
  <2>1. [allOpenedDB[n] EXCEPT !.counter = allOpenedDB[n].counter + 1]
          \in [hdb: Handles \cup {None}, counter: Nat]
    BY <1>1
  <2>2. allOpenedDB' = [allOpenedDB EXCEPT ![n] =
                         [allOpenedDB[n] EXCEPT !.counter = allOpenedDB[n].counter + 1]]
    BY <1>2
  <2> QED
    BY <1>2, <2>1, <2>2, Zenon DEF TypeOK
<1>3. CASE /\ allOpenedDB' = [allOpenedDB EXCEPT ![n] = [hdb |-> h, counter |-> 1]]
           /\ live' = [live EXCEPT ![h] = n]
  BY <1>3 DEF TypeOK
<1> QED
  BY <1>2, <1>3 DEF CreateDB

(* A server step of one kind keeps the types. *)
LEMMA ServeTypes ==
  ASSUME TypeOK, NEW fd \in Fds, Serve(fd)
  PROVE  TypeOK'
<1> USE ConstantsAssumption
<1>1. CASE HandleOpen(fd)
  <2>1. /\ sock[fd] \in Clients
        /\ inbox[sock[fd]].db \in Names
    BY <1>1, ReceivedFacts, RequestFields DEF HandleOpen
  <2>2. PICK h \in Handles : CreateDB(inbox[sock[fd]].db, h) /\ AttachCD(fd, h)
    BY <1>1 DEF HandleOpen
  <2>3. /\ allOpenedDB' \in [Names -> [hdb: Handles \cup {None}, counter: Nat]]
        /\ live' \in [Handles -> Names \cup {None}]
    BY <2>1, <2>2, CreateDBTypes
  <2>4. CDManager' \in [Fds -> Handles \cup {None}]
    BY <2>2 DEF TypeOK, AttachCD
  <2> QED
    BY <1>1, <2>1, <2>3, <2>4, MessageTypes DEF TypeOK, HandleOpen, Respond
<1>2. CASE HandleSet(fd)
  <2>1. /\ sock[fd] \in Clients
        /\ inbox[sock[fd]].key \in Keys
        /\ inbox[sock[fd]].val \in Values
    BY <1>2, ReceivedFacts, RequestFields DEF HandleSet
  <2>2. Attached(fd) \in Names
    BY <1>2 DEF TypeOK, HandleSet, Attached, GetMdb
  <2>3. records' \in [Names -> [Keys -> Values \cup {None}]]
    BY <1>2, <2>1, <2>2 DEF TypeOK, HandleSet
  <2> QED
    BY <1>2, <2>1, <2>3, MessageTypes DEF TypeOK, HandleSet, Respond
<1>3. CASE HandleGet(fd)
  <2>1. /\ sock[fd] \in Clients
        /\ inbox[sock[fd]].key \in Keys
    BY <1>3, ReceivedFacts, RequestFields DEF HandleGet
  <2>2. Attached(fd) \in Names
    BY <1>3 DEF TypeOK, HandleGet, Attached, GetMdb
  <2>3. LookupReply("GET", records[Attached(fd)][inbox[sock[fd]].key]) \in Replies
    BY <2>1, <2>2, MessageTypes DEF TypeOK
  <2> QED
    BY <1>3, <2>1, <2>3 DEF TypeOK, HandleGet, Respond
<1>4. CASE HandleDelete(fd)
  <2>1. /\ sock[fd] \in Clients
        /\ inbox[sock[fd]].key \in Keys
    BY <1>4, ReceivedFacts, RequestFields DEF HandleDelete
  <2>2. Attached(fd) \in Names
    BY <1>4 DEF TypeOK, HandleDelete, Attached, GetMdb
  <2>3. LookupReply("DELETE", records[Attached(fd)][inbox[sock[fd]].key]) \in Replies
    BY <2>1, <2>2, MessageTypes DEF TypeOK
  <2>4. records' \in [Names -> [Keys -> Values \cup {None}]]
    <3>1. CASE records' = [records EXCEPT ![Attached(fd)][inbox[sock[fd]].key] = None]
      BY <2>1, <2>2, <3>1 DEF TypeOK
    <3>2. CASE UNCHANGED records
      BY <3>2 DEF TypeOK
    <3> QED
      BY <1>4, <3>1, <3>2 DEF HandleDelete
  <2>5. \E reply \in Replies : Respond(fd, reply)
    BY <1>4, <2>3, MessageTypes DEF HandleDelete
  <2> QED
    BY <1>4, <2>1, <2>4, <2>5 DEF TypeOK, HandleDelete, Respond
<1>5. CASE HandleClose(fd)
  <2>1. sock[fd] \in Clients
    BY <1>5, ReceivedFacts DEF HandleClose
  <2>2. GetMdb(fd) \in Handles
    BY <1>5 DEF TypeOK, HandleClose, Attached, GetMdb
  <2>3. allOpenedDB' \in [Names -> [hdb: Handles \cup {None}, counter: Nat]]
    <3>1. \A entry \in [hdb: Handles \cup {None}, counter: Nat] :
            Released(entry) \in [hdb: Handles \cup {None}, counter: Nat]
      BY DEF Released, NotOpened
    <3> QED
      BY <1>5, <3>1 DEF TypeOK, HandleClose, CloseDB
  <2>4. live' \in [Handles -> Names \cup {None}]
    BY <1>5, <2>2 DEF TypeOK, HandleClose, CloseDB
  <2> QED
    BY <1>5, <2>1, <2>3, <2>4, MessageTypes
    DEF TypeOK, HandleClose, Respond, DettachCD, ServiceStop
<1>6. CASE HandleUnknown(fd)
  BY <1>6, MessageTypes, ReceivedFacts DEF TypeOK, HandleUnknown, Respond
<1>7. CASE HangUp(fd)
  BY <1>7 DEF TypeOK, HangUp, ServiceStop
<1> QED
  BY <1>1, <1>2, <1>3, <1>4, <1>5, <1>6, <1>7 DEF Serve

(* A step of a client process keeps the state well typed. *)
LEMMA ClientTypes ==
  ASSUME TypeOK, NEW c \in Clients, ClientStep(c)
  PROVE  TypeOK'
<1> USE ConstantsAssumption
<1>1. CASE Connect(c)
  BY <1>1 DEF TypeOK, Connect
<1>2. ASSUME NEW n \in Names, SendOpen(c, n) PROVE TypeOK'
  BY <1>2, MessageTypes DEF TypeOK, SendOpen, Send
<1>3. CASE SendUnformatted(c)
  BY <1>3, MessageTypes DEF TypeOK, SendUnformatted, Send
<1>4. ASSUME NEW k \in Keys, NEW v \in Values, SendSet(c, k, v) PROVE TypeOK'
  BY <1>4, MessageTypes DEF TypeOK, SendSet, Send
<1>5. ASSUME NEW op \in {"GET", "DELETE"}, NEW k \in Keys, SendLookup(c, op, k)
      PROVE  TypeOK'
  BY <1>5, MessageTypes DEF TypeOK, SendLookup, Send
<1>6. CASE SendClose(c)
  BY <1>6, MessageTypes DEF TypeOK, SendClose, Send
<1>7. CASE ReceiveReply(c)
  BY <1>7 DEF TypeOK, ReceiveReply
<1>8. CASE Die(c)
  BY <1>8 DEF TypeOK, Die
<1> QED
  BY <1>1, <1>2, <1>3, <1>4, <1>5, <1>6, <1>7, <1>8 DEF ClientStep

(* Every variable keeps its type: in particular no reference count goes    *)
(* below zero and every message is well formed.                            *)
THEOREM TypeCorrect == Spec => []TypeOK
<1>1. Init => TypeOK
  BY ConstantsAssumption DEF Init, TypeOK, NotOpened
<1>2. TypeOK /\ [Next]_vars => TypeOK'
  <2> SUFFICES ASSUME TypeOK, [Next]_vars PROVE TypeOK'
    OBVIOUS
  <2>1. ASSUME NEW c \in Clients, ClientStep(c) PROVE TypeOK'
    BY <2>1, ClientTypes
  <2>2. ASSUME NEW c \in Clients, NEW fd \in Fds, Accept(c, fd) PROVE TypeOK'
    BY <2>2 DEF TypeOK, Accept
  <2>3. ASSUME NEW fd \in Fds, Serve(fd) PROVE TypeOK'
    BY <2>3, ServeTypes
  <2>4. CASE UNCHANGED vars
    BY <2>4 DEF TypeOK
  <2> QED
    BY <2>1, <2>2, <2>3, <2>4 DEF Next
<1> QED
  BY <1>1, <1>2, PTL DEF Spec

(***************************************************************************)
(* One call at a time.                                                     *)
(***************************************************************************)

(* A step that leaves a client and its connection alone. *)
LEMMA DisciplinedFrame ==
  ASSUME NEW c \in Clients, Disciplined(c),
         pc'[c] = pc[c], dbname'[c] = dbname[c],
         inbox'[c] = inbox[c], outbox'[c] = outbox[c],
         Held(c)' <=> Held(c), c \in backlog' <=> c \in backlog
  PROVE  Disciplined(c)'
BY DEF Disciplined

(* A client sends the request r and has, from now on, asked for file n. *)
LEMMA SendDiscipline ==
  ASSUME TypeOK, OneCallAtATime, NEW c \in Clients,
         NEW n \in Names \cup {None}, NEW r \in Requests,
         pc[c] \in {"linked", "ready"},
         dbname' = [dbname EXCEPT ![c] = n], Send(c, r),
         r.op = "OPEN" => r.db = n,
         r.op = "NONE" <=> n = None,
         dbname[c] = None /\ n # None => r.op = "OPEN"
  PROVE  OneCallAtATime'
<1>1. OneFdPerClient' /\ \A d \in Clients : Held(d)' <=> Held(d)
  BY DEF OneCallAtATime, OneFdPerClient, Held, Send
<1>2. ASSUME NEW d \in Clients PROVE Disciplined(d)'
  <2>1. Disciplined(d) /\ UNCHANGED <<backlog, outbox>> /\ (Held(d)' <=> Held(d))
    BY <1>1 DEF OneCallAtATime, Send
  <2>2. CASE d # c
    BY <2>1, <2>2, DisciplinedFrame DEF TypeOK, Send
  <2>3. CASE d = c
    <3>1. /\ pc'[c] = "waiting" /\ inbox'[c] = r /\ dbname'[c] = n
          /\ outbox'[c] = None /\ Held(c) /\ Held(c)'
      BY <2>1, <2>3 DEF TypeOK, Send, Disciplined
    <3>2. c \in backlog /\ n # None => r.op = "OPEN"
      BY <2>1, <2>3 DEF Disciplined
    <3>3. r # None
      BY MessagesAssumption
    <3> QED
      BY <2>1, <2>3, <3>1, <3>2, <3>3 DEF Disciplined
  <2> QED
    BY <2>2, <2>3
<1> QED
  BY <1>1, <1>2 DEF OneCallAtATime

(* A step of a client keeps to one call at a time. *)
LEMMA ClientDiscipline ==
  ASSUME TypeOK, OneCallAtATime, NEW c \in Clients, ClientStep(c)
  PROVE  OneCallAtATime'
<1> USE ConstantsAssumption, MessagesAssumption
<1>d. Disciplined(c) /\ dbname[c] \in Names \cup {None}
  BY DEF OneCallAtATime, TypeOK
<1>1. CASE Connect(c)
  <2>1. OneFdPerClient'
    BY <1>1 DEF Connect, OneCallAtATime, OneFdPerClient, Held
  <2>2. ASSUME NEW d \in Clients, d # c PROVE Disciplined(d)'
    <3>1. (Held(d)' <=> Held(d)) /\ (d \in backlog' <=> d \in backlog)
      BY <1>1, <2>2 DEF Connect, Held
    <3> QED
      BY <1>1, <2>2, <3>1, DisciplinedFrame DEF Connect, OneCallAtATime, TypeOK
  <2>3. Disciplined(c)'
    <3>1. inbox[c] = None
      BY <1>d, <1>1 DEF Connect, Disciplined
    <3>2. Held(c)'
      BY <1>1 DEF Connect, Held
    <3> QED
      BY <1>1, <3>1, <3>2 DEF Connect, Disciplined, TypeOK
  <2> QED
    BY <2>1, <2>2, <2>3 DEF OneCallAtATime
<1>2. ASSUME NEW n \in Names, SendOpen(c, n) PROVE OneCallAtATime'
  <2>1. /\ Request("OPEN", n, None, None) \in Requests
        /\ Request("OPEN", n, None, None).op = "OPEN"
        /\ Request("OPEN", n, None, None).db = n
    BY MessageTypes DEF Request
  <2> QED
    BY <1>2, <2>1, SendDiscipline DEF SendOpen
<1>3. ASSUME NEW r \in Requests, UNCHANGED dbname, Send(c, r),
             \/ pc[c] = "linked" /\ r.op = "NONE"
             \/ pc[c] = "ready" /\ r.op \notin {"OPEN", "NONE"}
      PROVE  OneCallAtATime'
  <2>1. dbname' = [dbname EXCEPT ![c] = dbname[c]]
    BY <1>3 DEF TypeOK
  <2>2. pc[c] = "linked" <=> dbname[c] = None
    BY <1>d, <1>3 DEF Disciplined
  <2> QED
    BY <1>d, <1>3, <2>1, <2>2, SendDiscipline
<1>4. CASE SendUnformatted(c)
  BY <1>3, <1>4, MessageTypes DEF SendUnformatted, Request
<1>5. ASSUME NEW k \in Keys, NEW v \in Values, SendSet(c, k, v) PROVE OneCallAtATime'
  BY <1>3, <1>5, MessageTypes DEF SendSet, Request
<1>6. ASSUME NEW op \in {"GET", "DELETE"}, NEW k \in Keys, SendLookup(c, op, k)
      PROVE  OneCallAtATime'
  BY <1>3, <1>6, MessageTypes DEF SendLookup, Request
<1>7. CASE SendClose(c)
  BY <1>3, <1>7, MessageTypes DEF SendClose, Request
<1>8. ASSUME \/ ReceiveReply(c)
             \/ Die(c)
      PROVE  OneCallAtATime'
  <2>1. UNCHANGED <<backlog, sock>> /\ \A d \in Clients : Held(d)' <=> Held(d)
    BY <1>8 DEF ReceiveReply, Die, Held
  <2>2. ASSUME NEW d \in Clients, d # c PROVE Disciplined(d)'
    BY <1>8, <2>1, <2>2, DisciplinedFrame DEF ReceiveReply, Die, OneCallAtATime, TypeOK
  <2>3. Disciplined(c)'
    <3>1. CASE Die(c)
      BY <1>d, <2>1, <3>1 DEF Die, Disciplined, TypeOK
    <3>2. CASE ReceiveReply(c)
      <4>1. /\ pc[c] = "waiting" /\ outbox[c] # None /\ outbox'[c] = None
            /\ inbox[c] = None /\ inbox'[c] = None /\ c \notin backlog'
        BY <1>d, <2>1, <3>2 DEF ReceiveReply, Disciplined, TypeOK
      <4>2. CASE outbox[c].cmd = "CLOSE"
        <5>1. pc'[c] = "off" /\ dbname'[c] = None
          BY <3>2, <4>2 DEF ReceiveReply, TypeOK
        <5> QED
          BY <4>1, <5>1 DEF Disciplined
      <4>3. CASE outbox[c].cmd # "CLOSE"
        <5>1. /\ pc'[c] = IF dbname[c] = None THEN "failed" ELSE "ready"
              /\ dbname'[c] = dbname[c]
          BY <3>2, <4>3 DEF ReceiveReply, TypeOK
        <5>2. Held(c)'
          BY <1>d, <2>1, <4>1, <4>3 DEF Disciplined
        <5> QED
          BY <4>1, <5>1, <5>2 DEF Disciplined
      <4> QED
        BY <4>2, <4>3
    <3> QED
      BY <1>8, <3>1, <3>2
  <2> QED
    BY <2>1, <2>2, <2>3 DEF OneCallAtATime, OneFdPerClient
<1> QED
  BY <1>1, <1>2, <1>4, <1>5, <1>6, <1>7, <1>8 DEF ClientStep

(* accept() leaves each client with one descriptor. *)
LEMMA AcceptDiscipline ==
  ASSUME TypeOK, OneCallAtATime, NEW c \in Clients, NEW fd \in Fds, Accept(c, fd)
  PROVE  OneCallAtATime'
<1> USE ConstantsAssumption
<1>1. OneFdPerClient' /\ \A d \in Clients : Held(d)' <=> Held(d)
  BY DEF Accept, OneCallAtATime, OneFdPerClient, Held, TypeOK
<1>2. ASSUME NEW d \in Clients PROVE Disciplined(d)'
  BY <1>1 DEF Accept, OneCallAtATime, Disciplined
<1> QED
  BY <1>1, <1>2 DEF OneCallAtATime

(* A request is read and the reply to it sent; the descriptor stays open.  *)
LEMMA RespondDiscipline ==
  ASSUME TypeOK, OneCallAtATime, NEW fd \in Fds, NEW op, Received(fd, op),
         NEW reply \in Replies, Respond(fd, reply), reply.cmd # "CLOSE",
         UNCHANGED <<pc, dbname, backlog, sock>>
  PROVE  OneCallAtATime'
<1> USE ConstantsAssumption, MessagesAssumption
<1>1. OneFdPerClient' /\ \A d \in Clients : Held(d)' <=> Held(d)
  BY DEF OneCallAtATime, OneFdPerClient, Held
<1>2. ASSUME NEW d \in Clients PROVE Disciplined(d)'
  <2>1. CASE d # sock[fd]
    BY <1>1, <2>1, DisciplinedFrame DEF Respond, OneCallAtATime, TypeOK
  <2>2. CASE d = sock[fd]
    <3>1. /\ pc[d] \in {"waiting", "dead"} /\ d \notin backlog /\ Held(d)
      BY <2>2 DEF Received, OneCallAtATime, OneFdPerClient, Disciplined
    <3>2. inbox'[d] = None /\ outbox'[d] = reply
      BY <2>2 DEF Respond, TypeOK
    <3> QED
      BY <1>1, <3>1, <3>2 DEF Disciplined
  <2> QED
    BY <2>1, <2>2
<1> QED
  BY <1>1, <1>2 DEF OneCallAtATime

(* The descriptor is closed, with the reply to CLOSE or after the client's *)
(* death.                                                                  *)
LEMMA StopDiscipline ==
  ASSUME TypeOK, OneCallAtATime, NEW fd \in Fds, sock[fd] # None,
         ServiceStop(fd), UNCHANGED <<pc, dbname, backlog>>,
         \/ /\ pc[sock[fd]] = "dead"
            /\ inbox[sock[fd]] = None
            /\ UNCHANGED <<inbox, outbox>>
         \/ /\ inbox[sock[fd]] # None
            /\ Respond(fd, Reply("CLOSE", None))
  PROVE  OneCallAtATime'
<1> USE ConstantsAssumption, MessagesAssumption
<1> PICK c \in Clients : c = sock[fd]
  BY DEF TypeOK
<1>1. c \notin backlog /\ Disciplined(c)
  BY DEF OneCallAtATime, OneFdPerClient
<1>2. OneFdPerClient' /\ ~Held(c)'
  BY <1>1 DEF OneCallAtATime, OneFdPerClient, Held, ServiceStop, TypeOK
<1>3. ASSUME NEW d \in Clients, d # c PROVE Disciplined(d)'
  <2>1. /\ Held(d)' <=> Held(d)
        /\ inbox'[d] = inbox[d] /\ outbox'[d] = outbox[d]
    BY <1>1, <1>3 DEF Held, ServiceStop, Respond, TypeOK
  <2> QED
    BY <1>3, <2>1, DisciplinedFrame DEF OneCallAtATime
<1>4. Disciplined(c)'
  <2>1. CASE /\ pc[c] = "dead"
             /\ inbox[c] = None
             /\ UNCHANGED <<inbox, outbox>>
    BY <1>1, <1>2, <2>1 DEF Disciplined
  <2>2. CASE inbox[c] # None /\ Respond(fd, Reply("CLOSE", None))
    <3>1. /\ pc[c] \in {"waiting", "dead"}
          /\ inbox'[c] = None /\ outbox'[c] = Reply("CLOSE", None)
          /\ Reply("CLOSE", None) # None
      BY <1>1, <2>2, MessageTypes DEF Disciplined, Respond, TypeOK
    <3>2. outbox'[c].cmd = "CLOSE"
      BY <3>1 DEF Reply
    <3> QED
      BY <1>1, <1>2, <3>1, <3>2 DEF Disciplined
  <2> QED
    BY <2>1, <2>2
<1> QED
  BY <1>2, <1>3, <1>4 DEF OneCallAtATime

(* A step of the server keeps to one call at a time. *)
LEMMA ServeDiscipline ==
  ASSUME TypeOK, OneCallAtATime, NEW fd \in Fds, Serve(fd)
  PROVE  OneCallAtATime'
<1>1. ASSUME NEW op, Received(fd, op),
             \E reply \in Replies : reply.cmd # "CLOSE" /\ Respond(fd, reply),
             UNCHANGED <<pc, dbname, backlog, sock>>
      PROVE  OneCallAtATime'
  BY <1>1, RespondDiscipline
<1>2. /\ \A cmd \in {"OPEN", "SET", "ERROR"} :
            Reply(cmd, None) \in Replies /\ Reply(cmd, None).cmd # "CLOSE"
      /\ \A cmd \in {"GET", "DELETE"}, v \in Values \cup {None} :
            LookupReply(cmd, v) \in Replies /\ LookupReply(cmd, v).cmd # "CLOSE"
  BY MessageTypes DEF Reply, LookupReply
<1>3. CASE HandleOpen(fd)
  BY <1>1, <1>2, <1>3 DEF HandleOpen
<1>4. CASE HandleSet(fd)
  BY <1>1, <1>2, <1>4 DEF HandleSet
<1>5. ASSUME \/ Received(fd, "GET") \/ Received(fd, "DELETE"),
             Attached(fd) # None
      PROVE  records[Attached(fd)][inbox[sock[fd]].key] \in Values \cup {None}
  <2>1. Attached(fd) \in Names
    BY <1>5 DEF TypeOK, Attached, GetMdb
  <2>2. inbox[sock[fd]].key \in Keys
    BY <1>5, ReceivedFacts, RequestFields
  <2> QED
    BY <2>1, <2>2 DEF TypeOK
<1>6. CASE HandleGet(fd)
  BY <1>1, <1>2, <1>5, <1>6 DEF HandleGet
<1>7. CASE HandleDelete(fd)
  BY <1>1, <1>2, <1>5, <1>7 DEF HandleDelete
<1>8. CASE HandleUnknown(fd)
  BY <1>1, <1>2, <1>8 DEF HandleUnknown
<1>9. CASE HandleClose(fd)
  BY <1>9, StopDiscipline DEF HandleClose, Received
<1>10. CASE HangUp(fd)
  BY <1>10, StopDiscipline DEF HangUp
<1> QED
  BY <1>3, <1>4, <1>6, <1>7, <1>8, <1>9, <1>10 DEF Serve

(* A connection carries one message at a time, and its descriptor is the   *)
(* server's only one for that client.                                      *)
THEOREM CallsOneAtATime == Spec => []OneCallAtATime
<1>1. Init => OneCallAtATime
  BY ConstantsAssumption DEF Init, OneCallAtATime, OneFdPerClient, Disciplined, Held
<1>2. TypeOK /\ OneCallAtATime /\ [Next]_vars => OneCallAtATime'
  <2> SUFFICES ASSUME TypeOK, OneCallAtATime, [Next]_vars PROVE OneCallAtATime'
    OBVIOUS
  <2>1. CASE UNCHANGED vars
    BY <2>1 DEF OneCallAtATime, OneFdPerClient, Disciplined, Held
  <2> QED
    BY <2>1, ClientDiscipline, AcceptDiscipline, ServeDiscipline DEF Next
<1> QED
  BY <1>1, <1>2, TypeCorrect, PTL DEF Spec

(***************************************************************************)
(* Sessions, handles and reference counts.  The three invariants are       *)
(* inductive only together: a session stays attached because no CloseDB    *)
(* closes its file, a CloseDB closes a file only with its last reference   *)
(* because counts cover the descriptors attached, and the handle found in  *)
(* CDManager is the registered one because the registry is exact.          *)
(***************************************************************************)

SessionInv == SessionsAttached /\ RegistryExact /\ RefCountsCover

(* Steps that leave handles alone and put nobody in session.               *)
LEMMA SessionFrame ==
  ASSUME SessionInv,
         UNCHANGED <<CDManager, allOpenedDB, live>>,
         \A fd \in Fds : InSession(fd)' =>
           InSession(fd) /\ dbname'[sock'[fd]] = dbname[sock[fd]]
  PROVE  SessionInv'
<1>1. \A fd \in Fds : Attached(fd)' = Attached(fd)
  BY DEF Attached, GetMdb
<1>2. SessionsAttached'
  BY <1>1 DEF SessionInv, SessionsAttached
<1>3. RegistryExact'
  BY DEF SessionInv, RegistryExact
<1>4. \A n : AttachedTo(n)' = AttachedTo(n)
  BY <1>1 DEF AttachedTo
<1>5. RefCountsCover'
  BY <1>1, <1>4 DEF SessionInv, RefCountsCover
<1> QED
  BY <1>2, <1>3, <1>5 DEF SessionInv

(* A connection that is read from and replied to keeps its session, and    *)
(* so do the others.                                                       *)
LEMMA RespondSession ==
  ASSUME TypeOK, OneCallAtATime, SessionInv, NEW fd \in Fds,
         NEW op, Received(fd, op), op # "OPEN",
         NEW reply, Respond(fd, reply),
         UNCHANGED <<dbname, sock, CDManager, allOpenedDB, live>>
  PROVE  SessionInv'
<1>1. \A d \in Fds : InSession(d)' =>
        InSession(d) /\ dbname'[sock'[d]] = dbname[sock[d]]
  BY DEF InSession, Respond, Received, TypeOK
<1> QED
  BY <1>1, SessionFrame

(* A step of a client process leaves every session attached. *)
LEMMA ClientSession ==
  ASSUME TypeOK, OneCallAtATime, SessionInv, NEW c \in Clients, ClientStep(c)
  PROVE  SessionInv'
<1> USE ConstantsAssumption, MessagesAssumption
<1>1. UNCHANGED <<sock, CDManager, allOpenedDB, live>>
  BY DEF ClientStep, Connect, SendOpen, SendUnformatted, SendSet, SendLookup,
         SendClose, Send, ReceiveReply, Die
<1>2. Disciplined(c)
  BY DEF OneCallAtATime
<1>3. ASSUME NEW fd \in Fds, InSession(fd)'
      PROVE  InSession(fd) /\ dbname'[sock'[fd]] = dbname[sock[fd]]
  <2> PICK d \in Clients : d = sock[fd] /\ d = sock'[fd]
    BY <1>1, <1>3 DEF InSession, TypeOK
  <2>1. dbname'[d] # None /\ (inbox'[d] # None => inbox'[d].op # "OPEN")
    BY <1>3 DEF InSession
  <2>2. CASE Connect(c)
    BY <2>1, <2>2 DEF Connect, Held, InSession, TypeOK
  <2>3. ASSUME NEW n \in Names, SendOpen(c, n)
        PROVE  InSession(fd) /\ dbname'[sock'[fd]] = dbname[sock[fd]]
    BY <2>1, <2>3, MessageTypes DEF SendOpen, Send, Request, InSession, TypeOK
  <2>4. CASE SendUnformatted(c)
    BY <1>2, <2>1, <2>4 DEF SendUnformatted, Send, Disciplined, InSession, TypeOK
  <2>5. ASSUME NEW r, pc[c] = "ready", Send(c, r), UNCHANGED dbname
        PROVE  InSession(fd) /\ dbname'[sock'[fd]] = dbname[sock[fd]]
    BY <1>1, <1>2, <2>1, <2>5 DEF Send, Disciplined, InSession, TypeOK
  <2>6. CASE ReceiveReply(c)
    BY <1>1, <2>1, <2>6 DEF ReceiveReply, InSession, TypeOK
  <2>7. CASE Die(c)
    BY <1>1, <2>1, <2>7 DEF Die, InSession, TypeOK
  <2> QED
    BY <2>2, <2>3, <2>4, <2>5, <2>6, <2>7
    DEF ClientStep, SendSet, SendLookup, SendClose
<1> QED
  BY <1>1, <1>3, SessionFrame

(* The client of an accepted connection may have asked for a file, but     *)
(* nothing is open for it yet.                                             *)
LEMMA AcceptSession ==
  ASSUME TypeOK, OneCallAtATime, SessionInv,
         NEW c \in Clients, NEW fd \in Fds, Accept(c, fd)
  PROVE  SessionInv'
<1>1. \A d \in Fds : InSession(d)' =>
        InSession(d) /\ dbname'[sock'[d]] = dbname[sock[d]]
  BY DEF InSession, Accept, OneCallAtATime, Disciplined, TypeOK
<1> QED
  BY <1>1, SessionFrame DEF Accept

(* What CreateDB does: the file is open behind h, registered with one more *)
(* reference, and no other handle changes.                                 *)
LEMMA CreateDBEffect ==
  ASSUME TypeOK, RegistryExact, NEW n \in Names, NEW h \in Handles, CreateDB(n, h)
  PROVE  /\ allOpenedDB' =
              [allOpenedDB EXCEPT ![n] =
                [hdb |-> h, counter |-> allOpenedDB[n].counter + 1]]
         /\ live' = [live EXCEPT ![h] = n]
         /\ live[h] \in {n, None}
         /\ allOpenedDB[n].hdb \in {h, None}
<1> USE ConstantsAssumption
<1>1. allOpenedDB[n] \in [hdb: Handles \cup {None}, counter: Nat]
  BY DEF TypeOK
<1>2. CASE /\ allOpenedDB[n].hdb = h
           /\ allOpenedDB' = [allOpenedDB EXCEPT ![n].counter = @ + 1]
           /\ UNCHANGED live
  <2>1. [allOpenedDB[n] EXCEPT !.counter = @ + 1]
          = [hdb |-> h, counter |-> allOpenedDB[n].counter + 1]
    BY <1>1, <1>2
  <2>2. allOpenedDB' = [allOpenedDB EXCEPT ![n] =
                         [allOpenedDB[n] EXCEPT !.counter = @ + 1]]
    BY <1>2
  <2>3. live[h] = n
    BY <1>2 DEF RegistryExact
  <2>4. live' = [live EXCEPT ![h] = n]
    BY <1>2, <2>3 DEF TypeOK
  <2> QED
    BY <1>2, <2>1, <2>2, <2>3, <2>4
<1>3. CASE /\ allOpenedDB[n].hdb = None
           /\ live[h] = None
           /\ live' = [live EXCEPT ![h] = n]
           /\ allOpenedDB' = [allOpenedDB EXCEPT ![n] = [hdb |-> h, counter |-> 1]]
  <2>1. allOpenedDB[n].counter + 1 = 1
    BY <1>3 DEF RegistryExact
  <2> QED
    BY <1>3, <2>1
<1> QED
  BY <1>2, <1>3 DEF CreateDB

(* OPEN attaches the client to an open handle on the file it asked for. *)
LEMMA OpenSession ==
  ASSUME TypeOK, OneCallAtATime, SessionInv, NEW fd \in Fds, HandleOpen(fd)
  PROVE  SessionInv'
<1> USE ConstantsAssumption, MessagesAssumption DEF SessionInv
<1> PICK c \in Clients : c = sock[fd]
  BY DEF HandleOpen, Received, TypeOK
<1> PICK n \in Names : n = inbox[c].db
  BY ReceivedFacts, RequestFields DEF HandleOpen
<1>1. PICK h \in Handles : CreateDB(n, h) /\ AttachCD(fd, h)
  BY DEF HandleOpen
<1>2. /\ allOpenedDB' = [allOpenedDB EXCEPT ![n] =
           [hdb |-> h, counter |-> allOpenedDB[n].counter + 1]]
      /\ live' = [live EXCEPT ![h] = n]
      /\ live[h] \in {n, None}
      /\ allOpenedDB[n].hdb \in {h, None}
  BY <1>1, CreateDBEffect
<1>3. dbname[c] = n /\ UNCHANGED <<dbname, sock>>
  BY DEF HandleOpen, Received, OneCallAtATime, Disciplined
<1>4. Attached(fd)' = n
  BY <1>1, <1>2 DEF AttachCD, Attached, GetMdb, TypeOK
<1>5. ASSUME NEW d \in Fds, d # fd PROVE Attached(d)' = Attached(d)
  <2>1. CDManager'[d] = CDManager[d]
    BY <1>1, <1>5 DEF AttachCD, TypeOK
  <2>2. CASE CDManager[d] = h
    BY <1>2, <2>1, <2>2 DEF RefCountsCover, Attached, GetMdb, TypeOK
  <2>3. CASE CDManager[d] # h
    BY <1>2, <2>1, <2>3 DEF Attached, GetMdb, TypeOK
  <2> QED
    BY <2>2, <2>3
<1>6. SessionsAttached'
  <2> SUFFICES ASSUME NEW d \in Fds, InSession(d)' PROVE Attached(d)' = dbname'[sock'[d]]
    BY DEF SessionsAttached
  <2>1. CASE d = fd
    BY <1>3, <1>4, <2>1
  <2>2. CASE d # fd
    <3>1. sock[d] # c
      BY <2>2, <1>3 DEF InSession, OneCallAtATime, OneFdPerClient
    <3>2. InSession(d)
      BY <1>3, <3>1 DEF InSession, HandleOpen, Respond, TypeOK
    <3> QED
      BY <1>3, <1>5, <2>2, <3>2 DEF SessionsAttached
  <2> QED
    BY <2>1, <2>2
<1>7. RegistryExact'
  BY <1>2 DEF RegistryExact, TypeOK
<1>8. RefCountsCover'
  <2>1. ASSUME NEW d \in Fds, CDManager'[d] # None PROVE Attached(d)' # None
    BY <1>1, <1>4, <1>5, <2>1 DEF RefCountsCover, AttachCD, TypeOK
  <2>2. ASSUME NEW m \in Names
        PROVE  Cardinality(AttachedTo(m)') <= allOpenedDB'[m].counter
    <3>1. /\ IsFiniteSet(AttachedTo(m))
          /\ Cardinality(AttachedTo(m)) <= allOpenedDB[m].counter
          /\ allOpenedDB[m].counter \in Nat
      BY FS_Subset DEF AttachedTo, RefCountsCover, TypeOK
    <3>2. CASE m = n
      <4>1. AttachedTo(m)' = AttachedTo(m) \cup {fd}
        BY <1>4, <1>5, <3>2 DEF AttachedTo
      <4>2. Cardinality(AttachedTo(m)') <= Cardinality(AttachedTo(m)) + 1
        <5>1. Cardinality(AttachedTo(m)) \in Nat
          BY <3>1, FS_CardinalityType
        <5>2. Cardinality(AttachedTo(m) \cup {fd})
                \in {Cardinality(AttachedTo(m)), Cardinality(AttachedTo(m)) + 1}
          BY <3>1, FS_AddElement
        <5> QED
          BY <4>1, <5>1, <5>2
      <4>3. allOpenedDB'[m].counter = allOpenedDB[m].counter + 1
        BY <1>2, <3>2 DEF TypeOK
      <4> QED
        BY <3>1, <4>1, <4>2, <4>3, FS_CardinalityType, FS_AddElement
    <3>3. CASE m # n
      <4>1. AttachedTo(m)' \subseteq AttachedTo(m)
        BY <1>4, <1>5, <3>3 DEF AttachedTo
      <4>2. allOpenedDB'[m] = allOpenedDB[m]
        BY <1>2, <3>3 DEF TypeOK
      <4>3. Cardinality(AttachedTo(m)') <= Cardinality(AttachedTo(m))
        BY <3>1, <4>1, FS_Subset
      <4> QED
        BY <3>1, <4>1, <4>2, <4>3, FS_CardinalityType, FS_Subset
    <3> QED
      BY <3>2, <3>3
  <2> QED
    BY <2>1, <2>2 DEF RefCountsCover
<1> QED
  BY <1>6, <1>7, <1>8

(* What CloseDB does to the file behind a registered handle.               *)
LEMMA CloseDBEffect ==
  ASSUME TypeOK, RegistryExact, NEW h \in Handles, NEW n \in Names,
         live[h] = n, CloseDB(h)
  PROVE  /\ allOpenedDB' = [allOpenedDB EXCEPT ![n] = Released(@)]
         /\ live' = IF allOpenedDB[n].counter > 1
                    THEN live ELSE [live EXCEPT ![h] = None]
<1>1. \A m \in Names : allOpenedDB[m].hdb = h <=> m = n
  BY DEF RegistryExact
<1> QED
  BY <1>1 DEF CloseDB, TypeOK

(* CLOSE of one client leaves the sessions of the others attached. *)
LEMMA CloseSession ==
  ASSUME TypeOK, OneCallAtATime, SessionInv, NEW fd \in Fds, HandleClose(fd)
  PROVE  SessionInv'
<1> USE ConstantsAssumption, MessagesAssumption DEF SessionInv
<1> PICK h \in Handles : h = CDManager[fd]
  BY DEF HandleClose, Attached, GetMdb, TypeOK
<1> PICK n \in Names : n = live[h] /\ n = Attached(fd)
  BY DEF HandleClose, Attached, GetMdb, TypeOK
<1>1. /\ allOpenedDB' = [allOpenedDB EXCEPT ![n] = Released(@)]
      /\ live' = IF allOpenedDB[n].counter > 1
                 THEN live ELSE [live EXCEPT ![h] = None]
  BY CloseDBEffect DEF HandleClose, GetMdb
<1>2. /\ IsFiniteSet(AttachedTo(n)) /\ fd \in AttachedTo(n)
      /\ Cardinality(AttachedTo(n)) \in Nat
      /\ allOpenedDB[n] \in [hdb: Handles \cup {None}, counter: Nat]
      /\ Cardinality(AttachedTo(n)) <= allOpenedDB[n].counter
  BY FS_Subset, FS_CardinalityType DEF AttachedTo, RefCountsCover, TypeOK
<1>3. /\ IsFiniteSet(AttachedTo(n) \ {fd})
      /\ Cardinality(AttachedTo(n) \ {fd}) = Cardinality(AttachedTo(n)) - 1
      /\ Cardinality(AttachedTo(n) \ {fd}) \in Nat
  BY <1>2, FS_RemoveElement, FS_CardinalityType
(* The last reference goes: no other descriptor leads to the file.         *)
<1>4. ASSUME allOpenedDB[n].counter <= 1 PROVE AttachedTo(n) \ {fd} = {}
  BY <1>2, <1>3, <1>4, FS_EmptySet
<1>5. CDManager'[fd] = None /\ Attached(fd)' = None
  BY DEF HandleClose, DettachCD, Attached, GetMdb, TypeOK
<1>6. ASSUME NEW d \in Fds, d # fd
      PROVE  CDManager'[d] = CDManager[d] /\ Attached(d)' = Attached(d)
  <2>1. CDManager'[d] = CDManager[d]
    BY <1>6 DEF HandleClose, DettachCD, TypeOK
  <2>2. CASE CDManager[d] = h
    <3>1. d \in AttachedTo(n) \ {fd}
      BY <1>6, <2>2 DEF AttachedTo, Attached, GetMdb
    <3>2. allOpenedDB[n].counter > 1
      BY <1>2, <1>4, <3>1
    <3> QED
      BY <1>1, <2>1, <3>2 DEF Attached, GetMdb
  <2>3. CASE CDManager[d] # h
    BY <1>1, <2>1, <2>3 DEF Attached, GetMdb, TypeOK
  <2> QED
    BY <2>1, <2>2, <2>3
<1>7. SessionsAttached'
  <2> SUFFICES ASSUME NEW d \in Fds, InSession(d)' PROVE Attached(d)' = dbname'[sock'[d]]
    BY DEF SessionsAttached
  <2>1. /\ d # fd /\ sock'[d] = sock[d] /\ sock[d] # None
        /\ sock[fd] # None
    BY DEF InSession, HandleClose, ServiceStop, Received, TypeOK
  <2>2. sock[d] # sock[fd]
    BY <2>1 DEF OneCallAtATime, OneFdPerClient
  <2>3. InSession(d)
    BY <2>1, <2>2 DEF InSession, HandleClose, Respond, TypeOK
  <2> QED
    BY <1>6, <2>1, <2>3 DEF SessionsAttached, HandleClose
<1>8. RegistryExact'
  <2>1. CASE allOpenedDB[n].counter > 1
    <3>1. Released(allOpenedDB[n]).hdb = allOpenedDB[n].hdb /\ live' = live
      BY <1>1, <1>2, <2>1 DEF Released
    <3>2. allOpenedDB[n].hdb = h
      BY DEF RegistryExact
    <3>3. \A m \in Names : allOpenedDB'[m].hdb = allOpenedDB[m].hdb
      BY <1>1, <3>1 DEF TypeOK
    <3>4. \A m \in Names : m # n => allOpenedDB'[m] = allOpenedDB[m]
      BY <1>1 DEF TypeOK
    <3> QED
      BY <3>1, <3>2, <3>3, <3>4 DEF RegistryExact
  <2>2. CASE allOpenedDB[n].counter <= 1
    <3>1. Released(allOpenedDB[n]) = NotOpened
      BY <2>2 DEF Released
    <3>2. /\ allOpenedDB'[n].hdb = None
          /\ allOpenedDB'[n].counter = 0
          /\ \A m \in Names : m # n => allOpenedDB'[m] = allOpenedDB[m]
      BY <1>1, <3>1 DEF NotOpened, TypeOK
    <3>3. /\ live'[h] = None
          /\ \A g \in Handles : g # h => live'[g] = live[g] /\ live[g] # n
      <4>1. live' = [live EXCEPT ![h] = None]
        BY <1>1, <1>2, <2>2
      <4>2. ASSUME NEW g \in Handles, live[g] = n PROVE g = h
        <5>1. allOpenedDB[n].hdb = g /\ allOpenedDB[n].hdb = h
          BY <4>2 DEF RegistryExact
        <5> QED
          BY <5>1
      <4> QED
        BY <4>1, <4>2 DEF TypeOK
    <3>4. \A m \in Names : m # n => allOpenedDB[m].hdb # h
      BY DEF RegistryExact
    <3> QED
      BY <3>2, <3>3, <3>4 DEF RegistryExact
  <2> QED
    BY <1>2, <2>1, <2>2
<1>9. RefCountsCover'
  <2>1. ASSUME NEW d \in Fds, CDManager'[d] # None PROVE Attached(d)' # None
    BY <1>5, <1>6, <2>1 DEF RefCountsCover
  <2>2. ASSUME NEW m \in Names
        PROVE  Cardinality(AttachedTo(m)') <= allOpenedDB'[m].counter
    <3>1. CASE m = n
      <4>1. AttachedTo(m)' = AttachedTo(n) \ {fd}
        BY <1>5, <1>6, <3>1 DEF AttachedTo
      <4>2. allOpenedDB'[m].counter = IF allOpenedDB[n].counter <= 1 THEN 0
                                      ELSE allOpenedDB[n].counter - 1
        BY <1>1, <1>2, <3>1 DEF Released, NotOpened, TypeOK
      <4>3. CASE allOpenedDB[n].counter <= 1
        BY <1>4, <4>1, <4>2, <4>3, FS_EmptySet
      <4>4. CASE allOpenedDB[n].counter > 1
        BY <1>2, <1>3, <4>1, <4>2, <4>4
      <4> QED
        BY <1>2, <4>3, <4>4
    <3>2. CASE m # n
      <4>1. AttachedTo(m)' = AttachedTo(m)
        BY <1>5, <1>6, <3>2 DEF AttachedTo
      <4>2. allOpenedDB'[m] = allOpenedDB[m]
        BY <1>1, <3>2 DEF TypeOK
      <4> QED
        BY <4>1, <4>2 DEF RefCountsCover
    <3> QED
      BY <3>1, <3>2
  <2> QED
    BY <2>1, <2>2 DEF RefCountsCover
<1> QED
  BY <1>7, <1>8, <1>9

(* A step of the server leaves every session attached. *)
LEMMA ServeSession ==
  ASSUME TypeOK, OneCallAtATime, SessionInv, NEW fd \in Fds, Serve(fd)
  PROVE  SessionInv'
<1>1. CASE HandleOpen(fd)
  BY <1>1, OpenSession
<1>2. CASE HandleSet(fd)
  BY <1>2, RespondSession DEF HandleSet
<1>3. CASE HandleGet(fd)
  BY <1>3, RespondSession DEF HandleGet
<1>4. CASE HandleDelete(fd)
  BY <1>4, RespondSession DEF HandleDelete
<1>5. CASE HandleClose(fd)
  BY <1>5, CloseSession
<1>6. CASE HandleUnknown(fd)
  BY <1>6, RespondSession DEF HandleUnknown
<1>7. CASE HangUp(fd)
  <2>1. \A d \in Fds : InSession(d)' =>
          InSession(d) /\ dbname'[sock'[d]] = dbname[sock[d]]
    BY <1>7 DEF HangUp, ServiceStop, InSession, TypeOK
  <2> QED
    BY <1>7, <2>1, SessionFrame DEF HangUp
<1> QED
  BY <1>1, <1>2, <1>3, <1>4, <1>5, <1>6, <1>7 DEF Serve

(* No request is ever served with a NULL, closed or foreign handle, no     *)
(* file is opened twice or lost, and no CloseDB closes a file that some    *)
(* descriptor is still attached to.                                        *)
THEOREM SessionsSafe == Spec => [](SessionsAttached /\ RegistryExact /\ RefCountsCover)
<1>1. Init => SessionInv
  <2> SUFFICES ASSUME Init PROVE SessionInv
    OBVIOUS
  <2>1. \A fd \in Fds : CDManager[fd] = None /\ sock[fd] = None /\ Attached(fd) = None
    BY DEF Init, Attached, GetMdb
  <2>2. ASSUME NEW n \in Names
        PROVE  AttachedTo(n) = {} /\ allOpenedDB[n].counter = 0
    BY <2>1, ConstantsAssumption DEF AttachedTo, Init, NotOpened
  <2> QED
    <3>1. SessionsAttached
      BY <2>1 DEF SessionsAttached, InSession
    <3>2. RegistryExact
      BY ConstantsAssumption DEF RegistryExact, Init, NotOpened
    <3>3. RefCountsCover
      BY <2>1, <2>2, FS_EmptySet DEF RefCountsCover
    <3> QED
      BY <3>1, <3>2, <3>3 DEF SessionInv
<1>2. TypeOK /\ OneCallAtATime /\ SessionInv /\ [Next]_vars => SessionInv'
  <2> SUFFICES ASSUME TypeOK, OneCallAtATime, SessionInv, [Next]_vars PROVE SessionInv'
    OBVIOUS
  <2>1. CASE UNCHANGED vars
    <3>1. \A d \in Fds : InSession(d)' =>
            InSession(d) /\ dbname'[sock'[d]] = dbname[sock[d]]
      BY <2>1 DEF InSession
    <3> QED
      BY <2>1, <3>1, SessionFrame
  <2> QED
    BY <2>1, ClientSession, AcceptSession, ServeSession DEF Next
<1> QED
  BY <1>1, <1>2, TypeCorrect, CallsOneAtATime, PTL DEF Spec, SessionInv

(* Between two requests the registry and the open handles say the same:    *)
(* each registered file is open behind its handle, each open handle is     *)
(* registered (CreateDB and CloseDB of dbapi.c).                           *)
THEOREM RegistryIsExact == Spec => []RegistryExact
  BY SessionsSafe, PTL

(* The counter of a file covers every descriptor attached to it, stale     *)
(* ones included (AttachCD, DettachCD).                                    *)
THEOREM RefCountsAreCovered == Spec => []RefCountsCover
  BY SessionsSafe, PTL

(***************************************************************************)
(* References to files leak only with clients that die.                    *)
(***************************************************************************)

(* The conjunct of ReferencesAccounted for the file n. *)
Accounted(n) ==
  allOpenedDB[n].counter + Cardinality(Opening(n)) <= Cardinality(Users(n)) + deaths

(* The sets that are counted are finite, so their sizes are numbers. *)
LEMMA Counts ==
  ASSUME TypeOK, NEW n \in Names
  PROVE  /\ IsFiniteSet(Opening(n)) /\ Cardinality(Opening(n)) \in Nat
         /\ IsFiniteSet(Users(n)) /\ Cardinality(Users(n)) \in Nat
         /\ allOpenedDB[n].counter \in Nat /\ deaths \in Nat
<1>1. IsFiniteSet(Opening(n)) /\ IsFiniteSet(Users(n))
  BY ConstantsAssumption, FS_Subset DEF Opening, Users
<1> QED
  BY <1>1, FS_CardinalityType, ConstantsAssumption DEF TypeOK

(* A step that changes neither the references to n nor its users.          *)
LEMMA AccountedFrame ==
  ASSUME NEW n \in Names, Accounted(n),
         Opening(n)' = Opening(n), Users(n)' = Users(n),
         allOpenedDB'[n].counter = allOpenedDB[n].counter, UNCHANGED deaths
  PROVE  Accounted(n)'
BY DEF Accounted

(* A step of a client keeps the references to a file accounted for. *)
LEMMA ClientAccounted ==
  ASSUME TypeOK, OneCallAtATime, NEW n \in Names, Accounted(n),
         NEW c \in Clients, ClientStep(c)
  PROVE  Accounted(n)'
<1> USE ConstantsAssumption, MessagesAssumption
<1>1. Disciplined(c)
  BY DEF OneCallAtATime
<1>2. allOpenedDB' = allOpenedDB
  BY DEF ClientStep, Connect, SendOpen, SendUnformatted, SendSet, SendLookup,
         SendClose, Send, ReceiveReply, Die
<1>3. CASE Connect(c)
  <2>1. Opening(n)' = Opening(n) /\ Users(n)' = Users(n)
    BY <1>1, <1>3 DEF Connect, Opening, Users, Disciplined, TypeOK
  <2> QED
    BY <1>2, <1>3, <2>1, AccountedFrame DEF Connect
<1>4. ASSUME NEW m \in Names, SendOpen(c, m) PROVE Accounted(n)'
  <2> DEFINE r == Request("OPEN", m, None, None)
  <2>1. /\ r.op = "OPEN" /\ r.db = m /\ r # None
        /\ inbox' = [inbox EXCEPT ![c] = r]
        /\ dbname' = [dbname EXCEPT ![c] = m]
        /\ pc' = [pc EXCEPT ![c] = "waiting"]
        /\ outbox' = outbox /\ deaths' = deaths
        /\ dbname[c] = None /\ inbox[c] = None /\ outbox[c] = None
    BY <1>1, <1>4, MessageTypes DEF SendOpen, Send, Disciplined, Request
  <2> HIDE DEF r
  <2>2. CASE m # n
    <3>1. Opening(n)' = Opening(n) /\ Users(n)' = Users(n)
      BY <2>1, <2>2 DEF Opening, Users, TypeOK
    <3> QED
      BY <1>2, <2>1, <3>1, AccountedFrame
  <2>3. CASE m = n
    <3>1. /\ Opening(n)' = Opening(n) \cup {c} /\ c \notin Opening(n)
          /\ Users(n)' = Users(n) \cup {c} /\ c \notin Users(n)
      BY <2>1, <2>3 DEF Opening, Users, TypeOK
    <3>2. /\ Cardinality(Opening(n)') = Cardinality(Opening(n)) + 1
          /\ Cardinality(Users(n)') = Cardinality(Users(n)) + 1
      BY <3>1, Counts, FS_AddElement
    <3> QED
      BY <1>2, <2>1, <3>2, Counts DEF Accounted
  <2> QED
    BY <2>2, <2>3
<1>5. ASSUME NEW r \in Requests, r.op # "OPEN", Send(c, r), UNCHANGED dbname,
             pc[c] \in {"linked", "ready"}
      PROVE  Accounted(n)'
  <2>1. Opening(n)' = Opening(n) /\ Users(n)' = Users(n)
    BY <1>1, <1>5 DEF Send, Opening, Users, Disciplined, TypeOK
  <2> QED
    BY <1>2, <1>5, <2>1, AccountedFrame DEF Send
<1>6. CASE SendUnformatted(c)
  BY <1>5, <1>6, MessageTypes DEF SendUnformatted, Request
<1>7. ASSUME NEW k \in Keys, NEW v \in Values, SendSet(c, k, v) PROVE Accounted(n)'
  BY <1>5, <1>7, MessageTypes DEF SendSet, Request
<1>8. ASSUME NEW op \in {"GET", "DELETE"}, NEW k \in Keys, SendLookup(c, op, k)
      PROVE  Accounted(n)'
  BY <1>5, <1>8, MessageTypes DEF SendLookup, Request
<1>9. CASE SendClose(c)
  BY <1>5, <1>9, MessageTypes DEF SendClose, Request
<1>10. CASE ReceiveReply(c)
  <2>1. Opening(n)' = Opening(n) /\ Users(n)' = Users(n)
    BY <1>1, <1>10 DEF ReceiveReply, Opening, Users, TypeOK
  <2> QED
    BY <1>2, <1>10, <2>1, AccountedFrame DEF ReceiveReply
<1>11. CASE Die(c)
  <2>1. Opening(n)' = Opening(n)
    BY <1>11 DEF Die, Opening
  <2>2. CASE dbname[c] # n
    <3>1. Users(n)' = Users(n) /\ deaths' \in {deaths, deaths + 1}
      BY <1>11, <2>2 DEF Die, Users, TypeOK
    <3> QED
      BY <1>2, <2>1, <3>1, Counts DEF Accounted
  <2>3. CASE dbname[c] = n
    <3>1. Users(n)' = Users(n) \ {c} /\ deaths' = deaths + 1
      BY <1>11, <2>3 DEF Die, Users, TypeOK
    <3>2. Cardinality(Users(n) \ {c}) \in {Cardinality(Users(n)), Cardinality(Users(n)) - 1}
      <4>1. CASE c \in Users(n)
        BY <4>1, Counts, FS_RemoveElement
      <4>2. CASE c \notin Users(n)
        BY <4>2, Counts, FS_RemoveElement
      <4> QED
        BY <4>1, <4>2
    <3> QED
      BY <1>2, <2>1, <3>1, <3>2, Counts DEF Accounted
  <2> QED
    BY <2>2, <2>3
<1> QED
  BY <1>3, <1>4, <1>6, <1>7, <1>8, <1>9, <1>10, <1>11 DEF ClientStep

(* A request other than OPEN is read and a reply other than CLOSE's sent.  *)
LEMMA RespondAccounted ==
  ASSUME TypeOK, OneCallAtATime, NEW n \in Names, Accounted(n),
         NEW fd \in Fds, NEW op, Received(fd, op), op # "OPEN",
         NEW reply, Respond(fd, reply), reply.cmd # "CLOSE",
         UNCHANGED <<clientVars, allOpenedDB>>
  PROVE  Accounted(n)'
<1> PICK c \in Clients : c = sock[fd]
  BY DEF Received, TypeOK
<1>1. /\ inbox[c] # None /\ inbox[c].op # "OPEN" /\ outbox[c] = None
      /\ inbox' = [inbox EXCEPT ![c] = None]
      /\ outbox' = [outbox EXCEPT ![c] = reply]
  BY DEF Received, Respond, OneCallAtATime, Disciplined
<1>2. Opening(n)' = Opening(n) /\ Users(n)' = Users(n)
  BY <1>1 DEF Opening, Users, TypeOK
<1> QED
  BY <1>2, AccountedFrame

(* OPEN turns a requested reference into one that is held. *)
LEMMA OpenAccounted ==
  ASSUME TypeOK, OneCallAtATime, SessionInv, NEW n \in Names, Accounted(n),
         NEW fd \in Fds, HandleOpen(fd)
  PROVE  Accounted(n)'
<1> USE MessagesAssumption DEF SessionInv
<1> PICK c \in Clients : c = sock[fd]
  BY DEF HandleOpen, Received, TypeOK
<1> PICK m \in Names : m = inbox[c].db
  BY ReceivedFacts, RequestFields DEF HandleOpen
<1> PICK h \in Handles : CreateDB(m, h)
  BY DEF HandleOpen
<1>1. /\ inbox[c] # None /\ inbox[c].op = "OPEN" /\ outbox[c] = None
      /\ inbox' = [inbox EXCEPT ![c] = None]
      /\ outbox' = [outbox EXCEPT ![c] = Reply("OPEN", None)]
      /\ Reply("OPEN", None).cmd # "CLOSE"
      /\ UNCHANGED <<pc, dbname, deaths>>
  BY DEF HandleOpen, Received, Respond, OneCallAtATime, Disciplined, Reply
<1>2. Users(n)' = Users(n)
  BY <1>1 DEF Users, TypeOK
<1>3. allOpenedDB' = [allOpenedDB EXCEPT ![m] =
                       [hdb |-> h, counter |-> allOpenedDB[m].counter + 1]]
  BY CreateDBEffect
<1>4. CASE m # n
  <2>1. Opening(n)' = Opening(n) /\ allOpenedDB'[n] = allOpenedDB[n]
    BY <1>1, <1>3, <1>4 DEF Opening, TypeOK
  <2> QED
    BY <1>1, <1>2, <2>1, AccountedFrame
<1>5. CASE m = n
  <2>1. Opening(n)' = Opening(n) \ {c} /\ c \in Opening(n)
    BY <1>1, <1>5 DEF Opening, TypeOK
  <2>2. Cardinality(Opening(n)') = Cardinality(Opening(n)) - 1
    BY <2>1, Counts, FS_RemoveElement
  <2>3. allOpenedDB'[n].counter = allOpenedDB[n].counter + 1
    BY <1>3, <1>5 DEF TypeOK
  <2> QED
    BY <1>1, <1>2, <2>2, <2>3, Counts DEF Accounted
<1> QED
  BY <1>4, <1>5

(* A reference is given up by its user, or by one that has died.           *)
LEMMA CloseAccounted ==
  ASSUME TypeOK, OneCallAtATime, SessionInv, NEW n \in Names, Accounted(n),
         NEW fd \in Fds, HandleClose(fd)
  PROVE  Accounted(n)'
<1> USE ConstantsAssumption, MessagesAssumption DEF SessionInv
<1> PICK c \in Clients : c = sock[fd]
  BY DEF HandleClose, Received, TypeOK
<1> PICK h \in Handles : h = CDManager[fd]
  BY DEF HandleClose, Attached, GetMdb, TypeOK
<1> PICK m \in Names : m = live[h] /\ m = Attached(fd)
  BY DEF HandleClose, Attached, GetMdb, TypeOK
<1>1. allOpenedDB' = [allOpenedDB EXCEPT ![m] = Released(@)]
  BY CloseDBEffect DEF HandleClose, GetMdb
<1>2. /\ inbox[c] # None /\ inbox[c].op = "CLOSE" /\ outbox[c] = None
      /\ inbox' = [inbox EXCEPT ![c] = None]
      /\ outbox' = [outbox EXCEPT ![c] = Reply("CLOSE", None)]
      /\ Reply("CLOSE", None).cmd = "CLOSE"
      /\ Reply("CLOSE", None) # None
      /\ UNCHANGED <<pc, dbname, deaths>>
  BY MessageTypes
  DEF HandleClose, Received, Respond, OneCallAtATime, Disciplined, Reply
<1>3. dbname[c] = m
  BY <1>2 DEF SessionsAttached, InSession, OneCallAtATime, Disciplined
<1>4. Opening(n)' = Opening(n)
  BY <1>2 DEF Opening, TypeOK
<1>5. Users(n)' = Users(n) \ {c}
  BY <1>2 DEF Users, TypeOK
<1>6. CASE m # n
  <2>1. Users(n)' = Users(n)
    BY <1>3, <1>5, <1>6 DEF Users
  <2>2. allOpenedDB'[n] = allOpenedDB[n]
    BY <1>1, <1>6 DEF TypeOK
  <2> QED
    BY <1>2, <1>4, <2>1, <2>2, AccountedFrame
<1>7. CASE m = n
  <2>1. allOpenedDB[n].counter >= 1
    <3>1. /\ fd \in AttachedTo(n) /\ IsFiniteSet(AttachedTo(n))
          /\ Cardinality(AttachedTo(n)) <= allOpenedDB[n].counter
      BY <1>7, FS_Subset, ConstantsAssumption DEF AttachedTo, RefCountsCover
    <3>2. Cardinality(AttachedTo(n)) \in Nat \ {0}
      BY <3>1, FS_CardinalityType, FS_EmptySet
    <3> QED
      BY <3>1, <3>2, Counts
  <2>2. allOpenedDB'[n].counter = allOpenedDB[n].counter - 1
    <3>1. allOpenedDB[n] \in [hdb: Handles \cup {None}, counter: Nat]
      BY DEF TypeOK
    <3>2. Released(allOpenedDB[n]).counter = allOpenedDB[n].counter - 1
      BY <2>1, <3>1 DEF Released, NotOpened
    <3> QED
      BY <1>1, <1>7, <3>2 DEF TypeOK
  <2>3. Cardinality(Users(n)') \in {Cardinality(Users(n)), Cardinality(Users(n)) - 1}
    <3>1. CASE c \in Users(n)
      BY <1>5, <3>1, Counts, FS_RemoveElement
    <3>2. CASE c \notin Users(n)
      BY <1>5, <3>2, Counts
    <3> QED
      BY <3>1, <3>2
  <2> QED
    BY <1>2, <1>4, <2>1, <2>2, <2>3, Counts DEF Accounted
<1> QED
  BY <1>6, <1>7

(* A step of the server keeps the references to a file accounted for. *)
LEMMA ServeAccounted ==
  ASSUME TypeOK, OneCallAtATime, SessionInv, NEW n \in Names, Accounted(n),
         NEW fd \in Fds, Serve(fd)
  PROVE  Accounted(n)'
<1>1. /\ \A cmd \in {"SET", "ERROR"} : Reply(cmd, None).cmd # "CLOSE"
      /\ \A v : \A cmd \in {"GET", "DELETE"} : LookupReply(cmd, v).cmd # "CLOSE"
  BY DEF Reply, LookupReply
<1>2. CASE HandleOpen(fd)
  BY <1>2, OpenAccounted
<1>3. CASE HandleSet(fd)
  BY <1>1, <1>3, RespondAccounted DEF HandleSet
<1>4. CASE HandleGet(fd)
  BY <1>1, <1>4, RespondAccounted DEF HandleGet
<1>5. CASE HandleDelete(fd)
  BY <1>1, <1>5, RespondAccounted DEF HandleDelete
<1>6. CASE HandleClose(fd)
  BY <1>6, CloseAccounted
<1>7. CASE HandleUnknown(fd)
  BY <1>1, <1>7, RespondAccounted DEF HandleUnknown
<1>8. CASE HangUp(fd)
  <2>1. Opening(n)' = Opening(n) /\ Users(n)' = Users(n)
    BY <1>8 DEF HangUp, Opening, Users
  <2> QED
    BY <1>8, <2>1, AccountedFrame DEF HangUp
<1> QED
  BY <1>2, <1>3, <1>4, <1>5, <1>6, <1>7, <1>8 DEF Serve

(* The references to a file, held and requested, never exceed its living   *)
(* users and the clients that died with a database open.                   *)
THEOREM ReferencesAreAccounted == Spec => []ReferencesAccounted
<1>1. Init => ReferencesAccounted
  <2> SUFFICES ASSUME Init, NEW n \in Names PROVE Accounted(n)
    BY DEF ReferencesAccounted, Accounted
  <2>1. Opening(n) = {} /\ Users(n) = {} /\ allOpenedDB[n].counter = 0 /\ deaths = 0
    BY ConstantsAssumption DEF Init, Opening, Users, NotOpened
  <2> QED
    BY <2>1, FS_EmptySet DEF Accounted
<1>2. TypeOK /\ OneCallAtATime /\ SessionInv /\ ReferencesAccounted /\ [Next]_vars
        => ReferencesAccounted'
  <2> SUFFICES ASSUME TypeOK, OneCallAtATime, SessionInv, ReferencesAccounted,
                      [Next]_vars, NEW n \in Names
               PROVE  Accounted(n)'
    BY DEF ReferencesAccounted, Accounted
  <2>1. Accounted(n)
    BY DEF ReferencesAccounted, Accounted
  <2>2. ASSUME UNCHANGED <<clientVars, inbox, outbox, allOpenedDB>> PROVE Accounted(n)'
    <3>1. Opening(n)' = Opening(n) /\ Users(n)' = Users(n)
      BY <2>2 DEF Opening, Users
    <3> QED
      BY <2>1, <2>2, <3>1, AccountedFrame
  <2>3. CASE UNCHANGED vars
    BY <2>2, <2>3
  <2>4. ASSUME NEW c \in Clients, NEW fd \in Fds, Accept(c, fd) PROVE Accounted(n)'
    BY <2>2, <2>4 DEF Accept
  <2> QED
    BY <2>1, <2>3, <2>4, ClientAccounted, ServeAccounted DEF Next
<1> QED
  BY <1>1, <1>2, TypeCorrect, CallsOneAtATime, SessionsSafe, PTL DEF Spec, SessionInv

(***************************************************************************)
(* The refinement: on a disk that does not fail, the server implements     *)
(* KVStore, step by step.                                                  *)
(***************************************************************************)

(* The abstract state after a step, client by client.                      *)
SameView(c) == PendingCalls'[c] = PendingCalls[c] /\ DataAnswers'[c] = DataAnswers[c]

(* A step that leaves a client's messages alone leaves its abstract call and
   answer alone. *)
LEMMA ViewFrame ==
  ASSUME NEW c \in Clients,
         inbox'[c] = inbox[c], outbox'[c] = outbox[c], dbname'[c] = dbname[c]
  PROVE  SameView(c)
BY DEF SameView, PendingCalls, DataAnswers

(* A step that changes no file, call or answer is a stutter of the store. *)
LEMMA StutterStep ==
  ASSUME \A c \in Clients : SameView(c), UNCHANGED records
  PROVE  UNCHANGED KV!kvVars
BY DEF SameView, PendingCalls, DataAnswers, KV!kvVars

(* A client collects, or forgets, its answer: Collect of the store. *)
LEMMA CollectStep ==
  ASSUME NEW c \in Clients, UNCHANGED records,
         \A d \in Clients : d # c => SameView(d),
         PendingCalls[c] = None, PendingCalls'[c] = None, DataAnswers'[c] = None
  PROVE  KV!Collect(c) \/ UNCHANGED KV!kvVars
<1>1. PendingCalls' = PendingCalls /\ DataAnswers' = [DataAnswers EXCEPT ![c] = None]
  <2>1. \A d \in Clients : /\ PendingCalls'[d] = PendingCalls[d]
                           /\ DataAnswers'[d] = IF d = c THEN None ELSE DataAnswers[d]
    BY DEF SameView
  <2> QED
    BY <2>1 DEF PendingCalls, DataAnswers
<1>2. CASE DataAnswers[c] # None
  BY <1>1, <1>2 DEF KV!Collect
<1>3. CASE DataAnswers[c] = None
  <2>1. DataAnswers' = DataAnswers
    BY <1>1, <1>3 DEF DataAnswers
  <2> QED
    BY <1>1, <2>1 DEF KV!kvVars
<1> QED
  BY <1>2, <1>3

(* A client makes the call r: Call of the store. *)
LEMMA CallStep ==
  ASSUME NEW c \in Clients, NEW r \in KV!Calls, UNCHANGED records,
         \A d \in Clients : d # c => SameView(d),
         PendingCalls[c] = None, DataAnswers[c] = None,
         PendingCalls'[c] = r, DataAnswers'[c] = None
  PROVE  KV!Call(c, r)
<1>1. PendingCalls' = [PendingCalls EXCEPT ![c] = r] /\ DataAnswers' = DataAnswers
  BY DEF SameView, PendingCalls, DataAnswers
<1> QED
  BY <1>1 DEF KV!Call

(* The call r of a client takes effect and is answered: TakeEffect of the store. *)
LEMMA EffectStep ==
  ASSUME NEW c \in Clients, NEW r, r # None,
         \A d \in Clients : d # c => SameView(d),
         PendingCalls[c] = r, PendingCalls'[c] = None,
         records' = [records EXCEPT ![r.db][r.key] = KV!After(r, records[r.db][r.key])],
         DataAnswers'[c] = KV!Outcome(r, records[r.db][r.key])
  PROVE  KV!TakeEffect(c)
<1>1. /\ PendingCalls' = [PendingCalls EXCEPT ![c] = None]
      /\ DataAnswers' = [DataAnswers EXCEPT ![c] = KV!Outcome(r, records[r.db][r.key])]
  BY DEF SameView, PendingCalls, DataAnswers
<1> QED
  BY <1>1 DEF KV!TakeEffect

(* A step of a client is a call, a collection or a stutter of the store. *)
LEMMA ClientRefines ==
  ASSUME TypeOK, OneCallAtATime, NEW c \in Clients, ClientStep(c)
  PROVE  KV!KVNext \/ UNCHANGED KV!kvVars
<1> USE ConstantsAssumption, MessagesAssumption
<1>1. Disciplined(c)
  BY DEF OneCallAtATime
<1>2. UNCHANGED records
  BY DEF ClientStep, Connect, SendOpen, SendUnformatted, SendSet, SendLookup,
         SendClose, Send, ReceiveReply, Die
<1>3. ASSUME NEW d \in Clients, d # c PROVE SameView(d)
  <2>1. inbox'[d] = inbox[d] /\ outbox'[d] = outbox[d] /\ dbname'[d] = dbname[d]
    BY <1>3 DEF ClientStep, Connect, SendOpen, SendUnformatted, SendSet, SendLookup,
                SendClose, Send, ReceiveReply, Die, TypeOK
  <2> QED
    BY <2>1, ViewFrame
(* A connection is opened, or a reply received: an answer is collected.    *)
<1>4. CASE Connect(c) \/ ReceiveReply(c)
  <2>1. inbox[c] = None /\ inbox'[c] = None /\ outbox'[c] = None
    BY <1>1, <1>4 DEF Connect, ReceiveReply, Disciplined, TypeOK
  <2>2. /\ PendingCalls[c] = None /\ PendingCalls'[c] = None
        /\ DataAnswers'[c] = None
    BY <2>1 DEF PendingCalls, DataAnswers
  <2> QED
    BY <1>2, <1>3, <2>2, CollectStep DEF KV!KVNext
(* A request that is no data call is sent, or the client dies.             *)
<1>5. ASSUME NEW r \in Requests, r.op \notin DataOps, Send(c, r),
             pc[c] \in {"linked", "ready"}
      PROVE  KV!KVNext \/ UNCHANGED KV!kvVars
  <2>1. inbox[c] = None /\ inbox'[c] = r /\ outbox[c] = None /\ outbox'[c] = None
    BY <1>1, <1>5 DEF Send, Disciplined, TypeOK
  <2>2. SameView(c)
    BY <1>5, <2>1 DEF SameView, PendingCalls, DataAnswers
  <2> QED
    BY <1>2, <1>3, <2>2, StutterStep
<1>6. CASE Die(c)
  BY <1>2, <1>3, <1>6, StutterStep, ViewFrame DEF Die
(* A data call is made.                                                    *)
<1>7. ASSUME NEW r \in Requests, r.op \in DataOps, r.db = None,
             Send(c, r), UNCHANGED dbname, pc[c] = "ready"
      PROVE  KV!KVNext \/ UNCHANGED KV!kvVars
  <2>1. /\ inbox[c] = None /\ inbox'[c] = r /\ outbox[c] = None /\ outbox'[c] = None
        /\ dbname[c] \in Names /\ dbname'[c] = dbname[c]
    BY <1>1, <1>7 DEF Send, Disciplined, TypeOK
  <2> DEFINE call == [r EXCEPT !.db = dbname[c]]
  <2>2. call \in KV!Calls
    BY <1>7, <2>1 DEF KV!Calls, Requests, DataOps
  <2>3. PendingCalls[c] = None /\ DataAnswers[c] = None /\ DataAnswers'[c] = None
    BY <2>1 DEF PendingCalls, DataAnswers
  <2>4. PendingCalls'[c] = call
    BY <1>7, <2>1 DEF PendingCalls
  <2> HIDE DEF call
  <2>5. \E r2 \in KV!Calls : KV!Call(c, r2)
    BY <1>2, <1>3, <2>2, <2>3, <2>4, CallStep
  <2> QED
    BY <2>5 DEF KV!KVNext
<1>8. ASSUME NEW n \in Names, SendOpen(c, n) PROVE KV!KVNext \/ UNCHANGED KV!kvVars
  BY <1>5, <1>8, MessageTypes DEF SendOpen, Request, DataOps
<1>9. CASE SendUnformatted(c)
  BY <1>5, <1>9, MessageTypes DEF SendUnformatted, Request, DataOps
<1>10. CASE SendClose(c)
  BY <1>5, <1>10, MessageTypes DEF SendClose, Request, DataOps
<1>11. ASSUME NEW k \in Keys, NEW v \in Values, SendSet(c, k, v)
       PROVE  KV!KVNext \/ UNCHANGED KV!kvVars
  BY <1>7, <1>11, MessageTypes DEF SendSet, Request, DataOps
<1>12. ASSUME NEW op \in {"GET", "DELETE"}, NEW k \in Keys, SendLookup(c, op, k)
       PROVE  KV!KVNext \/ UNCHANGED KV!kvVars
  BY <1>7, <1>12, MessageTypes DEF SendLookup, Request, DataOps
<1> QED
  BY <1>4, <1>6, <1>8, <1>9, <1>10, <1>11, <1>12 DEF ClientStep

(* A request is answered, or a connection closed, outside the data calls.  *)
LEMMA QuietServe ==
  ASSUME TypeOK, OneCallAtATime, NEW fd \in Fds,
         HandleOpen(fd) \/ HandleClose(fd) \/ HandleUnknown(fd) \/ HangUp(fd)
  PROVE  UNCHANGED KV!kvVars
<1> USE MessagesAssumption
<1> PICK c \in Clients : c = sock[fd]
  BY DEF HandleOpen, HandleClose, HandleUnknown, HangUp, Received, TypeOK
<1>1. UNCHANGED <<records, dbname>>
  BY DEF HandleOpen, HandleClose, HandleUnknown, HangUp
<1>2. CASE HangUp(fd)
  BY <1>1, <1>2, ViewFrame, StutterStep DEF HangUp
<1>3. ASSUME NEW op, Received(fd, op), op \notin DataOps, NEW reply,
             Respond(fd, reply),
             dbname[c] = None \/ reply.cmd \notin DataOps \cup {"ERROR"}
      PROVE  UNCHANGED KV!kvVars
  <2>1. /\ inbox[c].op \notin DataOps /\ outbox[c] = None
        /\ inbox'[c] = None /\ outbox'[c] = reply
    BY <1>3 DEF Received, Respond, OneCallAtATime, Disciplined, TypeOK
  <2>2. SameView(c)
    BY <1>1, <1>3, <2>1 DEF SameView, PendingCalls, DataAnswers
  <2>3. ASSUME NEW d \in Clients, d # c PROVE SameView(d)
    BY <1>1, <1>3, <2>3, ViewFrame DEF Respond, TypeOK
  <2> QED
    BY <1>1, <2>2, <2>3, StutterStep
<1>4. CASE HandleOpen(fd)
  BY <1>3, <1>4 DEF HandleOpen, Reply, DataOps
<1>5. CASE HandleClose(fd)
  BY <1>3, <1>5 DEF HandleClose, Reply, DataOps
<1>6. CASE HandleUnknown(fd)
  <2>1. dbname[c] = None
    BY <1>6 DEF HandleUnknown, Received, OneCallAtATime, Disciplined
  <2> QED
    BY <1>3, <1>6, <2>1 DEF HandleUnknown, DataOps
<1> QED
  BY <1>2, <1>4, <1>5, <1>6

(* A data call takes effect, on the file of the client that made it.       *)
LEMMA DataServe ==
  ASSUME TypeOK, OneCallAtATime, SessionsAttached, ~DiskMayFail, NEW fd \in Fds,
         HandleSet(fd) \/ HandleGet(fd) \/ HandleDelete(fd)
  PROVE  KV!KVNext
<1> USE ConstantsAssumption, MessagesAssumption
<1> PICK c \in Clients : c = sock[fd]
  BY DEF HandleSet, HandleGet, HandleDelete, Received, TypeOK
<1> PICK q \in Requests : q = inbox[c]
  BY ReceivedFacts DEF HandleSet, HandleGet, HandleDelete
<1> PICK n \in Names : n = Attached(fd)
  BY DEF HandleSet, HandleGet, HandleDelete, Attached, GetMdb, TypeOK
<1>1. q.op \in DataOps /\ q # None /\ outbox[c] = None /\ inbox'[c] = None
  BY DEF HandleSet, HandleGet, HandleDelete, Received, Respond, DataOps,
         OneCallAtATime, Disciplined, TypeOK
<1>2. dbname[c] = n /\ UNCHANGED dbname
  <2>1. dbname[c] # None
    BY <1>1 DEF DataOps, OneCallAtATime, Disciplined
  <2>2. InSession(fd)
    BY <1>1, <2>1 DEF InSession, DataOps
  <2> QED
    BY <2>2 DEF SessionsAttached, HandleSet, HandleGet, HandleDelete
<1> DEFINE r == [q EXCEPT !.db = n]
           old == records[n][q.key]
<1>3. q.key \in Keys /\ old \in Values \cup {None} /\ (q.op = "SET" => q.val \in Values)
  BY <1>1, RequestFields DEF DataOps, TypeOK
<1>4. /\ r.op = q.op /\ r.db = n /\ r.key = q.key /\ r.val = q.val
      /\ r # None
  <2>1. r \in KV!Calls
    BY <1>1, <1>3 DEF KV!Calls, Requests, DataOps
  <2> QED
    BY <2>1, CallsAssumption DEF Requests
<1>5. PendingCalls[c] = r /\ PendingCalls'[c] = None
  BY <1>1, <1>2 DEF PendingCalls
<1>6. /\ records' = [records EXCEPT ![n][q.key] = KV!After(q, old)]
      /\ outbox'[c] = KV!Outcome(q, old)
  <2>1. CASE HandleSet(fd)
    <3>1. q.op = "SET" /\ KV!After(q, old) = q.val
      BY <2>1 DEF HandleSet, Received, KV!After
    <3>2. records' = [records EXCEPT ![n][q.key] = q.val]
      BY <2>1 DEF HandleSet
    <3>3. outbox'[c] = KV!Outcome(q, old)
      BY <2>1, <3>1 DEF HandleSet, Respond, Reply, KV!Outcome, TypeOK
    <3> QED
      BY <3>1, <3>2, <3>3
  <2>2. CASE HandleGet(fd)
    <3>1. records' = records /\ q.op = "GET" /\ KV!After(q, old) = old
      BY <2>2 DEF HandleGet, Received, KV!After
    <3>2. records = [records EXCEPT ![n][q.key] = old]
      BY <1>3 DEF TypeOK
    <3>3. outbox'[c] = KV!Outcome(q, old)
      BY <2>2, <3>1 DEF HandleGet, Respond, LookupReply, Reply, KV!Outcome, TypeOK
    <3> QED
      BY <3>1, <3>2, <3>3
  <2>3. CASE HandleDelete(fd)
    BY <2>3 DEF HandleDelete, Received, Respond, LookupReply, Reply,
                KV!After, KV!Outcome, TypeOK
  <2> QED
    BY <2>1, <2>2, <2>3
<1>7. KV!After(r, old) = KV!After(q, old) /\ KV!Outcome(r, old) = KV!Outcome(q, old)
  BY <1>4 DEF KV!After, KV!Outcome
<1>8. DataAnswers'[c] = KV!Outcome(r, old)
  <2>1. /\ outbox'[c].cmd \in DataOps \cup {"ERROR"}
        /\ outbox'[c] \in Replies
    BY <1>1, <1>3, <1>6 DEF KV!Outcome, DataOps, Replies
  <2> QED
    BY <1>2, <1>6, <1>7, <2>1 DEF DataAnswers
<1>9. ASSUME NEW d \in Clients, d # c PROVE SameView(d)
  BY <1>2, <1>9, ViewFrame DEF HandleSet, HandleGet, HandleDelete, Respond, TypeOK
<1>10. /\ records' = [records EXCEPT ![r.db][r.key] =
                        KV!After(r, records[r.db][r.key])]
       /\ DataAnswers'[c] = KV!Outcome(r, records[r.db][r.key])
  <2> HIDE DEF r
  <2> QED
    BY <1>4, <1>6, <1>7, <1>8
<1> HIDE DEF r, old
<1>11. KV!TakeEffect(c)
  BY <1>4, <1>5, <1>9, <1>10, EffectStep
<1> QED
  BY <1>11 DEF KV!KVNext

(* Every behaviour of the server on a disk that does not fail is one of    *)
(* KVStore: each data call takes effect once, between request and answer,  *)
(* on the file of the caller, whatever the other connections do.           *)
THEOREM Refinement == ASSUME ~DiskMayFail PROVE Spec => ImplementsKVStore
<1>1. Init => KV!KVInit
  BY ConstantsAssumption DEF Init, KV!KVInit, PendingCalls, DataAnswers
<1>2. TypeOK /\ OneCallAtATime /\ SessionsAttached /\ [Next]_vars => [KV!KVNext]_KV!kvVars
  <2> SUFFICES ASSUME TypeOK, OneCallAtATime, SessionsAttached, [Next]_vars
               PROVE  KV!KVNext \/ UNCHANGED KV!kvVars
    OBVIOUS
  <2>1. CASE UNCHANGED vars
    BY <2>1, ViewFrame, StutterStep
  <2>2. ASSUME NEW c \in Clients, NEW fd \in Fds, Accept(c, fd)
        PROVE  UNCHANGED KV!kvVars
    BY <2>2, ViewFrame, StutterStep DEF Accept
  <2> QED
    BY <2>1, <2>2, ClientRefines, QuietServe, DataServe DEF Next, Serve
<1> QED
  BY <1>1, <1>2, TypeCorrect, CallsOneAtATime, SessionsSafe, PTL
  DEF Spec, ImplementsKVStore, KV!KVSpec
=============================================================================
