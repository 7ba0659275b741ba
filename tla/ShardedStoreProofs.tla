------------------------- MODULE ShardedStoreProofs -------------------------
(***************************************************************************)
(* Proofs about ShardedStore, for any number of servers, clients, keys,    *)
(* kills and restarts: what a program can rely on when SetRecord or        *)
(* GetRecord returns SUCCESS, and that sessions and references agree.      *)
(***************************************************************************)
EXTENDS ShardedStore, FiniteSetTheorems, SequenceTheorems, TLAPS

USE DEF vars, serverVars, fileVars, callVars, clientVars

CallTypes ==
  /\ cpc \in [Clients -> {"off", "opening", "open", "calling", "closing", "exited"}]
  /\ records \in [Nodes -> [Keys -> Values \cup {None}]]
  /\ wire \in [Clients -> Requests \cup Arrived \cup {None}]
  /\ call \in [Clients -> Data \cup {None}]
  /\ result \in [Clients -> {"none", "SUCCESS", "FAILURE"}]
  /\ served \in [Clients -> BOOLEAN]

(* The request of a data call is on its way, the connection is broken, or  *)
(* the call has been executed.                                             *)
CallInFlight ==
  \A c \in Clients : cpc[c] = "calling" =>
    \/ wire[c] = call[c] /\ wire[c] \in Data
    \/ wire[c] \in Broken
    \/ served[c]

CallInv == CallTypes /\ CallInFlight /\ AckedSetsAndGetsServed

LEMMA RequestsAreNotReplies == Requests \cap Arrived = {}
<1>1. ASSUME NEW r \in Requests PROVE DOMAIN r = {"op", "key", "val"}
  BY <1>1 DEF Requests, Data, OpenRequest, CloseRequest
<1>2. ASSUME NEW m \in Arrived PROVE DOMAIN m = {"cmd", "val"}
  BY <1>2 DEF Arrived, Replies, Broken, Eof, Reset
<1> QED
  BY <1>1, <1>2

LEMMA RequestTypes ==
  /\ OpenRequest \in Requests /\ OpenRequest.op = "OPEN"
  /\ CloseRequest \in Requests /\ CloseRequest.op = "CLOSE"
  /\ Data \subseteq Requests
  /\ \A r \in Data : r.op \in {"SET", "GET", "DELETE"} /\ r.key \in Keys
                     /\ r.val \in Values \cup {None} /\ (r.op = "SET" => r.val \in Values)
BY DEF Requests, Data, OpenRequest, CloseRequest

LEMMA ReplyTypes ==
  /\ \A op \in {"OPEN", "CLOSE"} : [cmd |-> op, val |-> None] \in Arrived
  /\ \A r \in Data, old \in Values \cup {None} :
       /\ OneStore!Outcome(r, old) \in Arrived
       /\ OneStore!After(r, old) \in Values \cup {None}
  /\ Eof \in Arrived /\ Reset \in Arrived
<1>1. \A op \in {"OPEN", "CLOSE"} : [cmd |-> op, val |-> None] \in Arrived
  BY DEF Arrived, Replies
<1>2. ASSUME NEW r \in Data, NEW old \in Values \cup {None}
      PROVE  OneStore!Outcome(r, old) \in Arrived
  <2>1. CASE r.op # "SET" /\ old = None
    BY <2>1 DEF OneStore!Outcome, Arrived, Replies
  <2>2. CASE r.op = "GET" /\ old # None
    BY <2>2 DEF OneStore!Outcome, Arrived, Replies
  <2>3. CASE r.op = "SET" \/ (r.op = "DELETE" /\ old # None)
    BY <2>3 DEF OneStore!Outcome, Arrived, Replies
  <2>4. r.op \in {"SET", "GET", "DELETE"}
    BY RequestTypes
  <2> QED
    BY <2>1, <2>2, <2>3, <2>4
<1>3. ASSUME NEW r \in Data, NEW old \in Values \cup {None}
      PROVE  OneStore!After(r, old) \in Values \cup {None}
  BY RequestTypes DEF OneStore!After
<1> QED
  BY <1>1, <1>2, <1>3 DEF Arrived, Broken

(* A server's part: a request that is on its way is executed, and then it  *)
(* counts as served, or is lost with the connection.                       *)
LEMMA HandleKeeps ==
  ASSUME CallInv, NEW s \in Nodes, NEW c \in Clients, Handle(s, c)
  PROVE  CallInv'
<1>1. wire[c] \in Requests /\ UNCHANGED <<cpc, call, result>>
  BY DEF Handle, Waiting
<1>2. CASE wire[c].op \in {"OPEN", "CLOSE"} /\ UNCHANGED <<records, served>>
           /\ wire' = [wire EXCEPT ![c] = [cmd |-> wire[c].op, val |-> None]]
  <2>1. CallTypes'
    BY <1>1, <1>2, ReplyTypes DEF CallInv, CallTypes
  <2>2. cpc[c] = "calling" => served[c]
    BY <1>1, <1>2, RequestTypes, RequestsAreNotReplies
       DEF CallInv, CallInFlight, Arrived, CallTypes
  <2>3. CallInFlight' /\ AckedSetsAndGetsServed'
    BY <1>1, <1>2, <2>2 DEF CallInv, CallInFlight, CallTypes, AckedSetsAndGetsServed
  <2> QED
    BY <2>1, <2>3 DEF CallInv
<1>3. CASE /\ wire[c] \in Data /\ records' = After(s, wire[c])
           /\ wire' = [wire EXCEPT ![c] = OneStore!Outcome(wire[c], records[s][wire[c].key])]
           /\ served' = [served EXCEPT ![c] = TRUE]
  <2>1. records[s][wire[c].key] \in Values \cup {None} /\ wire[c].key \in Keys
    BY <1>3, RequestTypes DEF CallInv, CallTypes
  <2>2. records' \in [Nodes -> [Keys -> Values \cup {None}]]
    BY <1>3, <2>1, ReplyTypes DEF CallInv, CallTypes, After
  <2>3. OneStore!Outcome(wire[c], records[s][wire[c].key]) \in Arrived
    BY <1>3, <2>1, ReplyTypes
  <2>4. CallTypes'
    BY <1>1, <1>3, <2>2, <2>3 DEF CallInv, CallTypes
  <2>5. CallInFlight' /\ AckedSetsAndGetsServed'
    BY <1>1, <1>3 DEF CallInv, CallInFlight, CallTypes, AckedSetsAndGetsServed
  <2> QED
    BY <2>4, <2>5 DEF CallInv
<1> QED
  BY <1>2, <1>3 DEF Handle

LEMMA KillKeeps ==
  ASSUME CallInv, NEW s \in Servers, Kill(s)
  PROVE  CallInv'
<1>1. UNCHANGED <<cpc, call, result>>
  BY DEF Kill
<1>2. PICK read \in SUBSET Waiting(s) :
        /\ \/ UNCHANGED <<records, served>>
           \/ \E c \in read : /\ wire[c] \in Data
                              /\ records' = After(s, wire[c])
                              /\ served' = [served EXCEPT ![c] = TRUE]
        /\ wire' = [c \in Clients |-> IF c \notin Waiting(s) THEN wire[c]
                                      ELSE IF c \in read THEN Eof ELSE Reset]
  BY DEF Kill
<1>3. /\ records' \in [Nodes -> [Keys -> Values \cup {None}]]
      /\ served' \in [Clients -> BOOLEAN]
      /\ \A c \in Clients : served[c] => served'[c]
  <2>1. CASE UNCHANGED <<records, served>>
    BY <2>1 DEF CallInv, CallTypes
  <2>2. ASSUME NEW c \in read, wire[c] \in Data, records' = After(s, wire[c]),
               served' = [served EXCEPT ![c] = TRUE]
        PROVE  /\ records' \in [Nodes -> [Keys -> Values \cup {None}]]
               /\ served' \in [Clients -> BOOLEAN]
               /\ \A d \in Clients : served[d] => served'[d]
    <3>1. c \in Clients /\ s \in Nodes /\ wire[c].key \in Keys
      BY <2>2, <1>2, RequestTypes DEF Waiting, Nodes
    <3>2. records[s][wire[c].key] \in Values \cup {None}
      BY <3>1 DEF CallInv, CallTypes
    <3>3. records' \in [Nodes -> [Keys -> Values \cup {None}]]
      BY <2>2, <3>1, <3>2, ReplyTypes DEF CallInv, CallTypes, After
    <3> QED
      BY <2>2, <3>1, <3>3 DEF CallInv, CallTypes
  <2> QED
    BY <1>2, <2>1, <2>2
<1>4. \A c \in Clients : wire'[c] \in {wire[c], Eof, Reset}
  BY <1>2
<1>5. wire' \in [Clients -> Requests \cup Arrived \cup {None}]
  BY <1>2, ReplyTypes DEF CallInv, CallTypes
<1>6. CallTypes'
  BY <1>1, <1>3, <1>5 DEF CallInv, CallTypes
<1>7. CallInFlight'
  BY <1>1, <1>3, <1>4 DEF CallInv, CallInFlight, Broken
<1>8. AckedSetsAndGetsServed'
  BY <1>1, <1>3 DEF CallInv, AckedSetsAndGetsServed
<1> QED
  BY <1>6, <1>7, <1>8 DEF CallInv

(* A client's part. *)
LEMMA RequestKeeps ==
  ASSUME CallInv, NEW c \in Clients, NEW i, NEW r \in Data, Request(c, i, r)
  PROVE  CallInv'
<1>1. /\ call' = [call EXCEPT ![c] = r] /\ result' = [result EXCEPT ![c] = "none"]
      /\ served' = [served EXCEPT ![c] = FALSE] /\ records' = records
  BY DEF Request
<1>2. \/ wire' = [wire EXCEPT ![c] = r] /\ cpc' = [cpc EXCEPT ![c] = "calling"]
      \/ wire' = [wire EXCEPT ![c] = Eof] /\ cpc' = [cpc EXCEPT ![c] = "calling"]
      \/ wire' = [wire EXCEPT ![c] = None] /\ cpc' = [cpc EXCEPT ![c] = "exited"]
  BY DEF Request, Send, Exit
<1>3. CallTypes'
  BY <1>1, <1>2, RequestTypes, ReplyTypes DEF CallInv, CallTypes
<1>4. CallInFlight'
  BY <1>1, <1>2 DEF CallInv, CallInFlight, CallTypes, Broken
<1>5. AckedSetsAndGetsServed'
  BY <1>1 DEF CallInv, AckedSetsAndGetsServed, CallTypes
<1> QED
  BY <1>3, <1>4, <1>5 DEF CallInv

LEMMA ReturnKeeps ==
  ASSUME CallInv, NEW c \in Clients, Return(c)
  PROVE  CallInv'
<1>1. /\ cpc[c] = "calling" /\ wire[c] \in Arrived
      /\ result' = [result EXCEPT ![c] = Returned(call[c].op, wire[c])]
      /\ wire' = [wire EXCEPT ![c] = None] /\ cpc' = [cpc EXCEPT ![c] = "open"]
      /\ UNCHANGED <<call, served, records>>
  BY DEF Return
<1>2. CallTypes'
  BY <1>1 DEF CallInv, CallTypes, Returned
<1>3. CallInFlight'
  BY <1>1 DEF CallInv, CallInFlight, CallTypes
<1>4. Returned(call[c].op, wire[c]) = "SUCCESS" /\ call[c].op \in {"SET", "GET"} => served[c]
  <2>1. wire[c] \notin Data
    BY <1>1, RequestTypes, RequestsAreNotReplies
  <2>2. wire[c] \in Broken \/ served[c]
    BY <1>1, <2>1 DEF CallInv, CallInFlight
  <2> QED
    BY <2>2 DEF Broken, Eof, Reset, Returned
<1>5. AckedSetsAndGetsServed'
  BY <1>1, <1>4 DEF CallInv, AckedSetsAndGetsServed, CallTypes
<1> QED
  BY <1>2, <1>3, <1>5 DEF CallInv

(* Opening and closing leave the last call alone, or forget it. *)
LEMMA OpeningKeeps ==
  ASSUME CallInv, NEW c \in Clients,
         CreateDB(c) \/ Connect(c) \/ Opened(c) \/ OpenFails(c) \/ CloseDB(c) \/ Closed(c)
  PROVE  CallInv'
<1>1. /\ records' = records
      /\ \/ UNCHANGED <<call, result, served>>
         \/ /\ call' = [call EXCEPT ![c] = None] /\ result' = [result EXCEPT ![c] = "none"]
            /\ served' = [served EXCEPT ![c] = FALSE]
  BY DEF CreateDB, Connect, Opened, OpenFails, CloseDB, Closed
<1>2. \/ wire' = wire
      \/ \E m \in {OpenRequest, CloseRequest, Eof, None} : wire' = [wire EXCEPT ![c] = m]
  <2>1. CreateDB(c) => wire' = wire
    BY DEF CreateDB
  <2>2. Connect(c) => \/ wire' = [wire EXCEPT ![c] = OpenRequest]
                      \/ wire' = [wire EXCEPT ![c] = None]
    BY DEF Connect, Exit
  <2>3. Opened(c) \/ OpenFails(c) => wire' = [wire EXCEPT ![c] = None]
    BY DEF Opened, OpenFails
  <2>4. CloseDB(c) \/ Closed(c) => \E m \in {CloseRequest, Eof, None} :
                                      wire' = [wire EXCEPT ![c] = m]
    BY DEF CloseDB, Closed, Send, Exit
  <2> QED
    BY <2>1, <2>2, <2>3, <2>4
<1>3. \/ cpc' = cpc /\ cpc[c] # "calling"
      \/ \E state \in {"off", "opening", "open", "closing", "exited"} :
           cpc' = [cpc EXCEPT ![c] = state]
  BY DEF CreateDB, Connect, Opened, OpenFails, CloseDB, Closed, Send, Exit
<1>4. CallTypes'
  <2>1. cpc' \in [Clients -> {"off", "opening", "open", "calling", "closing", "exited"}]
    BY <1>3 DEF CallInv, CallTypes
  <2>2. OpenRequest \in Requests /\ CloseRequest \in Requests /\ Eof \in Arrived
    BY RequestTypes, ReplyTypes
  <2>3. wire' \in [Clients -> Requests \cup Arrived \cup {None}]
    BY <1>2, <2>2 DEF CallInv, CallTypes
  <2>4. /\ call' \in [Clients -> Data \cup {None}]
        /\ result' \in [Clients -> {"none", "SUCCESS", "FAILURE"}]
        /\ served' \in [Clients -> BOOLEAN]
    BY <1>1 DEF CallInv, CallTypes
  <2> QED
    BY <1>1, <2>1, <2>3, <2>4 DEF CallInv, CallTypes
<1>5. CallInFlight'
  <2> SUFFICES ASSUME NEW d \in Clients, cpc'[d] = "calling"
               PROVE  \/ wire'[d] = call'[d] /\ wire'[d] \in Data
                      \/ wire'[d] \in Broken
                      \/ served'[d]
    BY DEF CallInFlight
  <2>1. d # c /\ cpc[d] = "calling"
    BY <1>3 DEF CallInv, CallTypes
  <2>2. wire'[d] = wire[d] /\ call'[d] = call[d] /\ served'[d] = served[d]
    BY <1>1, <1>2, <2>1 DEF CallInv, CallTypes
  <2> QED
    BY <2>1, <2>2 DEF CallInv, CallInFlight
<1>6. AckedSetsAndGetsServed'
  BY <1>1 DEF CallInv, AckedSetsAndGetsServed, CallTypes
<1> QED
  BY <1>4, <1>5, <1>6 DEF CallInv

LEMMA NextKeeps == CallInv /\ [Next]_vars => CallInv'
<1> SUFFICES ASSUME CallInv, [Next]_vars PROVE CallInv'
  OBVIOUS
<1>1. CASE UNCHANGED vars
  BY <1>1 DEF CallInv, CallTypes, CallInFlight, AckedSetsAndGetsServed
<1>2. ASSUME NEW s \in Servers, Register(s) \/ Listen(s) PROVE CallInv'
  <2>1. UNCHANGED <<cpc, records, wire, call, result, served>>
    BY <1>2 DEF Register, Listen
  <2> QED
    BY <2>1 DEF CallInv, CallTypes, CallInFlight, AckedSetsAndGetsServed
<1>3. ASSUME NEW c \in Clients, NEW k \in Keys, GetRecord(c, k) \/ DeleteRecord(c, k)
      PROVE  CallInv'
  <2>1. \A op \in {"GET", "DELETE"} : [op |-> op, key |-> k, val |-> None] \in Data
    BY DEF Data
  <2> QED
    BY <1>3, <2>1, RequestKeeps DEF GetRecord, DeleteRecord
<1>4. ASSUME NEW c \in Clients, NEW k \in Keys, NEW v \in Values, SetRecord(c, k, v)
      PROVE  CallInv'
  <2>1. [op |-> "SET", key |-> k, val |-> v] \in Data
    BY DEF Data
  <2> QED
    BY <1>4, <2>1, RequestKeeps DEF SetRecord
<1> QED
  BY <1>1, <1>2, <1>3, <1>4, HandleKeeps, KillKeeps, ReturnKeeps, OpeningKeeps
     DEF Next, Operate, Proceed

(***************************************************************************)
(* Sessions and references.                                                *)
(***************************************************************************)

(* The positions in its list at which c has a session. *)
Held(c) ==
  {i \in 1 .. Len(serverList[c]) :
     /\ conn[c][i] = "up"
     /\ i = node[c] => wire[c] # OpenRequest
     /\ cpc[c] = "closing" => \/ i > node[c]
                              \/ i = node[c] /\ wire[c] = CloseRequest}

ClientTypes(c) ==
  /\ serverList[c] \in Seq(Nodes) /\ Len(serverList[c]) <= Len(members)
  /\ conn[c] \in [1 .. Len(serverList[c]) -> {"none", "up", "eof", "reset"}]
  /\ node[c] \in 0 .. Len(serverList[c])

Shapes ==
  /\ members \in Seq(Nodes)
  /\ up \in [Nodes -> {"off", "registered", "serving"}]
  /\ starts \in 0 .. MaxStarts
  /\ refs \in [Nodes -> Nat]
  /\ aborts \in Nat
  /\ serverList \in [Clients -> Seq(Nodes)]
  /\ node \in [Clients -> Nat]
  /\ conn = [c \in Clients |-> conn[c]]
  /\ \A c \in Clients : ClientTypes(c)

(* What is on the way, and which connections have been made, at each stage *)
(* of a client.                                                            *)
Stage(c) ==
  /\ cpc[c] \in {"off", "exited"} => serverList[c] = << >> /\ wire[c] = None
  /\ cpc[c] = "opening" =>
       /\ node[c] >= 1
       /\ wire[c] \in {None, OpenRequest} \cup Arrived
       /\ \A i \in 1 .. Len(serverList[c]) :
            i > node[c] \/ (i = node[c] /\ wire[c] = None) => conn[c][i] = "none"
       /\ wire[c] = OpenRequest => conn[c][node[c]] = "up"
  /\ cpc[c] = "open" => wire[c] = None /\ Len(serverList[c]) >= 1
  /\ cpc[c] = "calling" => wire[c] \in Data \cup Arrived /\ Len(serverList[c]) >= 1
  /\ cpc[c] = "closing" =>
       /\ node[c] >= 1
       /\ wire[c] \in {CloseRequest} \cup Arrived
       /\ wire[c] = CloseRequest => conn[c][node[c]] = "up"

(* A server that does not listen has no references and no connections. *)
DownIsEmpty(s) ==
  up[s] # "serving" =>
    /\ refs[s] = 0
    /\ \A c \in Clients : \A i \in 1 .. Len(serverList[c]) :
         serverList[c][i] = s => conn[c][i] # "up"

(* The conjunct of SessionsAccounted for s. *)
Counted(s) ==
  up[s] = "serving" => /\ Cardinality(Sessions(s)) <= refs[s]
                       /\ aborts = 0 => refs[s] = Cardinality(Sessions(s))

SessionInv ==
  /\ Shapes
  /\ \A c \in Clients : Stage(c)
  /\ \A s \in Nodes : DownIsEmpty(s) /\ Counted(s)

LEMMA SessionsHeld ==
  ASSUME Shapes, NEW s
  PROVE  Sessions(s) = {x \in Clients \X (1 .. Len(members)) :
                          x[2] \in Held(x[1]) /\ serverList[x[1]][x[2]] = s}
<1>1. \A c \in Clients : DOMAIN serverList[c] = 1 .. Len(serverList[c])
  BY DEF Shapes
<1> QED
  BY <1>1 DEF Sessions, Held

(* The same for the next state. *)
LEMMA SessionsHeldNext ==
  ASSUME Shapes', NEW s
  PROVE  Sessions(s)' = {x \in Clients \X (1 .. Len(members')) :
                           x[2] \in Held(x[1])' /\ serverList'[x[1]][x[2]] = s}
<1>1. \A c \in Clients : DOMAIN serverList'[c] = 1 .. Len(serverList'[c])
  BY DEF Shapes
<1> QED
  BY <1>1 DEF Sessions, Held

LEMMA SessionsFinite ==
  ASSUME NEW S, NEW n \in Nat, S \subseteq Clients \X (1 .. n)
  PROVE  IsFiniteSet(S) /\ Cardinality(S) \in Nat
<1>1. IsFiniteSet(1 .. n)
  BY FS_Interval
<1>2. IsFiniteSet(Clients \X (1 .. n))
  BY <1>1, FS_Product, StoreAssumption
<1>3. S \in SUBSET (Clients \X (1 .. n))
  OBVIOUS
<1> QED
  BY <1>2, <1>3, FS_Subset, FS_CardinalityType

(* A step that leaves s and its sessions alone, or ends some of them.      *)
LEMMA CountedFrame ==
  ASSUME Shapes, NEW s \in Nodes, Counted(s),
         refs'[s] = refs[s], up'[s] = up[s],
         \/ Sessions(s)' = Sessions(s) /\ aborts' = aborts
         \/ Sessions(s)' \subseteq Sessions(s) /\ aborts' = aborts + 1
  PROVE  Counted(s)'
<1>1. CASE Sessions(s)' = Sessions(s) /\ aborts' = aborts
  BY <1>1 DEF Counted
<1>2. CASE Sessions(s)' \subseteq Sessions(s) /\ aborts' = aborts + 1
  <2>1. Len(members) \in Nat
    BY DEF Shapes
  <2>2. Sessions(s) \subseteq Clients \X (1 .. Len(members))
    BY DEF Sessions
  <2>3. IsFiniteSet(Sessions(s)) /\ Cardinality(Sessions(s)) \in Nat
    BY <2>1, <2>2, SessionsFinite
  <2>4. Sessions(s)' \in SUBSET Sessions(s)
    BY <1>2
  <2>5. IsFiniteSet(Sessions(s)') /\ Cardinality(Sessions(s)') <= Cardinality(Sessions(s))
    BY <2>3, <2>4, FS_Subset
  <2>6. Cardinality(Sessions(s)') \in Nat
    BY <2>5, FS_CardinalityType
  <2>7. refs[s] \in Nat /\ aborts' # 0
    BY <1>2 DEF Shapes
  <2> QED
    BY <2>3, <2>5, <2>6, <2>7 DEF Counted
<1> QED
  BY <1>1, <1>2

(* A step of one client.  Its sessions stay as they are, or it gives them  *)
(* all up and is counted.                                                  *)
LEMMA ClientStep ==
  ASSUME SessionInv, NEW c \in Clients,
         UNCHANGED <<members, up, starts, refs>>,
         \A d \in Clients : d # c => /\ cpc'[d] = cpc[d] /\ serverList'[d] = serverList[d]
                                     /\ conn'[d] = conn[d] /\ node'[d] = node[d]
                                     /\ wire'[d] = wire[d],
         serverList' \in [Clients -> Seq(Nodes)], node' \in [Clients -> Nat],
         conn' = [d \in Clients |-> conn'[d]],
         ClientTypes(c)', Stage(c)',
         \A i \in 1 .. Len(serverList'[c]) :
           conn'[c][i] = "up" => up[serverList'[c][i]] = "serving",
         \/ /\ aborts' = aborts /\ Held(c)' = Held(c)
            /\ \A i \in Held(c) : serverList'[c][i] = serverList[c][i]
         \/ aborts' = aborts + 1 /\ serverList'[c] = << >>
  PROVE  SessionInv'
<1>1. \A d \in Clients : d # c => ClientTypes(d)' /\ Stage(d)' /\ Held(d)' = Held(d)
  <2> SUFFICES ASSUME NEW d \in Clients, d # c
               PROVE  ClientTypes(d)' /\ Stage(d)' /\ Held(d)' = Held(d)
    OBVIOUS
  <2>1. /\ cpc'[d] = cpc[d] /\ serverList'[d] = serverList[d] /\ conn'[d] = conn[d]
        /\ node'[d] = node[d] /\ wire'[d] = wire[d]
    OBVIOUS
  <2>2. ClientTypes(d) /\ Stage(d)
    BY DEF SessionInv, Shapes
  <2>3. ClientTypes(d)'
    BY <2>1, <2>2 DEF ClientTypes
  <2>4. Stage(d)'
    BY <2>1, <2>2 DEF Stage
  <2> QED
    BY <2>1, <2>3, <2>4 DEF Held
<1>2. Shapes'
  <2>1. aborts' \in Nat
    BY DEF SessionInv, Shapes
  <2> QED
    BY <1>1, <2>1 DEF SessionInv, Shapes
<1>3. \A d \in Clients : Stage(d)'
  BY <1>1
<1>4. ASSUME NEW s \in Nodes PROVE DownIsEmpty(s)'
  <2> SUFFICES ASSUME up[s] # "serving", NEW d \in Clients,
                      NEW i \in 1 .. Len(serverList'[d]), serverList'[d][i] = s
               PROVE  conn'[d][i] # "up"
    BY DEF DownIsEmpty, SessionInv
  <2>1. CASE d = c
    BY <2>1
  <2>2. CASE d # c
    <3>1. serverList'[d] = serverList[d] /\ conn'[d] = conn[d]
      BY <2>2
    <3> QED
      BY <3>1 DEF DownIsEmpty, SessionInv
  <2> QED
    BY <2>1, <2>2
<1>5. ASSUME NEW s \in Nodes PROVE Counted(s)'
  <2>1. Sessions(s) = {x \in Clients \X (1 .. Len(members)) :
                          x[2] \in Held(x[1]) /\ serverList[x[1]][x[2]] = s}
    BY SessionsHeld DEF SessionInv
  <2>2. Sessions(s)' = {x \in Clients \X (1 .. Len(members)) :
                           x[2] \in Held(x[1])' /\ serverList'[x[1]][x[2]] = s}
    BY <1>2, SessionsHeldNext
  <2>3. CASE /\ aborts' = aborts /\ Held(c)' = Held(c)
             /\ \A i \in Held(c) : serverList'[c][i] = serverList[c][i]
    <3>1. \A d \in Clients : /\ Held(d)' = Held(d)
                             /\ \A i \in Held(d) : serverList'[d][i] = serverList[d][i]
      BY <1>1, <2>3
    <3>2. Sessions(s)' = Sessions(s)
      BY <2>1, <2>2, <3>1
    <3> QED
      BY <2>3, <3>2, CountedFrame DEF SessionInv
  <2>4. CASE aborts' = aborts + 1 /\ serverList'[c] = << >>
    <3>1. Held(c)' = {}
      BY <2>4 DEF Held
    <3>2. Sessions(s)' \subseteq Sessions(s)
      BY <2>1, <2>2, <3>1, <1>1
    <3> QED
      BY <2>4, <3>2, CountedFrame DEF SessionInv
  <2> QED
    BY <2>3, <2>4
<1> QED
  BY <1>2, <1>3, <1>4, <1>5 DEF SessionInv

LEMMA ClientUpdates ==
  ASSUME Shapes, NEW c \in Clients
  PROVE  /\ \A f : conn' = [conn EXCEPT ![c] = f] =>
              /\ conn'[c] = f /\ \A d \in Clients : d # c => conn'[d] = conn[d]
              /\ conn' = [d \in Clients |-> conn'[d]]
         /\ conn' = conn => conn' = [d \in Clients |-> conn'[d]]
BY DEF Shapes

(* What Stage, CallTypes and the kinds of messages say of the current call. *)
LEMMA Messages ==
  /\ \A m \in Arrived : /\ m \notin Data /\ m # OpenRequest /\ m # CloseRequest /\ m # None
  /\ \A r \in Data : /\ r # OpenRequest /\ r # CloseRequest /\ r # None
  /\ None # OpenRequest /\ None # CloseRequest /\ OpenRequest # CloseRequest
  /\ Eof \in Arrived /\ Reset \in Arrived
  /\ \A r \in Requests : /\ r.op = "OPEN" => r = OpenRequest
                         /\ r.op = "CLOSE" => r = CloseRequest
                         /\ r \in Data \/ r = OpenRequest \/ r = CloseRequest
<1>1. \A r \in Requests : r \in Data \/ r = OpenRequest \/ r = CloseRequest
  BY DEF Requests
<1>2. None \notin Requests /\ None \notin Arrived
  BY NoneIsNoMessage
<1>3. \A r \in Data : r # OpenRequest /\ r # CloseRequest
  BY RequestTypes
<1> QED
  BY <1>1, <1>2, <1>3, RequestTypes, RequestsAreNotReplies, ReplyTypes

LEMMA ExitKeeps ==
  ASSUME SessionInv, NEW c \in Clients, Exit(c), UNCHANGED serverVars, UNCHANGED refs,
         CallTypes
  PROVE  SessionInv'
<1>1. /\ cpc'[c] = "exited" /\ serverList'[c] = << >> /\ node'[c] = 0 /\ wire'[c] = None
      /\ aborts' = aborts + 1 /\ conn'[c] = << >> /\ conn' = [d \in Clients |-> conn'[d]]
      /\ \A d \in Clients : d # c => conn'[d] = conn[d]
  BY ClientUpdates DEF Exit, CallTypes, SessionInv, Shapes
<1>2. \A d \in Clients : d # c => /\ cpc'[d] = cpc[d] /\ serverList'[d] = serverList[d]
                                  /\ node'[d] = node[d] /\ wire'[d] = wire[d]
  BY DEF Exit, CallTypes, SessionInv, Shapes
<1>3. serverList' \in [Clients -> Seq(Nodes)] /\ node' \in [Clients -> Nat]
  BY DEF Exit, SessionInv, Shapes
<1>4. ClientTypes(c)'
  <2>1. << >> \in Seq(Nodes) /\ Len(<< >>) = 0 /\ Len(members') \in Nat
    BY DEF SessionInv, Shapes
  <2>2. << >> \in [1 .. 0 -> {"none", "up", "eof", "reset"}]
    OBVIOUS
  <2> QED
    BY <1>1, <2>1, <2>2 DEF ClientTypes
<1>5. Stage(c)'
  BY <1>1 DEF Stage
<1>6. \A i \in 1 .. Len(serverList'[c]) : conn'[c][i] = "up" => up[serverList'[c][i]] = "serving"
  BY <1>1
<1> QED
  BY <1>1, <1>2, <1>3, <1>4, <1>5, <1>6, ClientStep

(* A step of a client that keeps its list, and of its connections changes  *)
(* at most the one at position i, which is not yet or no longer up.        *)
LEMMA ListStep ==
  ASSUME SessionInv, CallTypes, NEW c \in Clients, NEW i \in 1 .. Len(serverList[c]),
         NEW state, cpc' = [cpc EXCEPT ![c] = state],
         NEW m, wire' = [wire EXCEPT ![c] = m],
         NEW n \in 0 .. Len(serverList[c]), node' = [node EXCEPT ![c] = n],
         NEW after \in {"none", "up", "eof", "reset"}, conn' = [conn EXCEPT ![c][i] = after],
         after = "up" => up[serverList[c][i]] = "serving",
         UNCHANGED <<members, up, starts, refs, serverList, aborts>>,
         Stage(c)', Held(c)' = Held(c)
  PROVE  SessionInv'
<1>1. conn'[c] = [conn[c] EXCEPT ![i] = after] /\ conn' = [d \in Clients |-> conn'[d]]
  <2>1. conn' = [conn EXCEPT ![c] = [conn[c] EXCEPT ![i] = after]]
    OBVIOUS
  <2> QED
    BY <2>1, ClientUpdates DEF SessionInv
<1>2. \A d \in Clients : d # c => conn'[d] = conn[d]
  <2>1. conn' = [conn EXCEPT ![c] = [conn[c] EXCEPT ![i] = after]]
    OBVIOUS
  <2> QED
    BY <2>1, ClientUpdates DEF SessionInv
<1>3. \A d \in Clients : d # c => /\ cpc'[d] = cpc[d] /\ serverList'[d] = serverList[d]
                                  /\ node'[d] = node[d] /\ wire'[d] = wire[d]
  BY DEF CallTypes, SessionInv, Shapes
<1>4. node' \in [Clients -> Nat] /\ node'[c] = n
  <2>1. Len(serverList[c]) \in Nat
    BY DEF SessionInv, Shapes
  <2> QED
    BY <2>1 DEF SessionInv, Shapes
<1>5. ClientTypes(c)
  BY DEF SessionInv, Shapes
<1>6. ClientTypes(c)'
  BY <1>1, <1>4, <1>5 DEF ClientTypes
<1>7. \A j \in 1 .. Len(serverList'[c]) : conn'[c][j] = "up" => up[serverList'[c][j]] = "serving"
  <2> SUFFICES ASSUME NEW j \in 1 .. Len(serverList[c]), conn'[c][j] = "up"
               PROVE  up[serverList[c][j]] = "serving"
    OBVIOUS
  <2>1. CASE j = i
    BY <2>1, <1>1, <1>5 DEF ClientTypes
  <2>2. CASE j # i
    <3>1. conn[c][j] = "up"
      BY <2>2, <1>1, <1>5 DEF ClientTypes
    <3>2. serverList[c][j] \in Nodes
      BY <1>5 DEF ClientTypes
    <3> QED
      BY <3>1, <3>2 DEF SessionInv, DownIsEmpty
  <2> QED
    BY <2>1, <2>2
<1>8. serverList' \in [Clients -> Seq(Nodes)]
  BY DEF SessionInv, Shapes
<1> QED
  BY <1>1, <1>2, <1>3, <1>4, <1>6, <1>7, <1>8, ClientStep

(* One that changes none. *)
LEMMA CallStep ==
  ASSUME SessionInv, CallTypes, NEW c \in Clients,
         NEW state, cpc' = [cpc EXCEPT ![c] = state],
         NEW m, wire' = [wire EXCEPT ![c] = m],
         NEW n \in 0 .. Len(serverList[c]), node' = [node EXCEPT ![c] = n],
         UNCHANGED <<members, up, starts, refs, serverList, conn, aborts>>,
         Stage(c)', Held(c)' = Held(c)
  PROVE  SessionInv'
<1>1. conn' = [d \in Clients |-> conn'[d]]
  BY ClientUpdates DEF SessionInv
<1>2. \A d \in Clients : d # c => /\ cpc'[d] = cpc[d] /\ serverList'[d] = serverList[d]
                                  /\ conn'[d] = conn[d]
                                  /\ node'[d] = node[d] /\ wire'[d] = wire[d]
  BY DEF CallTypes, SessionInv, Shapes
<1>3. node' \in [Clients -> Nat] /\ node'[c] = n
  <2>1. Len(serverList[c]) \in Nat
    BY DEF SessionInv, Shapes
  <2> QED
    BY <2>1 DEF SessionInv, Shapes
<1>4. ClientTypes(c)
  BY DEF SessionInv, Shapes
<1>5. ClientTypes(c)'
  BY <1>3, <1>4 DEF ClientTypes
<1>6. \A j \in 1 .. Len(serverList'[c]) : conn'[c][j] = "up" => up[serverList'[c][j]] = "serving"
  <2>1. \A j \in 1 .. Len(serverList[c]) : serverList[c][j] \in Nodes
    BY <1>4 DEF ClientTypes
  <2> QED
    BY <2>1 DEF SessionInv, DownIsEmpty
<1>7. serverList' \in [Clients -> Seq(Nodes)]
  BY DEF SessionInv, Shapes
<1> QED
  BY <1>1, <1>2, <1>3, <1>5, <1>6, <1>7, ClientStep

(* The list is given up: with CloseDB, when no session is left at any of   *)
(* its positions, or with CreateDB.                                        *)
LEMMA GiveUpStep ==
  ASSUME SessionInv, CallTypes, NEW c \in Clients,
         serverList' = [serverList EXCEPT ![c] = << >>],
         cpc' = [cpc EXCEPT ![c] = "off"],
         wire' = [wire EXCEPT ![c] = None],
         node' = [node EXCEPT ![c] = 0],
         conn' = [conn EXCEPT ![c] = << >>],
         UNCHANGED <<members, up, starts, refs>>,
         (aborts' = aborts /\ Held(c) = {}) \/ aborts' = aborts + 1
  PROVE  SessionInv'
<1>1. /\ conn'[c] = << >> /\ conn' = [d \in Clients |-> conn'[d]]
      /\ \A d \in Clients : d # c => conn'[d] = conn[d]
  BY ClientUpdates DEF SessionInv
<1>2. \A d \in Clients : d # c => /\ cpc'[d] = cpc[d] /\ serverList'[d] = serverList[d]
                                  /\ node'[d] = node[d] /\ wire'[d] = wire[d]
  BY DEF CallTypes, SessionInv, Shapes
<1>3. serverList' \in [Clients -> Seq(Nodes)] /\ node' \in [Clients -> Nat]
  BY DEF SessionInv, Shapes
<1>4. serverList'[c] = << >> /\ node'[c] = 0 /\ cpc'[c] = "off" /\ wire'[c] = None
  BY DEF CallTypes, SessionInv, Shapes
<1>5. ClientTypes(c)'
  <2>1. << >> \in Seq(Nodes) /\ Len(<< >>) = 0 /\ Len(members') \in Nat
    BY DEF SessionInv, Shapes
  <2>2. << >> \in [1 .. 0 -> {"none", "up", "eof", "reset"}]
    OBVIOUS
  <2>3. serverList'[c] \in Seq(Nodes) /\ Len(serverList'[c]) <= Len(members')
    <3>1. << >> \in Seq(Nodes) /\ Len(<< >>) <= Len(members')
      BY <2>1
    <3> QED
      BY <3>1, <1>4, Zenon
  <2>4. 1 .. Len(serverList'[c]) = 1 .. 0
    BY <1>4, <2>1
  <2>5. conn'[c] \in [1 .. Len(serverList'[c]) -> {"none", "up", "eof", "reset"}]
    BY <1>1, <2>2, <2>4
  <2>6. node'[c] \in 0 .. Len(serverList'[c])
    BY <1>4, <2>1
  <2> QED
    BY <2>3, <2>5, <2>6 DEF ClientTypes
<1>6. Stage(c)'
  BY <1>4 DEF Stage
<1>7. Held(c)' = {}
  BY <1>4 DEF Held
<1>8. \A j \in 1 .. Len(serverList'[c]) : conn'[c][j] = "up" => up[serverList'[c][j]] = "serving"
  BY <1>4
<1>9. \/ /\ aborts' = aborts /\ Held(c)' = Held(c)
         /\ \A i \in Held(c) : serverList'[c][i] = serverList[c][i]
      \/ aborts' = aborts + 1 /\ serverList'[c] = << >>
  BY <1>4, <1>7
<1> HIDE DEF Held
<1> QED
  BY <1>1, <1>2, <1>3, <1>5, <1>6, <1>8, <1>9, ClientStep

LEMMA SendKeeps ==
  ASSUME SessionInv, CallTypes, NEW c \in Clients, NEW i \in 1 .. Len(serverList[c]),
         NEW r, NEW state,
         (state = "calling" /\ r \in Data) \/ (state = "closing" /\ r = CloseRequest),
         Send(c, i, r, state), UNCHANGED serverVars, UNCHANGED refs,
         Held(c) = {j \in 1 .. Len(serverList[c]) :
                      conn[c][j] = "up" /\ (state = "closing" => j >= i)}
  PROVE  SessionInv'
<1>1. /\ ClientTypes(c) /\ Len(serverList[c]) \in Nat /\ i \in Nat /\ i >= 1
      /\ i \in 0 .. Len(serverList[c])
  BY DEF SessionInv, Shapes
<1>2. r # OpenRequest /\ Eof # OpenRequest /\ Eof # CloseRequest /\ Eof \in Arrived
  BY Messages
<1>3. cpc \in [Clients -> {"off", "opening", "open", "calling", "closing", "exited"}]
      /\ DOMAIN wire = Clients /\ DOMAIN node = Clients
  BY DEF CallTypes, SessionInv, Shapes
<1>4. CASE /\ conn[c][i] = "up" /\ wire' = [wire EXCEPT ![c] = r]
           /\ cpc' = [cpc EXCEPT ![c] = state] /\ node' = [node EXCEPT ![c] = i]
           /\ UNCHANGED <<serverList, conn, aborts>>
  <2>1. cpc'[c] = state /\ wire'[c] = r /\ node'[c] = i
    BY <1>3, <1>4
  <2>2. Held(c)' = Held(c)
    <3>1. \A j \in 1 .. Len(serverList[c]) :
            (state = "closing" => j > i \/ (j = i /\ r = CloseRequest))
              <=> (state = "closing" => j >= i)
      BY <1>1
    <3> QED
      BY <2>1, <3>1, <1>2, <1>4 DEF Held
  <2>3. Stage(c)'
    BY <2>1, <1>1, <1>4 DEF Stage
  <2> HIDE DEF Held, Stage
  <2> QED
    BY <1>1, <1>4, <2>2, <2>3, CallStep
<1>5. ASSUME NEW after \in {"eof", "reset"}, conn[c][i] = "eof",
             wire' = [wire EXCEPT ![c] = Eof], cpc' = [cpc EXCEPT ![c] = state],
             node' = [node EXCEPT ![c] = i], conn' = [conn EXCEPT ![c][i] = after],
             UNCHANGED <<serverList, aborts>>
      PROVE  SessionInv'
  <2>1. cpc'[c] = state /\ wire'[c] = Eof /\ node'[c] = i
    BY <1>3, <1>5
  <2>2. conn'[c] = [conn[c] EXCEPT ![i] = after]
    <3>1. conn' = [conn EXCEPT ![c] = [conn[c] EXCEPT ![i] = after]]
      BY <1>5
    <3> QED
      BY <3>1, ClientUpdates DEF SessionInv
  <2>3. \A j \in 1 .. Len(serverList[c]) : conn'[c][j] = "up" <=> conn[c][j] = "up"
    BY <1>1, <1>5, <2>2 DEF ClientTypes
  <2>4. Held(c)' = Held(c)
    <3>1. \A j \in 1 .. Len(serverList[c]) :
            conn[c][j] = "up" =>
              ((state = "closing" => j > i \/ (j = i /\ Eof = CloseRequest))
                 <=> (state = "closing" => j >= i))
      BY <1>1, <1>5
    <3> QED
      BY <2>1, <2>3, <3>1, <1>2, <1>5 DEF Held
  <2>5. Stage(c)'
    BY <2>1, <1>1, <1>2, <1>5 DEF Stage
  <2>6. after \in {"none", "up", "eof", "reset"} /\ after # "up"
    BY <1>5
  <2> HIDE DEF Held, Stage
  <2> QED
    BY <1>1, <1>5, <2>4, <2>5, <2>6, ListStep
<1>6. CASE Exit(c)
  BY <1>6, ExitKeeps
<1> QED
  BY <1>4, <1>5, <1>6 DEF Send

LEMMA DataKeeps ==
  ASSUME SessionInv, CallTypes, NEW c \in Clients, NEW k \in Keys, NEW r \in Data,
         Request(c, NodeIndex(serverList[c], k), r)
  PROVE  SessionInv'
<1>1. cpc[c] = "open" /\ wire[c] = None /\ Len(serverList[c]) >= 1 /\ Len(serverList[c]) \in Nat
  BY DEF Request, SessionInv, Stage, Shapes
<1>2. NodeIndex(serverList[c], k) \in 1 .. Len(serverList[c])
  <2>1. k \in Nat
    BY StoreAssumption
  <2>2. k % Len(serverList[c]) \in 0 .. Len(serverList[c]) - 1
    BY <1>1, <2>1
  <2> QED
    BY <1>1, <2>2 DEF NodeIndex
<1>3. Held(c) = {j \in 1 .. Len(serverList[c]) :
                   conn[c][j] = "up" /\ ("calling" = "closing" => j >= NodeIndex(serverList[c], k))}
  BY <1>1, Messages DEF Held
<1> QED
  BY <1>2, <1>3, SendKeeps DEF Request

LEMMA ReturnKeepsSessions ==
  ASSUME SessionInv, CallTypes, NEW c \in Clients, Return(c)
  PROVE  SessionInv'
<1>1. /\ cpc[c] = "calling" /\ wire[c] \in Arrived /\ Stage(c) /\ ClientTypes(c)
      /\ cpc' = [cpc EXCEPT ![c] = "open"] /\ wire' = [wire EXCEPT ![c] = None]
      /\ node' = [node EXCEPT ![c] = node[c]]
      /\ UNCHANGED <<members, up, starts, refs, serverList, conn, aborts>>
  BY DEF Return, SessionInv, Shapes
<1>2. cpc'[c] = "open" /\ wire'[c] = None /\ node'[c] = node[c]
  BY <1>1 DEF CallTypes
<1>3. Stage(c)'
  BY <1>1, <1>2 DEF Stage
<1>4. Held(c)' = Held(c)
  BY <1>1, <1>2, Messages DEF Held
<1>5. node[c] \in 0 .. Len(serverList[c])
  BY <1>1 DEF ClientTypes
<1> HIDE DEF Held, Stage
<1> QED
  BY <1>1, <1>3, <1>4, <1>5, CallStep

LEMMA CloseKeeps ==
  ASSUME SessionInv, CallTypes, NEW c \in Clients, CloseDB(c) \/ Closed(c)
  PROVE  SessionInv'
<1>1. /\ Stage(c) /\ ClientTypes(c) /\ Len(serverList[c]) \in Nat /\ refs' = refs
      /\ UNCHANGED serverVars
  BY DEF CloseDB, Closed, SessionInv, Shapes
<1>2. CASE CloseDB(c)
  <2>1. cpc[c] = "open" /\ wire[c] = None /\ 1 \in 1 .. Len(serverList[c])
    BY <1>1, <1>2 DEF CloseDB, Stage
  <2>2. Held(c) = {j \in 1 .. Len(serverList[c]) :
                     conn[c][j] = "up" /\ ("closing" = "closing" => j >= 1)}
    BY <2>1, Messages DEF Held
  <2> QED
    BY <1>1, <1>2, <2>1, <2>2, SendKeeps DEF CloseDB
<1>3. CASE Closed(c)
  <2>1. /\ cpc[c] = "closing" /\ wire[c] \in Arrived /\ node[c] >= 1
        /\ node[c] \in 0 .. Len(serverList[c])
    BY <1>1, <1>3 DEF Closed, Stage, ClientTypes
  <2>2. Held(c) = {j \in 1 .. Len(serverList[c]) : conn[c][j] = "up" /\ j > node[c]}
    BY <2>1, Messages DEF Held
  <2>3. CASE node[c] < Len(serverList[c]) /\ Send(c, node[c] + 1, CloseRequest, "closing")
    <3>1. node[c] + 1 \in 1 .. Len(serverList[c])
      BY <1>1, <2>1, <2>3
    <3>2. \A j \in 1 .. Len(serverList[c]) : j > node[c] <=> j >= node[c] + 1
      BY <1>1, <2>1
    <3>3. Held(c) = {j \in 1 .. Len(serverList[c]) :
                       conn[c][j] = "up" /\ ("closing" = "closing" => j >= node[c] + 1)}
      BY <2>2, <3>2
    <3> QED
      BY <1>1, <2>3, <3>1, <3>3, SendKeeps
  <2>4. CASE node[c] = Len(serverList[c]) /\ ~(node[c] < Len(serverList[c]))
    <3>1. /\ wire' = [wire EXCEPT ![c] = None] /\ cpc' = [cpc EXCEPT ![c] = "off"]
          /\ serverList' = [serverList EXCEPT ![c] = << >>]
          /\ conn' = [conn EXCEPT ![c] = << >>]
          /\ node' = [node EXCEPT ![c] = 0] /\ aborts' = aborts
      BY <1>3, <2>4 DEF Closed
    <3>2. Held(c) = {}
      BY <1>1, <2>2, <2>4
    <3> HIDE DEF Held
    <3> QED
      BY <1>1, <3>1, <3>2, GiveUpStep
  <2> QED
    BY <1>1, <1>3, <2>1, <2>3, <2>4 DEF Closed
<1> QED
  BY <1>2, <1>3

LEMMA CreateKeeps ==
  ASSUME SessionInv, CallTypes, NEW c \in Clients, CreateDB(c)
  PROVE  SessionInv'
<1>1. /\ Stage(c) /\ members \in Seq(Nodes) /\ Len(members) \in Nat /\ Len(members) >= 2
      /\ cpc[c] \in {"off", "exited"}
      /\ cpc' = [cpc EXCEPT ![c] = "opening"] /\ node' = [node EXCEPT ![c] = 1]
      /\ serverList' = [serverList EXCEPT ![c] = members]
      /\ conn' = [conn EXCEPT ![c] = [i \in DOMAIN members |-> "none"]]
      /\ UNCHANGED <<members, up, starts, refs, wire, aborts>>
  BY DEF CreateDB, SessionInv, Shapes
<1>2. serverList[c] = << >> /\ wire[c] = None
  BY <1>1 DEF Stage
<1>3. Held(c) = {}
  BY <1>2 DEF Held
<1>4. DOMAIN members = 1 .. Len(members)
  BY <1>1
<1>5. /\ cpc'[c] = "opening" /\ node'[c] = 1 /\ serverList'[c] = members /\ wire'[c] = None
      /\ serverList' \in [Clients -> Seq(Nodes)] /\ node' \in [Clients -> Nat]
      /\ \A d \in Clients : d # c => /\ cpc'[d] = cpc[d] /\ serverList'[d] = serverList[d]
                                     /\ node'[d] = node[d] /\ wire'[d] = wire[d]
  BY <1>1, <1>2 DEF CallTypes, SessionInv, Shapes
<1>6. /\ conn'[c] = [i \in 1 .. Len(members) |-> "none"]
      /\ conn' = [d \in Clients |-> conn'[d]]
      /\ \A d \in Clients : d # c => conn'[d] = conn[d]
  BY <1>1, <1>4, ClientUpdates DEF SessionInv
<1>7. Stage(c)'
  BY <1>1, <1>5, <1>6, Messages DEF Stage
<1>8. ClientTypes(c)'
  BY <1>1, <1>5, <1>6 DEF ClientTypes
<1>9. Held(c)' = {}
  BY <1>5, <1>6 DEF Held
<1>10. \A j \in 1 .. Len(serverList'[c]) : conn'[c][j] # "up"
  BY <1>5, <1>6
<1> HIDE DEF Held, Stage
<1> QED
  BY <1>1, <1>3, <1>5, <1>6, <1>7, <1>8, <1>9, <1>10, ClientStep

LEMMA OpenKeeps ==
  ASSUME SessionInv, CallTypes, NEW c \in Clients, Connect(c) \/ Opened(c) \/ OpenFails(c)
  PROVE  SessionInv'
<1>1. /\ Stage(c) /\ ClientTypes(c) /\ cpc[c] = "opening" /\ node[c] >= 1
      /\ Len(serverList[c]) \in Nat /\ node[c] \in 1 .. Len(serverList[c])
      /\ UNCHANGED <<members, up, starts, refs>>
  <2>1. cpc[c] = "opening" /\ UNCHANGED <<members, up, starts, refs>>
    BY DEF Connect, Opened, OpenFails
  <2>2. Stage(c) /\ ClientTypes(c)
    BY DEF SessionInv, Shapes
  <2> QED
    BY <2>1, <2>2 DEF Stage, ClientTypes
<1>2. CASE Connect(c) /\ up[Target(c)] = "serving"
  <2>1. /\ wire[c] = None /\ conn[c][node[c]] = "none" /\ cpc' = [cpc EXCEPT ![c] = "opening"]
        /\ wire' = [wire EXCEPT ![c] = OpenRequest]
        /\ conn' = [conn EXCEPT ![c][node[c]] = "up"]
        /\ node' = [node EXCEPT ![c] = node[c]]
        /\ UNCHANGED <<serverList, aborts>>
    BY <1>1, <1>2 DEF Connect, Stage, CallTypes, SessionInv, Shapes
  <2>2. cpc'[c] = "opening" /\ wire'[c] = OpenRequest /\ node'[c] = node[c]
    BY <2>1 DEF CallTypes, SessionInv, Shapes
  <2>3. conn'[c] = [conn[c] EXCEPT ![node[c]] = "up"]
    <3>1. conn' = [conn EXCEPT ![c] = [conn[c] EXCEPT ![node[c]] = "up"]]
      BY <2>1
    <3> QED
      BY <3>1, ClientUpdates DEF SessionInv
  <2>4. /\ conn'[c][node[c]] = "up"
        /\ \A j \in 1 .. Len(serverList[c]) : j # node[c] => conn'[c][j] = conn[c][j]
    BY <1>1, <2>3 DEF ClientTypes
  <2>5. Held(c)' = Held(c)
    BY <1>1, <2>1, <2>2, <2>4 DEF Held
  <2>6. Stage(c)'
    <3>1. \A i \in 1 .. Len(serverList[c]) : i > node[c] => i # node[c] /\ conn[c][i] = "none"
      BY <1>1 DEF Stage
    <3> QED
      BY <1>1, <2>1, <2>2, <2>4, <3>1, Messages DEF Stage
  <2>7. up[serverList[c][node[c]]] = "serving" /\ node[c] \in 0 .. Len(serverList[c])
    BY <1>1, <1>2 DEF Target
  <2> HIDE DEF Held, Stage
  <2> QED
    BY <1>1, <2>1, <2>5, <2>6, <2>7, ListStep
<1>3. CASE Connect(c) /\ up[Target(c)] # "serving"
  BY <1>3, <1>1, ExitKeeps DEF Connect
<1>4. CASE Opened(c)
  <2>1. /\ wire[c] \in Arrived /\ wire' = [wire EXCEPT ![c] = None]
        /\ UNCHANGED <<serverList, conn, aborts>>
    BY <1>4 DEF Opened, Arrived
  <2>2. wire'[c] = None /\ wire[c] # OpenRequest /\ None # OpenRequest
    BY <2>1, Messages DEF CallTypes
  <2>3. PICK n \in 1 .. Len(serverList[c]), state \in {"opening", "open"} :
          /\ node' = [node EXCEPT ![c] = n] /\ cpc' = [cpc EXCEPT ![c] = state]
          /\ n >= node[c] /\ (state = "opening" => n = node[c] + 1)
    <3>1. CASE node[c] < Len(serverList[c])
      <4>1. node' = [node EXCEPT ![c] = node[c] + 1] /\ cpc' = [cpc EXCEPT ![c] = "opening"]
        BY <1>1, <1>4, <3>1 DEF Opened, CallTypes
      <4> node[c] + 1 \in 1 .. Len(serverList[c]) /\ node[c] + 1 >= node[c]
        BY <1>1, <3>1
      <4> WITNESS node[c] + 1 \in 1 .. Len(serverList[c]), "opening" \in {"opening", "open"}
      <4> QED
        BY <4>1
    <3>2. CASE ~(node[c] < Len(serverList[c]))
      <4>1. node' = [node EXCEPT ![c] = node[c]] /\ cpc' = [cpc EXCEPT ![c] = "open"]
        BY <1>4, <3>2 DEF Opened, SessionInv, Shapes
      <4> node[c] \in 1 .. Len(serverList[c]) /\ node[c] >= node[c]
        BY <1>1
      <4> WITNESS node[c] \in 1 .. Len(serverList[c]), "open" \in {"opening", "open"}
      <4> QED
        BY <4>1
    <3> QED
      BY <3>1, <3>2
  <2>4. cpc'[c] = state /\ node'[c] = n
    BY <2>3 DEF CallTypes, SessionInv, Shapes
  <2>5. Held(c)' = Held(c)
    BY <1>1, <2>1, <2>2, <2>3, <2>4 DEF Held
  <2>6. Stage(c)'
    <3>1. ASSUME state = "opening", NEW i \in 1 .. Len(serverList[c]), i >= n
          PROVE  conn[c][i] = "none"
      BY <1>1, <2>3, <3>1 DEF Stage
    <3> QED
      BY <1>1, <2>1, <2>2, <2>3, <2>4, <3>1 DEF Stage
  <2>7. n \in 0 .. Len(serverList[c])
    BY <1>1
  <2> HIDE DEF Held, Stage
  <2> QED
    BY <1>1, <2>1, <2>3, <2>5, <2>6, <2>7, CallStep
<1>5. CASE OpenFails(c)
  <2>1. /\ wire' = [wire EXCEPT ![c] = None] /\ cpc' = [cpc EXCEPT ![c] = "off"]
        /\ serverList' = [serverList EXCEPT ![c] = << >>]
        /\ conn' = [conn EXCEPT ![c] = << >>]
        /\ node' = [node EXCEPT ![c] = 0] /\ aborts' = aborts + 1
    BY <1>5 DEF OpenFails
  <2> QED
    BY <1>1, <2>1, GiveUpStep
<1> QED
  BY <1>2, <1>3, <1>4, <1>5

(* A server joins the list, and it listens. *)
LEMMA StartKeeps ==
  ASSUME SessionInv, CallTypes, NEW s \in Servers, Register(s) \/ Listen(s)
  PROVE  SessionInv'
<1>1. /\ UNCHANGED <<refs, aborts, serverList, node, conn, cpc, wire>>
      /\ up[s] \in {"off", "registered"} /\ s \in Nodes
      /\ \A t \in Nodes : t # s => up'[t] = up[t]
      /\ up'[s] \in {"registered", "serving"}
      /\ up' \in [Nodes -> {"off", "registered", "serving"}]
  BY DEF Register, Listen, Nodes, SessionInv, Shapes
<1>2. /\ members' \in Seq(Nodes) /\ Len(members') \in Nat /\ Len(members) \in Nat
      /\ Len(members') >= Len(members)
      /\ starts' \in 0 .. MaxStarts
  <2>1. CASE Register(s)
    <3>1. members' = Append(members, s) /\ starts' = starts + 1 /\ starts < MaxStarts
      BY <2>1 DEF Register, List!Join
    <3> QED
      BY <3>1, <1>1, StoreAssumption DEF SessionInv, Shapes
  <2>2. CASE Listen(s)
    BY <2>2 DEF Listen, SessionInv, Shapes
  <2> QED
    BY <2>1, <2>2
<1>3. \A c \in Clients : ClientTypes(c)' /\ Stage(c)' /\ Held(c)' = Held(c)
  <2> SUFFICES ASSUME NEW c \in Clients PROVE ClientTypes(c)' /\ Stage(c)' /\ Held(c)' = Held(c)
    OBVIOUS
  <2>1. ClientTypes(c) /\ Stage(c) /\ Len(serverList[c]) \in Nat
    BY DEF SessionInv, Shapes
  <2>2. ClientTypes(c)'
    BY <1>1, <1>2, <2>1 DEF ClientTypes
  <2>3. Stage(c)' /\ Held(c)' = Held(c)
    BY <1>1, <2>1 DEF Stage, Held
  <2> QED
    BY <2>2, <2>3
<1>4. Shapes'
  BY <1>1, <1>2, <1>3 DEF SessionInv, Shapes
<1>5. \A t \in Nodes : DownIsEmpty(t)'
  BY <1>1 DEF SessionInv, DownIsEmpty
<1>6. ASSUME NEW t \in Nodes PROVE Sessions(t)' = Sessions(t)
  <2>1. Sessions(t) = {x \in Clients \X (1 .. Len(members)) :
                          x[2] \in Held(x[1]) /\ serverList[x[1]][x[2]] = t}
    BY SessionsHeld DEF SessionInv
  <2>2. Sessions(t)' = {x \in Clients \X (1 .. Len(members')) :
                           x[2] \in Held(x[1]) /\ serverList[x[1]][x[2]] = t}
    BY <1>1, <1>3, <1>4, SessionsHeldNext
  <2>3. \A c \in Clients : \A i \in Held(c) : i \in 1 .. Len(members) /\ i \in 1 .. Len(members')
    <3>1. \A c \in Clients : Len(serverList[c]) <= Len(members) /\ Len(serverList[c]) \in Nat
      BY DEF SessionInv, Shapes, ClientTypes
    <3> QED
      BY <3>1, <1>2 DEF Held
  <2> QED
    BY <2>1, <2>2, <2>3
<1>7. ASSUME NEW t \in Nodes PROVE Counted(t)'
  <2>1. CASE t # s
    BY <2>1, <1>1, <1>6, CountedFrame DEF SessionInv
  <2>2. CASE t = s
    <3>1. refs[s] = 0 /\ \A c \in Clients : \A i \in Held(c) : serverList[c][i] # s
      BY <1>1 DEF SessionInv, DownIsEmpty, Held
    <3>2. Sessions(s) = {}
      BY <3>1, SessionsHeld DEF SessionInv
    <3>3. Sessions(s)' = {} /\ refs'[s] = 0
      BY <1>1, <1>6, <3>1, <3>2
    <3> QED
      BY <2>2, <3>3, FS_EmptySet DEF Counted
  <2> QED
    BY <2>1, <2>2
<1> QED
  BY <1>3, <1>4, <1>5, <1>7 DEF SessionInv

(* A request is executed: a session begins with OPEN, ends with CLOSE, and *)
(* the counter follows.                                                    *)
LEMMA HandleKeepsSessions ==
  ASSUME SessionInv, CallTypes, CallTypes', NEW s \in Nodes, NEW c \in Clients, Handle(s, c)
  PROVE  SessionInv'
<1> DEFINE here == <<c, node[c]>>
<1>1. /\ UNCHANGED <<members, up, starts, aborts, cpc, serverList, conn, node>>
      /\ up[s] = "serving" /\ wire[c] \in Requests /\ serverList[c][node[c]] = s
      /\ Stage(c) /\ ClientTypes(c) /\ Len(serverList[c]) \in Nat /\ Len(members) \in Nat
  BY DEF Handle, Waiting, Target, SessionInv, Shapes
<1>2. PICK m \in Arrived : wire' = [wire EXCEPT ![c] = m]
  <2>1. PICK m : wire' = [wire EXCEPT ![c] = m]
    BY DEF Handle
  <2>2. wire'[c] = m
    BY <2>1 DEF CallTypes
  <2>3. CASE wire[c].op \in {"OPEN", "CLOSE"} /\ wire' = [wire EXCEPT ![c] = [cmd |-> wire[c].op, val |-> None]]
    BY <2>3, ReplyTypes
  <2>4. CASE wire[c] \in Data /\ wire' = [wire EXCEPT ![c] = OneStore!Outcome(wire[c], records[s][wire[c].key])]
    <3>1. records[s][wire[c].key] \in Values \cup {None}
      BY <2>4, RequestTypes DEF CallTypes
    <3> QED
      BY <2>4, <3>1, ReplyTypes
  <2> QED
    BY <2>3, <2>4 DEF Handle
<1>3. /\ wire'[c] = m /\ \A d \in Clients : d # c => wire'[d] = wire[d]
      /\ m # OpenRequest /\ m # CloseRequest /\ m # None
  BY <1>2, Messages DEF CallTypes
<1>4. \A d \in Clients : ClientTypes(d)' /\ (d # c => Stage(d)' /\ Held(d)' = Held(d))
  <2> SUFFICES ASSUME NEW d \in Clients
               PROVE  ClientTypes(d)' /\ (d # c => Stage(d)' /\ Held(d)' = Held(d))
    OBVIOUS
  <2>1. ClientTypes(d) /\ Stage(d)
    BY DEF SessionInv, Shapes
  <2>2. ClientTypes(d)'
    BY <1>1, <2>1 DEF ClientTypes
  <2>3. CASE d # c
    BY <1>1, <1>3, <2>1, <2>2, <2>3 DEF Stage, Held
  <2> QED
    BY <2>2, <2>3
<1>5. cpc[c] \in {"opening", "calling", "closing"} /\ wire[c] \notin Arrived /\ wire[c] # None
  <2>1. wire[c] \notin Arrived /\ wire[c] # None
    BY <1>1, Messages
  <2> QED
    BY <1>1, <2>1 DEF Stage, CallTypes
<1>6. Stage(c)'
  BY <1>1, <1>2, <1>3, <1>5 DEF Stage
<1>7. /\ wire[c].op \in {"OPEN", "CLOSE"} =>
           refs' = [refs EXCEPT ![s] = IF wire[c].op = "OPEN" THEN @ + 1 ELSE @ - 1]
      /\ wire[c].op \notin {"OPEN", "CLOSE"} => refs' = refs
  <2>1. \A r \in Data : r.op \notin {"OPEN", "CLOSE"}
    BY RequestTypes
  <2> QED
    BY <2>1 DEF Handle
<1>8. \A t \in Nodes :
        /\ Sessions(t) = {x \in Clients \X (1 .. Len(members)) :
                            x[2] \in Held(x[1]) /\ serverList[x[1]][x[2]] = t}
        /\ IsFiniteSet(Sessions(t)) /\ Cardinality(Sessions(t)) \in Nat
  <2> SUFFICES ASSUME NEW t \in Nodes
               PROVE  /\ Sessions(t) = {x \in Clients \X (1 .. Len(members)) :
                                          x[2] \in Held(x[1]) /\ serverList[x[1]][x[2]] = t}
                      /\ IsFiniteSet(Sessions(t)) /\ Cardinality(Sessions(t)) \in Nat
    OBVIOUS
  <2>1. Sessions(t) = {x \in Clients \X (1 .. Len(members)) :
                          x[2] \in Held(x[1]) /\ serverList[x[1]][x[2]] = t}
    BY SessionsHeld DEF SessionInv
  <2> QED
    BY <2>1, <1>1, SessionsFinite
<1>9. \A t \in Nodes : Sessions(t)' = {x \in Clients \X (1 .. Len(members)) :
                                         x[2] \in Held(x[1])' /\ serverList[x[1]][x[2]] = t}
  <2>1. \A d \in Clients : DOMAIN serverList'[d] = 1 .. Len(serverList'[d])
    BY <1>1 DEF SessionInv, Shapes
  <2> QED
    BY <1>1, <2>1 DEF Sessions, Held
<1>10. refs \in [Nodes -> Nat]
  BY DEF SessionInv, Shapes
<1> HIDE DEF here
<1>11. ASSUME refs' \in [Nodes -> Nat], \A t \in Nodes : t # s => refs'[t] = refs[t],
              \A t \in Nodes : t # s => Sessions(t)' = Sessions(t),
              Counted(s)'
       PROVE  SessionInv'
  <2>1. Shapes'
    BY <1>1, <1>4, <1>11 DEF SessionInv, Shapes
  <2>2. ASSUME NEW t \in Nodes, t # s PROVE DownIsEmpty(t)' /\ Counted(t)'
    <3>1. DownIsEmpty(t)'
      BY <1>1, <1>11, <2>2 DEF SessionInv, DownIsEmpty
    <3>2. Counted(t)'
      BY <1>1, <1>11, <2>2, CountedFrame DEF SessionInv
    <3> QED
      BY <3>1, <3>2
  <2>3. DownIsEmpty(s)'
    BY <1>1 DEF DownIsEmpty
  <2>4. \A d \in Clients : Stage(d)'
    BY <1>4, <1>6
  <2> QED
    BY <1>11, <2>1, <2>2, <2>3, <2>4 DEF SessionInv
<1>12. CASE wire[c].op = "OPEN"
  <2>1. wire[c] = OpenRequest
    BY <1>1, <1>12, Messages
  <2>2. cpc[c] = "opening" /\ node[c] \in 1 .. Len(serverList[c]) /\ conn[c][node[c]] = "up"
    <3>1. cpc[c] = "opening"
      BY <1>1, <1>5, <2>1, Messages DEF Stage
    <3> QED
      BY <1>1, <2>1, <3>1 DEF Stage, ClientTypes
  <2>3. node[c] \notin Held(c) /\ Held(c)' = Held(c) \cup {node[c]}
    BY <1>1, <1>3, <2>1, <2>2 DEF Held
  <2>4. here \in Clients \X (1 .. Len(members)) /\ here[1] = c /\ here[2] = node[c]
    BY <1>1, <2>2 DEF here, ClientTypes
  <2>5. \A x \in Clients \X (1 .. Len(members)) : x[1] = c /\ x[2] = node[c] => x = here
    BY DEF here
  <2>6. here \notin Sessions(s) /\ Sessions(s)' = Sessions(s) \cup {here}
    BY <1>1, <1>4, <1>8, <1>9, <2>3, <2>4, <2>5
  <2>7. ASSUME NEW t \in Nodes, t # s PROVE Sessions(t)' = Sessions(t)
    <3>1. ASSUME NEW x \in Clients \X (1 .. Len(members)), serverList[x[1]][x[2]] = t
          PROVE  x[2] \in Held(x[1])' <=> x[2] \in Held(x[1])
      <4>1. x[1] # c \/ x[2] # node[c]
        BY <1>1, <2>7, <3>1
      <4> QED
        BY <4>1, <1>4, <2>3
    <3> QED
      BY <3>1, <1>8, <1>9
  <2>8. Cardinality(Sessions(s)') = Cardinality(Sessions(s)) + 1
    BY <1>8, <2>6, FS_AddElement
  <2>9. /\ refs'[s] = refs[s] + 1 /\ \A t \in Nodes : t # s => refs'[t] = refs[t]
        /\ refs' \in [Nodes -> Nat]
    BY <1>7, <1>10, <1>12
  <2>10. Counted(s)'
    BY <1>1, <1>8, <1>10, <2>8, <2>9 DEF SessionInv, Counted
  <2> QED
    BY <1>11, <2>7, <2>9, <2>10
<1>13. CASE wire[c].op = "CLOSE"
  <2>1. wire[c] = CloseRequest
    BY <1>1, <1>13, Messages
  <2>2. cpc[c] = "closing" /\ node[c] \in 1 .. Len(serverList[c]) /\ conn[c][node[c]] = "up"
    <3>1. cpc[c] = "closing"
      BY <1>1, <1>5, <2>1, Messages DEF Stage
    <3> QED
      BY <1>1, <2>1, <3>1 DEF Stage, ClientTypes
  <2>3. node[c] \in Held(c) /\ Held(c)' = Held(c) \ {node[c]}
    <3>1. \A i \in 1 .. Len(serverList[c]) : i > node[c] <=> (i # node[c] /\ (i > node[c] \/ i = node[c]))
      BY <1>1, <2>2
    <3> QED
      BY <1>1, <1>3, <2>1, <2>2, <3>1, Messages DEF Held
  <2>4. here \in Clients \X (1 .. Len(members)) /\ here[1] = c /\ here[2] = node[c]
    BY <1>1, <2>2 DEF here, ClientTypes
  <2>5. \A x \in Clients \X (1 .. Len(members)) : x[1] = c /\ x[2] = node[c] => x = here
    BY DEF here
  <2>6. here \in Sessions(s) /\ Sessions(s)' = Sessions(s) \ {here}
    BY <1>1, <1>4, <1>8, <1>9, <2>3, <2>4, <2>5
  <2>7. ASSUME NEW t \in Nodes, t # s PROVE Sessions(t)' = Sessions(t)
    <3>1. ASSUME NEW x \in Clients \X (1 .. Len(members)), serverList[x[1]][x[2]] = t
          PROVE  x[2] \in Held(x[1])' <=> x[2] \in Held(x[1])
      <4>1. x[1] # c \/ x[2] # node[c]
        BY <1>1, <2>7, <3>1
      <4> QED
        BY <4>1, <1>4, <2>3
    <3> QED
      BY <3>1, <1>8, <1>9
  <2>8. /\ Cardinality(Sessions(s)') = Cardinality(Sessions(s)) - 1
        /\ Cardinality(Sessions(s)') \in Nat
    <3>1. IsFiniteSet(Sessions(s)')
      BY <1>8, <2>6, FS_RemoveElement
    <3> QED
      BY <1>8, <2>6, <3>1, FS_RemoveElement, FS_CardinalityType
  <2>9. Cardinality(Sessions(s)) <= refs[s] /\ (aborts = 0 => refs[s] = Cardinality(Sessions(s)))
    BY <1>1 DEF SessionInv, Counted
  <2>10. /\ refs'[s] = refs[s] - 1 /\ \A t \in Nodes : t # s => refs'[t] = refs[t]
         /\ refs' \in [Nodes -> Nat]
    <3>1. refs[s] - 1 \in Nat
      BY <1>8, <1>10, <2>8, <2>9
    <3>2. refs' = [refs EXCEPT ![s] = refs[s] - 1]
      BY <1>7, <1>13
    <3> QED
      BY <1>10, <3>1, <3>2
  <2>11. Counted(s)'
    BY <1>1, <1>8, <1>10, <2>8, <2>9, <2>10 DEF Counted
  <2> QED
    BY <1>11, <2>7, <2>10, <2>11
<1>14. CASE wire[c].op \notin {"OPEN", "CLOSE"}
  <2>1. wire[c] # OpenRequest /\ wire[c] # CloseRequest
    BY <1>14, RequestTypes
  <2>2. Held(c)' = Held(c)
    BY <1>1, <1>3, <2>1 DEF Held
  <2>3. \A t \in Nodes : Sessions(t)' = Sessions(t)
    BY <1>4, <1>8, <1>9, <2>2
  <2>4. refs' = refs
    BY <1>7, <1>14
  <2>5. Counted(s)'
    BY <1>1, <2>3, <2>4, CountedFrame DEF SessionInv
  <2> QED
    BY <1>10, <1>11, <2>3, <2>4, <2>5
<1> QED
  BY <1>12, <1>13, <1>14

(* A server is killed: its sessions end with its counters, and those on    *)
(* other servers go on.                                                    *)
LEMMA KillKeepsSessions ==
  ASSUME SessionInv, CallTypes, CallTypes', NEW s \in Servers, Kill(s)
  PROVE  SessionInv'
<1>1. /\ UNCHANGED <<members, starts, aborts, cpc, serverList, node>>
      /\ s \in Nodes /\ up' = [up EXCEPT ![s] = "off"] /\ refs' = [refs EXCEPT ![s] = 0]
      /\ \A d \in Clients : Stage(d) /\ ClientTypes(d) /\ Len(serverList[d]) \in Nat
  BY DEF Kill, Nodes, SessionInv, Shapes
<1>2. PICK read \in SUBSET Waiting(s) :
        /\ wire' = [d \in Clients |-> IF d \notin Waiting(s) THEN wire[d]
                                      ELSE IF d \in read THEN Eof ELSE Reset]
        /\ conn' = [d \in Clients |-> [i \in DOMAIN conn[d] |->
                      IF serverList[d][i] # s \/ conn[d][i] # "up" THEN conn[d][i]
                      ELSE IF i = node[d] /\ d \in Waiting(s) \ read
                           THEN "reset" ELSE "eof"]]
  BY DEF Kill
<1>3. ASSUME NEW d \in Clients
      PROVE  /\ wire'[d] = wire[d] \/ (wire'[d] \in Arrived /\ serverList[d][node[d]] = s
                                       /\ wire[d] \in Requests)
             /\ wire[d] \in Requests /\ serverList[d][node[d]] = s => wire'[d] \in Arrived
  BY <1>2, Messages DEF Waiting, Target
<1>4. ASSUME NEW d \in Clients
      PROVE  /\ conn'[d] \in [1 .. Len(serverList[d]) -> {"none", "up", "eof", "reset"}]
             /\ \A i \in 1 .. Len(serverList[d]) :
                  /\ serverList[d][i] # s => conn'[d][i] = conn[d][i]
                  /\ serverList[d][i] = s => conn'[d][i] # "up"
                  /\ conn[d][i] = "none" => conn'[d][i] = "none"
                  /\ conn'[d][i] = "up" => conn[d][i] = "up"
  <2>1. conn[d] \in [1 .. Len(serverList[d]) -> {"none", "up", "eof", "reset"}]
    BY <1>1 DEF ClientTypes
  <2>2. conn'[d] = [i \in 1 .. Len(serverList[d]) |->
                      IF serverList[d][i] # s \/ conn[d][i] # "up" THEN conn[d][i]
                      ELSE IF i = node[d] /\ d \in Waiting(s) \ read
                           THEN "reset" ELSE "eof"]
    BY <1>2, <2>1
  <2> QED
    BY <2>1, <2>2
<1>5. \A d \in Clients : ClientTypes(d)'
  BY <1>1, <1>4 DEF ClientTypes
<1>6. ASSUME NEW d \in Clients PROVE Stage(d)'
  <2>1. Stage(d) /\ ClientTypes(d) /\ Len(serverList[d]) \in Nat
    BY <1>1
  <2>2. CASE wire'[d] = wire[d]
    <3>1. ASSUME wire[d] \in Requests, node[d] >= 1, conn[d][node[d]] = "up"
          PROVE  conn'[d][node[d]] = "up"
      <4>1. serverList[d][node[d]] # s
        BY <1>3, <2>2, <3>1, Messages
      <4>2. node[d] \in 1 .. Len(serverList[d])
        BY <2>1, <3>1 DEF ClientTypes
      <4> QED
        BY <1>4, <3>1, <4>1, <4>2
    <3> QED
      BY <1>1, <1>4, <2>1, <2>2, <3>1, RequestTypes DEF Stage
  <2>3. CASE wire'[d] \in Arrived /\ wire[d] \in Requests
    <3>1. wire[d] \notin Arrived /\ wire[d] # None /\ wire'[d] # None
          /\ wire'[d] # OpenRequest /\ wire'[d] # CloseRequest
      BY <2>3, Messages
    <3>2. cpc[d] \in {"opening", "calling", "closing"}
      BY <2>1, <3>1 DEF Stage, CallTypes
    <3> QED
      BY <1>1, <1>4, <2>1, <2>3, <3>1, <3>2 DEF Stage
  <2> QED
    BY <1>3, <2>2, <2>3
<1>7. Shapes'
  <2>1. conn' = [d \in Clients |-> conn'[d]]
    BY <1>2
  <2>2. up' \in [Nodes -> {"off", "registered", "serving"}] /\ refs' \in [Nodes -> Nat]
    BY <1>1 DEF SessionInv, Shapes
  <2> QED
    BY <1>1, <1>5, <2>1, <2>2 DEF SessionInv, Shapes
<1>8. up'[s] = "off" /\ refs'[s] = 0
      /\ \A t \in Nodes : t # s => up'[t] = up[t] /\ refs'[t] = refs[t]
  BY <1>1 DEF SessionInv, Shapes
<1>9. ASSUME NEW t \in Nodes PROVE DownIsEmpty(t)'
  <2>1. CASE t = s
    BY <1>1, <1>4, <1>8, <2>1 DEF DownIsEmpty
  <2>2. CASE t # s
    BY <1>1, <1>4, <1>8, <2>2 DEF DownIsEmpty, SessionInv
  <2> QED
    BY <2>1, <2>2
<1>10. ASSUME NEW t \in Nodes, t # s PROVE Sessions(t)' = Sessions(t)
  <2>1. Sessions(t) = {x \in Clients \X (1 .. Len(members)) :
                          x[2] \in Held(x[1]) /\ serverList[x[1]][x[2]] = t}
    BY SessionsHeld DEF SessionInv
  <2>2. Sessions(t)' = {x \in Clients \X (1 .. Len(members)) :
                           x[2] \in Held(x[1])' /\ serverList[x[1]][x[2]] = t}
    BY <1>1, <1>7, SessionsHeldNext
  <2>3. ASSUME NEW d \in Clients, NEW i \in 1 .. Len(serverList[d]), serverList[d][i] = t
        PROVE  i \in Held(d)' <=> i \in Held(d)
    <3>1. conn'[d][i] = conn[d][i]
      BY <1>4, <1>10, <2>3
    <3>2. i = node[d] => wire'[d] = wire[d]
      BY <1>3, <1>10, <2>3
    <3> QED
      BY <1>1, <3>1, <3>2 DEF Held
  <2>4. \A d \in Clients : \A i : i \in Held(d) \/ i \in Held(d)' => i \in 1 .. Len(serverList[d])
    BY <1>1 DEF Held
  <2> QED
    BY <2>1, <2>2, <2>3, <2>4
<1>11. ASSUME NEW t \in Nodes PROVE Counted(t)'
  <2>1. CASE t = s
    BY <1>8, <2>1 DEF Counted
  <2>2. CASE t # s
    BY <1>1, <1>8, <1>10, <2>2, CountedFrame DEF SessionInv
  <2> QED
    BY <2>1, <2>2
<1> QED
  BY <1>6, <1>7, <1>9, <1>11 DEF SessionInv

LEMMA NextKeepsSessions == CallInv /\ CallInv' /\ SessionInv /\ [Next]_vars => SessionInv'
<1> SUFFICES ASSUME CallTypes, CallTypes', SessionInv, [Next]_vars PROVE SessionInv'
  BY DEF CallInv
<1>1. CASE UNCHANGED vars
  <2>1. \A c \in Clients : ClientTypes(c)' = ClientTypes(c) /\ Stage(c)' = Stage(c)
    BY <1>1 DEF ClientTypes, Stage
  <2>2. Shapes'
    BY <1>1, <2>1 DEF SessionInv, Shapes
  <2>3. \A t \in Nodes : DownIsEmpty(t)'
    BY <1>1 DEF SessionInv, DownIsEmpty
  <2>4. ASSUME NEW t \in Nodes PROVE Counted(t)'
    <3>1. Sessions(t)' = Sessions(t)
      BY <1>1 DEF Sessions
    <3> QED
      BY <1>1, <3>1 DEF SessionInv, Counted
  <2> QED
    BY <2>1, <2>2, <2>3, <2>4 DEF SessionInv
<1>2. ASSUME NEW c \in Clients, NEW k \in Keys, GetRecord(c, k) \/ DeleteRecord(c, k)
      PROVE  SessionInv'
  <2>1. \A op \in {"GET", "DELETE"} : [op |-> op, key |-> k, val |-> None] \in Data
    BY DEF Data
  <2> QED
    BY <1>2, <2>1, DataKeeps DEF GetRecord, DeleteRecord
<1>3. ASSUME NEW c \in Clients, NEW k \in Keys, NEW v \in Values, SetRecord(c, k, v)
      PROVE  SessionInv'
  <2>1. [op |-> "SET", key |-> k, val |-> v] \in Data
    BY DEF Data
  <2> QED
    BY <1>3, <2>1, DataKeeps DEF SetRecord
<1>4. ASSUME NEW s \in Nodes, NEW c \in Clients, Handle(s, c) PROVE SessionInv'
  BY <1>4, HandleKeepsSessions
<1>5. ASSUME NEW s \in Servers, Register(s) \/ Listen(s) \/ Kill(s) PROVE SessionInv'
  BY <1>5, StartKeeps, KillKeepsSessions
<1> QED
  BY <1>1, <1>2, <1>3, <1>4, <1>5, CreateKeeps, OpenKeeps, CloseKeeps, ReturnKeepsSessions
     DEF Next, Operate, Proceed

LEMMA InitSessions == Init => SessionInv
<1> SUFFICES ASSUME Init PROVE SessionInv
  OBVIOUS
<1>1. /\ members = <<Master>> /\ Master \in Nodes /\ << >> \in Seq(Nodes) /\ Len(<< >>) = 0
      /\ members \in Seq(Nodes) /\ Len(members) = 1
  BY DEF Init, Nodes
<1>2. \A c \in Clients : /\ serverList[c] = << >> /\ conn[c] = << >> /\ node[c] = 0
                         /\ cpc[c] = "off" /\ wire[c] = None
  BY DEF Init
<1>3. \A c \in Clients : ClientTypes(c) /\ Stage(c)
  <2> SUFFICES ASSUME NEW c \in Clients PROVE ClientTypes(c) /\ Stage(c)
    OBVIOUS
  <2>1. << >> \in [1 .. 0 -> {"none", "up", "eof", "reset"}]
    OBVIOUS
  <2>2. ClientTypes(c)
    <3>1. serverList[c] \in Seq(Nodes) /\ Len(serverList[c]) <= Len(members)
      <4>1. << >> \in Seq(Nodes) /\ Len(<< >>) <= Len(members)
        BY <1>1
      <4> QED
        BY <1>2, <4>1, Zenon
    <3>2. 1 .. Len(serverList[c]) = 1 .. 0
      BY <1>1, <1>2
    <3>3. conn[c] \in [1 .. Len(serverList[c]) -> {"none", "up", "eof", "reset"}]
      BY <1>2, <2>1, <3>2
    <3>4. node[c] \in 0 .. Len(serverList[c])
      BY <1>1, <1>2
    <3> QED
      BY <3>1, <3>3, <3>4 DEF ClientTypes
  <2>3. Stage(c)
    BY <1>2 DEF Stage
  <2> QED
    BY <2>2, <2>3
<1>4. Shapes
  <2>1. conn = [c \in Clients |-> conn[c]] /\ node \in [Clients -> Nat]
        /\ serverList \in [Clients -> Seq(Nodes)]
    BY <1>1 DEF Init
  <2>2. /\ up \in [Nodes -> {"off", "registered", "serving"}] /\ starts \in 0 .. MaxStarts
        /\ refs \in [Nodes -> Nat] /\ aborts \in Nat
    BY StoreAssumption DEF Init
  <2> QED
    BY <1>1, <1>3, <2>1, <2>2 DEF Shapes
<1>5. \A s \in Nodes : DownIsEmpty(s)
  BY <1>1, <1>2 DEF Init, DownIsEmpty
<1>6. ASSUME NEW s \in Nodes PROVE Counted(s)
  <2>1. \A c \in Clients : Held(c) = {}
    BY <1>1, <1>2 DEF Held
  <2>2. Sessions(s) = {}
    BY <1>4, <2>1, SessionsHeld
  <2>3. refs[s] = 0
    BY DEF Init
  <2> QED
    BY <2>2, <2>3, FS_EmptySet DEF Counted
<1> QED
  BY <1>3, <1>4, <1>5, <1>6 DEF SessionInv

LEMMA InitCalls == Init => CallInv
<1> SUFFICES ASSUME Init PROVE CallInv
  OBVIOUS
<1>1. CallTypes
  BY StoreAssumption DEF Init, CallTypes
<1>2. CallInFlight /\ AckedSetsAndGetsServed
  BY DEF Init, CallInFlight, AckedSetsAndGetsServed
<1> QED
  BY <1>1, <1>2 DEF CallInv

LEMMA StoreInvariant == Spec => [](CallInv /\ SessionInv)
<1>1. Init => CallInv /\ SessionInv
  BY InitCalls, InitSessions
<1>2. CallInv /\ SessionInv /\ [Next]_vars => CallInv' /\ SessionInv'
  BY NextKeeps, NextKeepsSessions
<1> QED
  BY <1>1, <1>2, PTL DEF Spec

(* The servers' counters, the clients' lists and the connections keep      *)
(* their types; no counter falls below zero, whatever is killed.           *)
THEOREM TypeCorrect == Spec => []TypeOK
<1>1. CallInv /\ SessionInv => TypeOK
  <2> SUFFICES ASSUME CallInv, SessionInv PROVE TypeOK
    OBVIOUS
  <2>1. \A c \in Clients : /\ conn[c] \in [DOMAIN serverList[c] -> {"none", "up", "eof", "reset"}]
                           /\ node[c] \in 0 .. Len(serverList[c])
    BY DEF SessionInv, Shapes, ClientTypes
  <2> QED
    BY <2>1 DEF SessionInv, Shapes, CallInv, CallTypes, TypeOK
<1> QED
  BY <1>1, StoreInvariant, PTL

(* Every session is backed by a reference, and only CreateDBs given up and *)
(* clients that ended leave any behind (clouddbapi.c, CreateDB, CloseDB).  *)
THEOREM SessionsAreAccounted == Spec => []SessionsAccounted
<1>1. SessionInv => SessionsAccounted
  BY DEF SessionInv, Counted, SessionsAccounted
<1> QED
  BY <1>1, StoreInvariant, PTL

(* A SetRecord or GetRecord that returns SUCCESS has been executed by its  *)
(* server (remotedbapi.c, the tests of the reply in SetRecordRemote and    *)
(* GetRecordRemote), whenever that server was killed.                      *)
THEOREM AckedIsServed == Spec => []AckedSetsAndGetsServed
<1>1. CallInv => AckedSetsAndGetsServed
  BY DEF CallInv
<1> QED
  BY <1>1, StoreInvariant, PTL

(***************************************************************************)
(* With one server besides the master, and no kills, the list grows once,  *)
(* before any client can work with it; then the servers are one store.     *)
(***************************************************************************)

Pair(s) == <<Master, s>>

(* The list is complete when clients get it, no connection breaks, and a   *)
(* data request waits at the home of its key.                              *)
Lone(c, s) ==
  /\ wire[c] \notin Broken
  /\ serverList[c] \in {<< >>, Pair(s)}
  /\ \A i \in 1 .. Len(serverList[c]) : conn[c][i] \in {"none", "up"}
  /\ wire[c] \in Data =>
       cpc[c] = "calling" /\ serverList[c] = Pair(s) /\ node[c] = NodeIndex(Pair(s), wire[c].key)

Listed(s) == members = IF up[s] = "off" THEN <<Master>> ELSE Pair(s)

LoneInv(s) == Listed(s) /\ \A c \in Clients : Lone(c, s)

(* A list of two is what Append makes of the master, and its own first two. *)
LEMMA PairWhole ==
  ASSUME NEW s
  PROVE  /\ Len(Pair(s)) = 2 /\ Pair(s)[1] = Master /\ Pair(s)[2] = s
         /\ Append(<<Master>>, s) = Pair(s)
         /\ SubSeq(Pair(s), 1, 2) = Pair(s)
<1> DEFINE D == {Master, s}
           one == <<Master>>
           p == <<Master, s>>
           q == SubSeq(p, 1, 2)
           r == Append(one, s)
<1>1. p \in Seq(D) /\ Len(p) = 2 /\ p[1] = Master /\ p[2] = s
  OBVIOUS
<1>2. one \in Seq(D) /\ Len(one) = 1 /\ one[1] = Master
  OBVIOUS
<1> HIDE DEF one, p
<1>3. q \in Seq(D) /\ Len(q) = 2 /\ \A i \in 1 .. 2 : q[i] = p[1 + i - 1]
  BY <1>1, SubSeqProperties, ElementOfSeq
<1>4. r \in Seq(D) /\ Len(r) = 2 /\ r[1] = Master /\ r[2] = s
  <2>1. s \in D
    OBVIOUS
  <2>2. /\ r \in Seq(D) /\ Len(r) = Len(one) + 1
        /\ \A i \in 1 .. Len(one) : r[i] = one[i]
        /\ r[Len(one) + 1] = s
    BY <1>2, <2>1, AppendProperties
  <2> HIDE DEF r
  <2> QED
    BY <1>2, <2>2
<1> HIDE DEF q, r
<1>5. q = p /\ r = p
  <2>1. \A i \in 1 .. 2 : q[i] = p[i]
    BY <1>3
  <2>2. \A i \in 1 .. 2 : r[i] = p[i]
    BY <1>1, <1>4
  <2>3. q = p
    BY <1>1, <1>3, <2>1, SeqEqual
  <2>4. r = p
    BY <1>1, <1>4, <2>2, SeqEqual
  <2> QED
    BY <2>3, <2>4
<1> QED
  BY <1>1, <1>5 DEF p, q, r, one, Pair

LEMMA PairFacts ==
  ASSUME NEW s, Servers = {s}
  PROVE  /\ Nodes = {Master, s} /\ s # Master
         /\ Len(<<Master>>) = 1 /\ Len(Pair(s)) = 2 /\ Len(<< >>) = 0
         /\ Append(<<Master>>, s) = Pair(s)
         /\ \A k \in Keys : NodeIndex(Pair(s), k) \in 1 .. 2 /\ Home(Pair(s), k) \in Nodes
<1>1. Nodes = {Master, s} /\ s # Master
  BY StoreAssumption DEF Nodes
<1>2. Len(Pair(s)) = 2 /\ Append(<<Master>>, s) = Pair(s) /\ Pair(s)[1] = Master /\ Pair(s)[2] = s
  BY PairWhole
<1>3. ASSUME NEW k \in Keys
      PROVE  NodeIndex(Pair(s), k) \in 1 .. 2 /\ Home(Pair(s), k) \in Nodes
  <2>1. k \in Nat
    BY StoreAssumption
  <2>2. k % 2 \in 0 .. 1
    BY <2>1
  <2>3. NodeIndex(Pair(s), k) \in 1 .. 2
    BY <1>2, <2>2 DEF NodeIndex
  <2> QED
    BY <1>1, <1>2, <2>3 DEF Home
<1> QED
  BY <1>1, <1>2, <1>3

LEMMA FirstListIsPair ==
  ASSUME NEW s, Servers = {s}, Listed(s)
  PROVE  FirstList = Pair(s)
<1>1. CASE up[s] = "off"
  <2>1. ~(Len(members) >= 2)
    BY <1>1 DEF Listed
  <2> QED
    BY <2>1 DEF FirstList, Pair
<1>2. CASE up[s] # "off"
  <2> DEFINE p == Pair(s)
             q == SubSeq(p, 1, 2)
  <2>1. members = p
    BY <1>2 DEF Listed
  <2>2. q = p
    BY PairWhole
  <2>3. Len(p) >= 2
    BY PairWhole
  <2> HIDE DEF p
  <2> QED
    BY <2>1, <2>2, <2>3 DEF FirstList, p
<1> QED
  BY <1>1, <1>2

(* What the abstract store sees of a client. *)
PendingOf(w) ==
  IF w \notin Data THEN None ELSE [op |-> w.op, db |-> Database, key |-> w.key, val |-> w.val]
AnswerOf(p, w) == IF p = "calling" /\ w \in Replies THEN w ELSE None
Contents(s) == [d \in {Database} |-> [k \in Keys |-> records[Home(Pair(s), k)][k]]]

LEMMA View ==
  ASSUME NEW s, Servers = {s}, Listed(s)
  PROVE  /\ Store = Contents(s)
         /\ Pending = [c \in Clients |-> PendingOf(wire[c])]
         /\ Answer = [c \in Clients |-> AnswerOf(cpc[c], wire[c])]
<1>1. FirstList = Pair(s)
  BY FirstListIsPair
<1>2. Store = Contents(s)
  BY <1>1 DEF Store, Contents
<1> QED
  BY <1>2 DEF Pending, PendingOf, Answer, AnswerOf

LEMMA ViewNext ==
  ASSUME NEW s, Servers = {s}, Listed(s)'
  PROVE  /\ Store' = Contents(s)'
         /\ Pending' = [c \in Clients |-> PendingOf(wire'[c])]
         /\ Answer' = [c \in Clients |-> AnswerOf(cpc'[c], wire'[c])]
<1>1. FirstList' = Pair(s)
  <2>1. CASE up'[s] = "off"
    <3>1. ~(Len(members') >= 2)
      BY <2>1 DEF Listed
    <3> QED
      BY <3>1 DEF FirstList, Pair
  <2>2. CASE up'[s] # "off"
    <3> DEFINE p == Pair(s)
               q == SubSeq(p, 1, 2)
    <3>1. members' = p
      BY <2>2 DEF Listed
    <3>2. q = p
      BY PairWhole
    <3>3. Len(p) >= 2
      BY PairWhole
    <3> HIDE DEF p
    <3> QED
      BY <3>1, <3>2, <3>3 DEF FirstList, p
  <2> QED
    BY <2>1, <2>2
<1>2. Store' = Contents(s)'
  BY <1>1 DEF Store, Contents
<1> QED
  BY <1>2 DEF Pending, PendingOf, Answer, AnswerOf

(* A step of one client that is no data call, and a step of a server that  *)
(* executes none, are not seen.                                            *)
LEMMA Unseen ==
  ASSUME NEW s, Servers = {s}, Listed(s), Listed(s)', records' = records,
         \A c \in Clients : /\ PendingOf(wire'[c]) = PendingOf(wire[c])
                            /\ AnswerOf(cpc'[c], wire'[c]) = AnswerOf(cpc[c], wire[c])
  PROVE  UNCHANGED OneStore!kvVars
<1>1. Contents(s)' = Contents(s)
  BY DEF Contents
<1>2. Store' = Store
  BY <1>1, View, ViewNext
<1>3. Pending' = Pending
  BY View, ViewNext
<1>4. Answer' = Answer
  BY View, ViewNext
<1> QED
  BY <1>2, <1>3, <1>4 DEF OneStore!kvVars

(* The other clients stay as they are. *)
OthersStay(c) ==
  \A d \in Clients : d # c => /\ cpc'[d] = cpc[d] /\ serverList'[d] = serverList[d]
                              /\ conn'[d] = conn[d] /\ node'[d] = node[d] /\ wire'[d] = wire[d]

LEMMA LoneClient ==
  ASSUME NEW s, LoneInv(s), NEW c \in Clients, UNCHANGED <<members, up>>,
         OthersStay(c), Lone(c, s)'
  PROVE  LoneInv(s)'
<1>1. Listed(s)'
  BY DEF LoneInv, Listed
<1>2. ASSUME NEW d \in Clients, d # c PROVE Lone(d, s)'
  BY <1>2 DEF LoneInv, Lone, OthersStay
<1> QED
  BY <1>1, <1>2 DEF LoneInv

(* A step of a client that is not calling. *)
LEMMA QuietClient ==
  ASSUME NEW s, Servers = {s}, LoneInv(s), NEW c \in Clients,
         UNCHANGED <<members, up, records>>, OthersStay(c),
         wire[c] \notin Data, cpc[c] # "calling", cpc'[c] # "calling",
         wire'[c] \notin Data, wire'[c] \notin Broken,
         serverList'[c] \in {<< >>, Pair(s)},
         \A i \in 1 .. Len(serverList'[c]) : conn'[c][i] \in {"none", "up"}
  PROVE  LoneInv(s)' /\ UNCHANGED OneStore!kvVars
<1>1. Lone(c, s)'
  BY DEF Lone
<1>2. LoneInv(s)'
  BY <1>1, LoneClient
<1>3. \A d \in Clients : /\ PendingOf(wire'[d]) = PendingOf(wire[d])
                         /\ AnswerOf(cpc'[d], wire'[d]) = AnswerOf(cpc[d], wire[d])
  BY DEF OthersStay, PendingOf, AnswerOf
<1>4. Listed(s) /\ Listed(s)'
  BY <1>2 DEF LoneInv
<1>5. UNCHANGED OneStore!kvVars
  BY <1>3, <1>4, Unseen
<1> QED
  BY <1>2, <1>5

(* Nothing breaks, so that a request is always sent. *)
LEMMA SendsUp ==
  ASSUME NEW s, LoneInv(s), CallTypes, Shapes, NEW c \in Clients,
         NEW i \in 1 .. Len(serverList[c]), NEW r, NEW state, Send(c, i, r, state)
  PROVE  /\ cpc'[c] = state /\ wire'[c] = r /\ node'[c] = i
         /\ UNCHANGED <<serverList, conn>> /\ OthersStay(c)
<1>1. conn[c][i] \in {"none", "up"}
  BY DEF LoneInv, Lone
<1>2. /\ wire' = [wire EXCEPT ![c] = r] /\ cpc' = [cpc EXCEPT ![c] = state]
      /\ node' = [node EXCEPT ![c] = i] /\ UNCHANGED <<serverList, conn>>
  BY <1>1 DEF Send
<1>3. DOMAIN wire = Clients /\ DOMAIN cpc = Clients /\ DOMAIN node = Clients
  BY DEF CallTypes, Shapes
<1> QED
  BY <1>2, <1>3 DEF OthersStay

LEMMA PendingIsCall == \A r \in Data : PendingOf(r) \in OneStore!Calls
BY RequestTypes DEF PendingOf, Data, OneStore!Calls

(* A call that is sent is the abstract store's Call. *)
LEMMA RequestIsCall ==
  ASSUME NEW s, Servers = {s}, LoneInv(s), CallTypes, SessionInv, NEW c \in Clients,
         NEW r \in Data, Request(c, NodeIndex(serverList[c], r.key), r)
  PROVE  LoneInv(s)' /\ OneStore!KVNext
<1> DEFINE i == NodeIndex(serverList[c], r.key)
<1>1. cpc[c] = "open" /\ wire[c] = None /\ Len(serverList[c]) >= 1
  BY DEF Request, SessionInv, Stage
<1>2. serverList[c] = Pair(s)
  BY <1>1, PairFacts DEF LoneInv, Lone
<1>3. i \in 1 .. Len(serverList[c])
  BY <1>2, PairFacts, RequestTypes
<1>4. Send(c, i, r, "calling") /\ UNCHANGED <<members, up, records>>
  BY DEF Request
<1> HIDE DEF i
<1>5. /\ cpc'[c] = "calling" /\ wire'[c] = r /\ node'[c] = i
      /\ UNCHANGED <<serverList, conn>> /\ OthersStay(c)
  BY <1>3, <1>4, SendsUp DEF SessionInv
<1>6. r \notin Broken
  BY Messages DEF Arrived
<1>7. Lone(c, s)'
  BY <1>2, <1>5, <1>6 DEF LoneInv, Lone, i
<1>8. LoneInv(s)'
  BY <1>4, <1>5, <1>7, LoneClient
<1>9. Listed(s) /\ Listed(s)'
  BY <1>8 DEF LoneInv
<1>10. /\ Store' = Store
       /\ Pending = [d \in Clients |-> PendingOf(wire[d])]
       /\ Answer = [d \in Clients |-> AnswerOf(cpc[d], wire[d])]
       /\ Pending' = [d \in Clients |-> PendingOf(wire'[d])]
       /\ Answer' = [d \in Clients |-> AnswerOf(cpc'[d], wire'[d])]
  <2>1. Contents(s)' = Contents(s)
    BY <1>4 DEF Contents
  <2> QED
    BY <1>9, <2>1, View, ViewNext
<1>11. PendingOf(wire[c]) = None /\ AnswerOf(cpc[c], wire[c]) = None
  BY <1>1, NoneIsNoMessage, RequestTypes DEF PendingOf, AnswerOf
<1>12. AnswerOf(cpc'[c], wire'[c]) = None
  <2>1. r \notin Replies
    BY Messages DEF Arrived
  <2> QED
    BY <1>5, <2>1 DEF AnswerOf
<1>13. PendingOf(r) \in OneStore!Calls
  BY PendingIsCall
<1>14. OneStore!Call(c, PendingOf(r))
  <2>1. Answer' = Answer
    BY <1>5, <1>10, <1>11, <1>12 DEF OthersStay
  <2>2. Pending' = [Pending EXCEPT ![c] = PendingOf(r)]
    BY <1>5, <1>10 DEF OthersStay
  <2> QED
    BY <1>10, <1>11, <2>1, <2>2 DEF OneStore!Call
<1> QED
  BY <1>8, <1>13, <1>14 DEF OneStore!KVNext

(* A call that returns collects its answer: there is one, for nothing      *)
(* breaks.                                                                 *)
LEMMA ReturnIsCollect ==
  ASSUME NEW s, Servers = {s}, LoneInv(s), CallTypes, SessionInv, NEW c \in Clients, Return(c)
  PROVE  LoneInv(s)' /\ OneStore!KVNext
<1>1. /\ cpc[c] = "calling" /\ wire[c] \in Replies /\ wire'[c] = None /\ cpc'[c] = "open"
      /\ UNCHANGED <<members, up, records, serverList, conn, node>> /\ OthersStay(c)
  BY DEF Return, CallTypes, OthersStay, LoneInv, Lone, Arrived
<1>2. None \notin Data /\ None \notin Broken /\ None \notin Replies /\ wire[c] \notin Data
      /\ wire[c] # None
  BY <1>1, NoneIsNoMessage, RequestTypes, Messages DEF Arrived
<1>3. Lone(c, s)'
  BY <1>1, <1>2 DEF LoneInv, Lone
<1>4. LoneInv(s)'
  BY <1>1, <1>3, LoneClient
<1>5. Listed(s) /\ Listed(s)'
  BY <1>4 DEF LoneInv
<1>6. /\ Store' = Store
      /\ Pending = [d \in Clients |-> PendingOf(wire[d])]
      /\ Answer = [d \in Clients |-> AnswerOf(cpc[d], wire[d])]
      /\ Pending' = [d \in Clients |-> PendingOf(wire'[d])]
      /\ Answer' = [d \in Clients |-> AnswerOf(cpc'[d], wire'[d])]
  <2>1. Contents(s)' = Contents(s)
    BY <1>1 DEF Contents
  <2> QED
    BY <1>5, <2>1, View, ViewNext
<1>7. /\ AnswerOf(cpc[c], wire[c]) # None /\ AnswerOf(cpc'[c], wire'[c]) = None
      /\ PendingOf(wire[c]) = None /\ PendingOf(wire'[c]) = None
  BY <1>1, <1>2 DEF AnswerOf, PendingOf
<1>8. OneStore!Collect(c)
  <2>1. Pending' = Pending
    BY <1>1, <1>6, <1>7 DEF OthersStay
  <2>2. Answer' = [Answer EXCEPT ![c] = None]
    BY <1>1, <1>6, <1>7 DEF OthersStay
  <2> QED
    BY <1>6, <1>7, <2>1, <2>2 DEF OneStore!Collect
<1> QED
  BY <1>4, <1>8 DEF OneStore!KVNext

LEMMA OutcomeIsReply ==
  ASSUME NEW r \in Data, NEW old \in Values \cup {None}
  PROVE  OneStore!Outcome(r, old) \in Replies
<1>1. r.op \in {"SET", "GET", "DELETE"}
  BY RequestTypes
<1>2. CASE r.op # "SET" /\ old = None
  BY <1>2 DEF OneStore!Outcome, Replies
<1>3. CASE r.op = "GET" /\ old # None
  BY <1>3 DEF OneStore!Outcome, Replies
<1>4. CASE r.op = "SET" \/ (r.op = "DELETE" /\ old # None)
  BY <1>4 DEF OneStore!Outcome, Replies
<1> QED
  BY <1>1, <1>2, <1>3, <1>4

(* A server that executes a request does so at the home of its key: the    *)
(* abstract store's TakeEffect.                                            *)
LEMMA HandleIsTakeEffect ==
  ASSUME NEW s, Servers = {s}, LoneInv(s), CallTypes, SessionInv, NEW t \in Nodes,
         NEW c \in Clients, Handle(t, c), wire[c] \in Data
  PROVE  LoneInv(s)' /\ OneStore!KVNext
<1> DEFINE r == wire[c]
           old == records[t][r.key]
           m == OneStore!Outcome(r, old)
<1>1. /\ r.op \notin {"OPEN", "CLOSE"} /\ r \in Data /\ r.key \in Keys
  BY RequestTypes
<1>2. /\ records' = After(t, r) /\ wire' = [wire EXCEPT ![c] = m]
      /\ UNCHANGED <<members, up, cpc, serverList, conn, node>> /\ Target(c) = t
  BY <1>1 DEF Handle, Waiting
<1>3. /\ cpc[c] = "calling" /\ serverList[c] = Pair(s) /\ node[c] = NodeIndex(Pair(s), r.key)
      /\ Home(Pair(s), r.key) = t
  <2>1. /\ cpc[c] = "calling" /\ serverList[c] = Pair(s) /\ node[c] = NodeIndex(Pair(s), r.key)
    BY DEF LoneInv, Lone
  <2> QED
    BY <1>2, <2>1 DEF Target, Home
<1>4. old \in Values \cup {None}
  BY <1>1 DEF CallTypes
<1>5. m \in Replies
  BY <1>4, OutcomeIsReply
<1> HIDE DEF m
<1>6. wire'[c] = m /\ OthersStay(c)
  BY <1>2 DEF CallTypes, OthersStay
<1>7. m \notin Data /\ m \notin Broken /\ m # None
  <2>1. m \in Arrived
    BY <1>5 DEF Arrived
  <2>2. m \notin Broken
    BY <1>5 DEF Replies, Broken, Eof, Reset
  <2> QED
    BY <2>1, <2>2, Messages
<1>8. Lone(c, s)'
  BY <1>2, <1>6, <1>7 DEF LoneInv, Lone
<1>9. LoneInv(s)'
  BY <1>2, <1>6, <1>8, LoneClient
<1>10. Listed(s) /\ Listed(s)'
  BY <1>9 DEF LoneInv
<1>11. /\ Store = Contents(s) /\ Store' = Contents(s)'
       /\ Pending = [d \in Clients |-> PendingOf(wire[d])]
       /\ Answer = [d \in Clients |-> AnswerOf(cpc[d], wire[d])]
       /\ Pending' = [d \in Clients |-> PendingOf(wire'[d])]
       /\ Answer' = [d \in Clients |-> AnswerOf(cpc'[d], wire'[d])]
  BY <1>10, View, ViewNext
<1> DEFINE p == PendingOf(r)
<1>12. p # None /\ p.op = r.op /\ p.db = Database /\ p.key = r.key /\ p.val = r.val
  <2>1. p = [op |-> r.op, db |-> Database, key |-> r.key, val |-> r.val]
    BY <1>1 DEF PendingOf
  <2>2. p # None
    BY PendingIsCall, NoneIsNoCall
  <2> QED
    BY <2>1, <2>2
<1>13. OneStore!After(p, old) = OneStore!After(r, old) /\ OneStore!Outcome(p, old) = m
  BY <1>12 DEF OneStore!After, OneStore!Outcome, m
<1> HIDE DEF p
<1>14. Store[p.db][p.key] = old
  BY <1>1, <1>3, <1>11, <1>12 DEF Contents
<1>15. Store' = [Store EXCEPT ![p.db][p.key] = OneStore!After(p, old)]
  <2> DEFINE new == OneStore!After(r, old)
  <2>1. records' = [records EXCEPT ![t][r.key] = new]
    BY <1>2 DEF After
  <2> HIDE DEF new
  <2>2. \A k \in Keys : Home(Pair(s), k) \in Nodes
    BY PairFacts
  <2>3. \A k \in Keys : records'[Home(Pair(s), k)][k] =
                          IF k = r.key THEN new ELSE records[Home(Pair(s), k)][k]
    BY <1>1, <1>3, <2>1, <2>2 DEF CallTypes
  <2>4. Contents(s)' = [Contents(s) EXCEPT ![Database][r.key] = new]
    BY <1>1, <2>3 DEF Contents
  <2> QED
    BY <1>11, <1>12, <1>13, <2>4 DEF new
<1>16. Answer' = [Answer EXCEPT ![c] = m]
  <2>1. AnswerOf(cpc'[c], wire'[c]) = m
    BY <1>2, <1>3, <1>5, <1>6 DEF AnswerOf
  <2> QED
    BY <1>6, <1>11, <2>1 DEF OthersStay
<1>17. Pending' = [Pending EXCEPT ![c] = None]
  <2>1. PendingOf(wire'[c]) = None
    BY <1>6, <1>7 DEF PendingOf
  <2> QED
    BY <1>6, <1>11, <2>1 DEF OthersStay
<1>18. Pending[c] = p
  BY <1>11 DEF p
<1>19. OneStore!TakeEffect(c)
  BY <1>12, <1>13, <1>14, <1>15, <1>16, <1>17, <1>18 DEF OneStore!TakeEffect
<1> QED
  BY <1>9, <1>19 DEF OneStore!KVNext

(* Every other step of a client, and of a server, is not seen. *)
LEMMA OpeningUnseen ==
  ASSUME NEW s, Servers = {s}, LoneInv(s), CallTypes, SessionInv, NEW c \in Clients,
         CreateDB(c) \/ Connect(c) \/ Opened(c)
  PROVE  LoneInv(s)' /\ UNCHANGED OneStore!kvVars
<1>1. /\ UNCHANGED <<members, up, records>> /\ OthersStay(c)
      /\ cpc[c] # "calling" /\ cpc'[c] # "calling" /\ wire[c] \notin Data
  <2>1. UNCHANGED <<members, up, records>>
    BY DEF CreateDB, Connect, Opened
  <2>2. OthersStay(c)
    BY DEF CreateDB, Connect, Opened, Exit, CallTypes, SessionInv, Shapes, OthersStay
  <2>3. cpc[c] \in {"off", "exited", "opening"} /\ cpc'[c] \in {"opening", "open", "exited"}
    BY DEF CreateDB, Connect, Opened, Exit, CallTypes
  <2> QED
    BY <2>1, <2>2, <2>3 DEF LoneInv, Lone
<1>2. wire'[c] \in {wire[c], OpenRequest, None}
  BY DEF CreateDB, Connect, Opened, Exit, CallTypes
<1>3. wire'[c] \notin Data /\ wire'[c] \notin Broken
  BY <1>1, <1>2, Messages DEF LoneInv, Lone, Arrived
<1>4. /\ serverList'[c] \in {<< >>, Pair(s)}
      /\ \A i \in 1 .. Len(serverList'[c]) : conn'[c][i] \in {"none", "up"}
  <2>1. CASE CreateDB(c)
    <3>1. members = Pair(s)
      BY <2>1, PairFacts DEF CreateDB, LoneInv, Listed
    <3>2. serverList'[c] = members /\ conn'[c] = [i \in DOMAIN members |-> "none"]
      BY <2>1, ClientUpdates DEF CreateDB, SessionInv, Shapes
    <3>3. DOMAIN members = 1 .. Len(members)
      BY DEF SessionInv, Shapes
    <3> QED
      BY <3>1, <3>2, <3>3
  <2>2. CASE Opened(c)
    BY <2>2 DEF Opened, LoneInv, Lone
  <2>3. CASE Connect(c) /\ serverList' = serverList /\ conn' = [conn EXCEPT ![c][node[c]] = "up"]
    <3>1. conn'[c] = [conn[c] EXCEPT ![node[c]] = "up"]
      BY <2>3 DEF SessionInv, Shapes
    <3>2. conn[c] \in [1 .. Len(serverList[c]) -> {"none", "up", "eof", "reset"}]
      BY DEF SessionInv, Shapes, ClientTypes
    <3> QED
      BY <2>3, <3>1, <3>2 DEF LoneInv, Lone
  <2>4. CASE Connect(c) /\ Exit(c)
    <3>1. serverList'[c] = << >>
      BY <2>4 DEF Exit, SessionInv, Shapes
    <3>2. 1 .. Len(serverList'[c]) = {}
      BY <3>1
    <3> QED
      BY <3>1, <3>2
  <2> QED
    BY <2>1, <2>2, <2>3, <2>4 DEF Connect
<1> QED
  BY <1>1, <1>3, <1>4, QuietClient

LEMMA ClosingUnseen ==
  ASSUME NEW s, Servers = {s}, LoneInv(s), CallTypes, SessionInv, NEW c \in Clients,
         CloseDB(c) \/ Closed(c)
  PROVE  LoneInv(s)' /\ UNCHANGED OneStore!kvVars
<1>1. UNCHANGED <<members, up, records>> /\ cpc[c] \in {"open", "closing"} /\ wire[c] \notin Data
  BY DEF CloseDB, Closed, LoneInv, Lone
<1>2. CASE \E i \in 1 .. Len(serverList[c]) : Send(c, i, CloseRequest, "closing")
  <2>1. PICK i \in 1 .. Len(serverList[c]) : Send(c, i, CloseRequest, "closing")
    BY <1>2
  <2>2. /\ cpc'[c] = "closing" /\ wire'[c] = CloseRequest
        /\ UNCHANGED <<serverList, conn>> /\ OthersStay(c)
    BY <2>1, SendsUp DEF SessionInv
  <2>3. CloseRequest \notin Data /\ CloseRequest \notin Broken
    <3>1. CloseRequest \in Requests
      BY RequestTypes
    <3> QED
      BY <3>1, Messages, RequestsAreNotReplies DEF Arrived
  <2>4. /\ serverList'[c] \in {<< >>, Pair(s)}
        /\ \A j \in 1 .. Len(serverList'[c]) : conn'[c][j] \in {"none", "up"}
    BY <2>2 DEF LoneInv, Lone
  <2> QED
    BY <1>1, <2>2, <2>3, <2>4, QuietClient
<1>3. CASE /\ wire' = [wire EXCEPT ![c] = None] /\ cpc' = [cpc EXCEPT ![c] = "off"]
           /\ serverList' = [serverList EXCEPT ![c] = << >>]
           /\ conn' = [conn EXCEPT ![c] = << >>] /\ node' = [node EXCEPT ![c] = 0]
  <2>1. OthersStay(c) /\ cpc'[c] = "off" /\ wire'[c] = None /\ serverList'[c] = << >>
    BY <1>3 DEF OthersStay, CallTypes, SessionInv, Shapes
  <2>2. 1 .. Len(serverList'[c]) = {}
    BY <2>1
  <2>3. None \notin Data /\ None \notin Broken
    BY NoneIsNoMessage, RequestTypes DEF Arrived
  <2> QED
    BY <1>1, <2>1, <2>2, <2>3, QuietClient
<1>4. \/ \E i \in 1 .. Len(serverList[c]) : Send(c, i, CloseRequest, "closing")
      \/ /\ wire' = [wire EXCEPT ![c] = None] /\ cpc' = [cpc EXCEPT ![c] = "off"]
         /\ serverList' = [serverList EXCEPT ![c] = << >>]
         /\ conn' = [conn EXCEPT ![c] = << >>] /\ node' = [node EXCEPT ![c] = 0]
  <2>1. Len(serverList[c]) \in Nat /\ node[c] \in Nat
    BY DEF SessionInv, Shapes
  <2>2. CASE CloseDB(c)
    <3>1. Len(serverList[c]) >= 1
      BY <2>2 DEF CloseDB, SessionInv, Stage
    <3>2. 1 \in 1 .. Len(serverList[c])
      BY <2>1, <3>1
    <3> QED
      BY <2>2, <3>2 DEF CloseDB
  <2>3. CASE Closed(c)
    <3>1. node[c] < Len(serverList[c]) => node[c] + 1 \in 1 .. Len(serverList[c])
      BY <2>1
    <3> QED
      BY <2>3, <3>1 DEF Closed
  <2> QED
    BY <2>2, <2>3
<1> QED
  BY <1>2, <1>3, <1>4

LEMMA ServingUnseen ==
  ASSUME NEW s, Servers = {s}, LoneInv(s), CallTypes, SessionInv, NEW t \in Nodes,
         NEW c \in Clients, Handle(t, c), wire[c] \notin Data
  PROVE  LoneInv(s)' /\ UNCHANGED OneStore!kvVars
<1>1. /\ wire[c] \in Requests /\ wire[c].op \in {"OPEN", "CLOSE"}
      /\ wire' = [wire EXCEPT ![c] = [cmd |-> wire[c].op, val |-> None]]
      /\ UNCHANGED <<members, up, records, cpc, serverList, conn, node>>
  BY DEF Handle, Waiting
<1>2. wire'[c] \in Replies /\ OthersStay(c)
  BY <1>1 DEF Replies, OthersStay, CallTypes
<1>3. wire'[c] \notin Data /\ wire'[c] \notin Broken
  <2>1. wire'[c] \in Arrived
    BY <1>2 DEF Arrived
  <2>2. wire'[c] \notin Broken
    BY <1>2 DEF Replies, Broken, Eof, Reset
  <2> QED
    BY <2>1, <2>2, Messages
<1>4. cpc[c] # "calling"
  BY <1>1, RequestsAreNotReplies DEF SessionInv, Stage
<1>5. /\ serverList'[c] \in {<< >>, Pair(s)}
      /\ \A i \in 1 .. Len(serverList'[c]) : conn'[c][i] \in {"none", "up"}
  BY <1>1 DEF LoneInv, Lone
<1> QED
  BY <1>1, <1>2, <1>3, <1>4, <1>5, QuietClient

(* The second server is put on the list and starts to listen. *)
LEMMA StartUnseen ==
  ASSUME NEW s, Servers = {s}, LoneInv(s), SessionInv, Register(s) \/ Listen(s)
  PROVE  LoneInv(s)' /\ UNCHANGED OneStore!kvVars
<1>1. UNCHANGED <<records, cpc, serverList, conn, node, wire>>
  BY DEF Register, Listen
<1>2. up \in [Nodes -> {"off", "registered", "serving"}] /\ s \in Nodes
  <2>1. s \in Nodes
    BY DEF Nodes
  <2> QED
    BY <2>1 DEF SessionInv, Shapes
<1>3. Listed(s)'
  <2>1. CASE Register(s)
    <3>1. members' = Append(members, s) /\ members = <<Master>> /\ up'[s] = "registered"
      BY <1>2, <2>1 DEF Register, List!Join, LoneInv, Listed
    <3>2. members' = Pair(s)
      BY <3>1, PairFacts
    <3> QED
      BY <3>1, <3>2 DEF Listed
  <2>2. CASE Listen(s)
    BY <1>2, <2>2 DEF Listen, LoneInv, Listed
  <2> QED
    BY <2>1, <2>2
<1>4. \A c \in Clients : Lone(c, s)'
  BY <1>1 DEF LoneInv, Lone
<1>5. Listed(s)
  BY DEF LoneInv
<1>6. UNCHANGED OneStore!kvVars
  BY <1>1, <1>3, <1>5, Unseen
<1> QED
  BY <1>3, <1>4, <1>6 DEF LoneInv

LEMMA InitLone ==
  ASSUME NEW s, Servers = {s}, Init
  PROVE  LoneInv(s) /\ OneStore!KVInit
<1>1. /\ members = <<Master>> /\ up[s] = "off"
      /\ records \in [Nodes -> [Keys -> Values \cup {None}]]
      /\ \A c \in Clients : /\ cpc[c] = "off" /\ wire[c] = None
                            /\ serverList[c] = << >>
  <2>1. s \in Nodes /\ s # Master
    BY StoreAssumption DEF Nodes
  <2>2. OldValues \subseteq Values \cup {None}
    BY StoreAssumption
  <2>3. records \in [Nodes -> [Keys -> Values \cup {None}]]
    BY <2>2 DEF Init
  <2> QED
    BY <2>1, <2>3 DEF Init
<1>2. None \notin Data /\ None \notin Broken
  BY NoneIsNoMessage, RequestTypes DEF Arrived
<1>3. ASSUME NEW c \in Clients PROVE Lone(c, s)
  <2>1. serverList[c] = << >>
    BY <1>1
  <2>2. 1 .. Len(serverList[c]) = {}
    BY <2>1
  <2> QED
    BY <1>1, <1>2, <2>1, <2>2 DEF Lone
<1>4. Listed(s)
  BY <1>1 DEF Listed
<1>5. /\ Store = Contents(s)
      /\ Pending = [c \in Clients |-> PendingOf(wire[c])]
      /\ Answer = [c \in Clients |-> AnswerOf(cpc[c], wire[c])]
  BY <1>4, View
<1>6. Contents(s) \in [{Database} -> [Keys -> Values \cup {None}]]
  <2>1. \A k \in Keys : Home(Pair(s), k) \in Nodes
    BY PairFacts
  <2> QED
    BY <1>1, <2>1 DEF Contents
<1>7. /\ Pending = [c \in Clients |-> None]
      /\ Answer = [c \in Clients |-> None]
  BY <1>1, <1>2, <1>5 DEF PendingOf, AnswerOf
<1> QED
  BY <1>3, <1>4, <1>5, <1>6, <1>7 DEF LoneInv, OneStore!KVInit

LEMMA StutterLone ==
  ASSUME NEW s, Servers = {s}, LoneInv(s), UNCHANGED vars
  PROVE  LoneInv(s)' /\ UNCHANGED OneStore!kvVars
<1>1. Listed(s) /\ Listed(s)' /\ \A c \in Clients : Lone(c, s)'
  BY DEF LoneInv, Listed, Lone
<1>2. UNCHANGED OneStore!kvVars
  BY <1>1, Unseen
<1> QED
  BY <1>1, <1>2 DEF LoneInv

LEMMA NextIsStore ==
  ASSUME NEW s, Servers = {s}, ~MayKill, CallInv, SessionInv, LoneInv(s), [Next]_vars
  PROVE  LoneInv(s)' /\ [OneStore!KVNext]_OneStore!kvVars
<1>1. CASE UNCHANGED vars
  BY <1>1, StutterLone
<1>2. ASSUME NEW c \in Clients, NEW k \in Keys, GetRecord(c, k) \/ DeleteRecord(c, k)
      PROVE  LoneInv(s)' /\ OneStore!KVNext
  <2>1. \A op \in {"GET", "DELETE"} : [op |-> op, key |-> k, val |-> None] \in Data
    BY DEF Data
  <2>2. \E r \in Data : r.key = k /\ Request(c, NodeIndex(serverList[c], k), r)
    BY <1>2, <2>1 DEF GetRecord, DeleteRecord
  <2> QED
    BY <2>2, RequestIsCall DEF CallInv
<1>3. ASSUME NEW c \in Clients, NEW k \in Keys, NEW v \in Values, SetRecord(c, k, v)
      PROVE  LoneInv(s)' /\ OneStore!KVNext
  <2>1. [op |-> "SET", key |-> k, val |-> v] \in Data
    BY DEF Data
  <2>2. \E r \in Data : r.key = k /\ Request(c, NodeIndex(serverList[c], k), r)
    BY <1>3, <2>1 DEF SetRecord
  <2> QED
    BY <2>2, RequestIsCall DEF CallInv
<1>4. ASSUME NEW t \in Nodes, NEW c \in Clients, Handle(t, c)
      PROVE  LoneInv(s)' /\ [OneStore!KVNext]_OneStore!kvVars
  BY <1>4, HandleIsTakeEffect, ServingUnseen DEF CallInv
<1>5. ASSUME NEW t \in Servers, Register(t) \/ Listen(t) \/ Kill(t)
      PROVE  LoneInv(s)' /\ UNCHANGED OneStore!kvVars
  BY <1>5, StartUnseen DEF Kill
<1>6. ASSUME NEW c \in Clients, OpenFails(c) PROVE FALSE
  BY <1>6 DEF OpenFails, LoneInv, Lone
<1>7. ASSUME NEW c \in Clients,
             CreateDB(c) \/ Connect(c) \/ Opened(c) \/ CloseDB(c) \/ Closed(c)
      PROVE  LoneInv(s)' /\ UNCHANGED OneStore!kvVars
  BY <1>7, OpeningUnseen, ClosingUnseen DEF CallInv
<1>8. ASSUME NEW c \in Clients, Return(c) PROVE LoneInv(s)' /\ OneStore!KVNext
  BY <1>8, ReturnIsCollect DEF CallInv
<1> QED
  BY <1>1, <1>2, <1>3, <1>4, <1>5, <1>6, <1>7, <1>8 DEF Next, Operate, Proceed

(* While the list is complete and no server is killed, the servers are one *)
(* store to any number of clients: GetRecord, SetRecord and DeleteRecord   *)
(* of clouddbapi.c take effect once, on the record of their key, whatever  *)
(* the other clients do between call and return.                           *)
THEOREM ShardsAreOneStore ==
  ASSUME NEW s, Servers = {s}, ~MayKill
  PROVE  Spec => ImplementsOneStore
<1>1. Init => LoneInv(s) /\ OneStore!KVInit
  BY InitLone
<1>2. CallInv /\ SessionInv /\ LoneInv(s) /\ [Next]_vars =>
        LoneInv(s)' /\ [OneStore!KVNext]_OneStore!kvVars
  BY NextIsStore
<1> QED
  BY <1>1, <1>2, StoreInvariant, PTL DEF Spec, ImplementsOneStore, OneStore!KVSpec
==============================================================================
