--------------------------- MODULE TaskPoolProofs ---------------------------
(* Proofs about TaskPool, for every value of its constants. *)
EXTENDS TaskPool, TLAPS

(***************************************************************************)
(* Types.                                                                  *)
(***************************************************************************)

Lengths == -MaxLen .. MaxLen
MainLabels == {"start", "head", "tail", "link", "move", "length", "store", "post"}
TaskLabels == {"wait", "take", "advance", "read", "decrease", "test", "clear",
               "handle", "stop"}

Flags == alive \in BOOLEAN /\ tidy \in BOOLEAN /\ wronged \in BOOLEAN

SocketTypes ==
  /\ state \in [Clients -> {"out", "ready", "waiting", "closing"}]
  /\ peer \in [Fds -> Clients \cup {Gone, None}]
  /\ inbox \in [Fds -> Opt(Messages)]

QueueFields == [pHead : Opt(Nodes), pTail : Opt(Nodes), queueLen : Lengths]

QueueTypes ==
  /\ req \in [Nodes -> Opt([fd : Fds, msg : Messages])]
  /\ pNext \in [Nodes -> Opt(Nodes)]
  /\ taskq \in [Tasks -> QueueFields]
  /\ event \in [Tasks -> Nat]
  /\ order \in [Tasks -> Seq(Nodes)]

MainTypes ==
  /\ main \in [at : MainLabels, pNode : Opt(Nodes), i : Opt(Tasks), reg : Lengths]
  /\ main.at # "start" => main.pNode \in Nodes /\ main.i \in Tasks
  /\ main.at = "start" => main.i = None

TaskStates ==
  {r \in [at : TaskLabels, pNode : Opt(Nodes), i : {None}, reg : Opt(Nodes) \cup Lengths] :
     /\ r.at \notin {"wait", "take"} => r.pNode \in Nodes
     /\ r.at = "advance" => r.reg \in Opt(Nodes)
     /\ r.at = "decrease" => r.reg \in Lengths}

TaskTypes == task \in [Tasks -> TaskStates]

Types == Flags /\ SocketTypes /\ QueueTypes /\ MainTypes /\ TaskTypes

LEMMA TypesAreTypes == Types => TypeOK
<1> SUFFICES ASSUME Types PROVE TypeOK
  OBVIOUS
<1>1. /\ main.pNode \in Opt(Nodes) /\ main.i \in Opt(Tasks)
      /\ \A t \in Tasks : task[t].pNode \in Opt(Nodes)
  BY DEF Types, MainTypes, TaskTypes, TaskStates
<1> QED
  BY <1>1 DEF Types, Flags, SocketTypes, QueueTypes, QueueFields, Lengths, TypeOK

LEMMA InitTypes == Init => Types
<1> SUFFICES ASSUME Init PROVE Types
  OBVIOUS
<1> USE PoolAssumption DEF Init, Opt, Lengths
<1>1. Flags
  BY DEF Flags
<1>2. SocketTypes
  BY DEF SocketTypes
<1>3. QueueTypes
  BY DEF QueueTypes, QueueFields, EmptyQueue
<1>4. MainTypes
  BY DEF MainTypes, MainLabels, Idle, Thread
<1>5. TaskTypes
  BY DEF TaskTypes, TaskStates, TaskLabels, Idle, Thread
<1> QED
  BY <1>1, <1>2, <1>3, <1>4, <1>5 DEF Types

(* A task goes to a label at which its register is not used. *)
LEMMA TaskMoves ==
  ASSUME NEW r \in TaskStates, r.at \notin {"wait", "take"},
         NEW label \in {"read", "test", "clear", "handle", "stop"}
  PROVE  [r EXCEPT !.at = label] \in TaskStates
BY DEF TaskStates, TaskLabels

LEMMA ClientTypes ==
  ASSUME Types, NEW c \in Clients, Client(c) \/ Accept(c)
  PROVE  Types'
<1>1. UNCHANGED <<alive, wronged, tidy, Server>>
  BY DEF Client, Leave, Send, Accept
<1>2. Flags' /\ QueueTypes' /\ MainTypes' /\ TaskTypes'
  BY <1>1 DEF Types, Flags, QueueTypes, MainTypes, TaskTypes, Server, queues
<1>3. SocketTypes'
  BY DEF Types, SocketTypes, Client, Leave, Send, Accept, Message, Messages, Opt
<1> QED
  BY <1>2, <1>3 DEF Types

LEMMA ReceiveTypes ==
  ASSUME Types, NEW fd \in Fds, Receive(fd)
  PROVE  Types'
<1> PICK n \in Nodes, t \in Tasks :
      /\ req' = [req EXCEPT ![n] = Node(fd, inbox[fd])]
      /\ main' = Thread("head", n, t, 0)
      /\ order' = [order EXCEPT ![t] = Append(@, n)]
  BY DEF Receive
<1>1. Flags' /\ TaskTypes'
  BY DEF Types, Flags, TaskTypes, Receive
<1>2. SocketTypes'
  BY DEF Types, SocketTypes, Receive, Opt
<1>3. QueueTypes'
  <2>1. Node(fd, inbox[fd]) \in [fd : Fds, msg : Messages]
    BY DEF Receive, Types, SocketTypes, Opt, Node
  <2>2. order' \in [Tasks -> Seq(Nodes)]
    BY DEF Types, QueueTypes
  <2>3. UNCHANGED <<pNext, taskq, event>>
    BY DEF Receive
  <2> QED
    BY <2>1, <2>2, <2>3 DEF Types, QueueTypes, Opt
<1>4. MainTypes'
  BY PoolAssumption DEF MainTypes, Thread, Opt, Lengths, MainLabels
<1> QED
  BY <1>1, <1>2, <1>3, <1>4 DEF Types

LEMMA HangUpTypes ==
  ASSUME Types, NEW fd \in Fds, HangUp(fd)
  PROVE  Types'
<1>1. QueueTypes' /\ MainTypes' /\ TaskTypes'
  BY DEF HangUp, Types, QueueTypes, MainTypes, TaskTypes, Server, queues
<1>2. SocketTypes'
  BY DEF HangUp, ServiceStop, Types, SocketTypes, Opt
<1>3. Flags'
  BY DEF HangUp, ServiceStop, Types, Flags
<1> QED
  BY <1>1, <1>2, <1>3 DEF Types

LEMMA QueueInTypes ==
  ASSUME Types, QueueIn
  PROVE  Types'
<1> main.at # "start" /\ main.i \in Tasks /\ main.pNode \in Nodes
  BY DEF QueueIn, PutHead, PutTail, Link, MoveTail, ReadLen, StoreLen, SentEvent,
         MainAt, Types, MainTypes
<1> taskq[main.i] \in QueueFields
  BY DEF Types, QueueTypes
<1>1. SocketTypes' /\ TaskTypes'
  BY DEF QueueIn, sockets, Types, SocketTypes, TaskTypes
<1>2. Flags'
  BY DEF QueueIn, KeepTidy, sockets, Types, Flags, PutHead, PutTail, Link, MoveTail,
         ReadLen, StoreLen, SentEvent
<1>3. UNCHANGED <<req, order>>
  BY DEF QueueIn
<1>4. event' \in [Tasks -> Nat]
  BY DEF QueueIn, PutHead, PutTail, Link, MoveTail, ReadLen, StoreLen, SentEvent,
         Types, QueueTypes
<1>5. pNext' \in [Nodes -> Opt(Nodes)]
  BY DEF QueueIn, PutHead, PutTail, Link, MoveTail, ReadLen, StoreLen, SentEvent,
         Types, QueueTypes, Opt
<1>6. taskq' \in [Tasks -> QueueFields] /\ MainTypes'
  <2> USE PoolAssumption
      DEF Types, QueueTypes, QueueFields, MainTypes, MainLabels, Lengths, Opt,
          Queue, GoTo, MainAt
  <2>1. CASE PutHead
    BY <2>1 DEF PutHead
  <2>2. CASE PutTail
    <3>1. CASE Queue.pTail = None
      <4>1. taskq' = [taskq EXCEPT ![main.i].pTail = main.pNode] /\ GoTo("length")
        BY <2>2, <3>1 DEF PutTail
      <4>2. taskq' \in [Tasks -> QueueFields]
        BY <4>1
      <4>3. MainTypes'
        BY <4>1
      <4> QED
        BY <4>2, <4>3
    <3>2. CASE Queue.pTail # None
      BY <2>2, <3>2 DEF PutTail
    <3> QED
      BY <3>1, <3>2
  <2>3. CASE Link
    BY <2>3 DEF Link
  <2>4. CASE MoveTail
    BY <2>4 DEF MoveTail
  <2>5. CASE ReadLen
    BY <2>5 DEF ReadLen
  <2>6. CASE StoreLen
    <3>1. main.reg + 1 \in Lengths
      BY <2>6 DEF StoreLen
    <3>2. taskq' \in [Tasks -> QueueFields]
      BY <2>6, <3>1 DEF StoreLen
    <3>3. MainTypes'
      BY <2>6 DEF StoreLen
    <3> QED
      BY <3>2, <3>3
  <2>7. CASE SentEvent
    BY <2>7 DEF SentEvent, Idle, Thread
  <2> QED
    BY <2>1, <2>2, <2>3, <2>4, <2>5, <2>6, <2>7 DEF QueueIn
<1> QED
  BY <1>1, <1>2, <1>3, <1>4, <1>5, <1>6 DEF Types, QueueTypes

LEMMA QueueOutTypes ==
  ASSUME Types, NEW t \in Tasks, QueueOut(t)
  PROVE  Types'
<1> DEFINE Steps == \/ WaitEvent(t) \/ Take(t) \/ Advance(t) \/ TaskReadLen(t)
                    \/ TaskStoreLen(t) \/ TestLen(t) \/ ClearTail(t)
<1> /\ taskq[t] \in QueueFields /\ task[t] \in TaskStates
    /\ QueueTypes /\ TaskTypes
  BY DEF Types, QueueTypes, TaskTypes
<1>1. SocketTypes' /\ MainTypes'
  BY DEF QueueOut, sockets, Types, SocketTypes, MainTypes
<1>2. Flags'
  BY DEF QueueOut, KeepTidy, sockets, Types, Flags, WaitEvent, Take, Advance, TaskReadLen,
         TaskStoreLen, TestLen, ClearTail
<1>3. UNCHANGED <<req, pNext>>
  BY DEF QueueOut, WaitEvent, Take, Advance, TaskReadLen, TaskStoreLen, TestLen, ClearTail
<1> Steps
  BY DEF QueueOut
<1> HIDE DEF Steps
<1> USE DEF TaskAt, TaskGoTo, Enter
<1>4. QueueTypes' /\ TaskTypes'
  <2>1. CASE WaitEvent(t)
    <3>1. event' \in [Tasks -> Nat] /\ UNCHANGED <<taskq, order>>
      BY <2>1 DEF WaitEvent, QueueTypes
    <3>2. [task[t] EXCEPT !.at = "take"] \in TaskStates
      BY DEF TaskStates, TaskLabels
    <3>3. TaskTypes'
      BY <2>1, <3>2 DEF WaitEvent, TaskTypes
    <3> QED
      BY <1>3, <3>1, <3>3 DEF QueueTypes
  <2>2. CASE Take(t)
    <3>1. CASE taskq[t].pHead = None
      BY <1>3, <2>2, <3>1 DEF Take, QueueTypes, TaskTypes
    <3>2. CASE taskq[t].pHead # None
      <4>1. Rest(order[t]) \in Seq(Nodes)
        BY DEF Rest, QueueTypes
      <4>2. order' \in [Tasks -> Seq(Nodes)] /\ UNCHANGED <<taskq, event>>
        BY <2>2, <3>2, <4>1 DEF Take, QueueTypes
      <4>3. Thread("advance", taskq[t].pHead, None, pNext[taskq[t].pHead]) \in TaskStates
        BY <3>2 DEF Thread, TaskStates, TaskLabels, QueueTypes, QueueFields, Opt
      <4>4. TaskTypes'
        BY <2>2, <3>2, <4>3 DEF Take, TaskTypes
      <4> QED
        BY <1>3, <4>2, <4>4 DEF QueueTypes
    <3> QED
      BY <3>1, <3>2
  <2>3. CASE Advance(t)
    <3>1. taskq' \in [Tasks -> QueueFields] /\ UNCHANGED <<event, order>>
      BY <2>3 DEF Advance, QueueTypes, QueueFields, TaskStates
    <3>2. TaskTypes'
      BY <2>3, TaskMoves DEF Advance, TaskTypes
    <3> QED
      BY <1>3, <3>1, <3>2 DEF QueueTypes
  <2>4. CASE TaskReadLen(t)
    <3>1. [task[t] EXCEPT !.at = "decrease", !.reg = taskq[t].queueLen] \in TaskStates
      BY <2>4 DEF TaskReadLen, TaskStates, TaskLabels, QueueFields
    <3>2. TaskTypes'
      BY <2>4, <3>1 DEF TaskReadLen, TaskTypes
    <3> QED
      BY <1>3, <2>4, <3>2 DEF TaskReadLen, QueueTypes
  <2>5. CASE TaskStoreLen(t)
    <3>1. task[t].reg - 1 \in Lengths
      BY <2>5, PoolAssumption DEF TaskStoreLen, TaskStates, Lengths
    <3>2. taskq' \in [Tasks -> QueueFields] /\ UNCHANGED <<event, order>>
      BY <2>5, <3>1 DEF TaskStoreLen, QueueTypes, QueueFields
    <3>3. TaskTypes'
      BY <2>5, TaskMoves DEF TaskStoreLen, TaskTypes
    <3> QED
      BY <1>3, <3>2, <3>3 DEF QueueTypes
  <2>6. CASE TestLen(t)
    <3>1. \A label \in {"clear", "handle"} :
            [task[t] EXCEPT !.at = label, !.reg = 0] \in TaskStates
      <4>1. 0 \in Lengths /\ task[t].pNode \in Nodes
        BY <2>6, PoolAssumption DEF TestLen, TaskStates, Lengths
      <4> QED
        BY <4>1 DEF TaskStates, TaskLabels
    <3>2. TaskTypes'
      BY <2>6, <3>1 DEF TestLen, TaskTypes
    <3> QED
      BY <1>3, <2>6, <3>2 DEF TestLen, QueueTypes
  <2>7. CASE ClearTail(t)
    <3>1. taskq' \in [Tasks -> QueueFields] /\ UNCHANGED <<event, order>>
      BY <2>7 DEF ClearTail, QueueTypes, QueueFields, Opt
    <3>2. TaskTypes'
      BY <2>7, TaskMoves DEF ClearTail, TaskTypes
    <3> QED
      BY <1>3, <3>1, <3>2 DEF QueueTypes
  <2> QED
    BY <2>1, <2>2, <2>3, <2>4, <2>5, <2>6, <2>7 DEF Steps
<1> QED
  BY <1>1, <1>2, <1>4 DEF Types

LEMMA AnswerTypes ==
  ASSUME Types, NEW t \in Tasks, Handler(t) \/ Stop(t)
  PROVE  Types'
<1> task[t].pNode \in Nodes
  BY DEF Types, TaskTypes, TaskStates, Handler, Stop, TaskAt
<1>1. MainTypes'
  BY DEF Handler, Stop, Types, MainTypes
<1>2. Flags'
  BY DEF Handler, Stop, SendData, ServiceStop, sockets, Types, Flags
<1>3. QueueTypes'
  BY DEF Handler, Stop, Finish, queues, Types, QueueTypes, Opt
<1>4. TaskTypes'
  <2>1. Idle("wait") \in TaskStates
    BY PoolAssumption DEF Idle, Thread, TaskStates, TaskLabels, Lengths, Opt
  <2>2. TaskAt(t, "handle") \/ TaskAt(t, "stop")
    BY DEF Handler, Stop
  <2>3. [task[t] EXCEPT !.at = "stop"] \in TaskStates
    BY <2>2, TaskMoves DEF TaskAt, Types, TaskTypes
  <2> QED
    BY <2>1, <2>3 DEF Handler, Stop, Finish, TaskGoTo, Types, TaskTypes
<1>5. SocketTypes'
  BY DEF Handler, Stop, SendData, ServiceStop, sockets, Types, SocketTypes, Opt
<1> QED
  BY <1>1, <1>2, <1>3, <1>4, <1>5 DEF Types

LEMMA TypesKept == Types /\ [Next]_vars => Types'
<1> SUFFICES ASSUME Types, [Next]_vars PROVE Types'
  OBVIOUS
<1>1. CASE UNCHANGED vars
  BY <1>1 DEF Types, Flags, SocketTypes, QueueTypes, MainTypes, TaskTypes,
              vars, queues, sockets
<1> QED
  BY <1>1, ClientTypes, ReceiveTypes, HangUpTypes, QueueInTypes, QueueOutTypes, AnswerTypes
  DEF Next, TaskWork, Ended

(* The server with task threads keeps its types, also after two threads    *)
(* have met in a queue or in a descriptor (queue.c, engine.c).             *)
THEOREM TypeCorrect == Spec => []TypeOK
BY TypesAreTypes, InitTypes, TypesKept, PTL DEF Spec

(***************************************************************************)
(* The queues.                                                             *)
(***************************************************************************)

(* Task t has taken its pNode out and not yet freed it. *)
Holds(t) == task[t].at \notin {"wait", "take"}

(* A node in work is in one place: at one position of one queue or in the  *)
(* hands of one task.                                                      *)
Apart ==
  /\ \A t, u \in Tasks : \A i \in 1 .. Len(order[t]), j \in 1 .. Len(order[u]) :
       order[t][i] = order[u][j] => t = u /\ i = j
  /\ \A t, u \in Tasks : \A i \in 1 .. Len(order[t]) :
       Holds(u) => order[t][i] # task[u].pNode
  /\ \A t, u \in Tasks : Holds(t) /\ Holds(u) /\ task[t].pNode = task[u].pNode => t = u
  /\ \A t \in Tasks : \A i \in 1 .. Len(order[t]) : req[order[t][i]] # None
  /\ \A t \in Tasks : Holds(t) => req[task[t].pNode] # None

(* Each node is announced to its task once. *)
One(b) == IF b THEN 1 ELSE 0
Announced ==
  \A t \in Tasks :
    event[t] + One(task[t].at = "take") + One(main.i = t) = Len(order[t])

(* Main is in the middle of QueueIn, with the last node.                   *)
Entering(t) ==
  main.i = t /\ main.at # "post" =>
    1 <= Len(order[t]) /\ order[t][Len(order[t])] = main.pNode

MainIn(t, labels) == main.i = t /\ main.at \in labels

(* The number of nodes up to pTail, and of those that queueLen counts, but *)
(* for the one that QueueOut is taking.                                    *)
Tailed(t) ==
  IF MainIn(t, {"head", "tail", "link", "move"}) THEN Len(order[t]) - 1
                                                 ELSE Len(order[t])
Counted(t) ==
  IF MainIn(t, {"head", "tail", "link", "move", "length", "store"})
  THEN Len(order[t]) - 1 ELSE Len(order[t])

First(t) == IF Tailed(t) = 0 THEN None ELSE order[t][1]

(* What the fields of the queue hold at each step of QueueIn and QueueOut. *)
HeadHolds(t) ==
  taskq[t].pHead = IF task[t].at = "advance" THEN task[t].pNode
                   ELSE IF MainIn(t, {"tail"}) THEN order[t][1] ELSE First(t)
TailHolds(t) ==
  taskq[t].pTail = IF Tailed(t) # 0 THEN order[t][Tailed(t)]
                   ELSE IF InQueueOut(t) THEN task[t].pNode ELSE None
LengthHolds(t) ==
  taskq[t].queueLen = IF task[t].at \in {"advance", "read", "decrease"}
                      THEN Counted(t) + 1 ELSE Counted(t)
Registers(t) ==
  /\ MainIn(t, {"link", "move"}) => Tailed(t) >= 1
  /\ MainIn(t, {"store"}) => main.reg = Counted(t)
  /\ task[t].at = "advance" => task[t].reg = First(t)
  /\ task[t].at = "decrease" => task[t].reg = Counted(t) + 1
  /\ task[t].at = "clear" => Tailed(t) = 0

Fields(t) == HeadHolds(t) /\ TailHolds(t) /\ LengthHolds(t) /\ Registers(t)

Links(t) ==
  LET s == order[t]
      m == Tailed(t)
  IN  /\ \A k \in 1 .. m - 1 : pNext[s[k]] = s[k + 1]
      /\ m >= 1 => pNext[s[m]] = IF MainIn(t, {"move"}) THEN s[m + 1] ELSE None
      /\ MainIn(t, {"tail", "link", "move"}) => pNext[s[m + 1]] = None

Alone(t) == ~(InQueueIn(t) /\ InQueueOut(t))

QueueInv(t) == Entering(t) /\ Fields(t) /\ Links(t) /\ Alone(t)

Queues == alive /\ Apart /\ Announced /\ \A t \in Tasks : QueueInv(t)

USE DEF MainIn, One

LEMMA InitQueues == Init => Queues
<1> SUFFICES ASSUME Init PROVE Queues
  OBVIOUS
<1> /\ \A t \in Tasks : /\ order[t] = <<>> /\ Len(order[t]) = 0
                        /\ task[t].at = "wait" /\ event[t] = 0 /\ taskq[t] = EmptyQueue
    /\ main.i = None /\ None \notin Tasks /\ main.at = "start"
  BY PoolAssumption DEF Init, Idle, Thread
<1>1. alive /\ Apart /\ Announced
  BY DEF Init, Apart, Announced, Holds
<1>2. ASSUME NEW t \in Tasks PROVE QueueInv(t)
  <2>1. main.i # t /\ order[t] = <<>> /\ Len(order[t]) = 0 /\ task[t].at = "wait"
    BY <1>2
  <2>2. Tailed(t) = 0 /\ Counted(t) = 0
    BY <2>1 DEF Tailed, Counted
  <2>3. Entering(t) /\ Alone(t)
    BY <2>1 DEF Entering, Alone, InQueueIn
  <2>4. Fields(t)
    BY <2>1, <2>2
    DEF Fields, HeadHolds, TailHolds, LengthHolds, Registers, First, InQueueOut, EmptyQueue
  <2>5. Links(t)
    BY <2>1, <2>2 DEF Links
  <2> QED
    BY <2>3, <2>4, <2>5 DEF QueueInv
<1> QED
  BY <1>1, <1>2 DEF Queues

(* A queue on which no step is taken. *)
LEMMA QueueFrame ==
  ASSUME Types, NEW u \in Tasks, QueueInv(u),
         order'[u] = order[u], taskq'[u] = taskq[u], task'[u] = task[u],
         \A i \in 1 .. Len(order[u]) : pNext'[order[u][i]] = pNext[order[u][i]],
         main.i = u <=> main'.i = u, main.i = u => main' = main
  PROVE  QueueInv(u)'
<1> DEFINE s == order[u]
           m == Tailed(u)
<1>1. Tailed(u)' = m /\ Counted(u)' = Counted(u)
  BY DEF Tailed, Counted
<1>2. Entering(u)' /\ Alone(u)'
  BY DEF QueueInv, Entering, Alone, InQueueIn, InQueueOut
<1>3. Fields(u)'
  BY <1>1 DEF QueueInv, Fields, HeadHolds, TailHolds, LengthHolds, Registers, First, InQueueOut
<1>4. Links(u)'
  <2>1. Len(s) \in Nat /\ m \in Int /\ m <= Len(s) /\ (MainIn(u, {"tail", "link", "move"}) => m + 1 = Len(s))
    BY DEF Tailed, Types, QueueTypes
  <2>2. \A k \in 1 .. m : pNext'[s[k]] = pNext[s[k]]
    BY <2>1
  <2>3. MainIn(u, {"tail", "link", "move"}) /\ m >= 0 => pNext'[s[m + 1]] = pNext[s[m + 1]]
    BY <2>1
  <2>4. MainIn(u, {"tail", "link", "move"}) => m >= 0
    BY <2>1 DEF QueueInv, Entering
  <2> QED
    BY <1>1, <2>1, <2>2, <2>3, <2>4 DEF QueueInv, Links
<1> QED
  BY <1>2, <1>3, <1>4 DEF QueueInv

(* Steps of clients and of the loop that touch sockets only. *)
LEMMA QueuesStay ==
  ASSUME Types, Queues, UNCHANGED <<alive, Server>>
  PROVE  Queues'
<1>1. Apart' /\ Announced' /\ alive'
  BY DEF Queues, Apart, Announced, Holds, Server, queues
<1>2. ASSUME NEW u \in Tasks PROVE QueueInv(u)'
  BY <1>2, QueueFrame DEF Queues, Server, queues
<1> QED
  BY <1>1, <1>2 DEF Queues

LEMMA ReceiveQueues ==
  ASSUME Types, Queues, NEW fd \in Fds, Receive(fd)
  PROVE  Queues'
<1> PICK n \in Nodes, t \in Tasks :
      /\ req[n] = None
      /\ req' = [req EXCEPT ![n] = Node(fd, inbox[fd])]
      /\ main' = Thread("head", n, t, 0)
      /\ order' = [order EXCEPT ![t] = Append(@, n)]
  BY DEF Receive
<1> UNCHANGED <<alive, pNext, taskq, event, task>> /\ main.at = "start" /\ main.i = None
  BY DEF Receive, MainAt, Types, MainTypes
<1> USE DEF Queues
<1>0. /\ None \notin Tasks /\ None \notin Nodes
      /\ main'.at = "head" /\ main'.i = t /\ main'.pNode = n
      /\ \A u \in Tasks : order[u] \in Seq(Nodes) /\ Len(order[u]) \in Nat
      /\ req'[n] # None
  BY PoolAssumption, NoneIsNoRequest DEF Thread, Types, QueueTypes, Node, SocketTypes, Receive, Opt
<1>1. /\ \A u \in Tasks : \A i \in 1 .. Len(order[u]) : order[u][i] \in Nodes /\ order[u][i] # n
      /\ \A u \in Tasks : Holds(u) => task[u].pNode \in Nodes /\ task[u].pNode # n
  BY <1>0 DEF Apart, Holds, Types, TaskTypes, TaskStates
<1>2. /\ Len(order'[t]) = Len(order[t]) + 1 /\ order'[t][Len(order[t]) + 1] = n
      /\ \A i \in 1 .. Len(order[t]) : order'[t][i] = order[t][i]
      /\ \A u \in Tasks \ {t} : order'[u] = order[u]
  BY <1>0 DEF Types, QueueTypes
<1>3. Apart'
  <2> USE DEF Apart, Holds
  <2>1. ASSUME NEW u \in Tasks, NEW v \in Tasks,
               NEW i \in 1 .. Len(order'[u]), NEW j \in 1 .. Len(order'[v]),
               order'[u][i] = order'[v][j]
        PROVE  u = v /\ i = j
    BY <1>0, <1>1, <1>2, <2>1
  <2>2. ASSUME NEW u \in Tasks, NEW i \in 1 .. Len(order'[u])
        PROVE  /\ \A v \in Tasks : Holds(v) => order'[u][i] # task[v].pNode
               /\ req'[order'[u][i]] # None
    BY <1>0, <1>1, <1>2, <2>2 DEF Types, QueueTypes
  <2>3. ASSUME NEW u \in Tasks, Holds(u) PROVE req'[task[u].pNode] # None
    BY <1>1, <2>3 DEF Types, QueueTypes
  <2> QED
    BY <2>1, <2>2, <2>3
<1>4. Announced'
  <2> SUFFICES ASSUME NEW u \in Tasks
               PROVE  event[u] + One(task[u].at = "take") + One(main'.i = u) = Len(order'[u])
    BY DEF Announced
  <2>1. event[u] + One(task[u].at = "take") + One(FALSE) = Len(order[u])
    BY <1>0 DEF Announced
  <2>2. One(task[u].at = "take") \in Nat /\ event[u] \in Nat
    BY DEF Types, QueueTypes
  <2> QED
    BY <1>0, <1>2, <2>1, <2>2
<1>5. ASSUME NEW u \in Tasks PROVE QueueInv(u)'
  <2>1. CASE u # t
    BY <1>0, <1>2, <2>1, QueueFrame
  <2>2. CASE u = t
    <3>1. /\ Tailed(t)' = Len(order[t]) /\ Tailed(t) = Len(order[t])
          /\ Counted(t)' = Len(order[t]) /\ Counted(t) = Len(order[t])
      BY <1>0, <1>2 DEF Tailed, Counted
    <3>2. Entering(t)' /\ Alone(t)'
      BY <1>0, <1>2 DEF Entering, Alone, InQueueIn
    <3>3. Fields(t)'
      <4>1. First(t)' = First(t)
        BY <1>0, <1>2, <3>1 DEF First
      <4>2. order'[t][Len(order[t])] = order[t][Len(order[t])] \/ Len(order[t]) = 0
        BY <1>0, <1>2
      <4> QED
        BY <1>0, <3>1, <4>1, <4>2
        DEF QueueInv, Fields, HeadHolds, TailHolds, LengthHolds, Registers, InQueueOut
    <3>4. Links(t)'
      <4> DEFINE m == Len(order[t])
      <4>1. /\ \A k \in 1 .. m - 1 : pNext[order[t][k]] = order[t][k + 1]
            /\ m >= 1 => pNext[order[t][m]] = None
        BY <1>0, <3>1 DEF QueueInv, Links
      <4>2. /\ \A k \in 1 .. m - 1 : pNext[order'[t][k]] = order'[t][k + 1]
            /\ m >= 1 => pNext[order'[t][m]] = None
        BY <1>0, <1>2, <4>1
      <4> QED
        BY <1>0, <3>1, <4>2 DEF Links
    <3> QED
      BY <2>2, <3>2, <3>3, <3>4 DEF QueueInv
  <2> QED
    BY <2>1, <2>2
<1> QED
  BY <1>3, <1>4, <1>5

(* What the queue that main works on looks like, and the other queues.     *)
LEMMA EnteringFacts ==
  ASSUME Types, Queues, QueueIn
  PROVE  LET t == main.i
             s == order[t]
         IN  /\ t \in Tasks /\ main.pNode \in Nodes /\ t # None
             /\ s \in Seq(Nodes) /\ Len(s) \in Nat
             /\ \A i \in 1 .. Len(s) : s[i] \in Nodes /\ s[i] # None
             /\ \A i, j \in 1 .. Len(s) : s[i] = s[j] => i = j
             /\ \A u \in Tasks \ {t} : \A i \in 1 .. Len(order[u]), j \in 1 .. Len(s) :
                  order[u][i] # s[j]
             /\ main.at # "post" => Len(s) >= 1 /\ main.pNode = s[Len(s)]
             /\ QueueInv(t)
             /\ UNCHANGED <<order, task, req>>
<1>1. main.i \in Tasks /\ main.pNode \in Nodes /\ None \notin Tasks /\ None \notin Nodes
  BY PoolAssumption
  DEF QueueIn, PutHead, PutTail, Link, MoveTail, ReadLen, StoreLen, SentEvent,
      MainAt, Types, MainTypes
<1>2. QueueInv(main.i)
  BY <1>1 DEF Queues
<1>3. order[main.i] \in Seq(Nodes)
  BY <1>1 DEF Types, QueueTypes
<1> QED
  BY <1>1, <1>2, <1>3 DEF Queues, Apart, QueueInv, Entering, QueueIn

(* While main is in a queue without its task, the fields are as follows.   *)
LEMMA FieldsAlone ==
  ASSUME NEW t \in Tasks, ~InQueueOut(t)
  PROVE  Fields(t) <=>
           /\ taskq[t].pHead = IF MainIn(t, {"tail"}) THEN order[t][1] ELSE First(t)
           /\ taskq[t].pTail = IF Tailed(t) # 0 THEN order[t][Tailed(t)] ELSE None
           /\ taskq[t].queueLen = Counted(t)
           /\ MainIn(t, {"link", "move"}) => Tailed(t) >= 1
           /\ MainIn(t, {"store"}) => main.reg = Counted(t)
BY DEF InQueueOut, Fields, HeadHolds, TailHolds, LengthHolds, Registers

(* The same after a step. *)
LEMMA FieldsAloneNext ==
  ASSUME NEW t \in Tasks, ~InQueueOut(t)'
  PROVE  Fields(t)' <=>
           /\ taskq'[t].pHead = IF MainIn(t, {"tail"})' THEN order'[t][1] ELSE First(t)'
           /\ taskq'[t].pTail = IF (Tailed(t) # 0)' THEN order'[t][Tailed(t)'] ELSE None
           /\ taskq'[t].queueLen = Counted(t)'
           /\ MainIn(t, {"link", "move"})' => (Tailed(t) >= 1)'
           /\ MainIn(t, {"store"})' => main'.reg = Counted(t)'
BY DEF InQueueOut, Fields, HeadHolds, TailHolds, LengthHolds, Registers

(* The queue of main after a step of QueueIn: main is alone, whatever the  *)
(* step was, unless it was SentEvent.                                      *)
LEMMA QueueInAlone ==
  ASSUME Types, Queues, QueueIn, tidy', NEW t \in Tasks, t = main.i
  PROVE  /\ Alone(t)'
         /\ ~SentEvent => main'.i = t
         /\ ~SentEvent => ~InQueueOut(t) /\ ~InQueueOut(t)'
<1>1. ~(InQueueIn(t)' /\ InQueueOut(t)') /\ UNCHANGED task /\ Types'
  BY QueueInTypes DEF QueueIn, KeepTidy
<1>2. Alone(t)'
  BY <1>1 DEF Alone
<1>3. main \in [at : MainLabels, pNode : Opt(Nodes), i : Opt(Tasks), reg : Lengths]
  BY DEF Types, MainTypes
<1>4. ~SentEvent => main'.i = t /\ (alive' => main'.at # main.at)
  BY <1>1, <1>3 DEF QueueIn, PutHead, PutTail, Link, MoveTail, ReadLen, StoreLen, GoTo, MainAt
<1>5. ~SentEvent => InQueueIn(t) \/ InQueueIn(t)'
  BY <1>1, <1>3
  DEF QueueIn, PutHead, PutTail, Link, MoveTail, ReadLen, StoreLen, GoTo, MainAt, InQueueIn
<1>6. InQueueOut(t)' <=> InQueueOut(t)
  BY <1>1 DEF InQueueOut
<1>7. Alone(t)
  BY DEF Queues, QueueInv
<1> QED
  BY <1>1, <1>2, <1>4, <1>5, <1>6, <1>7 DEF Alone

(* The seven steps, on the queue of main. *)
LEMMA QueueInOwn ==
  ASSUME Types, Queues, QueueIn, tidy', NEW t \in Tasks, t = main.i
  PROVE  alive' /\ QueueInv(t)'
<1> DEFINE s == order[t]
           n == Len(s)
<1> /\ s \in Seq(Nodes) /\ n \in Nat /\ main.pNode \in Nodes
    /\ \A i \in 1 .. n : s[i] \in Nodes /\ s[i] # None
    /\ \A i, j \in 1 .. n : s[i] = s[j] => i = j
    /\ main.at # "post" => n >= 1 /\ main.pNode = s[n]
    /\ QueueInv(t)
    /\ UNCHANGED <<order, task>>
    /\ pNext \in [Nodes -> Opt(Nodes)] /\ taskq \in [Tasks -> QueueFields]
    /\ main \in [at : MainLabels, pNode : Opt(Nodes), i : Opt(Tasks), reg : Lengths]
    /\ alive /\ Alone(t)'
  BY EnteringFacts, QueueInAlone DEF Types, QueueTypes, MainTypes, Queues
<1> USE DEF Queue, GoTo, MainAt
<1>0. ~SentEvent => ~InQueueOut(t) /\ ~InQueueOut(t)' /\ main'.i = t
  BY QueueInAlone
<1>1. CASE PutHead
  <2>1. /\ ~InQueueOut(t) /\ ~InQueueOut(t)' /\ main'.i = t /\ main'.at = "tail" /\ alive'
        /\ main.at = "head" /\ main'.pNode = s[n]
    BY <1>0, <1>1 DEF PutHead, SentEvent
  <2>2. Tailed(t) = n - 1 /\ Tailed(t)' = n - 1 /\ Counted(t) = n - 1 /\ Counted(t)' = n - 1
    BY <2>1 DEF Tailed, Counted
  <2>3. /\ n = 1 => taskq[t].pHead = None /\ taskq[t].pTail = None
        /\ n # 1 => taskq[t].pHead = s[1] /\ taskq[t].pTail = s[n - 1]
        /\ taskq[t].queueLen = n - 1
    <3>1. /\ taskq[t].pHead = First(t)
          /\ taskq[t].pTail = IF Tailed(t) # 0 THEN s[Tailed(t)] ELSE None
          /\ taskq[t].queueLen = Counted(t)
      BY <2>1, FieldsAlone DEF QueueInv
    <3> QED
      BY <2>2, <3>1 DEF First
  <2>4. taskq'[t].pHead = s[1] /\ taskq'[t].pTail = taskq[t].pTail
        /\ taskq'[t].queueLen = taskq[t].queueLen
    <3>1. CASE n = 1
      <4>1. taskq' = [taskq EXCEPT ![t].pHead = s[n]]
        BY <1>1, <2>1, <2>3, <3>1 DEF PutHead
      <4> QED
        BY <3>1, <4>1 DEF QueueFields
    <3>2. CASE n # 1
      <4>1. taskq[t].pHead # None
        BY <2>1, <2>3, <3>2
      <4> QED
        BY <1>1, <2>3, <3>2, <4>1 DEF PutHead
    <3> QED
      BY <3>1, <3>2
  <2>5. Fields(t)'
    <3>1. /\ taskq'[t].pTail = IF n - 1 # 0 THEN s[n - 1] ELSE None
          /\ MainIn(t, {"tail"})' /\ ~MainIn(t, {"link", "move"})' /\ ~MainIn(t, {"store"})'
      BY <2>1, <2>3, <2>4
    <3> QED
      BY <2>1, <2>2, <2>3, <2>4, <3>1, FieldsAloneNext
  <2>6. Links(t)'
    <3>0. n - 1 - 1 = n - 2 /\ (n >= 2 => n - 1 >= 1)
      <4>1. n \in Nat
        BY <2>1
      <4> HIDE DEF n
      <4> QED
        BY <4>1
    <3>1. /\ \A k \in 1 .. n - 2 : pNext[s[k]] = s[k + 1]
          /\ n >= 2 => pNext[s[n - 1]] = None
      <4>1. ~MainIn(t, {"move"})
        BY <2>1
      <4>2. /\ \A k \in 1 .. n - 1 - 1 : pNext[s[k]] = s[k + 1]
            /\ n - 1 >= 1 => pNext[s[n - 1]] = None
        BY <2>1, <2>2, <4>1 DEF QueueInv, Links
      <4> QED
        BY <3>0, <4>2
    <3>2. pNext' = [pNext EXCEPT ![s[n]] = None]
      BY <1>1, <2>1 DEF PutHead
    <3>3. /\ \A k \in 1 .. n - 2 : pNext'[s[k]] = s[k + 1]
          /\ n >= 2 => pNext'[s[n - 1]] = None
          /\ pNext'[s[n]] = None
      BY <2>1, <3>1, <3>2
    <3> QED
      BY <2>1, <2>2, <3>3 DEF Links
  <2>7. Entering(t)'
    BY <2>1 DEF Entering
  <2> QED
    BY <2>1, <2>5, <2>6, <2>7 DEF QueueInv
<1>2. CASE PutTail
  <2>1. /\ ~InQueueOut(t) /\ ~InQueueOut(t)' /\ main'.i = t /\ alive'
        /\ main.at = "tail" /\ main'.pNode = s[n] /\ UNCHANGED pNext
    BY <1>0, <1>2 DEF PutTail, SentEvent
  <2>2. Tailed(t) = n - 1 /\ Counted(t) = n - 1
    BY <2>1 DEF Tailed, Counted
  <2>3. /\ taskq[t].pHead = s[1]
        /\ n = 1 => taskq[t].pTail = None
        /\ n # 1 => taskq[t].pTail = s[n - 1]
        /\ taskq[t].queueLen = n - 1
    <3>1. /\ taskq[t].pHead = s[1]
          /\ taskq[t].pTail = IF Tailed(t) # 0 THEN s[Tailed(t)] ELSE None
          /\ taskq[t].queueLen = Counted(t)
      BY <2>1, FieldsAlone DEF QueueInv
    <3> QED
      BY <2>2, <3>1
  <2>4. /\ \A k \in 1 .. n - 2 : pNext[s[k]] = s[k + 1]
        /\ n >= 2 => pNext[s[n - 1]] = None
        /\ pNext[s[n]] = None
    BY <2>1, <2>2 DEF QueueInv, Links
  <2>5. Entering(t)'
    BY <2>1 DEF Entering
  <2>6. CASE n = 1
    <3>1. /\ main'.at = "length" /\ taskq'[t].pTail = s[1]
          /\ taskq'[t].pHead = s[1] /\ taskq'[t].queueLen = 0
      BY <1>2, <2>1, <2>3, <2>6 DEF PutTail, QueueFields
    <3>2. Tailed(t)' = 1 /\ Counted(t)' = 0 /\ First(t)' = s[1]
      BY <2>1, <2>6, <3>1 DEF Tailed, Counted, First
    <3>3. Fields(t)'
      BY <2>1, <3>1, <3>2, FieldsAloneNext
    <3>4. Links(t)'
      BY <2>1, <2>4, <2>6, <3>1, <3>2 DEF Links
    <3> QED
      BY <2>1, <2>5, <3>3, <3>4 DEF QueueInv
  <2>7. CASE n # 1
    <3>0. n >= 2 /\ n - 1 \in 1 .. n
      <4>1. n >= 1
        BY <2>1
      <4> HIDE DEF n
      <4> QED
        BY <2>7, <4>1
    <3>1. main'.at = "link" /\ UNCHANGED taskq
      <4>1. taskq[t].pTail # None
        BY <2>3, <2>7, <3>0
      <4> QED
        BY <1>2, <4>1 DEF PutTail
    <3>2. Tailed(t)' = n - 1 /\ Counted(t)' = n - 1 /\ First(t)' = s[1]
      BY <2>1, <2>7, <3>1 DEF Tailed, Counted, First
    <3>3. Fields(t)'
      <4>1. n - 1 >= 1 /\ ~MainIn(t, {"tail"})' /\ ~MainIn(t, {"store"})'
        BY <2>1, <3>0, <3>1
      <4>2. /\ taskq'[t].pHead = s[1] /\ taskq'[t].pTail = s[n - 1]
            /\ taskq'[t].queueLen = n - 1
        BY <2>3, <2>7, <3>1
      <4> QED
        BY <2>1, <3>0, <3>2, <4>1, <4>2, FieldsAloneNext
    <3>4. Links(t)'
      <4>1. n - 1 - 1 = n - 2 /\ n - 1 + 1 = n
        <5>1. n \in Nat
          BY <2>1
        <5> HIDE DEF n
        <5> QED
          BY <5>1
      <4>2. ~MainIn(t, {"move"})'
        BY <3>1
      <4>3. /\ \A k \in 1 .. n - 1 - 1 : pNext'[s[k]] = s[k + 1]
            /\ pNext'[s[n - 1]] = None /\ pNext'[s[n - 1 + 1]] = None
        BY <2>1, <2>4, <3>0, <4>1
      <4> QED
        BY <2>1, <3>2, <4>2, <4>3 DEF Links
    <3> QED
      BY <2>1, <2>5, <3>3, <3>4 DEF QueueInv
  <2> QED
    BY <2>6, <2>7
<1>3. CASE Link
  <2>1. /\ ~InQueueOut(t) /\ ~InQueueOut(t)' /\ main'.i = t
        /\ main.at = "link" /\ UNCHANGED taskq
    BY <1>0, <1>3 DEF Link, SentEvent
  <2>2. Tailed(t) = n - 1 /\ Counted(t) = n - 1 /\ n >= 2 /\ First(t) = s[1]
    BY <2>1 DEF Tailed, Counted, First, QueueInv, Fields, Registers
  <2>3. /\ taskq[t].pHead = s[1] /\ taskq[t].pTail = s[n - 1] /\ taskq[t].queueLen = n - 1
    BY <2>1, <2>2, FieldsAlone DEF QueueInv
  <2>4. /\ \A k \in 1 .. n - 2 : pNext[s[k]] = s[k + 1]
        /\ pNext[s[n]] = None
    BY <2>1, <2>2 DEF QueueInv, Links
  <2>5. /\ pNext' = [pNext EXCEPT ![s[n - 1]] = s[n]]
        /\ main'.at = "move" /\ main'.pNode = s[n] /\ alive'
    <3>1. main.pNode = s[n] /\ taskq[t].pTail # None
      BY <2>1, <2>2, <2>3
    <3>2. pNext' = [pNext EXCEPT ![taskq[t].pTail] = main.pNode] /\ GoTo("move") /\ alive'
      BY <1>3, <3>1 DEF Link
    <3> QED
      BY <2>3, <3>1, <3>2
  <2>6. Tailed(t)' = n - 1 /\ Counted(t)' = n - 1 /\ First(t)' = s[1] /\ Entering(t)'
    BY <2>1, <2>2, <2>5 DEF Tailed, Counted, First, Entering
  <2>7. Fields(t)'
    BY <2>1, <2>2, <2>3, <2>5, <2>6, FieldsAloneNext
  <2>8. Links(t)'
    <3>1. /\ \A k \in 1 .. n - 2 : pNext'[s[k]] = s[k + 1]
          /\ pNext'[s[n - 1]] = s[n] /\ pNext'[s[n]] = None
      BY <2>2, <2>4, <2>5
    <3> QED
      BY <2>1, <2>2, <2>5, <2>6, <3>1 DEF Links
  <2> QED
    BY <2>5, <2>6, <2>7, <2>8 DEF QueueInv
<1>4. CASE MoveTail
  <2>1. /\ ~InQueueOut(t) /\ ~InQueueOut(t)' /\ main'.i = t /\ alive'
        /\ main.at = "move" /\ main'.at = "length" /\ main'.pNode = s[n] /\ UNCHANGED pNext
    BY <1>0, <1>4 DEF MoveTail, SentEvent
  <2>2. Tailed(t) = n - 1 /\ Counted(t) = n - 1 /\ n >= 2 /\ First(t) = s[1]
    BY <2>1 DEF Tailed, Counted, First, QueueInv, Fields, Registers
  <2>3. /\ taskq[t].pHead = s[1] /\ taskq[t].queueLen = n - 1
    BY <2>1, <2>2, FieldsAlone DEF QueueInv
  <2>4. /\ taskq'[t].pHead = s[1] /\ taskq'[t].queueLen = n - 1 /\ taskq'[t].pTail = s[n]
    BY <1>4, <2>1, <2>3 DEF MoveTail, QueueFields
  <2>5. Tailed(t)' = n /\ Counted(t)' = n - 1 /\ First(t)' = s[1] /\ Entering(t)'
    BY <2>1, <2>2 DEF Tailed, Counted, First, Entering
  <2>6. Fields(t)'
    BY <2>1, <2>2, <2>4, <2>5, FieldsAloneNext
  <2>7. Links(t)'
    <3>1. /\ \A k \in 1 .. n - 2 : pNext[s[k]] = s[k + 1]
          /\ pNext[s[n - 1]] = s[n] /\ pNext[s[n]] = None
      BY <2>1, <2>2 DEF QueueInv, Links
    <3>2. \A k \in 1 .. n - 1 : pNext[s[k]] = s[k + 1]
      BY <2>2, <3>1
    <3> QED
      BY <2>1, <2>2, <2>5, <3>1, <3>2 DEF Links
  <2> QED
    BY <2>1, <2>5, <2>6, <2>7 DEF QueueInv
<1>5. CASE ReadLen
  <2>1. /\ ~InQueueOut(t) /\ ~InQueueOut(t)' /\ main'.i = t /\ alive'
        /\ main.at = "length" /\ main'.at = "store" /\ main'.pNode = s[n]
        /\ UNCHANGED <<pNext, taskq>> /\ main'.reg = taskq[t].queueLen
    BY <1>0, <1>5 DEF ReadLen, SentEvent
  <2>2. /\ Tailed(t) = n /\ Counted(t) = n - 1 /\ First(t) = s[1]
        /\ Tailed(t)' = n /\ Counted(t)' = n - 1 /\ First(t)' = s[1] /\ Entering(t)'
    BY <2>1 DEF Tailed, Counted, First, Entering
  <2>3. taskq[t].pHead = s[1] /\ taskq[t].pTail = s[n] /\ taskq[t].queueLen = n - 1
    BY <2>1, <2>2, FieldsAlone DEF QueueInv
  <2>4. Fields(t)'
    BY <2>1, <2>2, <2>3, FieldsAloneNext
  <2>5. Links(t)'
    BY <2>1, <2>2 DEF QueueInv, Links
  <2> QED
    BY <2>1, <2>2, <2>4, <2>5 DEF QueueInv
<1>6. CASE StoreLen
  <2>1. /\ ~InQueueOut(t) /\ ~InQueueOut(t)' /\ main'.i = t /\ alive'
        /\ main.at = "store" /\ main'.at = "post" /\ UNCHANGED pNext
        /\ taskq' = [taskq EXCEPT ![t].queueLen = main.reg + 1]
    BY <1>0, <1>6 DEF StoreLen, SentEvent
  <2>2. /\ Tailed(t) = n /\ Counted(t) = n - 1 /\ First(t) = s[1]
        /\ Tailed(t)' = n /\ Counted(t)' = n /\ First(t)' = s[1] /\ Entering(t)'
    BY <2>1 DEF Tailed, Counted, First, Entering
  <2>3. taskq[t].pHead = s[1] /\ taskq[t].pTail = s[n] /\ main.reg = n - 1
    BY <2>1, <2>2, FieldsAlone DEF QueueInv
  <2>4. taskq'[t].pHead = s[1] /\ taskq'[t].pTail = s[n] /\ taskq'[t].queueLen = n
    BY <2>1, <2>3 DEF QueueFields
  <2>5. Fields(t)'
    BY <2>1, <2>2, <2>4, FieldsAloneNext
  <2>6. Links(t)'
    BY <2>1, <2>2 DEF QueueInv, Links
  <2> QED
    BY <2>1, <2>2, <2>5, <2>6 DEF QueueInv
<1>7. CASE SentEvent
  <2>1. /\ main.at = "post" /\ main'.i # t /\ UNCHANGED <<alive, pNext, taskq>>
    BY <1>7, PoolAssumption DEF SentEvent, Idle, Thread
  <2>2. /\ Tailed(t) = n /\ Counted(t) = n /\ Tailed(t)' = n /\ Counted(t)' = n
    BY <2>1 DEF Tailed, Counted
  <2>3. Fields(t)'
    BY <2>1, <2>2
    DEF QueueInv, Fields, HeadHolds, TailHolds, LengthHolds, Registers, First, InQueueOut
  <2>4. Links(t)'
    BY <2>1, <2>2 DEF QueueInv, Links
  <2> QED
    BY <2>1, <2>3, <2>4 DEF QueueInv, Entering
<1> QED
  BY <1>1, <1>2, <1>3, <1>4, <1>5, <1>6, <1>7 DEF QueueIn

LEMMA QueueInQueues ==
  ASSUME Types, Queues, QueueIn, tidy'
  PROVE  Queues'
<1> DEFINE t == main.i
           s == order[t]
<1> /\ t \in Tasks /\ t # None /\ None \notin Tasks
    /\ UNCHANGED <<order, task, req>>
    /\ taskq \in [Tasks -> QueueFields] /\ event \in [Tasks -> Nat]
    /\ pNext \in [Nodes -> Opt(Nodes)]
  BY EnteringFacts, PoolAssumption DEF Types, QueueTypes
<1>1. Apart'
  BY DEF Queues, Apart, Holds
<1>2. Announced'
  <2> SUFFICES ASSUME NEW u \in Tasks
               PROVE  event'[u] + One(task[u].at = "take") + One(main'.i = u) = Len(order[u])
    BY DEF Announced
  <2>1. event[u] + One(task[u].at = "take") + One(main.i = u) = Len(order[u])
    BY DEF Queues, Announced
  <2>2. One(task[u].at = "take") \in Nat /\ event[u] \in Nat
    OBVIOUS
  <2>3. CASE SentEvent
    <3>1. event' = [event EXCEPT ![t] = @ + 1] /\ main'.i = None
      BY <2>3 DEF SentEvent, Idle, Thread
    <3> QED
      BY <2>1, <2>2, <3>1
  <2>4. CASE ~SentEvent
    <3>1. main'.i = t /\ UNCHANGED event
      BY <2>4, QueueInAlone
      DEF QueueIn, PutHead, PutTail, Link, MoveTail, ReadLen, StoreLen
    <3> QED
      BY <2>1, <3>1
  <2> QED
    BY <2>3, <2>4
<1>3. ASSUME NEW u \in Tasks, u # t PROVE QueueInv(u)'
  <2>1. main'.i # u
    <3>1. CASE SentEvent
      BY <3>1 DEF SentEvent, Idle, Thread
    <3> QED
      BY <1>3, <3>1, QueueInAlone
  <2>2. taskq'[u] = taskq[u]
    BY <1>3
    DEF QueueIn, PutHead, PutTail, Link, MoveTail, ReadLen, StoreLen, SentEvent, Queue
  <2>3. ASSUME NEW i \in 1 .. Len(order[u]) PROVE pNext'[order[u][i]] = pNext[order[u][i]]
    <3>1. \A j \in 1 .. Len(s) : order[u][i] # s[j]
      BY <1>3, EnteringFacts
    <3>2. /\ Len(s) \in Nat
          /\ main.at # "post" => Len(s) >= 1 /\ main.pNode = s[Len(s)]
      BY EnteringFacts
    <3>5. order[u][i] \in Nodes
      <4>1. order[u] \in Seq(Nodes)
        BY DEF Types, QueueTypes
      <4> QED
        BY <4>1
    <3>3. CASE PutHead
      <4>1. pNext' = [pNext EXCEPT ![s[Len(s)]] = None]
        BY <3>2, <3>3 DEF PutHead, MainAt
      <4>2. order[u][i] # s[Len(s)]
        <5>1. Len(s) >= 1
          BY <3>2, <3>3 DEF PutHead, MainAt
        <5>2. Len(s) \in 1 .. Len(s)
          BY <3>2, <5>1
        <5> HIDE DEF s
        <5> QED
          BY <3>1, <5>2
      <4> QED
        BY <3>5, <4>1, <4>2
    <3>4. CASE Link
      <4>1. main.at = "link" /\ QueueInv(t) /\ ~InQueueOut(t)
        BY <3>4, QueueInAlone, EnteringFacts DEF Link, SentEvent, MainAt
      <4>2. Tailed(t) = Len(s) - 1 /\ Tailed(t) >= 1 /\ taskq[t].pTail = s[Tailed(t)]
        BY <3>2, <4>1, FieldsAlone DEF QueueInv, Fields, Registers, Tailed
      <4>3. order[u][i] # taskq[t].pTail
        <5>1. Tailed(t) \in 1 .. Len(s)
          BY <3>2, <4>2
        <5> HIDE DEF s
        <5> QED
          BY <3>1, <4>2, <5>1
      <4> QED
        BY <3>5, <3>4, <4>3 DEF Link, Queue
    <3> QED
      BY <3>3, <3>4 DEF QueueIn, PutTail, MoveTail, ReadLen, StoreLen, SentEvent
  <2>4. QueueInv(u)
    BY DEF Queues
  <2> QED
    BY <1>3, <2>1, <2>2, <2>3, <2>4, QueueFrame
<1> QED
  BY <1>1, <1>2, <1>3, QueueInOwn DEF Queues

(* The queue of a task while main is not in it, or does not matter. *)
LEMMA TakingFacts ==
  ASSUME Types, Queues, NEW t \in Tasks
  PROVE  /\ order[t] \in Seq(Nodes) /\ Len(order[t]) \in Nat
         /\ \A i \in 1 .. Len(order[t]) : order[t][i] \in Nodes /\ order[t][i] # None
         /\ QueueInv(t)
         /\ taskq[t] \in QueueFields /\ taskq \in [Tasks -> QueueFields]
         /\ task \in [Tasks -> TaskStates]
         /\ None \notin Nodes
<1>1. order[t] \in Seq(Nodes) /\ None \notin Nodes
  BY PoolAssumption DEF Types, QueueTypes
<1> QED
  BY <1>1 DEF Queues, Types, QueueTypes, TaskTypes

(* When a task takes a node there is one, besides the one that main may be *)
(* putting in; main is not in the middle of the queue.                     *)
LEMMA TakeFacts ==
  ASSUME Types, Queues, tidy', NEW t \in Tasks, QueueOut(t), Take(t)
  PROVE  LET s == order[t]
             n == Len(s)
         IN  /\ n >= 1
             /\ main.i = t => n >= 2
             /\ taskq[t].pHead = s[1]
             /\ task' = [task EXCEPT ![t] = Thread("advance", s[1], None, pNext[s[1]])]
             /\ order' = [order EXCEPT ![t] = Tail(s)]
             /\ UNCHANGED <<alive, main>>
             /\ ~InQueueIn(t)
<1> DEFINE s == order[t]
           n == Len(s)
<1>1. /\ s \in Seq(Nodes) /\ n \in Nat /\ QueueInv(t) /\ task[t].at = "take"
      /\ \A i \in 1 .. n : s[i] \in Nodes /\ s[i] # None
  BY TakingFacts DEF Take, TaskAt
<1>2. n >= 1 /\ (main.i = t => n >= 2)
  <2>1. event[t] + One(TRUE) + One(main.i = t) = n
    BY <1>1 DEF Queues, Announced
  <2>2. event[t] \in Nat
    BY DEF Types, QueueTypes
  <2> QED
    BY <2>1, <2>2
<1>3. taskq[t].pHead = s[1]
  <2>1. Tailed(t) # 0
    BY <1>1, <1>2 DEF Tailed
  <2> QED
    BY <1>1, <2>1 DEF QueueInv, Fields, HeadHolds, First
<1>4. taskq[t].pHead # None
  BY <1>1, <1>2, <1>3
<1>5. UNCHANGED <<alive, main>> /\ task' = [task EXCEPT ![t] = Thread("advance", s[1], None, pNext[s[1]])]
      /\ order' = [order EXCEPT ![t] = Tail(s)]
  <2>1. Rest(s) = Tail(s)
    BY <1>1, <1>2 DEF Rest
  <2> QED
    BY <1>3, <1>4, <2>1 DEF Take, QueueOut
<1>6. ~InQueueIn(t)
  <2>1. InQueueOut(t)'
    BY <1>5, TakingFacts DEF InQueueOut, Thread
  <2>2. InQueueIn(t)' <=> InQueueIn(t)
    BY <1>5 DEF InQueueIn
  <2> QED
    BY <2>1, <2>2 DEF QueueOut, KeepTidy
<1> QED
  BY <1>2, <1>3, <1>5, <1>6

(* The steps of QueueOut but Take: they leave the order as it is. *)
LEMMA QueueOutOwn ==
  ASSUME Types, Queues, tidy', NEW t \in Tasks, QueueOut(t), ~Take(t)
  PROVE  QueueInv(t)' /\ UNCHANGED order
<1> DEFINE s == order[t]
           n == Len(s)
<1> /\ s \in Seq(Nodes) /\ n \in Nat /\ QueueInv(t)
    /\ \A i \in 1 .. n : s[i] \in Nodes /\ s[i] # None
    /\ taskq[t] \in QueueFields /\ taskq \in [Tasks -> QueueFields]
    /\ task \in [Tasks -> TaskStates]
  BY TakingFacts
<1> UNCHANGED <<main, order, pNext>>
  BY DEF QueueOut, WaitEvent, Advance, TaskReadLen, TaskStoreLen, TestLen, ClearTail
<1>1. /\ Tailed(t)' = Tailed(t) /\ Counted(t)' = Counted(t) /\ First(t)' = First(t)
      /\ Entering(t)' /\ Links(t)'
  BY DEF Tailed, Counted, First, QueueInv, Entering, Links
<1>2. Alone(t)'
  BY DEF QueueOut, KeepTidy, Alone
<1>3. Alone(t)
  BY DEF QueueInv
<1>4. Fields(t)'
  <2> USE DEF TaskAt, TaskGoTo, Enter
  <2>1. CASE WaitEvent(t)
    <3>1. task[t].at = "wait" /\ task'[t].at = "take" /\ UNCHANGED taskq
      BY <2>1 DEF WaitEvent, TaskStates
    <3> QED
      BY <1>1, <3>1
      DEF QueueInv, Fields, HeadHolds, TailHolds, LengthHolds, Registers, InQueueOut
  <2>2. CASE Advance(t)
    <3>1. /\ task[t].at = "advance" /\ task'[t].at = "read" /\ task'[t].pNode = task[t].pNode
          /\ taskq'[t].pHead = First(t) /\ taskq'[t].pTail = taskq[t].pTail
          /\ taskq'[t].queueLen = taskq[t].queueLen
      BY <2>2 DEF Advance, TaskStates, QueueFields, QueueInv, Fields, Registers
    <3>2. ~MainIn(t, {"tail"})
      BY <1>3, <3>1 DEF Alone, InQueueIn, InQueueOut
    <3> QED
      BY <1>1, <3>1, <3>2
      DEF QueueInv, Fields, HeadHolds, TailHolds, LengthHolds, Registers, InQueueOut
  <2>3. CASE TaskReadLen(t)
    <3>1. /\ task[t].at = "read" /\ task'[t].at = "decrease" /\ task'[t].pNode = task[t].pNode
          /\ task'[t].reg = Counted(t) + 1 /\ UNCHANGED taskq
      BY <2>3 DEF TaskReadLen, TaskStates, QueueInv, Fields, LengthHolds
    <3> QED
      BY <1>1, <3>1
      DEF QueueInv, Fields, HeadHolds, TailHolds, LengthHolds, Registers, InQueueOut
  <2>4. CASE TaskStoreLen(t)
    <3>0. task[t].reg = Counted(t) + 1 /\ Counted(t) \in Int
      BY <2>4 DEF TaskStoreLen, QueueInv, Fields, Registers, Counted
    <3>1. /\ task[t].at = "decrease" /\ task'[t].at = "test" /\ task'[t].pNode = task[t].pNode
          /\ taskq'[t].pHead = taskq[t].pHead /\ taskq'[t].pTail = taskq[t].pTail
          /\ taskq'[t].queueLen = Counted(t)
      BY <2>4, <3>0 DEF TaskStoreLen, TaskStates, QueueFields
    <3> QED
      BY <1>1, <3>1
      DEF QueueInv, Fields, HeadHolds, TailHolds, LengthHolds, Registers, InQueueOut
  <2>5. CASE TestLen(t)
    <3>1. /\ task[t].at = "test" /\ task'[t].pNode = task[t].pNode /\ UNCHANGED taskq
          /\ task'[t].at = IF taskq[t].queueLen = 0 THEN "clear" ELSE "handle"
      BY <2>5 DEF TestLen, TaskStates
    <3>2. taskq[t].queueLen = Counted(t) /\ Counted(t) = Tailed(t)
      BY <1>3, <3>1 DEF QueueInv, Fields, LengthHolds, Counted, Tailed, Alone, InQueueIn, InQueueOut
    <3> QED
      BY <1>1, <3>1, <3>2
      DEF QueueInv, Fields, HeadHolds, TailHolds, LengthHolds, Registers, InQueueOut
  <2>6. CASE ClearTail(t)
    <3>1. /\ task[t].at = "clear" /\ task'[t].at = "handle" /\ Tailed(t) = 0
          /\ taskq'[t].pHead = taskq[t].pHead /\ taskq'[t].pTail = None
          /\ taskq'[t].queueLen = taskq[t].queueLen
      BY <2>6 DEF ClearTail, TaskStates, QueueFields, QueueInv, Fields, Registers
    <3> QED
      BY <1>1, <3>1
      DEF QueueInv, Fields, HeadHolds, TailHolds, LengthHolds, Registers, InQueueOut
  <2> QED
    BY <2>1, <2>2, <2>3, <2>4, <2>5, <2>6 DEF QueueOut
<1> QED
  BY <1>1, <1>2, <1>4 DEF QueueInv

LEMMA TakeOwn ==
  ASSUME Types, Queues, tidy', NEW t \in Tasks, QueueOut(t), Take(t)
  PROVE  QueueInv(t)'
<1> DEFINE s == order[t]
           n == Len(s)
           x == s[1]
<1> /\ s \in Seq(Nodes) /\ n \in Nat /\ QueueInv(t)
    /\ \A i \in 1 .. n : s[i] \in Nodes /\ s[i] # None
    /\ task \in [Tasks -> TaskStates] /\ taskq[t] \in QueueFields
  BY TakingFacts
<1> /\ n >= 1 /\ (main.i = t => n >= 2) /\ ~InQueueIn(t)
    /\ UNCHANGED <<main, taskq, pNext>>
    /\ task'[t] = Thread("advance", x, None, pNext[x]) /\ order'[t] = Tail(s)
    /\ task[t].at = "take"
  BY TakeFacts DEF Take, QueueOut, TaskAt, Types, QueueTypes
<1>1. /\ order'[t] \in Seq(Nodes) /\ Len(order'[t]) = n - 1
      /\ \A i \in 1 .. n - 1 : order'[t][i] = s[i + 1]
  OBVIOUS
<1>2. /\ task'[t].at = "advance" /\ task'[t].pNode = x /\ task'[t].reg = pNext[x]
  BY DEF Thread
<1>3. /\ ~MainIn(t, {"tail"}) /\ ~MainIn(t, {"link", "move"}) /\ ~MainIn(t, {"store"})
      /\ ~MainIn(t, {"move"}) /\ ~MainIn(t, {"tail", "link", "move"})
      /\ (MainIn(t, {"head", "tail", "link", "move"})
            <=> MainIn(t, {"head", "tail", "link", "move", "length", "store"}))
  BY DEF InQueueIn
<1>4. Counted(t) = Tailed(t) /\ Tailed(t) \in 1 .. n
  BY <1>3 DEF Counted, Tailed
<1>5. Tailed(t)' = Tailed(t) - 1 /\ Counted(t)' = Tailed(t) - 1
  BY <1>1, <1>3, <1>4 DEF Counted, Tailed
<1>6. /\ taskq[t].pTail = s[Tailed(t)] /\ taskq[t].pHead = x /\ taskq[t].queueLen = Tailed(t)
  BY <1>3, <1>4 DEF QueueInv, Fields, HeadHolds, TailHolds, LengthHolds, First
<1>7. /\ \A k \in 1 .. Tailed(t) - 1 : pNext[s[k]] = s[k + 1]
      /\ pNext[s[Tailed(t)]] = None
  BY <1>3, <1>4 DEF QueueInv, Links
<1>8. First(t)' = pNext[x]
  <2>1. CASE Tailed(t) = 1
    BY <1>5, <1>7, <2>1 DEF First
  <2>2. CASE Tailed(t) # 1
    <3>1. pNext[x] = s[2] /\ order'[t][1] = s[2]
      <4>1. 1 \in 1 .. Tailed(t) - 1 /\ 1 \in 1 .. n - 1
        BY <1>4, <2>2
      <4> QED
        BY <1>1, <1>7, <4>1
    <3> QED
      BY <1>4, <1>5, <2>2, <3>1 DEF First
  <2> QED
    BY <2>1, <2>2
<1>9. TailHolds(t)'
  <2>1. CASE Tailed(t) = 1
    BY <1>2, <1>5, <1>6, <2>1 DEF TailHolds, InQueueOut
  <2>2. CASE Tailed(t) # 1
    <3>1. order'[t][Tailed(t) - 1] = s[Tailed(t)]
      BY <1>1, <1>4, <2>2
    <3> QED
      BY <1>4, <1>5, <1>6, <2>2, <3>1 DEF TailHolds
  <2> QED
    BY <2>1, <2>2
<1>10. HeadHolds(t)' /\ LengthHolds(t)' /\ Registers(t)'
  <2>1. Tailed(t) - 1 + 1 = Tailed(t)
    BY <1>4
  <2> QED
    BY <1>2, <1>3, <1>5, <1>6, <1>8, <2>1 DEF HeadHolds, LengthHolds, Registers
<1>11. Links(t)'
  <2>1. ASSUME NEW k \in 1 .. Tailed(t) - 1 - 1
        PROVE  pNext[order'[t][k]] = order'[t][k + 1]
    <3>1. k \in 1 .. n - 1 /\ k + 1 \in 1 .. n - 1 /\ k + 1 \in 1 .. Tailed(t) - 1
      BY <1>4
    <3> QED
      BY <1>1, <1>7, <3>1
  <2>2. Tailed(t) - 1 >= 1 => pNext[order'[t][Tailed(t) - 1]] = None
    BY <1>1, <1>4, <1>7
  <2> QED
    BY <1>3, <1>5, <2>1, <2>2 DEF Links
<1>12. Entering(t)'
  <2>1. order'[t][n - 1] = s[n] \/ n = 1
    <3>1. n # 1 => n - 1 \in 1 .. n - 1 /\ n - 1 + 1 = n
      <4>1. n \in Nat /\ n >= 1
        OBVIOUS
      <4> HIDE DEF n
      <4> QED
        BY <4>1
    <3> QED
      BY <1>1, <3>1
  <2> QED
    BY <1>1, <2>1 DEF QueueInv, Entering
<1>13. Alone(t)'
  BY DEF QueueOut, KeepTidy, Alone
<1> QED
  BY <1>9, <1>10, <1>11, <1>12, <1>13 DEF QueueInv, Fields

LEMMA TakeApart ==
  ASSUME Types, Queues, tidy', NEW t \in Tasks, QueueOut(t), Take(t)
  PROVE  Apart'
<1> DEFINE s == order[t]
           n == Len(s)
           x == s[1]
<1>1. /\ n >= 1 /\ n \in Nat /\ s \in Seq(Nodes)
      /\ order' = [order EXCEPT ![t] = Tail(s)] /\ order \in [Tasks -> Seq(Nodes)]
      /\ UNCHANGED req
      /\ task'[t].at = "advance" /\ task'[t].pNode = x
      /\ task[t].at = "take"
      /\ \A u \in Tasks \ {t} : task'[u] = task[u]
  <2>1. /\ s \in Seq(Nodes) /\ n \in Nat /\ order \in [Tasks -> Seq(Nodes)]
        /\ task \in [Tasks -> TaskStates]
    BY TakingFacts DEF Types, QueueTypes
  <2>2. /\ n >= 1 /\ order' = [order EXCEPT ![t] = Tail(s)]
        /\ task' = [task EXCEPT ![t] = Thread("advance", x, None, pNext[x])]
    BY TakeFacts
  <2>3. UNCHANGED req /\ task[t].at = "take"
    BY DEF Take, TaskAt, QueueOut
  <2> QED
    BY <2>1, <2>2, <2>3 DEF Thread
<1>2. /\ Len(order'[t]) = n - 1 /\ \A i \in 1 .. n - 1 : order'[t][i] = s[i + 1]
      /\ \A u \in Tasks \ {t} : order'[u] = order[u]
  BY <1>1
<1> DEFINE Shift(u) == IF u = t THEN 1 ELSE 0
<1>3. ASSUME NEW u \in Tasks, NEW i \in 1 .. Len(order'[u])
      PROVE  /\ i + Shift(u) \in 1 .. Len(order[u])
             /\ order'[u][i] = order[u][i + Shift(u)]
  <2>1. CASE u = t
    BY <1>1, <1>2, <2>1
  <2>2. CASE u # t
    <3>1. Len(order[u]) \in Nat /\ i \in Nat
      BY <1>1, <1>2, <2>2
    <3> QED
      BY <1>2, <2>2, <3>1
  <2> QED
    BY <2>1, <2>2
<1> /\ \A u \in Tasks : Shift(u) \in {0, 1} /\ (u # t => Shift(u) = 0) /\ (u = t => Shift(u) = 1)
  OBVIOUS
<1> HIDE DEF Shift
<1> USE DEF Queues, Apart, Holds
<1>4. ASSUME NEW u \in Tasks, NEW v \in Tasks,
             NEW i \in 1 .. Len(order'[u]), NEW j \in 1 .. Len(order'[v]),
             order'[u][i] = order'[v][j]
      PROVE  u = v /\ i = j
  <2>1. /\ order[u][i + Shift(u)] = order[v][j + Shift(v)]
        /\ i + Shift(u) \in 1 .. Len(order[u]) /\ j + Shift(v) \in 1 .. Len(order[v])
    BY <1>3, <1>4
  <2>2. u = v /\ i + Shift(u) = j + Shift(v)
    BY <2>1
  <2>3. i \in Nat /\ j \in Nat
    <3>1. Len(order'[u]) \in Nat /\ Len(order'[v]) \in Nat
      BY <1>1, <1>2
    <3> QED
      OBVIOUS
  <2> QED
    BY <2>2, <2>3
<1>5. ASSUME NEW u \in Tasks, NEW i \in 1 .. Len(order'[u]) PROVE order'[u][i] # x
  <2>1. 1 \in 1 .. n
    BY <1>1
  <2>2. order[u][i + Shift(u)] = s[1] => u = t /\ i + Shift(u) = 1
    BY <1>3, <2>1
  <2> QED
    BY <1>3, <2>2
<1>6. ASSUME NEW u \in Tasks, NEW i \in 1 .. Len(order'[u])
      PROVE  /\ \A v \in Tasks : Holds(v)' => order'[u][i] # task'[v].pNode
             /\ req'[order'[u][i]] # None
  <2>1. order[u][i + Shift(u)] = order'[u][i] /\ i + Shift(u) \in 1 .. Len(order[u])
    BY <1>3
  <2>2. ASSUME NEW v \in Tasks, Holds(v)' PROVE order'[u][i] # task'[v].pNode
    <3>1. CASE v = t
      BY <1>1, <1>5, <3>1
    <3>2. CASE v # t
      BY <1>1, <2>1, <2>2, <3>2
    <3> QED
      BY <3>1, <3>2
  <2>3. req'[order'[u][i]] # None
    BY <1>1, <2>1
  <2> QED
    BY <2>2, <2>3
<1>7. ASSUME NEW u \in Tasks, NEW v \in Tasks, Holds(u)', Holds(v)',
             task'[u].pNode = task'[v].pNode
      PROVE  u = v
  <2>1. 1 \in 1 .. n
    BY <1>1
  <2>2. \A w \in Tasks : Holds(w) => task[w].pNode # x
    BY <2>1
  <2>3. CASE u # t /\ v # t
    BY <1>1, <1>7, <2>3
  <2>4. CASE u = t \/ v = t
    BY <1>1, <1>7, <2>2, <2>4
  <2> QED
    BY <2>3, <2>4
<1>8. ASSUME NEW u \in Tasks, Holds(u)' PROVE req'[task'[u].pNode] # None
  <2>1. 1 \in 1 .. n
    BY <1>1
  <2> QED
    BY <1>1, <1>8, <2>1
<1> QED
  BY <1>4, <1>6, <1>7, <1>8

LEMMA QueueOutQueues ==
  ASSUME Types, Queues, tidy', NEW t \in Tasks, QueueOut(t)
  PROVE  Queues'
<1> /\ task \in [Tasks -> TaskStates] /\ order \in [Tasks -> Seq(Nodes)]
    /\ event \in [Tasks -> Nat] /\ taskq \in [Tasks -> QueueFields]
  BY DEF Types, QueueTypes, TaskTypes
<1> UNCHANGED <<req, main>>
  BY DEF QueueOut
<1>1. ASSUME NEW u \in Tasks, u # t
      PROVE  /\ task'[u] = task[u] /\ order'[u] = order[u] /\ taskq'[u] = taskq[u]
             /\ event'[u] = event[u]
  BY <1>1
  DEF QueueOut, WaitEvent, Take, Advance, TaskReadLen, TaskStoreLen, TestLen, ClearTail,
      TaskGoTo, Enter
<1>2. UNCHANGED pNext
  BY DEF QueueOut, WaitEvent, Take, Advance, TaskReadLen, TaskStoreLen, TestLen, ClearTail
<1>3. ASSUME NEW u \in Tasks PROVE QueueInv(u)'
  <2>1. CASE u # t
    BY <1>1, <1>2, <2>1, QueueFrame DEF Queues
  <2>2. CASE u = t
    BY <2>2, QueueOutOwn, TakeOwn
  <2> QED
    BY <2>1, <2>2
<1>4. Apart'
  <2>1. CASE Take(t)
    BY <2>1, TakeApart
  <2>2. CASE ~Take(t)
    <3>1. UNCHANGED order
      BY <2>2, QueueOutOwn
    <3>2. ASSUME NEW u \in Tasks, Holds(u)'
          PROVE  Holds(u) /\ task'[u].pNode = task[u].pNode
      <4>1. CASE u = t
        BY <2>2, <3>2, <4>1
        DEF QueueOut, WaitEvent, Advance, TaskReadLen, TaskStoreLen, TestLen, ClearTail,
            TaskGoTo, Enter, TaskAt, Holds, TaskStates
      <4>2. CASE u # t
        BY <1>1, <3>2, <4>2 DEF Holds
      <4> QED
        BY <4>1, <4>2
    <3> QED
      <4>1. Apart
        BY DEF Queues
      <4>2. \A u \in Tasks : Holds(u)' => req'[task'[u].pNode] # None
        BY <3>2, <4>1 DEF Apart
      <4>3. \A u, v \in Tasks : \A i \in 1 .. Len(order[u]) :
              Holds(v)' => order[u][i] # task'[v].pNode
        BY <3>2, <4>1 DEF Apart
      <4>4. \A u, v \in Tasks :
              Holds(u)' /\ Holds(v)' /\ task'[u].pNode = task'[v].pNode => u = v
        BY <3>2, <4>1 DEF Apart
      <4> QED
        <5>1. /\ \A u, v \in Tasks : \A i \in 1 .. Len(order[u]), j \in 1 .. Len(order[v]) :
                   order[u][i] = order[v][j] => u = v /\ i = j
              /\ \A u \in Tasks : \A i \in 1 .. Len(order[u]) : req[order[u][i]] # None
          BY <4>1 DEF Apart
        <5>2. order' = order /\ req' = req
          BY <3>1
        <5> QED
          BY <4>2, <4>3, <4>4, <5>1, <5>2 DEF Apart
  <2> QED
    BY <2>1, <2>2
<1>5. Announced'
  <2> SUFFICES ASSUME NEW u \in Tasks
               PROVE  event'[u] + One(task'[u].at = "take") + One(main.i = u) = Len(order'[u])
    BY DEF Announced
  <2>1. event[u] + One(task[u].at = "take") + One(main.i = u) = Len(order[u])
    BY DEF Queues, Announced
  <2>2. CASE u # t
    BY <1>1, <2>1, <2>2
  <2>3. CASE u = t
    <3>0. One(main.i = t) \in Nat /\ event[t] \in Nat /\ Len(order[t]) \in Nat
      OBVIOUS
    <3>1. CASE WaitEvent(t)
      <4>1. /\ event'[t] = event[t] - 1 /\ UNCHANGED order
            /\ task[t].at = "wait" /\ task'[t].at = "take"
        BY <3>1 DEF WaitEvent, TaskAt, TaskGoTo, TaskStates
      <4> QED
        BY <2>1, <2>3, <3>0, <4>1
    <3>2. CASE Take(t)
      <4>1. /\ Len(order'[t]) = Len(order[t]) - 1 /\ task'[t].at = "advance"
            /\ task[t].at = "take" /\ UNCHANGED event
        <5>1. /\ Len(order[t]) >= 1 /\ order' = [order EXCEPT ![t] = Tail(order[t])]
              /\ task'[t].at = "advance"
          BY <3>2, TakeFacts DEF Thread
        <5>2. Len(Tail(order[t])) = Len(order[t]) - 1
          BY <3>0, <5>1
        <5> QED
          BY <3>2, <5>1, <5>2 DEF Take, TaskAt
      <4> QED
        BY <2>1, <2>3, <3>0, <4>1
    <3>3. CASE ~WaitEvent(t) /\ ~Take(t)
      <4>1. /\ UNCHANGED <<event, order>> /\ task[t].at # "take" /\ task'[t].at # "take"
        BY <3>3
        DEF QueueOut, Advance, TaskReadLen, TaskStoreLen, TestLen, ClearTail,
            TaskAt, TaskGoTo, Enter, TaskStates
      <4> QED
        BY <2>1, <2>3, <4>1
    <3> QED
      BY <3>1, <3>2, <3>3
  <2> QED
    BY <2>2, <2>3
<1>6. alive'
  <2>1. CASE Take(t)
    BY <2>1, TakeFacts DEF Queues
  <2>2. CASE ~Take(t)
    BY <2>2
    DEF QueueOut, WaitEvent, Advance, TaskReadLen, TaskStoreLen, TestLen, ClearTail, Queues
  <2> QED
    BY <2>1, <2>2
<1> QED
  BY <1>3, <1>4, <1>5, <1>6 DEF Queues

(* An answer frees the node, which is in nobody else's hands. *)
LEMMA AnswerQueues ==
  ASSUME Types, Queues, NEW t \in Tasks, Handler(t) \/ Stop(t)
  PROVE  Queues'
<1>1. /\ UNCHANGED <<alive, pNext, taskq, order, event, main>>
      /\ task[t].at \in {"handle", "stop"} /\ Holds(t)
      /\ task[t].pNode \in Nodes
      /\ \A u \in Tasks \ {t} : task'[u] = task[u]
      /\ task \in [Tasks -> TaskStates] /\ req \in [Nodes -> Opt([fd : Fds, msg : Messages])]
      /\ order \in [Tasks -> Seq(Nodes)]
  BY DEF Handler, Stop, Finish, TaskGoTo, TaskAt, Holds, queues, Types, QueueTypes, TaskTypes,
         TaskStates
<1>2. \/ /\ task'[t].at = "stop" /\ task'[t].pNode = task[t].pNode /\ UNCHANGED req
      \/ /\ task'[t].at = "wait" /\ req' = [req EXCEPT ![task[t].pNode] = None]
  <2>1. task[t] \in TaskStates
    BY <1>1
  <2> QED
    BY <1>1, <2>1 DEF Handler, Stop, Finish, TaskGoTo, Idle, Thread, TaskStates
<1>3. Apart'
  <2> USE DEF Queues, Apart
  <2>1. ASSUME NEW u \in Tasks, Holds(u)'
        PROVE  Holds(u) /\ task'[u].pNode = task[u].pNode /\ req'[task[u].pNode] # None
    <3>1. CASE u = t
      BY <1>1, <1>2, <2>1, <3>1 DEF Holds
    <3>2. CASE u # t
      <4>1. Holds(u) /\ task'[u].pNode = task[u].pNode
        BY <1>1, <2>1, <3>2 DEF Holds
      <4>2. task[u].pNode # task[t].pNode /\ req[task[u].pNode] # None
        BY <1>1, <3>2, <4>1
      <4>3. task[u].pNode \in Nodes
        BY <1>1, <4>1 DEF Holds, TaskStates
      <4> QED
        BY <1>1, <1>2, <4>1, <4>2, <4>3
    <3> QED
      BY <3>1, <3>2
  <2>2. ASSUME NEW u \in Tasks, NEW i \in 1 .. Len(order[u])
        PROVE  req'[order[u][i]] # None
    BY <1>1, <1>2
  <2> QED
    BY <1>1, <2>1, <2>2
<1>4. Announced'
  BY <1>1, <1>2 DEF Queues, Announced
<1>5. ASSUME NEW u \in Tasks PROVE QueueInv(u)'
  <2>1. CASE u # t
    BY <1>1, <2>1, QueueFrame DEF Queues
  <2>2. CASE u = t
    <3>1. Tailed(t)' = Tailed(t) /\ Counted(t)' = Counted(t) /\ First(t)' = First(t)
      BY <1>1 DEF Tailed, Counted, First
    <3>2. Entering(t)' /\ Links(t)' /\ Alone(t)'
      BY <1>1, <1>2, <3>1 DEF Queues, QueueInv, Entering, Links, Alone, InQueueIn, InQueueOut
    <3>3. Fields(t)'
      BY <1>1, <1>2, <3>1
      DEF Queues, QueueInv, Fields, HeadHolds, TailHolds, LengthHolds, Registers, InQueueOut
    <3> QED
      BY <2>2, <3>2, <3>3 DEF QueueInv
  <2> QED
    BY <2>1, <2>2
<1> QED
  BY <1>1, <1>3, <1>4, <1>5 DEF Queues

(* The queues after any step, as long as no two calls have met. *)
LEMMA QueuesKept ==
  ASSUME Types, Queues, [Next]_vars, tidy'
  PROVE  Queues'
<1>1. ASSUME NEW c \in Clients, Client(c) \/ Accept(c) PROVE Queues'
  BY <1>1, QueuesStay DEF Client, Leave, Send, Accept
<1>2. ASSUME NEW fd \in Fds, HangUp(fd) PROVE Queues'
  BY <1>2, QueuesStay DEF HangUp
<1>3. CASE UNCHANGED vars
  BY <1>3, QueuesStay DEF vars, Server
<1> QED
  BY <1>1, <1>2, <1>3, ReceiveQueues, QueueInQueues, QueueOutQueues, AnswerQueues
  DEF Next, TaskWork, Ended

LEMMA TidyStays == [Next]_vars /\ tidy' => tidy
BY DEF Next, QueueIn, KeepTidy, TaskWork, QueueOut, Handler, Stop, Client, Accept, Receive,
       HangUp, Ended, vars

QueuesTidy == tidy => Queues

LEMMA TidyQueues == Spec => [](Types /\ QueuesTidy)
<1>1. Init => Types /\ QueuesTidy
  BY InitTypes, InitQueues DEF QueuesTidy
<1>2. Types /\ QueuesTidy /\ [Next]_vars => Types' /\ QueuesTidy'
  BY TypesKept, QueuesKept, TidyStays DEF QueuesTidy
<1> QED
  BY <1>1, <1>2, PTL DEF Spec

(* Between QueueIn and QueueOut a queue is the chain of the nodes that     *)
(* were put in and not taken out, in their order (queue.c), for any number *)
(* of tasks and nodes: no request is lost, doubled or overtaken.           *)
THEOREM QueuesAreExact == Spec => []QueuesExact
<1>1. Types /\ QueuesTidy => QueuesExact
  <2> SUFFICES ASSUME Types, Queues, NEW t \in Tasks, Quiet(t) PROVE Linked(t)
    BY DEF QueuesTidy, QueuesExact
  <2> DEFINE s == order[t]
             n == Len(s)
  <2>1. main.i # t /\ ~InQueueOut(t) /\ QueueInv(t) /\ s \in Seq(Nodes) /\ n \in Nat
        /\ taskq[t] \in QueueFields
    BY TakingFacts DEF Quiet
  <2>2. Tailed(t) = n /\ Counted(t) = n
    BY <2>1 DEF Tailed, Counted
  <2>3. /\ taskq[t].pHead = IF n = 0 THEN None ELSE s[1]
        /\ taskq[t].pTail = IF n # 0 THEN s[n] ELSE None
        /\ taskq[t].queueLen = n
    BY <2>1, <2>2, FieldsAlone DEF QueueInv, First
  <2>4. taskq[t] = IF s = <<>> THEN EmptyQueue
                   ELSE [pHead |-> s[1], pTail |-> s[n], queueLen |-> n]
    <3>1. CASE n = 0
      BY <2>1, <2>3, <3>1 DEF EmptyQueue, QueueFields
    <3>2. CASE n # 0
      BY <2>1, <2>3, <3>2 DEF QueueFields
    <3> QED
      BY <3>1, <3>2
  <2>5. \A k \in 1 .. n : pNext[s[k]] = IF k = n THEN None ELSE s[k + 1]
    BY <2>1, <2>2 DEF QueueInv, Links
  <2> QED
    BY <2>4, <2>5 DEF Linked
<1> QED
  BY <1>1, TidyQueues, PTL

(* A task that is woken finds a node and the main thread finds the tail it *)
(* has tested (engine.c, queue.c), for any number of tasks and nodes.      *)
THEOREM NullIsNeverRead == Spec => []NeverNull
<1>1. Types /\ QueuesTidy => NeverNull
  BY DEF QueuesTidy, Queues, NeverNull
<1> QED
  BY <1>1, TidyQueues, PTL

(***************************************************************************)
(* The sockets.                                                            *)
(***************************************************************************)

Stopping(n) == \E t \in Tasks : task[t].at = "stop" /\ task[t].pNode = n

(* A request on fd came from the client that is still at the other end and *)
(* waits for it, unless that one has gone.                                 *)
Asked(fd, msg, where) ==
  /\ peer[fd] \in {msg.from, Gone}
  /\ peer[fd] = msg.from => state[msg.from] = where

Waits(n) == IF Stopping(n) THEN "closing" ELSE "waiting"

(* A client has one descriptor, and none once it has gone. *)
OneFd ==
  /\ \A f, g \in Fds : peer[f] \in Clients /\ peer[f] = peer[g] => f = g
  /\ \A f \in Fds : peer[f] \in Clients => state[peer[f]] # "out"

(* A descriptor has at most one request, waiting or in work. *)
OneRequest ==
  /\ \A f \in Fds, n \in Nodes : inbox[f] # None /\ req[n] # None => req[n].fd # f
  /\ \A m, n \in Nodes : req[m] # None /\ req[n] # None /\ req[m].fd = req[n].fd => m = n

AllAsked ==
  /\ \A f \in Fds : inbox[f] # None => Asked(f, inbox[f], "waiting")
  /\ \A n \in Nodes : req[n] # None => Asked(req[n].fd, req[n].msg, Waits(n))

Sockets == OneFd /\ OneRequest /\ AllAsked /\ ~wronged

LEMMA SocketFacts ==
  ASSUME Types
  PROVE  /\ None \notin Clients /\ Gone \notin Clients /\ Gone # None
         /\ \A f \in Fds : inbox[f] # None => inbox[f].from \in Clients
         /\ \A n \in Nodes : req[n] # None =>
              req[n].fd \in Fds /\ req[n].msg.from \in Clients
BY PoolAssumption DEF Types, SocketTypes, QueueTypes, Opt, Messages

LEMMA InitSockets == Init => Sockets
BY PoolAssumption DEF Init, Sockets, OneFd, OneRequest, AllAsked

(* Steps inside of the queues. *)
LEMMA SocketsStay ==
  ASSUME Sockets, UNCHANGED <<sockets, req>>, \A n \in Nodes : Stopping(n)' <=> Stopping(n)
  PROVE  Sockets'
BY DEF Sockets, OneFd, OneRequest, AllAsked, Asked, Waits, sockets

LEMMA QueueInSockets ==
  ASSUME Sockets, QueueIn
  PROVE  Sockets'
BY SocketsStay DEF QueueIn, Stopping

LEMMA QueueOutSockets ==
  ASSUME Types, Sockets, NEW t \in Tasks, QueueOut(t)
  PROVE  Sockets'
<1>1. task[t].at # "stop" /\ task'[t].at # "stop" /\ \A u \in Tasks \ {t} : task'[u] = task[u]
  BY DEF QueueOut, WaitEvent, Take, Advance, TaskReadLen, TaskStoreLen, TestLen, ClearTail,
         TaskAt, TaskGoTo, Enter, Thread, Types, TaskTypes, TaskStates
<1>2. \A n \in Nodes : Stopping(n)' <=> Stopping(n)
  BY <1>1 DEF Stopping
<1> QED
  BY <1>2, SocketsStay DEF QueueOut

LEMMA SendSockets ==
  ASSUME Types, Sockets, NEW c \in Clients, NEW fd \in Fds, NEW cmd, Send(c, fd, cmd)
  PROVE  Sockets'
<1> USE SocketFacts DEF Sockets
<1>1. /\ state[c] = "ready" /\ peer[fd] = c
      /\ state' = [state EXCEPT ![c] = "waiting"]
      /\ inbox' = [inbox EXCEPT ![fd] = Message(cmd, c)]
      /\ UNCHANGED <<peer, wronged, req, task>>
      /\ state \in [Clients -> {"out", "ready", "waiting", "closing"}]
      /\ inbox \in [Fds -> Opt(Messages)]
      /\ Message(cmd, c).from = c
  BY DEF Send, Server, Types, SocketTypes, Message
<1>2. /\ \A f \in Fds : inbox[f] # None /\ peer[f] = inbox[f].from => inbox[f].from # c
      /\ \A n \in Nodes : req[n] # None /\ peer[req[n].fd] = req[n].msg.from
                            => req[n].msg.from # c
  BY <1>1 DEF AllAsked, Asked, Waits
<1>3. \A n \in Nodes : req[n] # None => req[n].fd # fd
  <2> SUFFICES ASSUME NEW n \in Nodes, req[n] # None, req[n].fd = fd PROVE FALSE
    OBVIOUS
  <2>1. peer[fd] \in {req[n].msg.from, Gone}
    BY DEF AllAsked, Asked
  <2> QED
    BY <1>1, <1>2, <2>1
<1>4. OneFd'
  BY <1>1 DEF OneFd
<1>5. OneRequest'
  BY <1>1, <1>3 DEF OneRequest
<1>6. ASSUME NEW f \in Fds, inbox'[f] # None PROVE Asked(f, inbox[f], "waiting")'
  BY <1>1, <1>2, <1>6 DEF AllAsked, Asked
<1>7. ASSUME NEW n \in Nodes, req[n] # None PROVE Asked(req[n].fd, req[n].msg, Waits(n))'
  BY <1>1, <1>2, <1>7 DEF AllAsked, Asked, Waits, Stopping
<1> QED
  BY <1>1, <1>4, <1>5, <1>6, <1>7 DEF AllAsked

LEMMA LeaveSockets ==
  ASSUME Types, Sockets, NEW c \in Clients, Leave(c)
  PROVE  Sockets'
<1> USE SocketFacts DEF Sockets
<1>1. /\ state' = [state EXCEPT ![c] = "out"]
      /\ peer' = [f \in Fds |-> IF peer[f] = c THEN Gone ELSE peer[f]]
      /\ UNCHANGED <<inbox, wronged, req, task>>
      /\ state \in [Clients -> {"out", "ready", "waiting", "closing"}]
  BY DEF Leave, Server, Types, SocketTypes
<1>2. OneFd'
  BY <1>1 DEF OneFd
<1>3. OneRequest'
  BY <1>1 DEF OneRequest
<1>4. ASSUME NEW f \in Fds, NEW msg, NEW where, msg.from \in Clients, Asked(f, msg, where)
      PROVE  /\ peer'[f] \in {msg.from, Gone}
             /\ peer'[f] = msg.from => state'[msg.from] = where
  BY <1>1, <1>4 DEF Asked
<1>5. AllAsked'
  BY <1>1, <1>4 DEF AllAsked, Asked, Waits, Stopping
<1> QED
  BY <1>1, <1>2, <1>3, <1>5

LEMMA AcceptSockets ==
  ASSUME Types, Sockets, NEW c \in Clients, Accept(c)
  PROVE  Sockets'
<1> USE SocketFacts DEF Sockets
<1> PICK fd \in Fds : peer[fd] = None /\ peer' = [peer EXCEPT ![fd] = c]
  BY DEF Accept
<1>1. /\ state[c] = "out" /\ state' = [state EXCEPT ![c] = "ready"]
      /\ UNCHANGED <<inbox, wronged, req, task>>
      /\ state \in [Clients -> {"out", "ready", "waiting", "closing"}]
      /\ peer \in [Fds -> Clients \cup {Gone, None}]
      /\ \A f \in Fds : peer[f] # c
  BY DEF Accept, Server, Types, SocketTypes, OneFd
<1>2. /\ inbox[fd] = None /\ \A n \in Nodes : req[n] # None => req[n].fd # fd
  BY DEF AllAsked, Asked
<1>3. OneFd'
  BY <1>1 DEF OneFd
<1>4. OneRequest'
  BY <1>1 DEF OneRequest
<1>5. ASSUME NEW f \in Fds, f # fd, NEW msg, NEW where, msg.from \in Clients, Asked(f, msg, where)
      PROVE  /\ peer'[f] \in {msg.from, Gone}
             /\ peer'[f] = msg.from => state'[msg.from] = where
  BY <1>1, <1>5 DEF Asked
<1>6. AllAsked'
  BY <1>1, <1>2, <1>5 DEF AllAsked, Asked, Waits, Stopping
<1> QED
  BY <1>1, <1>3, <1>4, <1>6

LEMMA HangUpSockets ==
  ASSUME Types, Sockets, tidy', NEW fd \in Fds, HangUp(fd)
  PROVE  Sockets'
<1> USE SocketFacts DEF Sockets
<1>1. /\ peer[fd] = Gone /\ peer' = [peer EXCEPT ![fd] = None]
      /\ inbox' = [inbox EXCEPT ![fd] = None]
      /\ UNCHANGED <<state, wronged, req, task>>
      /\ \A n \in Nodes : req[n] # None => req[n].fd # fd
      /\ peer \in [Fds -> Clients \cup {Gone, None}]
      /\ inbox \in [Fds -> Opt(Messages)]
  BY DEF HangUp, ServiceStop, Server, InWork, Types, SocketTypes
<1>2. OneFd'
  BY <1>1 DEF OneFd
<1>3. OneRequest'
  BY <1>1 DEF OneRequest
<1>4. AllAsked'
  BY <1>1 DEF AllAsked, Asked, Waits, Stopping
<1> QED
  BY <1>1, <1>2, <1>3, <1>4

LEMMA ReceiveSockets ==
  ASSUME Types, Queues, Sockets, NEW fd \in Fds, Receive(fd)
  PROVE  Sockets'
<1> USE SocketFacts DEF Sockets
<1> PICK n \in Nodes : req[n] = None /\ req' = [req EXCEPT ![n] = Node(fd, inbox[fd])]
  BY DEF Receive
<1>1. /\ inbox[fd] # None /\ inbox' = [inbox EXCEPT ![fd] = None]
      /\ UNCHANGED <<peer, state, wronged, task>>
      /\ Node(fd, inbox[fd]).fd = fd /\ Node(fd, inbox[fd]).msg = inbox[fd]
      /\ inbox \in [Fds -> Opt(Messages)]
      /\ req \in [Nodes -> Opt([fd : Fds, msg : Messages])]
  BY DEF Receive, Node, Types, SocketTypes, QueueTypes
<1>2. ~Stopping(n) /\ \A m \in Nodes : Waits(m)' = Waits(m)
  BY <1>1 DEF Queues, Apart, Stopping, Holds, Waits
<1>3. OneFd'
  BY <1>1 DEF OneFd
<1>4. OneRequest'
  <2>1. \A m \in Nodes : req[m] # None => req[m].fd # fd
    BY <1>1 DEF OneRequest
  <2> QED
    BY <1>1, <2>1 DEF OneRequest
<1>5. ASSUME NEW f \in Fds, inbox'[f] # None PROVE Asked(f, inbox[f], "waiting")'
  BY <1>1, <1>5 DEF AllAsked, Asked
<1>6. ASSUME NEW m \in Nodes, req'[m] # None PROVE Asked(req[m].fd, req[m].msg, Waits(m))'
  <2>1. CASE m = n
    BY <1>1, <1>2, <2>1 DEF AllAsked, Asked, Waits
  <2>2. CASE m # n
    BY <1>1, <1>2, <1>6, <2>2 DEF AllAsked, Asked
  <2> QED
    BY <2>1, <2>2
<1> QED
  BY <1>1, <1>3, <1>4, <1>5, <1>6 DEF AllAsked

(* What a task holds when it answers or closes the connection. *)
LEMMA AnswerFacts ==
  ASSUME Types, Queues, Sockets, NEW t \in Tasks, Handler(t) \/ Stop(t)
  PROVE  LET n == task[t].pNode
         IN  /\ n \in Nodes /\ req[n] # None /\ Asked(req[n].fd, req[n].msg, Waits(n))
             /\ \A m \in Nodes \ {n} : req[m] # None => req[m].fd # req[n].fd
             /\ inbox[req[n].fd] = None
             /\ Stopping(n) <=> task[t].at = "stop"
<1> task[t].pNode \in Nodes /\ Holds(t)
  BY DEF Handler, Stop, TaskAt, Holds, Types, TaskTypes, TaskStates
<1>1. req[task[t].pNode] # None
  BY DEF Queues, Apart
<1>2. Stopping(task[t].pNode) <=> task[t].at = "stop"
  BY DEF Queues, Apart, Stopping, Holds
<1> QED
  BY <1>1, <1>2, SocketFacts DEF Sockets, AllAsked, OneRequest

(* What a task that answers leaves of the nodes in work. *)
LEMMA NodesAfterAnswer ==
  ASSUME Types, Queues, Sockets, NEW t \in Tasks, Handler(t) \/ Stop(t),
         NEW m \in Nodes, m # task[t].pNode
  PROVE  req'[m] = req[m] /\ Waits(m)' = Waits(m)
<1>1. /\ \A u \in Tasks \ {t} : task'[u] = task[u]
      /\ task'[t].at # "stop" \/ task'[t].pNode = task[t].pNode
      /\ req'[m] = req[m]
  BY DEF Handler, Stop, Finish, TaskGoTo, Idle, Thread, Types, TaskTypes, TaskStates, QueueTypes
<1>2. Stopping(m)' <=> Stopping(m)
  BY <1>1 DEF Stopping
<1> QED
  BY <1>1, <1>2 DEF Waits

LEMMA HandlerSockets ==
  ASSUME Types, Queues, Sockets, NEW t \in Tasks, Handler(t)
  PROVE  Sockets'
<1> PICK n \in Nodes : n = task[t].pNode
  BY AnswerFacts
<1> DEFINE fd == req[n].fd
           msg == req[n].msg
           c == msg.from
<1> USE SocketFacts DEF Sockets
<1>1. /\ n \in Nodes /\ req[n] # None /\ fd \in Fds /\ c \in Clients
      /\ Asked(fd, msg, "waiting")
      /\ \A m \in Nodes \ {n} : req[m] # None => req[m].fd # fd
      /\ inbox[fd] = None
  BY AnswerFacts DEF Handler, TaskAt, Waits
<1>2. /\ SendData(fd, msg)
      /\ \/ msg.cmd = "CLOSE" /\ TaskGoTo(t, "stop") /\ UNCHANGED req
         \/ msg.cmd # "CLOSE" /\ Finish(t)
      /\ task[t].at = "handle"
      /\ state \in [Clients -> {"out", "ready", "waiting", "closing"}]
      /\ task \in [Tasks -> TaskStates]
      /\ req \in [Nodes -> Opt([fd : Fds, msg : Messages])]
  BY <1>1 DEF Handler, Handled, TaskAt, Types, SocketTypes, QueueTypes, TaskTypes
<1> DEFINE after == IF msg.cmd = "CLOSE" THEN "closing" ELSE "ready"
<1>3. /\ UNCHANGED <<peer, inbox, wronged>>
      /\ peer[fd] = c => state' = [state EXCEPT ![c] = after]
      /\ peer[fd] # c => UNCHANGED state
  <2>1. peer[fd] \in {c, Gone} /\ (peer[fd] = c => state[c] = "waiting")
    BY <1>1 DEF Asked
  <2>2. CASE peer[fd] = c
    <3>1. /\ wronged' = (wronged \/ c # c \/ state[c] # "waiting")
          /\ UNCHANGED <<peer, inbox>>
          /\ state' = [state EXCEPT ![c] = after]
      BY <1>1, <1>2, <2>2 DEF SendData
    <3>2. ~wronged'
      BY <2>1, <2>2, <3>1
    <3> QED
      BY <2>2, <3>1, <3>2 DEF Types, Flags
  <2>3. CASE peer[fd] = Gone
    BY <1>1, <1>2, <2>3 DEF SendData, sockets
  <2> QED
    BY <2>1, <2>2, <2>3
<1>4. /\ \A m \in Nodes \ {n} : req'[m] = req[m] /\ Waits(m)' = Waits(m)
      /\ req'[n] # None => req'[n] = req[n] /\ msg.cmd = "CLOSE" /\ Waits(n)' = "closing"
  <2>1. \A m \in Nodes \ {n} : req'[m] = req[m] /\ Waits(m)' = Waits(m)
    BY NodesAfterAnswer
  <2>2. CASE msg.cmd = "CLOSE"
    <3>1. task'[t].at = "stop" /\ task'[t].pNode = n /\ req' = req
      BY <1>2, <2>2 DEF TaskGoTo, TaskStates
    <3> QED
      BY <2>1, <2>2, <3>1 DEF Waits, Stopping
  <2>3. CASE msg.cmd # "CLOSE"
    BY <1>1, <1>2, <2>1, <2>3 DEF Finish
  <2> QED
    BY <2>2, <2>3
<1>5. OneFd'
  BY <1>1, <1>2, <1>3 DEF OneFd
<1>6. OneRequest'
  BY <1>1, <1>3, <1>4 DEF OneRequest
<1>7. ASSUME NEW f \in Fds, f # fd, NEW other, NEW where, other.from \in Clients,
             Asked(f, other, where)
      PROVE  /\ peer'[f] \in {other.from, Gone}
             /\ peer'[f] = other.from => state'[other.from] = where
  BY <1>1, <1>2, <1>3, <1>7 DEF Asked, OneFd
<1>8. ASSUME NEW f \in Fds, inbox'[f] # None PROVE Asked(f, inbox[f], "waiting")'
  <2>1. inbox' = inbox /\ f # fd /\ Asked(f, inbox[f], "waiting")
    BY <1>1, <1>3, <1>8 DEF AllAsked
  <2>2. /\ peer'[f] \in {inbox[f].from, Gone}
        /\ peer'[f] = inbox[f].from => state'[inbox[f].from] = "waiting"
    BY <1>7, <1>8, <2>1
  <2> QED
    BY <2>1, <2>2 DEF Asked
<1>9. ASSUME NEW m \in Nodes, req'[m] # None PROVE Asked(req[m].fd, req[m].msg, Waits(m))'
  <2>1. CASE m = n
    <3>1. req'[m] = req[n] /\ after = "closing" /\ Waits(m)' = "closing"
      BY <1>4, <1>9, <2>1
    <3>2. /\ peer'[fd] \in {c, Gone}
          /\ peer'[fd] = c => state'[c] = "closing"
      BY <1>1, <1>2, <1>3, <3>1 DEF Asked
    <3> QED
      BY <3>1, <3>2 DEF Asked
  <2>2. CASE m # n
    <3>1. req'[m] = req[m] /\ Waits(m)' = Waits(m) /\ req[m].fd # fd
      BY <1>1, <1>4, <1>9, <2>2
    <3>2. Asked(req[m].fd, req[m].msg, Waits(m))
      BY <1>9, <3>1 DEF AllAsked
    <3>3. /\ peer'[req[m].fd] \in {req[m].msg.from, Gone}
          /\ peer'[req[m].fd] = req[m].msg.from => state'[req[m].msg.from] = Waits(m)
      BY <1>7, <1>9, <3>1, <3>2
    <3> QED
      BY <3>1, <3>3 DEF Asked
  <2> QED
    BY <2>1, <2>2
<1> QED
  BY <1>3, <1>5, <1>6, <1>8, <1>9 DEF AllAsked

LEMMA StopSockets ==
  ASSUME Types, Queues, Sockets, NEW t \in Tasks, Stop(t)
  PROVE  Sockets'
<1> PICK n \in Nodes : n = task[t].pNode
  BY AnswerFacts
<1> DEFINE fd == req[n].fd
<1> USE SocketFacts DEF Sockets
<1>1. /\ n \in Nodes /\ req[n] # None /\ fd \in Fds
      /\ Asked(fd, req[n].msg, "closing")
      /\ \A m \in Nodes \ {n} : req[m] # None => req[m].fd # fd
      /\ peer \in [Fds -> Clients \cup {Gone, None}]
      /\ inbox \in [Fds -> Opt(Messages)]
      /\ req \in [Nodes -> Opt([fd : Fds, msg : Messages])]
  BY AnswerFacts DEF Stop, TaskAt, Waits, Types, SocketTypes, QueueTypes
<1>2. /\ peer' = [peer EXCEPT ![fd] = None] /\ inbox' = [inbox EXCEPT ![fd] = None]
      /\ UNCHANGED <<state, wronged>>
  BY <1>1 DEF Stop, Handled, ServiceStop, Asked
<1>3. /\ \A m \in Nodes \ {n} : req'[m] = req[m] /\ Waits(m)' = Waits(m)
      /\ req'[n] = None
  BY <1>1, NodesAfterAnswer DEF Stop, Finish
<1>4. OneFd'
  BY <1>1, <1>2 DEF OneFd
<1>5. OneRequest'
  BY <1>1, <1>2, <1>3 DEF OneRequest
<1>6. ASSUME NEW f \in Fds, inbox'[f] # None PROVE Asked(f, inbox[f], "waiting")'
  BY <1>1, <1>2, <1>6 DEF AllAsked, Asked
<1>7. ASSUME NEW m \in Nodes, req'[m] # None PROVE Asked(req[m].fd, req[m].msg, Waits(m))'
  BY <1>1, <1>2, <1>3, <1>7 DEF AllAsked, Asked
<1> QED
  BY <1>2, <1>4, <1>5, <1>6, <1>7 DEF AllAsked

(* The sockets after any step, as long as the threads have not met. *)
LEMMA SocketsKept ==
  ASSUME Types, Queues, Sockets, [Next]_vars, tidy'
  PROVE  Sockets'
<1>1. ASSUME NEW c \in Clients, Client(c) PROVE Sockets'
  BY <1>1, LeaveSockets, SendSockets DEF Client
<1>2. CASE UNCHANGED vars
  BY <1>2, SocketsStay DEF vars, Stopping
<1> QED
  BY <1>1, <1>2, QueueInSockets, QueueOutSockets, HandlerSockets, StopSockets, AcceptSockets,
     ReceiveSockets, HangUpSockets
  DEF Next, TaskWork, Ended

SocketsTidy == tidy => Sockets

(* A client gets only the reply to its own request and keeps its           *)
(* connection until it closes it, although descriptors are used again and  *)
(* several threads answer (engine.c, queue.c), for any number of clients,  *)
(* tasks, descriptors and nodes.                                           *)
THEOREM RepliesReachTheirAsker == Spec => []RepliesReachAsker
<1>1. Init => SocketsTidy
  BY InitSockets DEF SocketsTidy
<1>2. Types /\ QueuesTidy /\ SocketsTidy /\ [Next]_vars => SocketsTidy'
  BY SocketsKept, TidyStays DEF QueuesTidy, SocketsTidy
<1>3. SocketsTidy => RepliesReachAsker
  BY DEF SocketsTidy, Sockets, RepliesReachAsker
<1> QED
  BY <1>1, <1>2, <1>3, TidyQueues, PTL DEF Spec

=============================================================================
