------------------------------ MODULE TaskPool ------------------------------
(***************************************************************************)
(* The server of a build with MAX_TASK_NUM > 0: ServiceEngine reads the    *)
(* requests and hands each to a task thread through a queue (queue.c) and  *)
(* a semaphore (event.c).                                                  *)
(*                                                                         *)
(* QueueIn and QueueOut use no lock.  Their steps are the loads and stores *)
(* of the fields that both threads touch, in the order of the statements.  *)
(* Descriptors are used without a lock too: the main thread closes them at *)
(* an end-of-file, a task thread after its reply to a CLOSE.  tidy         *)
(* remembers that neither has done harm yet: no QueueIn met a QueueOut of  *)
(* the same queue, and the main thread closed no descriptor for which a    *)
(* request was still in work.                                              *)
(*                                                                         *)
(* The request itself is answered in one step; DbRegistry has the threads  *)
(* inside of dbapi.c.  The memory of a node that is lost at a hang-up is   *)
(* not counted.                                                            *)
(***************************************************************************)
EXTENDS Integers, Sequences

CONSTANTS Tasks,    \* task threads, each with its queue and event
          Clients,  \* client processes
          Fds,      \* socket descriptors of the server
          Nodes,    \* addresses of task nodes; bounds the requests in work
          MaxLen,   \* bound on queueLen, which a race lets drift
          Gone,     \* the other end of a connection was closed
          None

ASSUME PoolAssumption ==
  /\ Gone # None
  /\ {None, Gone} \cap (Tasks \cup Clients \cup Fds \cup Nodes) = {}
  /\ MaxLen \in Nat

VARIABLES
  alive,  \* whether the process runs
  state,  \* state[c]: where client c stands
  peer,   \* peer[fd]: who is at the other end, None if fd is closed
  inbox,  \* inbox[fd]: the request that waits to be read from fd
  req,    \* req[n]: the request in node n, None if n is free
  pNext,  \* pNext[n]: the link of node n
  taskq,  \* taskq[t]: the queue of task t
  event,  \* event[t]: its semaphore
  main,   \* where the main thread stands, and its local variables
  task,   \* the same of task t
  order,  \* history: order[t], the nodes put into the queue and not yet
          \* taken out, in the order of the calls
  tidy,   \* history: see above
  wronged \* history: a client got a reply that it had not asked for, or
          \* lost its connection without having closed

queues  == <<pNext, taskq, order>>
sockets == <<state, peer, inbox, wronged>>
vars    == <<alive, sockets, req, queues, event, main, task, tidy>>

Message(cmd, c)       == [cmd |-> cmd, from |-> c]
Node(fd, msg)         == [fd |-> fd, msg |-> msg]
Thread(at, n, i, reg) == [at |-> at, pNode |-> n, i |-> i, reg |-> reg]
Idle(at)              == Thread(at, None, None, 0)
EmptyQueue            == [pHead |-> None, pTail |-> None, queueLen |-> 0]

Init ==
  /\ alive = TRUE
  /\ state = [c \in Clients |-> "out"]
  /\ peer = [fd \in Fds |-> None]
  /\ inbox = [fd \in Fds |-> None]
  /\ req = [n \in Nodes |-> None]
  /\ pNext = [n \in Nodes |-> None]
  /\ taskq = [t \in Tasks |-> EmptyQueue]
  /\ event = [t \in Tasks |-> 0]
  /\ main = Idle("start")
  /\ task = [t \in Tasks |-> Idle("wait")]
  /\ order = [t \in Tasks |-> <<>>]
  /\ tidy = TRUE
  /\ wronged = FALSE

-----------------------------------------------------------------------------
(* The clients.  A client sends a request and waits for its reply; after   *)
(* the reply to CLOSE it closes its socket.  It may die.                   *)

Server == <<req, queues, event, main, task>>

Send(c, fd, cmd) ==
  /\ state[c] = "ready" /\ peer[fd] = c
  /\ state' = [state EXCEPT ![c] = "waiting"]
  /\ inbox' = [inbox EXCEPT ![fd] = Message(cmd, c)]
  /\ UNCHANGED <<alive, peer, wronged, Server>>

Leave(c) ==
  /\ state[c] # "out"
  /\ state' = [state EXCEPT ![c] = "out"]
  /\ peer' = [fd \in Fds |-> IF peer[fd] = c THEN Gone ELSE peer[fd]]
  /\ UNCHANGED <<alive, inbox, wronged, Server>>

-----------------------------------------------------------------------------
(* Sockets, as the server uses them. *)

(* What the client at the other end of fd makes of the reply to msg.       *)
SendData(fd, msg) ==
  LET c == peer[fd]
  IN  IF c \in Clients
      THEN /\ state' = [state EXCEPT ![c] = IF msg.cmd = "CLOSE" THEN "closing" ELSE "ready"]
           /\ wronged' = (wronged \/ msg.from # c \/ state[c] # "waiting")
           /\ UNCHANGED <<peer, inbox>>
      ELSE UNCHANGED sockets

ServiceStop(fd) ==
  LET c == peer[fd]
  IN  /\ peer' = [peer EXCEPT ![fd] = None]
      /\ inbox' = [inbox EXCEPT ![fd] = None]
      /\ IF c \in Clients /\ state[c] # "closing"
         THEN state' = [state EXCEPT ![c] = "out"] /\ wronged' = TRUE
         ELSE UNCHANGED <<state, wronged>>

InWork(fd) == \E n \in Nodes : req[n] # None /\ req[n].fd = fd

(* Both threads are inside of the functions on the queue of t.             *)
InQueueIn(t)  == main.i = t /\ main.at \in {"tail", "link", "move", "length", "store"}
InQueueOut(t) == task[t].at \in {"advance", "read", "decrease", "test", "clear"}
KeepTidy      == tidy' = (tidy /\ ~\E t \in Tasks : InQueueIn(t)' /\ InQueueOut(t)')

-----------------------------------------------------------------------------
(* The main thread. *)

MainAt(label) == alive /\ main.at = label

(* ServiceStart accepts; the kernel may give any free descriptor.          *)
Accept(c) ==
  /\ MainAt("start")
  /\ state[c] = "out"
  /\ \E fd \in Fds : peer[fd] = None /\ peer' = [peer EXCEPT ![fd] = c]
  /\ state' = [state EXCEPT ![c] = "ready"]
  /\ UNCHANGED <<alive, inbox, wronged, Server, tidy>>

HangUp(fd) ==
  /\ MainAt("start")
  /\ peer[fd] = Gone /\ inbox[fd] = None
  /\ ServiceStop(fd)
  /\ tidy' = (tidy /\ ~InWork(fd))
  /\ UNCHANGED <<alive, Server>>

(* RecvData, and a random choice of the task.  recv() = -1 is not taken    *)
(* for end-of-file and queues a node without data; HandleOneRequest        *)
(* returns at once from it and answers nothing, and the descriptor is      *)
(* reported again and hung up.  Such nodes are left out.                   *)
Receive(fd) ==
  /\ MainAt("start")
  /\ inbox[fd] # None
  /\ \E n \in Nodes, t \in Tasks :
       /\ req[n] = None
       /\ req' = [req EXCEPT ![n] = Node(fd, inbox[fd])]
       /\ main' = Thread("head", n, t, 0)
       /\ order' = [order EXCEPT ![t] = Append(@, n)]
  /\ inbox' = [inbox EXCEPT ![fd] = None]
  /\ UNCHANGED <<alive, state, peer, wronged, pNext, taskq, event, task, tidy>>

(* QueueIn(&taskq[i], pNode) and SentEvent(&event[i]).                     *)

Queue == taskq[main.i]
GoTo(label) == main' = [main EXCEPT !.at = label]

PutHead ==
  /\ MainAt("head")
  /\ pNext' = [pNext EXCEPT ![main.pNode] = None]
  /\ taskq' = IF Queue.pHead = None THEN [taskq EXCEPT ![main.i].pHead = main.pNode]
                                    ELSE taskq
  /\ GoTo("tail")
  /\ UNCHANGED <<alive, event>>

PutTail ==
  /\ MainAt("tail")
  /\ \/ /\ Queue.pTail = None
        /\ taskq' = [taskq EXCEPT ![main.i].pTail = main.pNode]
        /\ GoTo("length")
     \/ Queue.pTail # None /\ GoTo("link") /\ UNCHANGED taskq
  /\ UNCHANGED <<alive, pNext, event>>

(* A mutant: the old tail is not linked.                                   *)
LinkNot ==
  /\ MainAt("link")
  /\ GoTo("move")
  /\ UNCHANGED <<alive, pNext, taskq, event>>

(* pTail may have become NULL since it was tested.                         *)
Link ==
  /\ MainAt("link")
  /\ \/ /\ Queue.pTail # None
        /\ pNext' = [pNext EXCEPT ![Queue.pTail] = main.pNode]
        /\ GoTo("move")
        /\ UNCHANGED alive
     \/ Queue.pTail = None /\ alive' = FALSE /\ UNCHANGED <<pNext, main>>
  /\ UNCHANGED <<taskq, event>>

MoveTail ==
  /\ MainAt("move")
  /\ taskq' = [taskq EXCEPT ![main.i].pTail = main.pNode]
  /\ GoTo("length")
  /\ UNCHANGED <<alive, pNext, event>>

ReadLen ==
  /\ MainAt("length")
  /\ main' = [main EXCEPT !.at = "store", !.reg = Queue.queueLen]
  /\ UNCHANGED <<alive, pNext, taskq, event>>

(* A mutant: the length is counted twice.                                  *)
StoreLenTwice ==
  /\ MainAt("store")
  /\ main.reg < MaxLen
  /\ taskq' = [taskq EXCEPT ![main.i].queueLen = main.reg + 2]
  /\ GoTo("post")
  /\ UNCHANGED <<alive, pNext, event>>

StoreLen ==
  /\ MainAt("store")
  /\ main.reg < MaxLen
  /\ taskq' = [taskq EXCEPT ![main.i].queueLen = main.reg + 1]
  /\ GoTo("post")
  /\ UNCHANGED <<alive, pNext, event>>

(* A mutant: an event is sent twice.                                       *)
SentEventTwice ==
  /\ MainAt("post")
  /\ event' = [event EXCEPT ![main.i] = @ + 2]
  /\ main' = Idle("start")
  /\ UNCHANGED <<alive, pNext, taskq>>

(* A mutant: a task is woken only for the first node of its queue.         *)
SentEventFirst ==
  /\ MainAt("post")
  /\ event' = [event EXCEPT ![main.i] = IF Queue.queueLen = 1 THEN @ + 1 ELSE @]
  /\ main' = Idle("start")
  /\ UNCHANGED <<alive, pNext, taskq>>

SentEvent ==
  /\ MainAt("post")
  /\ event' = [event EXCEPT ![main.i] = @ + 1]
  /\ main' = Idle("start")
  /\ UNCHANGED <<alive, pNext, taskq>>

QueueIn ==
  /\ PutHead \/ PutTail \/ Link \/ MoveTail \/ ReadLen \/ StoreLen \/ SentEvent
  /\ UNCHANGED <<sockets, req, task, order>>
  /\ KeepTidy

-----------------------------------------------------------------------------
(* A task thread. *)

TaskAt(t, label)     == alive /\ task[t].at = label
TaskGoTo(t, label)   == task' = [task EXCEPT ![t].at = label]
Enter(t, label, reg) == task' = [task EXCEPT ![t].at = label, ![t].reg = reg]

WaitEvent(t) ==
  /\ TaskAt(t, "wait")
  /\ event[t] > 0
  /\ event' = [event EXCEPT ![t] = @ - 1]
  /\ TaskGoTo(t, "take")
  /\ UNCHANGED <<alive, pNext, taskq, order>>

Rest(s) == IF s = <<>> THEN <<>> ELSE Tail(s)

(* QueueOut: *ppNode = pHead, and the link is loaded.  On an empty queue   *)
(* pNode stays NULL and HandleRequests reads through it.                   *)
Take(t) ==
  /\ TaskAt(t, "take")
  /\ LET head == taskq[t].pHead
     IN  \/ /\ head # None
            /\ task' = [task EXCEPT ![t] = Thread("advance", head, None, pNext[head])]
            /\ order' = [order EXCEPT ![t] = Rest(@)]
            /\ UNCHANGED alive
         \/ head = None /\ alive' = FALSE /\ UNCHANGED <<task, order>>
  /\ UNCHANGED <<pNext, taskq, event>>

Advance(t) ==
  /\ TaskAt(t, "advance")
  /\ taskq' = [taskq EXCEPT ![t].pHead = task[t].reg]
  /\ TaskGoTo(t, "read")
  /\ UNCHANGED <<alive, pNext, event, order>>

TaskReadLen(t) ==
  /\ TaskAt(t, "read")
  /\ Enter(t, "decrease", taskq[t].queueLen)
  /\ UNCHANGED <<alive, pNext, taskq, event, order>>

TaskStoreLen(t) ==
  /\ TaskAt(t, "decrease")
  /\ task[t].reg > -MaxLen
  /\ taskq' = [taskq EXCEPT ![t].queueLen = task[t].reg - 1]
  /\ TaskGoTo(t, "test")
  /\ UNCHANGED <<alive, pNext, event, order>>

TestLen(t) ==
  /\ TaskAt(t, "test")
  /\ Enter(t, IF taskq[t].queueLen = 0 THEN "clear" ELSE "handle", 0)
  /\ UNCHANGED <<alive, pNext, taskq, event, order>>

ClearTail(t) ==
  /\ TaskAt(t, "clear")
  /\ taskq' = [taskq EXCEPT ![t].pTail = None]
  /\ TaskGoTo(t, "handle")
  /\ UNCHANGED <<alive, pNext, event, order>>

QueueOut(t) ==
  /\ \/ WaitEvent(t) \/ Take(t) \/ Advance(t) \/ TaskReadLen(t) \/ TaskStoreLen(t)
     \/ TestLen(t) \/ ClearTail(t)
  /\ UNCHANGED <<sockets, req, main>>
  /\ KeepTidy

(* A node that was taken out twice has been freed, and what it holds is    *)
(* whatever it held or was used for since.                                 *)
Handled(t) == req[task[t].pNode]

Finish(t) ==
  /\ req' = [req EXCEPT ![task[t].pNode] = None]
  /\ task' = [task EXCEPT ![t] = Idle("wait")]

(* A mutant: the connection is closed before the reply to CLOSE.           *)
HandlerStopFirst(t) ==
  /\ TaskAt(t, "handle")
  /\ Handled(t) # None
  /\ IF Handled(t).msg.cmd = "CLOSE" THEN ServiceStop(Handled(t).fd)
                                     ELSE SendData(Handled(t).fd, Handled(t).msg)
  /\ Finish(t)
  /\ UNCHANGED <<alive, queues, event, main, tidy>>

Handler(t) ==
  /\ TaskAt(t, "handle")
  /\ \/ /\ Handled(t) # None
        /\ SendData(Handled(t).fd, Handled(t).msg)
        /\ IF Handled(t).msg.cmd = "CLOSE" THEN TaskGoTo(t, "stop") /\ UNCHANGED req
                                           ELSE Finish(t)
     \/ Handled(t) = None /\ Finish(t) /\ UNCHANGED sockets
  /\ UNCHANGED <<alive, queues, event, main, tidy>>

(* HandleOneRequest closes the connection after the reply to CLOSE.        *)
Stop(t) ==
  /\ TaskAt(t, "stop")
  /\ IF Handled(t) # None THEN ServiceStop(Handled(t).fd) ELSE UNCHANGED sockets
  /\ Finish(t)
  /\ UNCHANGED <<alive, queues, event, main, tidy>>

-----------------------------------------------------------------------------
Client(c) ==
  /\ alive
  /\ Leave(c) \/ \E fd \in Fds, cmd \in {"OTHER", "CLOSE"} : Send(c, fd, cmd)
  /\ UNCHANGED tidy

Ended == ~alive /\ UNCHANGED vars

TaskWork(t) == QueueOut(t) \/ Handler(t) \/ Stop(t)

Next ==
  \/ QueueIn
  \/ \E t \in Tasks : TaskWork(t)
  \/ \E c \in Clients : Client(c) \/ Accept(c)
  \/ \E fd \in Fds : Receive(fd) \/ HangUp(fd)
  \/ Ended

(* epoll_wait returns the descriptors that are ready in turn, and the      *)
(* threads are scheduled.                                                  *)
Fairness ==
  /\ \A fd \in Fds : SF_vars(Receive(fd))
  /\ WF_vars(QueueIn)
  /\ \A t \in Tasks : WF_vars(TaskWork(t))

Spec == Init /\ [][Next]_vars
FairSpec == Spec /\ Fairness

-----------------------------------------------------------------------------
(* Properties. *)

Opt(S) == S \cup {None}
Messages == [cmd : {"OTHER", "CLOSE"}, from : Clients]
ASSUME NoneIsNoRequest == None \notin Messages \cup [fd : Fds, msg : Messages]

TypeOK ==
  /\ alive \in BOOLEAN /\ tidy \in BOOLEAN /\ wronged \in BOOLEAN
  /\ state \in [Clients -> {"out", "ready", "waiting", "closing"}]
  /\ peer \in [Fds -> Clients \cup {Gone, None}]
  /\ inbox \in [Fds -> Opt(Messages)]
  /\ req \in [Nodes -> Opt([fd : Fds, msg : Messages])]
  /\ pNext \in [Nodes -> Opt(Nodes)]
  /\ taskq \in [Tasks -> [pHead : Opt(Nodes), pTail : Opt(Nodes), queueLen : -MaxLen .. MaxLen]]
  /\ event \in [Tasks -> Nat]
  /\ main.pNode \in Opt(Nodes) /\ main.i \in Opt(Tasks)
  /\ \A t \in Tasks : task[t].pNode \in Opt(Nodes)

(* Between QueueIn and QueueOut a queue is the chain of the nodes that     *)
(* were put in and not taken out, in their order, with its end and its     *)
(* length, and no node is in a queue twice or in two queues: no request is *)
(* lost, doubled or overtaken.                                             *)
Quiet(t) == main.i # t /\ ~InQueueOut(t)
Linked(t) ==
  LET s == order[t]
  IN  /\ taskq[t] = IF s = <<>> THEN EmptyQueue
                    ELSE [pHead |-> s[1], pTail |-> s[Len(s)], queueLen |-> Len(s)]
      /\ \A k \in 1 .. Len(s) :
           pNext[s[k]] = IF k = Len(s) THEN None ELSE s[k + 1]
QueuesExact ==
  tidy => \A t \in Tasks : Quiet(t) => Linked(t)

(* A task that is woken finds a node, and the main thread finds the tail   *)
(* it has tested: the process does not read through NULL.                  *)
NeverNull == tidy => alive

(* A client gets only the reply to its own request and keeps its           *)
(* connection until it closes it, although descriptors are used again and  *)
(* requests are answered by several threads.                               *)
RepliesReachAsker == tidy => ~wronged

(* Every request is answered, or its client dies waiting.                  *)
Served ==
  \A c \in Clients : state[c] = "waiting" ~> state[c] # "waiting" \/ ~tidy
=============================================================================
