------------------------------- MODULE Cluster -------------------------------
(***************************************************************************)
(* How servers and clients find one another: the master's list of servers  *)
(* (servlistmgr.c, the control requests of engine.c), the start of a       *)
(* server process (server.c) and CreateDB of the client side               *)
(* (clouddbapi.c), which opens a database on every server of the list.     *)
(*                                                                         *)
(* The master serves one request at a time, so an exchange with it takes   *)
(* effect in one step.  A server registers an address first and binds it   *)
(* afterwards; the order of the processes' steps is arbitrary.  The master *)
(* is started first.  It may be killed and started again, with an empty    *)
(* list: it keeps nothing on disk.                                         *)
(***************************************************************************)
EXTENDS LinkedList, FiniteSets, SequencesExt

CONSTANTS Servers,   \* server processes other than the master
          Clients,   \* client processes
          Hosts,     \* machines that servers run on
          HostOf,    \* HostOf[p]: the machine of p, what GetSelfAddr finds
          Tries,     \* ports a server tries (100 in main)
          Foreign,   \* addresses whose port some other program holds
          Master,    \* the master's address
          EntrySize, \* bytes that an address and its length take in a reply
          MaxReply,  \* bytes for them in a reply of MAX_BUF_LEN bytes
          MaxDataNum, \* entries that PackServer packs (MAX_DATA_NUM)
          MaxKills,  \* bound: processes that are killed, the master included
          MaxMasters \* bound: of these, times the master

Addresses == Hosts \X (0 .. Tries - 1)

ASSUME ClusterAssumption ==
  /\ HostOf \in [Servers -> Hosts]
  /\ Tries \in Nat \ {0}
  /\ EntrySize \in Nat /\ MaxReply \in Nat
  /\ MaxDataNum \in Nat /\ MaxDataNum >= 2
  /\ MaxKills \in Nat
  /\ MaxMasters \in Nat
  /\ Foreign \subseteq Addresses
  /\ {Master, NULL} \cap Addresses = {}
  /\ Master # NULL

(* A process that one master serves registers at most Tries times for each *)
(* of its starts, and starts again only when it was killed: a list node    *)
(* for each of these and for the master is enough.                         *)
ASSUME EnoughCells ==
  /\ IsFiniteSet(Servers)
  /\ Cells = 1 .. 1 + Tries * (Cardinality(Servers) + MaxKills)

VARIABLES
  gServerList,  \* the master's list of list nodes
  addr,         \* addr[i]: the address in the i-th node allocated
  masterUp,     \* whether the master runs
  masters,      \* number of times it was killed
  pc,           \* pc[p]: where the process of server p stands in main
  try,          \* try[p]: the loop counter of main, offset of the port
  kills,        \* number of servers killed
  lingering,    \* ports kept by connections of a killed server (TIME_WAIT)
  cpc,          \* cpc[c]: where the client process of c stands; unanswered:
                \* CreateRemoteDB waits for a program that is no server
  serverList,   \* serverList[c]: the addresses in the list CreateDB got
  node,         \* node[c]: the position in it that CreateDB has reached
  link          \* link[c]: the server CreateRemoteDB waits for, or Master

masterVars == <<gServerList, addr, masterUp, masters>>
serverVars == <<pc, try, kills, lingering>>
clientVars == <<cpc, serverList, node, link>>
vars       == <<masterVars, serverVars, clientVars>>

TypeOK ==
  /\ gServerList \in LinkedLists
  /\ addr \in Seq(Addresses \cup {Master}) /\ Len(addr) \in Cells
  /\ masterUp \in BOOLEAN /\ masters \in 0 .. MaxMasters
  /\ pc \in [Servers -> {"off", "starting", "registered", "failing",
                         "serving", "exhausted"}]
  /\ try \in [Servers -> 0 .. Tries]
  /\ kills \in 0 .. MaxKills
  /\ lingering \subseteq Addresses
  /\ cpc \in [Clients -> {"off", "connecting", "waiting", "unanswered", "open", "failed",
                          "exited"}]
  /\ serverList \in [Clients -> Seq(Addresses \cup {Master, NULL})]
  /\ \A c \in Clients : node[c] \in 0 .. Len(serverList[c])
  /\ link \in [Clients -> Servers \cup {Master, NULL}]

(* CreateCluster: InitServerList puts the master's own address in.  The    *)
(* byte between the address and its terminator is never written; it is     *)
(* taken to be zero, as in memory that malloc() has just got.              *)
InitServerList == AddLNode(CreateLinkedList, 1)

Init ==
  /\ gServerList = InitServerList
  /\ addr = <<Master>>
  /\ masterUp = TRUE
  /\ masters = 0
  /\ pc = [p \in Servers |-> "off"]
  /\ try = [p \in Servers |-> 0]
  /\ kills = 0
  /\ lingering = {}
  /\ cpc = [c \in Clients |-> "off"]
  /\ serverList = [c \in Clients |-> << >>]
  /\ node = [c \in Clients |-> 0]
  /\ link = [c \in Clients |-> NULL]

-----------------------------------------------------------------------------
(* The server list. *)

AddrOf(p) == <<HostOf[p], try[p]>>

(* The addresses on the list, in order. *)
Listed == LET chain == Chain(gServerList) IN [i \in DOMAIN chain |-> addr[chain[i]]]

(* The positions in the list of the nodes with address a.                  *)
Found(l, a) == {i \in DOMAIN Chain(l) : addr[Chain(l)[i]] = a}

(* A mutant: the last of several equal addresses is found.                 *)
SearchServerFuncLast(l, a) ==
  IF Len(Chain(l)) < 2 \/ Found(l, a) = {} THEN NULL ELSE Chain(l)[Max(Found(l, a))]

(* The first node with address a; none is looked for in a list of one.     *)
SearchServerFunc(l, a) ==
  IF Len(Chain(l)) < 2 \/ Found(l, a) = {} THEN NULL ELSE Chain(l)[Min(Found(l, a))]

(* AddServer appends a new node, DelServer unlinks one and keeps its       *)
(* memory.                                                                 *)
AddServer(a) ==
  /\ masterUp
  /\ Len(addr) + 1 \in Cells
  /\ addr' = Append(addr, a)
  /\ gServerList' = AddLNode(gServerList, Len(addr) + 1)
  /\ UNCHANGED <<masterUp, masters>>

DelServer(a) ==
  /\ masterUp
  /\ gServerList' = DelLNode(gServerList, SearchServerFunc(gServerList, a))
  /\ UNCHANGED <<addr, masterUp, masters>>

(* A mutant: the announced number of entries is one short.                 *)
PackServerShort == SubSeq(Listed, 1, gServerList.len - 1)

(* PackServer fails for a list of more than MAX_DATA_NUM entries, which    *)
(* nobody notices: that number is announced, and nothing is filled in.     *)
Packs     == gServerList.len <= MaxDataNum
Announced == IF Packs THEN gServerList.len ELSE MaxDataNum

(* It announces len entries and fills in those it can reach; the others    *)
(* stay empty strings, which are nobody's address.                         *)
PackServer == [i \in 1 .. Announced |->
                 IF Packs /\ i <= Len(Listed) THEN Listed[i] ELSE NULL]

(* What FormatDataN measures: the entries filled in, and of an empty one   *)
(* the length, an int.                                                     *)
EmptySize == 4
ReplySize ==
  LET full == IF Packs THEN Len(Listed) ELSE 0
  IN  EntrySize * full + EmptySize * (Announced - full)

(* RegisterServer(NULL, 0) accepts the reply.  If it does not fit,         *)
(* FormatDataN fails and the request is sent back; a list with a single    *)
(* entry is refused as well.                                               *)
ReplyAccepted == gServerList.len >= 2 /\ ReplySize <= MaxReply

-----------------------------------------------------------------------------
(* The master process. *)

(* It is killed.  The connections of clients that wait for it break.       *)
MasterKill ==
  /\ masterUp
  /\ masters < MaxMasters /\ kills + masters < MaxKills
  /\ masterUp' = FALSE
  /\ masters' = masters + 1
  /\ link' = [c \in Clients |-> IF link[c] = Master THEN NULL ELSE link[c]]
  /\ UNCHANGED <<gServerList, addr, serverVars, cpc, serverList, node>>

(* Another is started, with a new list; the servers that are up do not     *)
(* register again.                                                         *)
MasterStart ==
  /\ ~masterUp
  /\ masterUp' = TRUE
  /\ gServerList' = InitServerList
  /\ addr' = <<Master>>
  /\ UNCHANGED <<masters, serverVars, clientVars>>

-----------------------------------------------------------------------------
(* A server process: the loop of main. *)

(* OpenRemoteService finds no master: InitClient exits. *)
NoMaster(p) ==
  /\ pc[p] \in {"starting", "failing"}
  /\ ~masterUp
  /\ pc' = [pc EXCEPT ![p] = "off"]
  /\ UNCHANGED <<try, kills, lingering, masterVars, clientVars>>

Start(p) ==
  /\ pc[p] = "off"
  /\ pc' = [pc EXCEPT ![p] = "starting"]
  /\ try' = [try EXCEPT ![p] = 0]
  /\ UNCHANGED <<kills, lingering, masterVars, clientVars>>

(* LoadingClusterNodes: the address is on the list before it is bound.     *)
(* What RegisterServer returns has no influence on the server.             *)
Register(p) ==
  /\ pc[p] = "starting"
  /\ AddServer(AddrOf(p))
  /\ pc' = [pc EXCEPT ![p] = "registered"]
  /\ UNCHANGED <<try, kills, lingering, clientVars>>

(* Somebody listens on address a: a server, or another program. *)
Serves(p, a) == pc[p] = "serving" /\ AddrOf(p) = a
Taken(a)     == a \in Foreign \/ \E p \in Servers : Serves(p, a)

(* ServiceEngine: InitializeNetService binds the address and the loop that *)
(* serves requests begins, or bind() fails and ServiceEngine returns -1.   *)
(* SO_REUSEADDR is not set, so a port in TIME_WAIT cannot be bound.        *)
Bind(p) ==
  /\ pc[p] = "registered"
  /\ \/ /\ ~Taken(AddrOf(p)) /\ AddrOf(p) \notin lingering
        /\ pc' = [pc EXCEPT ![p] = "serving"]
     \/ /\ Taken(AddrOf(p)) \/ AddrOf(p) \in lingering
        /\ pc' = [pc EXCEPT ![p] = "failing"]
  /\ UNCHANGED <<try, kills, lingering, masterVars, clientVars>>

(* A mutant: the entry of an address tried in vain is left on the list.    *)
RevokeNot(p) ==
  /\ pc[p] = "failing"
  /\ try' = [try EXCEPT ![p] = @ + 1]
  /\ pc' = [pc EXCEPT ![p] = IF try[p] + 1 = Tries THEN "exhausted" ELSE "starting"]
  /\ UNCHANGED <<kills, lingering, masterVars, clientVars>>

(* Mutants: the loop of main ends a port early, or after the first failure. *)
RevokeOneShort(p) ==
  /\ pc[p] = "failing"
  /\ DelServer(AddrOf(p))
  /\ try' = [try EXCEPT ![p] = @ + 1]
  /\ pc' = [pc EXCEPT ![p] = IF try[p] + 2 = Tries THEN "exhausted" ELSE "starting"]
  /\ UNCHANGED <<kills, lingering, clientVars>>
RevokeGiveUp(p) ==
  /\ pc[p] = "failing"
  /\ DelServer(AddrOf(p))
  /\ try' = [try EXCEPT ![p] = @ + 1]
  /\ pc' = [pc EXCEPT ![p] = "exhausted"]
  /\ UNCHANGED <<kills, lingering, clientVars>>

(* UnLoadingClusterNodes, then the next port; main returns after the last. *)
Revoke(p) ==
  /\ pc[p] = "failing"
  /\ DelServer(AddrOf(p))
  /\ try' = [try EXCEPT ![p] = @ + 1]
  /\ pc' = [pc EXCEPT ![p] = IF try[p] + 1 = Tries THEN "exhausted" ELSE "starting"]
  /\ UNCHANGED <<kills, lingering, clientVars>>

(* The process is killed, wherever it stands; nobody revokes its address,  *)
(* and connections it had may keep its port for a while.                   *)
Kill(p) ==
  /\ pc[p] \notin {"off", "exhausted"}
  /\ kills + masters < MaxKills
  /\ kills' = kills + 1
  /\ pc' = [pc EXCEPT ![p] = "off"]
  /\ link' = [c \in Clients |-> IF link[c] = p THEN NULL ELSE link[c]]
  /\ \/ lingering' = lingering
     \/ pc[p] = "serving" /\ lingering' = lingering \cup {AddrOf(p)}
  /\ UNCHANGED <<try, masterVars, cpc, serverList, node>>

(* The kernel gives the port free. *)
Expire(a) ==
  /\ a \in lingering
  /\ lingering' = lingering \ {a}
  /\ UNCHANGED <<pc, try, kills, masterVars, clientVars>>

-----------------------------------------------------------------------------
(* A client process: CreateDB of clouddbapi.c. *)

(* RegisterServer(NULL, 0), which exits without a master.  Without a list  *)
(* CreateDB returns NULL.  A new process may take the place of one that    *)
(* has exited.                                                             *)
CreateDB(c) ==
  /\ cpc[c] \in {"off", "failed", "exited"}
  /\ \/ /\ masterUp /\ ReplyAccepted
        /\ cpc' = [cpc EXCEPT ![c] = "connecting"]
        /\ serverList' = [serverList EXCEPT ![c] = PackServer]
        /\ node' = [node EXCEPT ![c] = 1]
     \/ /\ ~masterUp \/ ~ReplyAccepted
        /\ cpc' = [cpc EXCEPT ![c] = IF masterUp THEN "failed" ELSE "exited"]
        /\ serverList' = [serverList EXCEPT ![c] = << >>]
        /\ node' = [node EXCEPT ![c] = 0]
  /\ UNCHANGED <<link, masterVars, serverVars>>

Target(c) == serverList[c][node[c]]

(* OpenRemoteService: the connection is made, be it to another program, or *)
(* InitClient exits.                                                       *)
Connect(c) ==
  /\ cpc[c] = "connecting"
  /\ \/ /\ Target(c) = Master
        /\ masterUp
        /\ link' = [link EXCEPT ![c] = Master]
        /\ cpc' = [cpc EXCEPT ![c] = "waiting"]
     \/ \E p \in Servers : /\ Serves(p, Target(c))
                           /\ link' = [link EXCEPT ![c] = p]
                           /\ cpc' = [cpc EXCEPT ![c] = "waiting"]
     \/ /\ Target(c) \in Foreign
        /\ cpc' = [cpc EXCEPT ![c] = "unanswered"]
        /\ UNCHANGED link
     \/ /\ IF Target(c) = Master THEN ~masterUp ELSE ~Taken(Target(c))
        /\ cpc' = [cpc EXCEPT ![c] = "exited"]
        /\ UNCHANGED link
  /\ UNCHANGED <<serverList, node, masterVars, serverVars>>

(* A mutant: the end of the list is not noticed.                           *)
OpenedPastEnd(c) ==
  /\ cpc[c] = "waiting"
  /\ link[c] # NULL
  /\ link' = [link EXCEPT ![c] = NULL]
  /\ node' = [node EXCEPT ![c] = @ + 1]
  /\ cpc' = [cpc EXCEPT ![c] = "connecting"]
  /\ UNCHANGED <<serverList, masterVars, serverVars>>

(* OPEN_RSP: on to the next server, or the database is open on all.        *)
Opened(c) ==
  /\ cpc[c] = "waiting"
  /\ link[c] # NULL
  /\ link' = [link EXCEPT ![c] = NULL]
  /\ \/ /\ node[c] < Len(serverList[c])
        /\ node' = [node EXCEPT ![c] = @ + 1]
        /\ cpc' = [cpc EXCEPT ![c] = "connecting"]
     \/ /\ node[c] = Len(serverList[c])
        /\ cpc' = [cpc EXCEPT ![c] = "open"]
        /\ UNCHANGED node
  /\ UNCHANGED <<serverList, masterVars, serverVars>>

(* A mutant: end-of-file is taken for a reply still to come.               *)
OpenFailsIgnored(c) ==
  /\ cpc[c] = "waiting"
  /\ link[c] = NULL
  /\ UNCHANGED vars

(* The server was killed and the connection is closed: CreateRemoteDB      *)
(* returns -1 and CreateDB NULL.                                           *)
OpenFails(c) ==
  /\ cpc[c] = "waiting"
  /\ link[c] = NULL
  /\ cpc' = [cpc EXCEPT ![c] = "failed"]
  /\ UNCHANGED <<serverList, node, link, masterVars, serverVars>>

(* A mutant: the answer is not compared with OPEN_RSP.                     *)
ForeignAnswersUnchecked(c) ==
  /\ cpc[c] = "unanswered"
  /\ \/ /\ node[c] < Len(serverList[c])
        /\ node' = [node EXCEPT ![c] = @ + 1]
        /\ cpc' = [cpc EXCEPT ![c] = "connecting"]
     \/ /\ node[c] = Len(serverList[c])
        /\ cpc' = [cpc EXCEPT ![c] = "open"]
        /\ UNCHANGED node
  /\ UNCHANGED <<serverList, link, masterVars, serverVars>>

(* The other program answers, with anything but OPEN_RSP, or closes the    *)
(* connection.  It need not: recv() waits without a timeout.               *)
ForeignAnswers(c) ==
  /\ cpc[c] = "unanswered"
  /\ cpc' = [cpc EXCEPT ![c] = "failed"]
  /\ UNCHANGED <<serverList, node, link, masterVars, serverVars>>

(* CloseDB closes the database on each server in turn.                     *)
CloseDB(c) ==
  /\ cpc[c] = "open"
  /\ cpc' = [cpc EXCEPT ![c] = "off"]
  /\ serverList' = [serverList EXCEPT ![c] = << >>]
  /\ node' = [node EXCEPT ![c] = 0]
  /\ UNCHANGED <<link, masterVars, serverVars>>

-----------------------------------------------------------------------------
Run(p) == Register(p) \/ Bind(p) \/ Revoke(p) \/ NoMaster(p)

Proceed(c) == Connect(c) \/ Opened(c) \/ OpenFails(c)

Next ==
  \/ MasterKill \/ MasterStart
  \/ \E p \in Servers : Start(p) \/ Run(p) \/ Kill(p)
  \/ \E c \in Clients : CreateDB(c) \/ Proceed(c) \/ ForeignAnswers(c) \/ CloseDB(c)
  \/ \E a \in Addresses : Expire(a)

Spec == Init /\ [][Next]_vars

(* A process in main or in CreateDB is scheduled and blocks in recv() only *)
(* until the server at the other end answers or is gone.  Nothing makes    *)
(* another program answer.                                                 *)
Fairness == /\ \A p \in Servers : WF_vars(Run(p))
            /\ \A c \in Clients : WF_vars(Proceed(c))

FairSpec == Spec /\ Fairness

-----------------------------------------------------------------------------
(* Properties. *)

(* The length and the tail of the list agree with its nodes after any      *)
(* sequence of registrations and revocations.  DelLNode does not move      *)
(* pTail, so this depends on the last node never being deleted: a server   *)
(* revokes an address only because another one, whose entry comes first,   *)
(* serves there.                                                           *)
ListSound == WellFormed(gServerList)

(* The entries with address a, and the servers that registered it and have *)
(* not revoked it.                                                         *)
Entries(a)    == {i \in DOMAIN Listed : Listed[i] = a}
Registered(a) == {p \in Servers : /\ pc[p] \in {"registered", "failing", "serving"}
                                  /\ AddrOf(p) = a}

(* However the list is damaged, also by a server that revokes an address   *)
(* at a master that has never heard of it: the master's own entry stays    *)
(* first, and the length that PackServer compares with its array, and a    *)
(* reply announces, is never less than the entries that it fills in.       *)
ReplyCoversList ==
  /\ Listed # << >> /\ Head(Listed) = Master
  /\ Len(Listed) <= gServerList.len

(* However the list is damaged, a node's successor was allocated after it: *)
(* PackServer, SearchServerFunc and DelLNode, which walk the list in the   *)
(* master's only thread, come to an end.                                   *)
WalksEnd ==
  \A i \in Cells : gServerList.pNext[i] # NULL => i < gServerList.pNext[i]

(* Entries with the same address cannot be told apart, and yet each server *)
(* keeps one: a revocation never takes the last entry of a server that     *)
(* serves there, and only servers that were killed leave entries behind.   *)
EntriesAccounted ==
  /\ \A a \in Addresses : Cardinality(Registered(a)) <= Cardinality(Entries(a))
  /\ Len(Listed) <= 1 + Cardinality(UNION {Registered(a) : a \in Addresses}) + kills

(* A host with a port for each server and one for each port that lingers   *)
(* has enough, whatever order the servers start, fail, die and start again *)
(* in: main does not run out of ports.                                     *)
NeverExhausted == \A p \in Servers : pc[p] # "exhausted"

(* A client that gets a list misses no server that is up, and numbers the  *)
(* master's records first.                                                 *)
SnapshotComplete ==
  [][\A c \in Clients :
       cpc[c] # "connecting" /\ cpc'[c] = "connecting" /\ node'[c] = 1
         => /\ serverList'[c][1] = Master
            /\ \A p \in Servers : pc[p] = "serving"
                                    => Contains(serverList'[c], AddrOf(p))]_vars

(* The list that the master keeps is the ordered membership: a server      *)
(* joins at the end, and DelServer finds what it is asked to delete.       *)
Members == INSTANCE Membership WITH members <- Listed
ImplementsMembership == Members!MemberSpec

(* Every server that starts comes to serve at some port, unless killed.    *)
StartsUp == \A p \in Servers : pc[p] = "starting" ~> pc[p] \in {"serving", "off"}

(* CreateDB of the client side returns or exits, or comes to wait for a    *)
(* program that is no server; it never waits for ever for a server,        *)
(* whichever of them and of the masters are killed meanwhile.              *)
CreateDBEnds ==
  \A c \in Clients :
    cpc[c] = "connecting" ~> \/ cpc[c] \in {"open", "failed", "exited"}
                             \/ cpc[c] = "unanswered" /\ Target(c) \in Foreign

(* Whatever list a client is handed, damaged, with servers that are gone,  *)
(* with ports of other programs or with empty strings for all that         *)
(* PackServer could not pack: its database opens only on a list of the     *)
(* master and at least one more, each entry of which was a server.         *)
OpenIsWhole ==
  \A c \in Clients : cpc[c] = "open" =>
    /\ Len(serverList[c]) >= 2 /\ Head(serverList[c]) = Master
    /\ \A i \in DOMAIN serverList[c] : serverList[c][i] \notin Foreign \cup {NULL}

(* AddLNode: "Add a LNode to LinkedList" (linkedlist.h).  A server that    *)
(* has registered is on the list.                                          *)
NewServerListed ==
  \A p \in Servers : pc[p] \in {"registered", "serving"} => Contains(Listed, AddrOf(p))
=============================================================================
