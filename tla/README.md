# Vampire key-value database: TLA+ models and proofs

Vampire (`src/`) is a small distributed key-value database in C. A *master*
server keeps the list of all servers; each server keeps database files (Tokyo
Cabinet hash databases) and serves clients over TCP from a single-threaded
loop; a client library opens a database on every server of the list and shards
the records over them by `key % number of servers`; a console reads the user's
commands.

This directory holds TLA+ models of the server with its clients' connections,
of the cluster, of the sharded database, of the messages and the console, and of
the threads that the server has when it is built with `MAX_TASK_NUM > 0`; their
TLC configurations; and TLAPS proofs about all of them.

## 1. The system

| Component | Files | State | Operations |
|---|---|---|---|
| request loop | `engine.c` | `CDManager` (descriptor -> database handle), `gServerList` | `ServiceEngine`, `HandleOneRequest` (OPEN, CLOSE, GET, SET, DELETE), `HandleControlRequest` (REG, RVK), error replies; with `MAX_TASK_NUM > 0` also task threads |
| database registry | `dbapi.c` | `allOpenedDB` (file name -> handle, reference count), `dbmutex` | `CreateDB`, `CloseDB`, `SetRecord`, `GetRecord`, `DeleteRecord`, the in-memory table (`*MDB`) |
| network layer | `net.c` | listening socket, epoll descriptor | `InitializeNetService`, `ServiceStart`, `ServiceStop`, `OpenRemoteService`, `SendData`, `RecvData` |
| client library, one server | `remotedbapi.c` | a socket | `CreateRemoteDB`, `CloseRemoteDB`, `Set/Get/DeleteRecordRemote` |
| client library, all servers | `clouddbapi.c` | the list of servers got at open, a socket per server | `CreateDB`, `CloseDB`, `Set/Get/DeleteRecord`, `FindNode` |
| server list | `servlistmgr.c` | linked list of addresses | `RegisterServer`, `RevokeServer`, `AddServer`, `DelServer`, `SearchServerFunc`, `PackServer` |
| linked list | `linkedlist.c` | `pHead`, `pTail`, `len`, `pNext` of the nodes | add, delete, search, traverse |
| server process | `server.c` | the port tried | register, bind, revoke and try the next port |
| wire protocol | `protocol.c` | none | `FormatData*`, `ParseData*`, with a limit of 1024 bytes |
| task queue, event | `queue.c`, `event.c` | a linked queue and a semaphore per task thread | used only with `MAX_TASK_NUM > 0` |
| command line | `cmdline.c`, `client.c` | `cmdbuf`, `dbname`, `db` | `GetCmd`, `ExecCmd` (help, open, set, get, del, close, exit) |

**Interactions.** A client process calls `clouddbapi`, which asks the master
for the list (`RegisterServer(NULL, 0)`) and then calls `remotedbapi` for each
server; that sends a request on a socket and blocks for the reply. A server
process registers its address at the master, binds it, and revokes it if the
port is taken. The server's loop calls `dbapi`, which calls Tokyo Cabinet.
There is no shared memory between processes and, in the shipped build
(`MAX_TASK_NUM` is 0, `engine.c:39`), no second thread in the server. With
`MAX_TASK_NUM > 0` the loop only reads requests; it puts each into the queue of a
task thread and posts that task's semaphore, and the tasks call `dbapi` at once.
The console is linked twice: with `dbapi` into `vampire`, which opens the files
itself, and with `clouddbapi` into `vampireclient`.

**What is hard.** Client processes interleave freely with the server loop and
may die at any point; descriptor numbers and handle addresses are reused, while
`CDManager` and `allOpenedDB` still refer to them; the reference counts of the
registry are incremented and decremented by different connections. In the
cluster, an address is listed before it is bound, several servers may have
listed the same address, a process may be killed in between, and clients read
the list meanwhile; the master itself forgets the list when it is restarted. The list
is a hand-written structure with redundant fields. With task threads, the
registry unlocks between its steps, the queues have no lock at all, and both kinds
of thread close descriptors. The console guesses the command from keywords
anywhere in the line and goes on executing when its input has ended.

**What makes each component correct.**
- server: a request reaches the file that its sender opened, through an open
  handle; a file is open exactly while it is registered, and closed with its
  last reference; each call takes effect once; everybody is answered;
- list: the fields agree; each server that is up has an entry; the order, by
  which clients shard, changes only by joining and revoking; a walk over it ends;
- server process: it comes up if there is a free port;
- client: `CreateDB` ends, and the list it works with is complete; what it reports
  as done was done;
- messages: what was formatted is parsed again, within the buffers;
- registry and queues with threads: everything above, and no request is lost,
  doubled, overtaken or answered to somebody else;
- console: the prompt tells which file is open; a `set` or `del` that prints no error has
  done what it says, and one that prints an error nothing, unless a server failed in it.

## 2. Modules

### `KVStore` - what the service promises
An abstract store: a call is made, takes effect atomically on the file its
caller opened, and is answered. No descriptors, handles or counts.

### `Engine` - one server and its clients' connections
| Variable | Code |
|---|---|
| `pc`, `dbname` | where a client process stands in `remotedbapi.c`, and the name it passed |
| `inbox`, `outbox` | bytes in the socket from and to the client: at most one message each, because the library waits for each reply |
| `backlog`, `sock` | connections not yet accepted; open descriptors of the server |
| `CDManager` | the table of `engine.c:59-75`; entries outlive their descriptor |
| `allOpenedDB` | the registry of `dbapi.c`, handle and `counter` |
| `live` | which handle is an open `TCHDB`, and of which file; a freed address can be returned again by `tchdbnew` |
| `records` | contents of the files |

`Connect`, `SendOpen`, `SendUnformatted`, `SendSet`, `SendLookup` (GET and
DELETE), `SendClose`, `ReceiveReply` and `Die` are the client's side.
`SendUnformatted` is `CreateRemoteDB` with a name too long for the buffer: the
failure of `FormatData1` is not looked at and a zeroed buffer is sent, which the
server answers with an error. `Accept` is the first branch of `ServiceStart`.
`HandleOpen` ... `HandleUnknown` are the branches of `HandleOneRequest`, each
with every call it makes up to the reply, in one step, because one thread does
it all. `HangUp` is the branch for end-of-file, which calls `ServiceStop` and
nothing else. `HandleSet`, `HandleGet`, `HandleDelete` and `HandleClose` are
guarded by `Attached(fd) # None`: a NULL or freed handle would bring the server
down. That the guard never blocks a request is the invariant `SessionsAttached`
(and the liveness property `Responsive`, which would fail too).

### `LinkedList` - `linkedlist.c`
The record of `pHead`, `pTail`, `len` and the `pNext` fields, with one operator
per function. A node is its address; `DelServer` never frees one, so nodes are
numbered in the order of their allocation.

### `Membership` - what the list promises
A sequence that the master heads, to which a server joins at the end and from
which the first occurrence of an address that is there is taken.

### `Cluster` - server list, server processes, `CreateDB` of the clients
| Variable | Code |
|---|---|
| `gServerList`, `addr` | the master's list, and the address in each node |
| `pc`, `try` | a server process in the loop of `main`, and its loop counter |
| `lingering` | addresses that cannot be bound yet because connections of a killed server are in TIME_WAIT (`SO_REUSEADDR` is not set) |
| `cpc`, `serverList`, `node`, `link` | a client in `CreateDB` of `clouddbapi.c`: its copy of the list, the position reached, and the server whose reply it waits for; `cpc` is `"unanswered"` while it waits for a program that is no server |

`Register`, `Bind` and `Revoke` are `LoadingClusterNodes`, the bind in
`ServiceEngine` and `UnLoadingClusterNodes`; an exchange with the master is one
step because the master serves one request at a time and the sender waits.
`PackServer` announces `len` entries and fills in those it can reach; of a list with more
than `MaxDataNum` entries it fills in none, and that number of empty ones is sent (`Packs`,
`Announced`). An empty
entry is parsed into an address nobody listens on (the C code leaves the address
bytes uninitialised). `ReplyAccepted` is the test of `RegisterServer`, including
a list too long for the buffer, for which `FormatDataN` fails and the request
itself is sent back; `ReplySize` counts what `FormatDataN` measures, `EntrySize` bytes
for an address with its length and `EmptySize` for an empty entry. `Foreign` is the set of
addresses held by other programs. One of them accepts a client's connection and then
answers, with anything but OPEN_RSP (`ForeignAnswers`), or never does, and the client
stays in `recv()`, which has no timeout (`net.c:256`).
`Kill` ends a server at any point without revoking; its port may linger until
`Expire`. `MasterKill` ends the master, which breaks the connections of clients that
wait for it; `MasterStart` starts another with an empty list (`masterUp`,
`masters`), at which the servers that are up do not register again. Without a
master, `NoMaster` is the exit of a server that wants to register or revoke
(`InitClient`), and a client's `CreateDB` exits likewise.

### `ShardedStore` - the database that the servers are together
| Variable | Code |
|---|---|
| `members`, `up`, `starts` | the master's list (steps of `Membership`), which servers listen, and how often servers were started |
| `refs`, `records` | each server's reference counter and contents of the one file |
| `cpc`, `serverList`, `conn`, `node` | a client, the list it got in `CreateDB`, its connection to each entry, and the entry the current call is at |
| `wire` | the request or reply on that connection, or that `recv()` has come to end-of-file or an error |
| `call`, `result`, `served` | the last data call, what it returned, and (history) whether a server executed it |
| `aborts` | how often a `CreateDB` was given up or a client ended |

It rests on the two abstract specifications that the detailed modules are shown
to implement: the list grows by `Membership`'s `Join`, and a server answers with
`KVStore`'s `After` and `Outcome`. What it adds is `clouddbapi.c` (the home of a
key, the loops of `CreateDB` and `CloseDB`) and what `remotedbapi.c` makes of a
connection that breaks. `Kill` closes a server's connections as the kernel does:
with a reset if a request is still unread, else with end-of-file; the request
being handled may or may not have had its effect. `Send` follows `send()` and
`recv()` on such connections: after end-of-file the next request is sent in vain
and `recv()` returns 0, after a reset `send()` raises SIGPIPE. `Returned` is what
the three data calls make of it. A server uses one port and a file of its own;
the contents of a file survive the end of the process, as writes to a mapped file
do; the disk does not fail.

### `Protocol` - the layout of messages
`FormatData`, `FormatData1`, `FormatData2`, `FormatDataN`, `ParseData` and
`ParseDataN` as operators over sequences of cells. A cell is an integer in network
order, an integer in host order, or a character; what is written with `htonl` and
read without `ntohl` (or the reverse) becomes a number that exceeds every buffer.
A refused format is the empty sequence. `FormatDataN` writes the first length where
the header has its third integer, in host order, but counts both in its size test; it
does not report the size of the message, so the caller sends the whole buffer, with what
was there before behind the message. `ParseDataN` reads the first length from there. The
terminator of a data of exactly `MAX_DATA_LEN` is the first byte of the next row and is
overwritten, so that the string goes on in that row.

### `Console` - the command line and what it calls
| Variable | Code |
|---|---|
| `build`, `servers` | which of the two programs runs, and the list the master keeps |
| `alive`, `cmdbuf`, `eof` | the process, the line last executed, and whether the input has ended |
| `dbname`, `db` | the console's variables of these names |
| `live`, `nodes` | the file open behind each handle, and the list of servers kept in it |
| `records` | contents of the files |
| `shown` | what the last line printed |
| `faults` | in how many calls a server failed |
| `told`, `plain` | history: what each record may be after the lines so far and what they printed, and whether every line so far was typed and taken as meant |

The actions are the branches of `ExecCmd`: `Guide`, `OpenTwice`, `Open`,
`NoDatabase`, `Close`, `Exit`, `Set`, `Get`, `Del`, `Unknown`. `Takes` is the order in
which the branches are tried, with keywords found anywhere in the line
(`KeywordsIn`), so that `set 1 exit` leaves. `GetCmd` is the next line typed, or, as
`fgets` leaves the buffer alone at the end of the input, the last line without its
last character (`Remains`; an `open` or `set` whose argument is cut stays one or becomes
an unknown line). `ValueOf` is the search for the value from the start of the line,
which finds a word that also occurs in the command or the key there (`set 1 e` stores
`et 1 e`). `CheckCmd` falls off its end without a `return`; on the built program what
it leaves in the register is nonzero, so each line is taken to `ExecCmd`. Requests
and replies, and the list of servers, go through the operators of `Protocol`, so that
sizes decide what can be set and what can be got. In at most `MaxFaults` calls of
`vampireclient` a server fails: a SET is answered with SET_RSP though the record was not stored
(`engine.c:283`) or a DELETE reported as done because `recv()` returned -1
(`remotedbapi.c:207`), or either has had its effect and the connection ends before the
reply (`SetFails`, `DelFails`); a message on a connection that has ended before raises
SIGPIPE (`BrokenPipe`, `Killed`). `Garbage` is what `printf` finds
behind the pointer that `GetRecordRemote` makes into its own stack frame. `exit`
returns to the loop with `db` still set; what a call does with the freed handle is
`UseFreed`.

### `DbRegistry` - `CreateDB` and `CloseDB` of `dbapi.c` in several threads
| Variable | Code |
|---|---|
| `created`, `allOpenedDB`, `iter` | the registry, made by the first `CreateDB`, and the one iterator of the table |
| `dbmutex`, `live` | who holds the lock; the file open behind each handle |
| `pc`, `dbName`, `hdb`, `opendb`, `found`, `rounds` | the thread of each connection: its place, its file and handle, the entry copied out of the table, the name got from the iterator, and the bound of the loop |
| `safe` | history: no two calls have met that the lock does not keep apart |

A call is a sequence of steps that end where the lock is taken or released or a shared object
is used without it: `Start`, `NewTable`, `InitMutex`, `Lookup`, `Bump`, `Open`,
`Insert` are `CreateDB`; `Sum`, `IterInit`, `IterNext`, `Check`, `Drop`, `Close` are
`CloseDB`. The lock does not protect everything: `Overlap` names the pairs of
calls that must not meet (the first call of all with any other, two that open the
same new file, two that iterate, one that iterates with one that inserts, a last
close with an open of the same file). The properties hold as long as no such pair
has met, and `Overlap` is as small as it can be: without any one of its clauses TLC
finds one of them violated. These pairs are defects of the code with
`MAX_TASK_NUM > 0`; one thread, as shipped, never has them.

### `TaskPool` - loop, queues, events and task threads
| Variable | Code |
|---|---|
| `state`, `peer`, `inbox` | clients, who is at the other end of each descriptor, and the request that waits there |
| `req`, `pNext` | the request in each task node, and the node's link |
| `taskq`, `event` | `pHead`, `pTail` and `queueLen` of each queue, and the semaphores |
| `main`, `task` | where the main thread and each task stand, with their local variables |
| `order`, `tidy`, `wronged` | history: the nodes put in and not taken out; no `QueueIn` has met a `QueueOut` of the same queue and no descriptor was closed under a request; somebody got what was not meant for them |

`Accept`, `HangUp` and `Receive` are the loop. `QueueIn` with `SentEvent` is split at
each load and store of a shared field (`PutHead`, `PutTail`, `Link`, `MoveTail`,
`ReadLen`, `StoreLen`), and so is `WaitEvent` with `QueueOut` (`Take`, `Advance`,
`TaskReadLen`, `TaskStoreLen`, `TestLen`, `ClearTail`). `Handler` answers the request,
and `Stop` closes the descriptor after a CLOSE. A load through NULL ends the process.
As in `DbRegistry`, `tidy` marks what the code leaves to chance: two threads in one
queue, and the loop closing the descriptor of a dead client whose request is still
in work.

### Instances and proofs
`MCEngine`, `MCCluster`, `MCShardedStore`, `MCConsole`, `MCDbRegistry` and `MCTaskPool`
are the instances for TLC: symmetry sets, placements of servers on hosts, cells,
words with their keywords, constraints. `EngineProofs`, `ProtocolProofs`,
`ConsoleProofs`, `DbRegistryProofs`, `TaskPoolProofs`, `ClusterProofs` and
`ShardedStoreProofs` hold the theorems (section 4); `LinkedListProofs` holds the lemmas
about linked lists that `ClusterProofs` rests on.

Definitions introduced as "a mutant" are plausible bugs (a dropped write-back, an
off-by-one loop) which a property must detect; they are part of no specification.

## 3. What TLC checks

| Run | Instance | Properties |
|---|---|---|
| `engine_safety` | 3 clients, 3 descriptors, 2 files, 2 handles, 1 key, 1 value, 1 death, failing disk | `TypeOK`, `SessionsAttached`, `RegistryExact`, `RefCountsCover`, `ReferencesAccounted` |
| `engine_service` | 2 clients, 2 descriptors, 2 files, 2 handles, 1 key, 2 values, 1 death, fair | `ImplementsKVStore`, `Responsive`, `DeadReaped`, no deadlock |
| `engine_ack` | 2 clients, failing disk, fair | `AckedSetsStored`: violated |
| `cluster_list` | 3 servers on one host, 4 ports, 1 kill, 1 client | `TypeOK`, `ListSound`, `EntriesAccounted`, `NeverExhausted`, `ImplementsMembership`, `SnapshotComplete`, no deadlock |
| `cluster_liveness` | 2 servers, 4 ports of which another program holds the first, 1 kill, which may be the master's, 1 client, fair | `WalksEnd`, `ReplyCoversList`, `OpenIsWhole`, `StartsUp`, `CreateDBEnds`, no deadlock |
| `cluster_lost_server` | 1 server, first port held by another program | `NewServerListed`: violated |
| `sharded_one_store` | master and 1 server, 2 clients, 2 keys, 2 values, files with any contents | `ImplementsOneStore` |
| `sharded_sessions` | master and 2 servers, 3 starts, any kills, 1 client, 2 keys, fair | `TypeOK`, `SessionsAccounted`, `LeaksBounded`, `AckedSetsAndGetsServed`, `CallsEnd` |
| `sharded_delete` | 1 server, 1 client | `AckedDeletesServed`: violated |
| `console` | both programs, 2 files, keys 1 and 12, 5 words, 3 lists of servers, 1 handle, 1 failure of a server | `TypeOK`, `OpenAsPrompted`, `RecordsAsTold`, `ShownAsSet`, `SetIsReadable`, `ListReceived` |
| `registry_threads` | 4 threads, 3 files, 3 handles, counters up to 5 | `TypeOK`, `HandlesServed`, `CountersExact`, `NothingLeftOpen`, no deadlock |
| `task_threads` | 2 tasks, 2 clients, 2 descriptors, 2 nodes, fair | `TypeOK`, `QueuesExact`, `NeverNull`, `RepliesReachAsker`, `Served`, no deadlock |

**Bounds.** Three clients on three descriptors and two files are the smallest
instance in which a file is shared by two sessions while a third connection
reuses the descriptor that a dead client left behind; two handles suffice for one
to be freed and reused for the other file. `MaxDeaths` bounds only deaths with a
database open, each of which leaks a reference for good (unbounded otherwise).
Keys are independent in the code, so one is enough, and two values tell a stale
answer from a new one. Three servers on one host are the fewest for which a
revocation reorders others and for which ports are contested twice. `MaxKills`
bounds the kills, the master's (`MaxMasters`) among them, and so the restarts and
the nodes one master ever allocates (`EnoughCells`): no guard of the model limits
the list. In the code a 1024-byte buffer holds 56 entries of 18 bytes, and `MAX_DATA_NUM`
is 128. `cluster_liveness` uses 54 bytes (3 entries) and 4, so that both limits are
reached, with damaged lists and empty entries among them; `cluster_list` uses 72 bytes, so
that a list of five, with an entry that is about to be revoked or that a kill has left, is
refused.
The number of ports in `cluster_list` is the number of
servers and of ports that can linger: with one less, `NeverExhausted` fails. The
code has 100. One server besides the master is the only size at which all clients
have the same list whenever they open, so `sharded_one_store` states the case in
which the sharding is sound; keys 0 and 1 live on different servers. Three starts of two
servers give lists with an entry for a server that is dead, or two for one that
was started again, and leave a live server behind a dead one for `CloseDB`; key 1
never lives on the master, which is not killed. `MaxAborts` bounds the `CreateDB`s
given up and the clients ended, each of which leaks references for good, at most one for
each entry of the list (`LeaksBounded`). One client
is enough there, because sessions share nothing but the counters; that the
counters are right for any number is proved.

In `console` a buffer has 7 cells, so that of the 5 words some fit and some do not, and of
the records that were in the files before some fit into no reply; the
words contain no command, one, or occur in front of themselves; the key 12 is shortened to 1; of the lists
of servers one is too short and one too long to be sent; `MaxFaults` is 1, because the
property then allows two values for that record and all others stay exact. The console has one handle, so
one address is enough, and it is reused. Four threads on three files let two share
a file while two others open and close; three handles are reused. In `task_threads`
two nodes let one wait in a queue behind another or in the other queue, and be
reused; `MaxCounter` and `MaxLen` are only reached after a race. `Explored` (in
`MCDbRegistry` and `MCTaskPool`) is a state constraint that holds wherever `safe` or
`tidy` does. Beyond, the properties claim nothing, so what it cuts off cannot hide a
violation; `Served`, the one liveness property checked with it, is satisfied as soon
as `tidy` is lost.

`cluster_lost_server` has no clients and really may stop (every server serves or has
run out of ports); it does not check deadlock. Nor do the sharded runs: no client
opens the database any more once `MaxAborts` is passed; that no call gets stuck is
`CallsEnd`. Nor does `console`, whose process may end. All other runs check it; in
`registry_threads` and `task_threads`, where the process may end too, by a stuttering
step (`Ended`), so that threads waiting for each other would be found.

**Fairness.** Weak fairness of `Accept`, `Serve` and `ReceiveReply` in Engine:
epoll reports ready descriptors in turn, the loop never blocks elsewhere, and a
process in `recv()` is woken by its reply. Nothing is assumed of clients that
have no call in flight. In Cluster: weak fairness of a server process that is
inside `main`'s loop (which ends by `NoMaster` when there is no master) and of a
client inside `CreateDB`. Nothing makes another program answer, so `CreateDBEnds` allows a
client to wait for one for ever, and for nothing else. Starting, also of the master, dying, opening
and the release of a lingering port are never forced. In ShardedStore: weak
fairness of a client inside a call, whose `recv()` returns, and of a live server
for each waiting request, because epoll reports connections in turn; no data
call, start or kill is forced. In TaskPool: weak fairness of each thread's own work,
and strong fairness of `Receive` for each descriptor, because `epoll_wait` returns
ready descriptors in turn and the loop comes back to it after each `QueueIn`.

**What the violated runs show.**
1. *SET_RSP without success* (`engine.c:283` against `protocol.h:55`).
2. *Lost servers* (`linkedlist.c:113-121` against `linkedlist.h:54`): `DelLNode`
   leaves `pTail` on a deleted last node. `ListSound` holds as long as no other
   program holds a port, because then the address being revoked has another,
   earlier entry; with such a program the next registration is lost.
3. *Deletes that were not done* (`remotedbapi.c:207` against `dbapi.h:78`): an
   error of `recv()` is returned as success, and the record is still there. SET and GET are safe, as
   `AckedSetsAndGetsServed` shows.

**What else the models follow**, without a run of its own:
- A client exits when a listed server does not listen (`net.c:75`), just before its
  bind or after it was killed.
- When three servers share a host, a revocation may delete the equal entry of
  another server (`servlistmgr.c:199`); entries are then told apart by nothing, and
  only the order changes (`EntriesAccounted`). After a restart of the master it may be
  the last entry of a server that serves, and the list is then damaged as in 2;
  `WalksEnd` and `ReplyCoversList` are what remains.
- No record moves when the list grows, and clients keep the list they got: a record
  set through one list is not found through another (`clouddbapi.c:114`).
  `sharded_one_store` states the case in which that does not happen.
- A reply with fewer than two entries is an error (`servlistmgr.c:76`), so no client
  opens a database while the master is alone; with more entries than the buffer holds no
  client opens one either (`engine.c:347`). With more than `MAX_DATA_NUM` entries
  `PackServer` fails, which is ignored (`servlistmgr.c:209`, `engine.c:344`), and clients accept a list of
  empty entries, whose addresses nobody wrote. Killed servers leave their entries, so this
  needs no 128 servers; `SnapshotsComplete` (section 4) says how many servers and kills are safe.
- End-of-file removes neither the entry of `CDManager` nor its reference
  (`engine.c:112-117`), so the file stays open for good; `SessionsAttached` and
  `RefCountsCover` show that the leaked reference is exactly what keeps the stale
  entry from leading to a freed handle.
- The second call on the connection of a killed server ends the client with SIGPIPE
  (`net.c:237`). A `CreateDB` that fails at one server leaves its sessions on the
  servers before it (`clouddbapi.c:66`), which `SessionsAccounted` bounds.
- In the console: an open that failed leaves a name without a handle, which no line
  mends (`StuckForGood`, section 4); `exit` leaves a handle to a closed database; words that
  are taken for commands; the last line repeated at the end of the input; values
  printed from dead memory; a record that was written with `vampire` and is too long for the
  reply (`SetIsReadable` shows that `vampireclient` itself never writes one).

## 4. What is proved

All theorems hold for any number of clients, descriptors, files, handles, keys,
values, servers, ports, kills, threads and task nodes. They assume that the sets that are counted
are finite and that `None` is none of the values it stands beside (the ASSUMEs of the
modules; TLC evaluates them in every run), and what the table says.

| Theorem | Statement |
|---|---|
| `EngineProofs!TypeCorrect` | `Spec => []TypeOK` |
| `EngineProofs!CallsOneAtATime` | `Spec => []OneCallAtATime` (no run) |
| `EngineProofs!SessionsSafe` | `Spec => [](SessionsAttached /\ RegistryExact /\ RefCountsCover)` |
| `EngineProofs!RegistryIsExact`, `RefCountsAreCovered` | the last two of these alone |
| `EngineProofs!ReferencesAreAccounted` | `Spec => []ReferencesAccounted` |
| `EngineProofs!Refinement` | `ASSUME ~DiskMayFail PROVE Spec => ImplementsKVStore` |
| `ClusterProofs!WalksTerminate` | `Spec => []WalksEnd` |
| `ClusterProofs!ClusterTypes` | `Spec => []TypeOK` |
| `ClusterProofs!RepliesCoverTheList` | `Spec => []ReplyCoversList` |
| `ClusterProofs!OpensWhole` | `Spec => []OpenIsWhole` |
| `ClusterProofs!ListStaysSound` | `ASSUME Foreign = {} PROVE Spec => [](masters = 0 => ListSound)` |
| `ClusterProofs!EntriesStayAccounted` | `ASSUME Foreign = {} PROVE Spec => [](masters = 0 => EntriesAccounted)` |
| `ClusterProofs!SnapshotsComplete` | `ASSUME Foreign = {}, MaxMasters = 0, 1 + Cardinality(Servers) + MaxKills <= MaxDataNum PROVE Spec => SnapshotComplete` |
| `ClusterProofs!MasterImplementsMembership` | `ASSUME Foreign = {}, MaxMasters = 0 PROVE Spec => ImplementsMembership` |
| `ClusterProofs!PortsNeverRunOut` | `ASSUME Tries >= Cardinality(Servers) + MaxKills + Cardinality(Foreign) PROVE Spec => []NeverExhausted` |
| `ShardedStoreProofs!TypeCorrect` | `Spec => []TypeOK` |
| `ShardedStoreProofs!SessionsAreAccounted` | `Spec => []SessionsAccounted` |
| `ShardedStoreProofs!AckedIsServed` | `Spec => []AckedSetsAndGetsServed` |
| `ShardedStoreProofs!ShardsAreOneStore` | `ASSUME NEW s, Servers = {s}, ~MayKill PROVE Spec => ImplementsOneStore` |
| `DbRegistryProofs!TypeCorrect` | `Spec => []TypeOK` |
| `DbRegistryProofs!HandlesAreServed` | `Spec => []HandlesServed` |
| `DbRegistryProofs!CountersAreExact` | `Spec => []CountersExact` |
| `DbRegistryProofs!NothingIsLeftOpen` | `Spec => []NothingLeftOpen` |
| `TaskPoolProofs!TypeCorrect` | `Spec => []TypeOK` |
| `TaskPoolProofs!QueuesAreExact` | `Spec => []QueuesExact` |
| `TaskPoolProofs!NullIsNeverRead` | `Spec => []NeverNull` |
| `TaskPoolProofs!RepliesReachTheirAsker` | `Spec => []RepliesReachAsker` |
| `ProtocolProofs!FormatsInBounds` | no Format function writes more than `size`, and `FormatData2` refuses exactly what does not fit |
| `ProtocolProofs!RoundTrip2` | `ParseData` returns what `FormatData2` wrote, into any buffers that hold it |
| `ProtocolProofs!RoundTripN` | what `FormatDataN` does not refuse fills its buffer exactly, and `ParseDataN` returns it, whatever the buffer held before, for up to `MaxDataNum` data, each shorter than `MaxDataLen` |
| `ConsoleProofs!TypeCorrect` | `Spec => []TypeOK` |
| `ConsoleProofs!PromptIsTrue`, `StuckStays` | `Spec => []OpenAsPrompted`, `Spec => StuckForGood` (no run) |
| `ConsoleProofs!SetsAreReadable` | `Spec => []SetIsReadable` |
| `ConsoleProofs!RecordsStayAsTold`, `GetsShowSets` | `Spec => []RecordsAsTold`, `Spec => []ShownAsSet` |
| `ConsoleProofs!ListsArriveWhole` | `Spec => []ListReceived` |

**Engine.** `SessionsAttached` is not inductive. A client in session
stays attached to an open handle only because no other client's CLOSE brings
the count of its file to zero; that is `RefCountsCover`: every descriptor
attached to a file, stale entries included, is paid for by a reference. Closing
the right file relies on `RegistryExact`, which ties each handle to one file and
back. And the count of a file drops with the entry of the descriptor that held
it only if a client sends no second OPEN and nothing after CLOSE:
`OneCallAtATime`, which is inductive given `TypeOK`. So the proof goes: types;
the discipline of the connections; then the conjunction of the three session
invariants (`SessionInv`), with one lemma per kind of step. `CreateDBEffect` and
`CloseDBEffect` reduce the two registry operations to single updates under
`RegistryExact`; opening adds at most one descriptor and exactly one reference,
closing removes both. `ReferencesAccounted` is a count of its own: each step
changes the set of users, the requests for OPEN and the counter together. The
refinement maps a request in flight to an abstract call on the file its sender
opened; `SessionsAttached` says that this is the file the server uses, and every
other step is a stutter.

**Lists of any length.** The list is what a recursive function collects along the
links (`Chain`), a message of several data what another one writes and a third reads.
The provers have no induction scheme over such data, but they have the least element of
a set of numbers: a claim about all positions is proved by assuming a set of positions
where it fails and looking at the least (`Least`, `Greatest` in `LinkedListProofs`;
`LeastNumber`, `FirstWithout` in `ProtocolProofs`). `Path` then describes a list without
recursion, as the sequence of nodes that the links connect; `Chain` is the only path
from `pHead` (`ChainPath`, `PathUnique`), and appending or unlinking a node changes the
path in one place (`AddedChain`, `DeletedChain`).

**Cluster.** That every walk ends needs no sound list: `AddLNode` links only the
node just allocated, which is younger than any other, and `DelLNode` replaces a link by
one that leads further; so each link leads to a younger node (`ListTypes`), even in
the lists that a wrong revocation has damaged. Ports are a count: each port at which
a server's bind failed was held by another server, by a port that lingers, or by
another program. `PortsCounted` says that the failures of a server and the lingering
ports still ahead of it are together at most the servers that serve at the ports it has
tried, the foreign ones of these ports, and the kills: a serving server stays at its port
until it is killed. `LingeringCounted` bounds the lingering ports by the kills.

What a list says even after a wrong revocation is `EnteredList`: the master's node is
first, a walk never passes `pTail` and visits at most `len` nodes. This is inductive
without any hypothesis, since `DelLNode` counts down exactly when it unlinks, and gives
`ReplyCoversList`. That `len` and `pTail` are exact (`Exact`) is not: unlinking the last
node leaves `pTail` behind. It stays true because the node that is unlinked is never the
last: `SearchServerFunc` finds the first entry of an address, and an address that is
revoked has two. The second is the counting invariant `Accounts`: at each address there
are at least as many entries as registered servers, and one more where the port of a
killed server lingers or where, with nobody serving there, a server is about to revoke it:
then whoever held the port has left an entry (`Abandoned`). A port that another program holds was never registered by
it, and a new master starts without the entries of those who serve; in both cases the
list is damaged (`cluster_lost_server`), so both are excluded, by `Foreign = {}` and
`masters = 0` (no master was killed so far). `MaxMasters = 0` says the latter of all steps, as an
action property needs. `SnapshotsComplete` adds that `MAX_DATA_NUM` is enough for the servers and
the kills, which `Accounts` compares with the length of the list. `ImplementsMembership`
follows step by step: with `Exact`, an appended node is the last of the path and the
unlinked one the first with its address.

**ShardedStore.** `CallInv` follows the call in flight: its request waits at the server of
its key's home, or the connection is broken, or the server has executed it and the
reply is the command's own; the callers' test of the reply then gives `AckedIsServed`. `SessionInv`
places each client in a stage (`Stage`): which servers of its list it has a session
with, and at which it waits for OPEN_RSP or CLOSE_RSP. Then the counter of a server is
at least the number of sessions there, and exactly that number as long as no
`CreateDB` was given up and no client has ended (`Counted`). A client's step changes its own stage, one connection and one counter;
the lemma `ClientStep` lifts that to all clients, so each action is proved
for the client alone.

That the servers are one store (`ShardsAreOneStore`) holds for any clients, keys and
values, if there is one server besides the master and nobody is killed. Otherwise it is
not true of this code: with two servers a client may open the database with a list of two
and another with a list of three, and they look for one record in different places; and a
call whose connection breaks may or may not have taken effect. `LoneInv` says that
every list a client got is the whole list (`Pair`), because `CreateDB` refuses one
without servers; that no connection is broken; and that a data request waits at the home
of its key. `Handle` is then `TakeEffect` on the one place that holds the record, `Return`
always finds an answer to collect, and opening, closing and starting are not seen.

**DbRegistry.** `RegistryInv` has three layers: types; as long as `safe`, the calls that
must not meet are apart (`Apart`); and, while the process is alive too, `Sound`: who
holds the lock and where (`Locked`), that handles in use are open on their files
(`Held`), that a used file is recorded under its users' handle and others are not
(`Recorded`, `Unrecorded`), that counters count users (`Counted`), that the copy made under the
lock is still the entry (`Copied`), that the last user alone closes (`Closing`),
that a thread which searches will find its entry in the rounds and names it has left
(`Searching`), and that every open handle has an owner (`Owned`). Each clause of `Overlap` is used in the
step it makes sound.

**TaskPool.** Types hold whatever meets. While `tidy`, `Queues` holds at every load and
store: a node in work is at one position of one queue or in the hands of one task
(`Apart`); the count of a semaphore, with a task on its way to `QueueOut` and the node
that is being put in, is the length of the queue (`Announced`), so a task that is woken
finds a node; and `QueueInv` says for each step of `QueueIn` and of `QueueOut` what
`pHead`, `pTail`, `queueLen` and the links hold, in terms of how much of the queue
`pTail` and `queueLen` already take in (`Tailed`, `Counted`). `KeepTidy` leaves at most one of
the two inside of a queue. `Sockets` then follows the requests: a client has one
descriptor, a descriptor has one request, waiting or in work, and whoever sent it is
still at the other end and waits for the reply, or has gone (`AllAsked`). A task that
answers holds its node alone (`Apart`), so the reply goes to the one who asked and a
CLOSE ends no other connection.

**Protocol and Console.** `RoundTrip2` computes the three offsets of a message of two
data. `SetsAreReadable` is that lemma with the fact that request and reply are
formatted alike; `RecordsStayAsTold` uses it for what arrives at the server: each set or
del either did what it says or nothing (`OutcomeAsTold`), and only a call in which a server
failed leaves open which. It needs `PromptIsTrue` (the file that is written is the file of the prompt), which is inductive
with the two exceptional states named in it. `RoundTripN` describes a message of several
data by its parts and where each begins (`Filled`, `Place`) before it says what the
reader's loop does with it (`Lies`, `ManyReadBack`); that each part starts where the one
before it ended is what both loops agree on, and that the first length stands in the
place of the header's third integer. `ListsArriveWhole` uses it for the list of servers.
It rests on `ServerListsAssumption`: `PackServer` fails for more than `MAX_DATA_NUM`
servers, and an address with a port is shorter than `MAX_DATA_LEN`. For a data of exactly that
length the claim would be false: `ParseDataN` accepts it and its string runs into the next
row.

**Only model-checked.** Liveness (`Responsive`, `DeadReaped`, `StartsUp`,
`CreateDBEnds`, `CallsEnd`, `Served`), which the prover cannot do, the violated
properties, and `LeaksBounded`. Every other invariant, action property and refinement that a passing run checks is
proved, the refinements and the properties of the list under the hypotheses in the table.

## 5. What is not modelled

- Short reads and messages joined by TCP: a request and its reply are at most
  1024 bytes and a connection carries one at a time, so a message is one `recv`.
- Failing `accept` and `epoll_wait`; disk errors on reading; in `Engine`, the
  `exit(-1)` of the server when `tchdbopen` fails (it is in `DbRegistry`). What
  clients see when a server ends is in `ShardedStore`.
- Two server processes in one directory, which write the same file without a lock
  (`HDBONOLCK`, `dbapi.c:77`).
- With task threads: control requests in two threads, which run `AddServer`,
  `DelServer` and `PackServer` on one list without a lock (`engine.c:342`); `TaskPool`
  answers a request in one step. Its memory is sequentially consistent; a weaker one
  changes only what happens after `tidy` is lost, about which nothing is claimed.
- The terminator that `GetRecord` writes behind a record of exactly the size of the
  buffer (`dbapi.c:186`), and the node leaked at each end-of-file (`engine.c:116`):
  memory is not counted.
- Some bytes that C writes or leaves out at the edge of a buffer: the terminator of a data
  of `MAX_DATA_LEN` bytes in the last row of `MAX_DATA_NUM` (`protocol.c:238`), the byte in
  front of `cmdbuf` that `GetCmd` cuts from an empty line (`cmdline.c:55`), and the byte
  that `InitServerList` leaves unwritten between the master's address and its terminator
  (`servlistmgr.c:41`), which is taken to be zero.
- In `Engine`, the reply to GET that cannot be formatted (`engine.c:264`): no record that
  came through SET is that long (`SetIsReadable`); for those that are, see `Console`.
- In `TaskPool`, `recv()` returning -1, which queues a node with an empty request: it is
  answered by an error on a connection that nobody reads from.
- `QueueDelete`, `EventShut` and `DeleteLinkedList`, which the program never
  reaches; the test programs; Tokyo Cabinet.

## 6. Plan

Done: every component in the table of section 1 has a model, every model has proofs, and
every safety property of a passing run but `LeaksBounded` is a theorem. Left, in order of
importance:

1. `LeaksBounded` for any number of servers and clients: with `Stage`, a client holds at
   most one reference for each entry of its list, which is a prefix of the master's.
2. `DbRegistry` as an implementation of `Engine`'s atomic `CreateDB` and `CloseDB`:
   with `safe`, each call takes effect at its `Bump`, `Insert` or `Drop`.
3. `TaskPool` composed with `Cluster`'s control requests in two threads.
