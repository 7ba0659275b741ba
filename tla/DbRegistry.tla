----------------------------- MODULE DbRegistry ----------------------------
(***************************************************************************)
(* The registry of open databases (dbapi.c) when several threads call      *)
(* CreateDB and CloseDB, as the task threads of engine.c do in a build     *)
(* with MAX_TASK_NUM > 0.  A step ends where another thread may notice:    *)
(* at a lock, at an unlock and at each access to shared memory outside     *)
(* the lock.                                                               *)
(*                                                                         *)
(* The lock covers the lookup in CreateDB and the comparison in CloseDB.   *)
(* It does not cover the creation of the table and of the lock itself, the *)
(* insertion of a database that has just been opened, the iterator (the    *)
(* table has only one) and tchdbclose.  Overlap says which calls must not  *)
(* meet for that reason; safe remembers whether any did.                   *)
(*                                                                         *)
(* Tokyo Cabinet is external: its tables are safe to call from threads,    *)
(* deletion takes a name out of the iteration, an insertion may or may not *)
(* be iterated, and the address of a database that was closed may be that  *)
(* of the next one.                                                        *)
(***************************************************************************)
EXTENDS Integers, FiniteSets

CONSTANTS Callers,     \* connections, each served by one thread at a time
          Names,       \* database files
          Handles,     \* addresses of TCHDB objects
          None,        \* NULL
          MaxCounter   \* bound on the counter of an entry

ASSUME RegistryAssumption ==
  /\ IsFiniteSet(Callers) /\ IsFiniteSet(Names)
  /\ None \notin Callers \cup Names \cup Handles
  /\ MaxCounter \in Nat \ {0}

VARIABLES
  alive,        \* whether the process runs
  created,      \* whether allOpenedDB has been created
  allOpenedDB,  \* allOpenedDB[n]: handle and counter of file n
  iter,         \* the names that its iterator has still to return
  dbmutex,      \* who holds the lock, None if nobody
  live,         \* live[h]: the file open behind handle h, None if closed
  pc,           \* pc[c]: where the thread that serves c stands
  dbName,       \* dbName[c]: the file that c asks for or has open
  hdb,          \* hdb[c]: the handle that c was given
  opendb,       \* opendb[c]: the copy of an entry that c works on
  found,        \* found[c]: the name that c got from the iterator
  rounds,       \* rounds[c]: how often CloseDB may still go round its loop
  safe          \* history: calls that must not meet have not met

table  == <<created, allOpenedDB, iter>>
locals == <<dbName, hdb, opendb, found, rounds>>
vars   == <<alive, table, dbmutex, live, pc, locals, safe>>

NotOpened == [hdb |-> None, counter |-> 0]
Registered == {n \in Names : allOpenedDB[n] # NotOpened}

Init ==
  /\ alive = TRUE
  /\ created = FALSE
  /\ allOpenedDB = [n \in Names |-> NotOpened]
  /\ iter = {}
  /\ dbmutex = None
  /\ live = [h \in Handles |-> None]
  /\ pc = [c \in Callers |-> "idle"]
  /\ dbName = [c \in Callers |-> None]
  /\ hdb = [c \in Callers |-> None]
  /\ opendb = [c \in Callers |-> NotOpened]
  /\ found = [c \in Callers |-> None]
  /\ rounds = [c \in Callers |-> 0]
  /\ safe = TRUE

At(c, label)   == alive /\ pc[c] = label
Goto(c, label) == pc' = [pc EXCEPT ![c] = label]

(* The end of a call, with its local variables: CreateDB leaves the caller *)
(* with a handle, CloseDB without.                                         *)
Opened(c, h) ==
  /\ Goto(c, "session")
  /\ hdb' = [hdb EXCEPT ![c] = h]
  /\ opendb' = [opendb EXCEPT ![c] = NotOpened]
  /\ UNCHANGED <<dbName, found, rounds>>

Closed(c) ==
  /\ Goto(c, "idle")
  /\ dbName' = [dbName EXCEPT ![c] = None]
  /\ hdb' = [hdb EXCEPT ![c] = None]
  /\ opendb' = [opendb EXCEPT ![c] = NotOpened]
  /\ found' = [found EXCEPT ![c] = None]
  /\ rounds' = [rounds EXCEPT ![c] = 0]

-----------------------------------------------------------------------------
(* tcmdbput and tcmdbout. *)

Put(n, entry) ==
  /\ allOpenedDB' = [allOpenedDB EXCEPT ![n] = entry]
  /\ \/ UNCHANGED iter
     \/ n \notin Registered /\ iter' = iter \cup {n}
  /\ UNCHANGED created

Out(n) ==
  /\ allOpenedDB' = [allOpenedDB EXCEPT ![n] = NotOpened]
  /\ iter' = iter \ {n}
  /\ UNCHANGED created

-----------------------------------------------------------------------------
(* CreateDB. *)

Create(c, n) ==
  /\ At(c, "idle")
  /\ dbName' = [dbName EXCEPT ![c] = n]
  /\ Goto(c, "start")
  /\ UNCHANGED <<alive, table, dbmutex, live, hdb, opendb, found, rounds>>

Start(c) ==
  /\ At(c, "start")
  /\ Goto(c, IF created THEN "lookup" ELSE "new")
  /\ UNCHANGED <<alive, table, dbmutex, live, locals>>

(* A table that another thread has just created is lost.                   *)
NewTable(c) ==
  /\ At(c, "new")
  /\ created' = TRUE
  /\ allOpenedDB' = [n \in Names |-> NotOpened]
  /\ iter' = {}
  /\ Goto(c, "init")
  /\ UNCHANGED <<alive, dbmutex, live, locals>>

InitMutex(c) ==
  /\ At(c, "init")
  /\ dbmutex' = None
  /\ Goto(c, "open")
  /\ UNCHANGED <<alive, table, live, locals>>

(* A mutant: the lock is released before the counter is written back.      *)
LookupUnlocked(c) ==
  /\ At(c, "lookup")
  /\ dbmutex = None
  /\ opendb' = [opendb EXCEPT ![c] = allOpenedDB[dbName[c]]]
  /\ Goto(c, IF dbName[c] \in Registered THEN "bump" ELSE "open")
  /\ UNCHANGED <<alive, table, dbmutex, live, dbName, hdb, found, rounds>>

Lookup(c) ==
  /\ At(c, "lookup")
  /\ dbmutex = None
  /\ \/ /\ dbName[c] \in Registered
        /\ dbmutex' = c
        /\ opendb' = [opendb EXCEPT ![c] = allOpenedDB[dbName[c]]]
        /\ Goto(c, "bump")
     \/ /\ dbName[c] \notin Registered
        /\ Goto(c, "open")
        /\ UNCHANGED <<dbmutex, opendb>>
  /\ UNCHANGED <<alive, table, live, dbName, hdb, found, rounds>>

Bump(c) ==
  /\ At(c, "bump")
  /\ opendb[c].counter < MaxCounter
  /\ Put(dbName[c], [opendb[c] EXCEPT !.counter = @ + 1])
  /\ Opened(c, opendb[c].hdb)
  /\ dbmutex' = None
  /\ UNCHANGED <<alive, live>>

(* exit(-1) when the file cannot be opened, for example because it is open *)
(* behind another handle.                                                  *)
Open(c) ==
  /\ At(c, "open")
  /\ \/ \E h \in Handles :
          /\ live[h] = None
          /\ live' = [live EXCEPT ![h] = dbName[c]]
          /\ hdb' = [hdb EXCEPT ![c] = h]
          /\ Goto(c, "insert")
          /\ UNCHANGED alive
     \/ alive' = FALSE /\ UNCHANGED <<live, hdb, pc>>
  /\ UNCHANGED <<table, dbmutex, dbName, opendb, found, rounds>>

Insert(c) ==
  /\ At(c, "insert")
  /\ Put(dbName[c], [hdb |-> hdb[c], counter |-> 1])
  /\ Opened(c, hdb[c])
  /\ UNCHANGED <<alive, dbmutex, live>>

-----------------------------------------------------------------------------
(* CloseDB. *)

(* A mutant: the loop goes round once more.                                *)
SumOneMore(c) ==
  /\ At(c, "session")
  /\ rounds' = [rounds EXCEPT ![c] = Cardinality(Registered) + 1]
  /\ Goto(c, "iterinit")
  /\ UNCHANGED <<alive, table, dbmutex, live, dbName, hdb, opendb, found>>

Sum(c) ==
  /\ At(c, "session")
  /\ rounds' = [rounds EXCEPT ![c] = Cardinality(Registered)]
  /\ Goto(c, "iterinit")
  /\ UNCHANGED <<alive, table, dbmutex, live, dbName, hdb, opendb, found>>

IterInit(c) ==
  /\ At(c, "iterinit")
  /\ iter' = Registered
  /\ Goto(c, "next")
  /\ UNCHANGED <<alive, created, allOpenedDB, dbmutex, live, locals>>

(* The loop ends without a match after sum names or when the iterator has  *)
(* none left.                                                              *)
IterNext(c) ==
  /\ At(c, "next")
  /\ \/ /\ rounds[c] = 0 \/ iter = {}
        /\ Goto(c, "close")
        /\ UNCHANGED <<iter, found, rounds>>
     \/ /\ rounds[c] > 0
        /\ \E n \in iter :
             /\ iter' = iter \ {n}
             /\ found' = [found EXCEPT ![c] = n]
        /\ rounds' = [rounds EXCEPT ![c] = @ - 1]
        /\ Goto(c, "check")
  /\ UNCHANGED <<alive, created, allOpenedDB, dbmutex, live, dbName, hdb, opendb>>

Check(c) ==
  /\ At(c, "check")
  /\ dbmutex = None
  /\ \/ /\ allOpenedDB[found[c]].hdb = hdb[c]
        /\ dbmutex' = c
        /\ opendb' = [opendb EXCEPT ![c] = allOpenedDB[found[c]]]
        /\ Goto(c, "drop")
     \/ /\ allOpenedDB[found[c]].hdb # hdb[c]
        /\ Goto(c, "next")
        /\ UNCHANGED <<dbmutex, opendb>>
  /\ UNCHANGED <<alive, table, live, dbName, hdb, found, rounds>>

(* A mutant: the entry is removed when the counter has been 2.             *)
DropEarly(c) ==
  /\ At(c, "drop")
  /\ \/ opendb[c].counter <= 2 /\ Out(found[c]) /\ Goto(c, "close") /\ UNCHANGED locals
     \/ /\ opendb[c].counter > 2
        /\ Put(found[c], [opendb[c] EXCEPT !.counter = @ - 1])
        /\ Closed(c)
  /\ dbmutex' = None
  /\ UNCHANGED <<alive, live>>

(* A mutant: the last user returns before tchdbclose.                      *)
DropReturn(c) ==
  /\ At(c, "drop")
  /\ \/ opendb[c].counter <= 1 /\ Out(found[c])
     \/ /\ opendb[c].counter > 1
        /\ Put(found[c], [opendb[c] EXCEPT !.counter = @ - 1])
  /\ Closed(c)
  /\ dbmutex' = None
  /\ UNCHANGED <<alive, live>>

Drop(c) ==
  /\ At(c, "drop")
  /\ \/ opendb[c].counter <= 1 /\ Out(found[c]) /\ Goto(c, "close") /\ UNCHANGED locals
     \/ /\ opendb[c].counter > 1
        /\ Put(found[c], [opendb[c] EXCEPT !.counter = @ - 1])
        /\ Closed(c)
  /\ dbmutex' = None
  /\ UNCHANGED <<alive, live>>

(* To close a database that has been deleted ends the process or fails.    *)
Close(c) ==
  /\ At(c, "close")
  /\ \/ live' = [live EXCEPT ![hdb[c]] = None] /\ Closed(c) /\ UNCHANGED alive
     \/ live[hdb[c]] = None /\ alive' = FALSE /\ UNCHANGED <<live, pc, locals>>
  /\ UNCHANGED <<table, dbmutex>>

-----------------------------------------------------------------------------
(* The calls that must not meet. *)

InCall(c)    == pc[c] \notin {"idle", "session"}
First(c)     == pc[c] \in {"new", "init"}
Missed(c)    == pc[c] \in {"open", "insert"}
Iterating(c) == pc[c] \in {"iterinit", "next", "check"}

(* The first call of all with any other; two that open the same file; two  *)
(* that iterate; one that opens with one that iterates, or that closes the *)
(* same file.                                                              *)
Overlap ==
  \E c \in Callers : \E d \in Callers \ {c} :
    \/ First(c) /\ InCall(d)
    \/ Missed(c) /\ Missed(d) /\ dbName[c] = dbName[d]
    \/ Iterating(c) /\ (Iterating(d) \/ Missed(d))
    \/ pc[c] = "close" /\ Missed(d) /\ dbName[c] = dbName[d]

Step(c) ==
  /\ \/ \E n \in Names : Create(c, n)
     \/ Start(c) \/ NewTable(c) \/ InitMutex(c) \/ Lookup(c) \/ Bump(c)
     \/ Open(c) \/ Insert(c)
     \/ Sum(c) \/ IterInit(c) \/ IterNext(c) \/ Check(c) \/ Drop(c) \/ Close(c)
  /\ safe' = (safe /\ ~Overlap')

(* The process has ended, or the bound stops a thread.                     *)
Ended ==
  /\ ~alive \/ \E c \in Callers : pc[c] = "bump" /\ opendb[c].counter = MaxCounter
  /\ UNCHANGED vars

Next == Ended \/ \E c \in Callers : Step(c)

Spec == Init /\ [][Next]_vars

-----------------------------------------------------------------------------
(* Properties. *)

Labels == {"idle", "start", "new", "init", "lookup", "bump", "open", "insert",
           "session", "iterinit", "next", "check", "drop", "close"}
Entries == [hdb : Handles \cup {None}, counter : 0 .. MaxCounter]

TypeOK ==
  /\ alive \in BOOLEAN /\ created \in BOOLEAN /\ safe \in BOOLEAN
  /\ allOpenedDB \in [Names -> Entries]
  /\ iter \subseteq Names
  /\ dbmutex \in Callers \cup {None}
  /\ live \in [Handles -> Names \cup {None}]
  /\ pc \in [Callers -> Labels]
  /\ dbName \in [Callers -> Names \cup {None}]
  /\ hdb \in [Callers -> Handles \cup {None}]
  /\ opendb \in [Callers -> Entries]
  /\ found \in [Callers -> Names \cup {None}]
  /\ rounds \in [Callers -> 0 .. Cardinality(Names)]

(* Who counts as a user of a file: from the end of CreateDB to the moment  *)
(* at which CloseDB has written the counter back.                          *)
Uses(c, n) == /\ pc[c] \in {"session", "iterinit", "next", "check", "drop"}
              /\ dbName[c] = n

(* As long as no calls met that must not meet: the handle of a user is     *)
(* open on the file it asked for, also while others open and close that    *)
(* file and other files.                                                   *)
HandlesServed ==
  safe /\ alive =>
    \A c \in Callers, n \in Names : Uses(c, n) => live[hdb[c]] = n

(* As long as no calls met that must not meet: an entry counts the users   *)
(* of its file and holds the handle of all of them, and a file without     *)
(* users has no entry.                                                     *)
CountersExact ==
  safe /\ alive =>
    \A n \in Names :
      /\ allOpenedDB[n].counter = Cardinality({c \in Callers : Uses(c, n)})
      /\ \A c \in Callers : Uses(c, n) => allOpenedDB[n].hdb = hdb[c]

(* As long as no calls met that must not meet: a file is open at most      *)
(* once, and only while somebody uses it, opens it or closes it.           *)
NothingLeftOpen ==
  safe /\ alive =>
    \A h \in Handles : live[h] # None =>
      /\ \A g \in Handles \ {h} : live[g] # live[h]
      /\ \E c \in Callers :
           hdb[c] = h /\ (Uses(c, live[h]) \/ pc[c] \in {"insert", "close"})
=============================================================================
