-------------------------- MODULE DbRegistryProofs --------------------------
(* Proofs about DbRegistry, for every value of its constants. *)
EXTENDS DbRegistry, FiniteSetTheorems, TLAPS

USE DEF vars, table, locals

(***************************************************************************)
(* Types.                                                                  *)
(***************************************************************************)

(* A call knows its file, and a comparison in CloseDB the name it found.   *)
RegistryTypes ==
  /\ TypeOK
  /\ \A c \in Callers :
       /\ pc[c] # "idle" => dbName[c] \in Names
       /\ pc[c] \in {"check", "drop"} => found[c] \in Names

(* Entries, and what tcmdbput and tcmdbout do to the table.                *)
LEMMA EntryTypes ==
  /\ NotOpened \in Entries
  /\ \A e \in Entries : /\ e.counter \in 0 .. MaxCounter /\ e.hdb \in Handles \cup {None}
                        /\ \A k \in 0 .. MaxCounter : [e EXCEPT !.counter = k] \in Entries
  /\ \A h \in Handles : [hdb |-> h, counter |-> 1] \in Entries
  BY RegistryAssumption DEF NotOpened, Entries

LEMMA PutTypes ==
  ASSUME TypeOK, NEW n, NEW entry \in Entries, Put(n, entry)
  PROVE  created' \in BOOLEAN /\ allOpenedDB' \in [Names -> Entries] /\ iter' \subseteq Names \cup {n}
  BY DEF TypeOK, Put

LEMMA OutTypes ==
  ASSUME TypeOK, NEW n, Out(n)
  PROVE  created' \in BOOLEAN /\ allOpenedDB' \in [Names -> Entries] /\ iter' \subseteq Names
  BY EntryTypes DEF TypeOK, Out

LEMMA NumRegistered == Cardinality(Registered) \in 0 .. Cardinality(Names)
<1>1. Registered \subseteq Names
  BY DEF Registered
<1>2. /\ Cardinality(Registered) \in Nat /\ Cardinality(Names) \in Nat
      /\ Cardinality(Registered) <= Cardinality(Names)
  BY <1>1, RegistryAssumption, FS_Subset, FS_CardinalityType
<1> QED
  BY <1>2

(* The steps of CreateDB. *)
LEMMA CreateTypes ==
  ASSUME RegistryTypes, NEW c \in Callers,
         \/ \E n \in Names : Create(c, n)
         \/ Start(c) \/ NewTable(c) \/ InitMutex(c) \/ Lookup(c) \/ Bump(c)
         \/ Open(c) \/ Insert(c),
         safe' \in BOOLEAN
  PROVE  RegistryTypes'
<1> USE DEF RegistryTypes, TypeOK, At, Goto, Labels
<1>1. CASE \E n \in Names : Create(c, n)
  BY <1>1 DEF Create
<1>2. CASE Start(c)
  BY <1>2 DEF Start
<1>3. CASE NewTable(c)
  BY <1>3, EntryTypes DEF NewTable
<1>4. CASE InitMutex(c)
  BY <1>4 DEF InitMutex
<1>5. CASE Lookup(c)
  BY <1>5, EntryTypes DEF Lookup
<1>6. CASE Bump(c)
  <2>1. [opendb[c] EXCEPT !.counter = @ + 1] \in Entries
    <3>1. opendb[c] \in Entries /\ opendb[c].counter \in 0 .. MaxCounter
      BY EntryTypes
    <3>2. opendb[c].counter + 1 \in 0 .. MaxCounter
      BY <1>6, <3>1, RegistryAssumption DEF Bump
    <3> QED
      BY <3>1, <3>2, EntryTypes
  <2>2. dbName[c] \in Names
    BY <1>6 DEF Bump
  <2>3. created' \in BOOLEAN /\ allOpenedDB' \in [Names -> Entries] /\ iter' \subseteq Names
    BY <1>6, <2>1, <2>2, PutTypes DEF Bump
  <2>4. opendb[c].hdb \in Handles \cup {None}
    BY EntryTypes
  <2> QED
    BY <1>6, <2>3, <2>4, EntryTypes DEF Bump, Opened
<1>7. CASE Open(c)
  BY <1>7 DEF Open
<1>8. CASE Insert(c)
  <2>1. [hdb |-> hdb[c], counter |-> 1] \in Entries
    BY RegistryAssumption DEF Entries
  <2>2. dbName[c] \in Names
    BY <1>8 DEF Insert
  <2>3. created' \in BOOLEAN /\ allOpenedDB' \in [Names -> Entries] /\ iter' \subseteq Names
    BY <1>8, <2>1, <2>2, PutTypes DEF Insert
  <2> QED
    BY <1>8, <2>3, EntryTypes DEF Insert, Opened
<1> QED
  BY <1>1, <1>2, <1>3, <1>4, <1>5, <1>6, <1>7, <1>8

(* A thread that leaves CloseDB has forgotten its file. *)
LEMMA ClosedTypes ==
  ASSUME RegistryTypes, NEW c \in Callers, Closed(c),
         alive' \in BOOLEAN, created' \in BOOLEAN, safe' \in BOOLEAN,
         allOpenedDB' \in [Names -> Entries], iter' \subseteq Names,
         dbmutex' \in Callers \cup {None}, live' \in [Handles -> Names \cup {None}]
  PROVE  RegistryTypes'
<1>1. 0 \in 0 .. Cardinality(Names)
  BY RegistryAssumption, FS_CardinalityType
<1>2. pc' \in [Callers -> Labels] /\ \A d \in Callers : pc'[d] = IF d = c THEN "idle" ELSE pc[d]
  BY DEF Closed, Goto, RegistryTypes, TypeOK, Labels
<1>3. /\ dbName' \in [Callers -> Names \cup {None}] /\ hdb' \in [Callers -> Handles \cup {None}]
      /\ \A d \in Callers : d # c => dbName'[d] = dbName[d]
  BY DEF Closed, RegistryTypes, TypeOK
<1>4. opendb' \in [Callers -> Entries]
  BY EntryTypes DEF Closed, RegistryTypes, TypeOK
<1>5. found' \in [Callers -> Names \cup {None}] /\ \A d \in Callers : d # c => found'[d] = found[d]
  BY DEF Closed, RegistryTypes, TypeOK
<1>6. rounds' \in [Callers -> 0 .. Cardinality(Names)]
  BY <1>1 DEF Closed, RegistryTypes, TypeOK
<1> QED
  BY <1>2, <1>3, <1>4, <1>5, <1>6 DEF RegistryTypes, TypeOK

(* The steps of CloseDB. *)
LEMMA CloseTypes ==
  ASSUME RegistryTypes, NEW c \in Callers,
         Sum(c) \/ IterInit(c) \/ IterNext(c) \/ Check(c) \/ Drop(c) \/ Close(c),
         safe' \in BOOLEAN
  PROVE  RegistryTypes'
<1> USE DEF RegistryTypes, TypeOK, At, Goto, Labels
<1>1. CASE Sum(c)
  BY <1>1, NumRegistered DEF Sum
<1>2. CASE IterInit(c)
  BY <1>2 DEF IterInit, Registered
<1>3. CASE IterNext(c)
  <2>1. Cardinality(Names) \in Nat
    BY RegistryAssumption, FS_CardinalityType
  <2> QED
    BY <1>3, <2>1 DEF IterNext
<1>4. CASE Check(c)
  BY <1>4 DEF Check
<1>5. CASE Drop(c)
  <2>1. found[c] \in Names /\ opendb[c] \in Entries
    BY <1>5 DEF Drop
  <2>2. opendb[c].counter > 1 => [opendb[c] EXCEPT !.counter = @ - 1] \in Entries
    <3>1. opendb[c].counter \in 0 .. MaxCounter
      BY <2>1, EntryTypes
    <3>2. opendb[c].counter > 1 => opendb[c].counter - 1 \in 0 .. MaxCounter
      BY <3>1, RegistryAssumption
    <3> QED
      BY <2>1, <3>2, EntryTypes
  <2>3. created' \in BOOLEAN /\ allOpenedDB' \in [Names -> Entries] /\ iter' \subseteq Names
    BY <1>5, <2>1, <2>2, PutTypes, OutTypes DEF Drop
  <2>4. dbmutex' = None /\ UNCHANGED <<alive, live>>
    BY <1>5 DEF Drop
  <2>5. CASE UNCHANGED locals /\ Goto(c, "close")
    BY <1>5, <2>3, <2>4, <2>5 DEF Drop
  <2>6. CASE Closed(c)
    BY <2>3, <2>4, <2>6, ClosedTypes
  <2> QED
    BY <1>5, <2>5, <2>6 DEF Drop
<1>6. CASE Close(c)
  <2>1. CASE Closed(c)
    <3>1. live' \in [Handles -> Names \cup {None}] /\ alive' \in BOOLEAN /\ dbmutex' \in Callers \cup {None}
      BY <1>6 DEF Close
    <3>2. created' \in BOOLEAN /\ allOpenedDB' \in [Names -> Entries] /\ iter' \subseteq Names
      BY <1>6 DEF Close
    <3> QED
      BY <2>1, <3>1, <3>2, ClosedTypes
  <2>2. CASE alive' = FALSE /\ UNCHANGED <<live, pc, locals>>
    BY <1>6, <2>2 DEF Close
  <2> QED
    BY <1>6, <2>1, <2>2 DEF Close
<1> QED
  BY <1>1, <1>2, <1>3, <1>4, <1>5, <1>6

LEMMA InitTypes == Init => RegistryTypes
<1> SUFFICES ASSUME Init PROVE RegistryTypes
  OBVIOUS
<1>1. 0 \in 0 .. Cardinality(Names)
  BY RegistryAssumption, FS_CardinalityType
<1> QED
  BY <1>1, EntryTypes DEF Init, RegistryTypes, TypeOK, Labels

LEMMA NextTypes == RegistryTypes /\ [Next]_vars => RegistryTypes'
<1> SUFFICES ASSUME RegistryTypes, [Next]_vars PROVE RegistryTypes'
  OBVIOUS
<1>1. CASE UNCHANGED vars
  BY <1>1 DEF RegistryTypes, TypeOK
<1>2. ASSUME NEW c \in Callers, Step(c) PROVE RegistryTypes'
  <2>1. safe' \in BOOLEAN
    BY <1>2 DEF Step, RegistryTypes, TypeOK
  <2> QED
    BY <1>2, <2>1, CreateTypes, CloseTypes DEF Step
<1> QED
  BY <1>1, <1>2 DEF Next, Ended

(* The variables of the registry keep their types, whichever calls meet.   *)
THEOREM TypeCorrect == Spec => []TypeOK
<1>1. RegistryTypes => TypeOK
  BY DEF RegistryTypes
<1> QED
  BY <1>1, InitTypes, NextTypes, PTL DEF Spec

(***************************************************************************)
(* What holds as long as no calls have met that must not meet: the parts   *)
(* of the inductive invariant.                                             *)
(***************************************************************************)

(* Where a connection is a user of its file, and the users of file n.      *)
Serving == {"session", "iterinit", "next", "check", "drop"}
Users(n) == {c \in Callers : Uses(c, n)}

(* The first call of all is alone until the table and the lock exist.      *)
Begun ==
  /\ \A c \in Callers : ~created => pc[c] \in {"idle", "start", "new"}
  /\ \A c \in Callers : pc[c] = "new" => ~created
  /\ \A c, d \in Callers : First(c) /\ d # c => pc[d] = "idle"
  /\ \A c \in Callers, n \in Names : pc[c] = "init" => n \notin Registered

(* The lock covers the two steps that write a counter back.                *)
Locked == \A c \in Callers : pc[c] \in {"bump", "drop"} <=> dbmutex = c

(* Whoever has a handle has it open on its file; an entry has the handle   *)
(* of its users; a file that is being opened or closed has no entry.       *)
Held == \A c \in Callers : pc[c] \in Serving \cup {"insert", "close"} =>
          hdb[c] \in Handles /\ live[hdb[c]] = dbName[c]
Recorded == \A c \in Callers : pc[c] \in Serving => allOpenedDB[dbName[c]].hdb = hdb[c]
Unrecorded == \A c \in Callers : pc[c] \in {"open", "insert", "close"} => dbName[c] \notin Registered

(* Entries count their users, and none is left without.                    *)
Counted == \A n \in Names :
  /\ allOpenedDB[n].counter = Cardinality(Users(n))
  /\ allOpenedDB[n].counter = 0 => n \notin Registered

(* Under the lock the copy of an entry is the entry.                       *)
Copied == \A c \in Callers :
  /\ pc[c] = "bump" => dbName[c] \in Registered
  /\ pc[c] = "drop" => found[c] = dbName[c]
  /\ pc[c] \in {"bump", "drop"} => opendb[c] = allOpenedDB[dbName[c]]

Closing == \A c, d \in Callers : pc[c] = "close" /\ pc[d] = "close" /\ c # d => dbName[c] # dbName[d]

(* The loop in CloseDB cannot run out of rounds or of names before it has  *)
(* met the caller's own file.                                              *)
Searching == \A c \in Callers :
  /\ pc[c] = "iterinit" => Cardinality(Registered) <= rounds[c]
  /\ pc[c] \in {"next", "check"} => Cardinality(iter) <= rounds[c]
  /\ pc[c] = "next" => dbName[c] \in iter
  /\ pc[c] = "check" => found[c] = dbName[c] \/ dbName[c] \in iter

(* Each file is open once, for somebody.                                   *)
Owned == \A h \in Handles : live[h] # None =>
  /\ \A g \in Handles \ {h} : live[g] # live[h]
  /\ \E c \in Callers : hdb[c] = h /\ pc[c] \in Serving \cup {"insert", "close"}

Sound == /\ Begun /\ Locked /\ Held /\ Recorded /\ Unrecorded
         /\ Counted /\ Copied /\ Closing /\ Searching /\ Owned

(* ~Overlap, by pairs of callers.                                          *)
Apart ==
  \A c, d \in Callers : c # d =>
    /\ First(c) => ~InCall(d)
    /\ Missed(c) /\ Missed(d) => dbName[c] # dbName[d]
    /\ Iterating(c) => ~Iterating(d) /\ ~Missed(d)
    /\ pc[c] = "close" /\ Missed(d) => dbName[c] # dbName[d]

LEMMA NotOverlapping == ~Overlap => Apart
  BY DEF Overlap, Apart

(***************************************************************************)
(* Helpers.                                                                *)
(***************************************************************************)

(* Cardinalities of sets of names and of users.                            *)
LEMMA SizeGrows ==
  ASSUME NEW T, T \subseteq Names, NEW S, S \subseteq T
  PROVE  Cardinality(S) \in Nat /\ Cardinality(T) \in Nat /\ Cardinality(S) <= Cardinality(T)
<1>1. IsFiniteSet(T)
  BY RegistryAssumption, FS_Subset
<1> QED
  BY <1>1, FS_Subset, FS_CardinalityType

LEMMA FewUsers ==
  ASSUME NEW n
  PROVE  IsFiniteSet(Users(n)) /\ Cardinality(Users(n)) \in Nat
<1>1. Users(n) \subseteq Callers
  BY DEF Users
<1> QED
  BY <1>1, RegistryAssumption, FS_Subset, FS_CardinalityType

(* A user's file has an entry, and the handle in an entry is open.         *)
LEMMA UserHasEntry ==
  ASSUME RegistryTypes, Sound, NEW c \in Callers, pc[c] \in Serving
  PROVE  dbName[c] \in Registered /\ allOpenedDB[dbName[c]].hdb = hdb[c]
<1>1. dbName[c] \in Names /\ hdb[c] \in Handles /\ allOpenedDB[dbName[c]].hdb = hdb[c]
  BY DEF RegistryTypes, Sound, Held, Recorded, Serving
<1> QED
  BY <1>1, RegistryAssumption DEF Registered, NotOpened

LEMMA EntryIsOpen ==
  ASSUME RegistryTypes, Sound, NEW n \in Registered
  PROVE  /\ allOpenedDB[n].hdb \in Handles /\ live[allOpenedDB[n].hdb] = n
         /\ allOpenedDB[n].counter \in Nat \ {0}
<1>1. n \in Names /\ allOpenedDB[n].counter # 0 /\ allOpenedDB[n].counter = Cardinality(Users(n))
  BY DEF Sound, Counted, Registered
<1>2. PICK c \in Callers : Uses(c, n)
  BY <1>1, FS_EmptySet DEF Users
<1>3. allOpenedDB[n].hdb = hdb[c] /\ hdb[c] \in Handles /\ live[hdb[c]] = n
  BY <1>2 DEF Sound, Held, Recorded, Uses, Serving
<1> QED
  BY <1>1, <1>3, FewUsers

(* A step after which the same connections use the same files.             *)
LEMMA SameUsers ==
  ASSUME Counted, allOpenedDB' = allOpenedDB,
         \A c \in Callers : \A n \in Names : Uses(c, n)' <=> Uses(c, n)
  PROVE  Counted'
<1>1. \A n \in Names : Users(n)' = Users(n)
  BY DEF Users
<1> QED
  BY <1>1 DEF Counted, Registered

(***************************************************************************)
(* Each step preserves Sound.  First the steps that change no entry.       *)
(***************************************************************************)

LEMMA CreateSound ==
  ASSUME RegistryTypes, Sound, Apart, RegistryTypes', Apart', alive', NEW c \in Callers, NEW n \in Names, Create(c, n)
  PROVE  Sound'
<1> USE DEF RegistryTypes, TypeOK, At, Goto, Serving
<1>1. Begun'
  BY RegistryAssumption DEF Sound, Begun, First, InCall, Apart, Registered, Create
<1>2. Locked'
  BY RegistryAssumption DEF Sound, Locked, Begun, First, Create
<1>3. Held'
  BY RegistryAssumption DEF Sound, Held, Create
<1>4. Recorded'
  BY RegistryAssumption DEF Sound, Recorded, Create
<1>5. Unrecorded'
  BY RegistryAssumption DEF Sound, Unrecorded, Begun, Registered, Apart, Create
<1>6. Counted'
  <2>1. allOpenedDB' = allOpenedDB
    BY DEF Create
  <2>2. \A d \in Callers : \A m \in Names : Uses(d, m)' <=> Uses(d, m)
    BY DEF Create, Uses
  <2> QED
    BY <2>1, <2>2, SameUsers DEF Sound
<1>7. Copied'
  BY RegistryAssumption DEF Sound, Copied, Registered, Create
<1>8. Closing'
  BY RegistryAssumption DEF Sound, Closing, Create
<1>9. Searching'
  BY RegistryAssumption DEF Sound, Searching, Apart, Iterating, Registered, Create
<1>10. Owned'
  BY RegistryAssumption DEF Sound, Owned, Create
<1> QED
  BY <1>1, <1>2, <1>3, <1>4, <1>5, <1>6, <1>7, <1>8, <1>9, <1>10 DEF Sound

LEMMA StartSound ==
  ASSUME RegistryTypes, Sound, Apart, RegistryTypes', Apart', alive', NEW c \in Callers, Start(c)
  PROVE  Sound'
<1> USE DEF RegistryTypes, TypeOK, At, Goto, Serving
<1>1. Begun'
  BY RegistryAssumption DEF Sound, Begun, First, InCall, Apart, Registered, Start
<1>2. Locked'
  BY RegistryAssumption DEF Sound, Locked, Begun, First, Start
<1>3. Held'
  BY RegistryAssumption DEF Sound, Held, Start
<1>4. Recorded'
  BY RegistryAssumption DEF Sound, Recorded, Start
<1>5. Unrecorded'
  BY RegistryAssumption DEF Sound, Unrecorded, Begun, Registered, Apart, Start
<1>6. Counted'
  <2>1. allOpenedDB' = allOpenedDB
    BY DEF Start
  <2>2. \A d \in Callers : \A m \in Names : Uses(d, m)' <=> Uses(d, m)
    BY DEF Start, Uses
  <2> QED
    BY <2>1, <2>2, SameUsers DEF Sound
<1>7. Copied'
  BY RegistryAssumption DEF Sound, Copied, Registered, Start
<1>8. Closing'
  BY RegistryAssumption DEF Sound, Closing, Start
<1>9. Searching'
  BY RegistryAssumption DEF Sound, Searching, Apart, Iterating, Registered, Start
<1>10. Owned'
  BY RegistryAssumption DEF Sound, Owned, Start
<1> QED
  BY <1>1, <1>2, <1>3, <1>4, <1>5, <1>6, <1>7, <1>8, <1>9, <1>10 DEF Sound

LEMMA InitMutexSound ==
  ASSUME RegistryTypes, Sound, Apart, RegistryTypes', Apart', alive', NEW c \in Callers, InitMutex(c)
  PROVE  Sound'
<1> USE DEF RegistryTypes, TypeOK, At, Goto, Serving
<1>1. Begun'
  BY RegistryAssumption DEF Sound, Begun, First, InCall, Apart, Registered, InitMutex
<1>2. Locked'
  BY RegistryAssumption DEF Sound, Locked, Begun, First, InitMutex
<1>3. Held'
  BY RegistryAssumption DEF Sound, Held, InitMutex
<1>4. Recorded'
  BY RegistryAssumption DEF Sound, Recorded, InitMutex
<1>5. Unrecorded'
  BY RegistryAssumption DEF Sound, Unrecorded, Begun, Registered, Apart, InitMutex
<1>6. Counted'
  <2>1. allOpenedDB' = allOpenedDB
    BY DEF InitMutex
  <2>2. \A d \in Callers : \A m \in Names : Uses(d, m)' <=> Uses(d, m)
    BY DEF InitMutex, Uses
  <2> QED
    BY <2>1, <2>2, SameUsers DEF Sound
<1>7. Copied'
  BY RegistryAssumption DEF Sound, Copied, Registered, InitMutex
<1>8. Closing'
  BY RegistryAssumption DEF Sound, Closing, InitMutex
<1>9. Searching'
  BY RegistryAssumption DEF Sound, Searching, Apart, Iterating, Registered, InitMutex
<1>10. Owned'
  BY RegistryAssumption DEF Sound, Owned, InitMutex
<1> QED
  BY <1>1, <1>2, <1>3, <1>4, <1>5, <1>6, <1>7, <1>8, <1>9, <1>10 DEF Sound

LEMMA LookupSound ==
  ASSUME RegistryTypes, Sound, Apart, RegistryTypes', Apart', alive', NEW c \in Callers, Lookup(c)
  PROVE  Sound'
<1> USE DEF RegistryTypes, TypeOK, At, Goto, Serving
<1>1. Begun'
  BY RegistryAssumption DEF Sound, Begun, First, InCall, Apart, Registered, Lookup
<1>2. Locked'
  BY RegistryAssumption DEF Sound, Locked, Begun, First, Lookup
<1>3. Held'
  BY RegistryAssumption DEF Sound, Held, Lookup
<1>4. Recorded'
  BY RegistryAssumption DEF Sound, Recorded, Lookup
<1>5. Unrecorded'
  BY RegistryAssumption DEF Sound, Unrecorded, Begun, Registered, Apart, Lookup
<1>6. Counted'
  <2>1. allOpenedDB' = allOpenedDB
    BY DEF Lookup
  <2>2. \A d \in Callers : \A m \in Names : Uses(d, m)' <=> Uses(d, m)
    BY DEF Lookup, Uses
  <2> QED
    BY <2>1, <2>2, SameUsers DEF Sound
<1>7. Copied'
  BY RegistryAssumption DEF Sound, Copied, Registered, Lookup
<1>8. Closing'
  BY RegistryAssumption DEF Sound, Closing, Lookup
<1>9. Searching'
  BY RegistryAssumption DEF Sound, Searching, Apart, Iterating, Registered, Lookup
<1>10. Owned'
  BY RegistryAssumption DEF Sound, Owned, Lookup
<1> QED
  BY <1>1, <1>2, <1>3, <1>4, <1>5, <1>6, <1>7, <1>8, <1>9, <1>10 DEF Sound

LEMMA OpenSound ==
  ASSUME RegistryTypes, Sound, Apart, RegistryTypes', Apart', alive', NEW c \in Callers, Open(c)
  PROVE  Sound'
<1> USE DEF RegistryTypes, TypeOK, At, Goto, Serving
<1>1. Begun'
  BY RegistryAssumption DEF Sound, Begun, First, InCall, Apart, Registered, Open
<1>2. Locked'
  BY RegistryAssumption DEF Sound, Locked, Begun, First, Open
<1>3. Held'
  BY RegistryAssumption DEF Sound, Held, Open
<1>4. Recorded'
  BY RegistryAssumption DEF Sound, Recorded, Open
<1>5. Unrecorded'
  BY RegistryAssumption DEF Sound, Unrecorded, Begun, Registered, Apart, Open
<1>6. Counted'
  <2>1. allOpenedDB' = allOpenedDB
    BY DEF Open
  <2>2. \A d \in Callers : \A m \in Names : Uses(d, m)' <=> Uses(d, m)
    BY DEF Open, Uses
  <2> QED
    BY <2>1, <2>2, SameUsers DEF Sound
<1>7. Copied'
  BY RegistryAssumption DEF Sound, Copied, Registered, Open
<1>8. Closing'
  BY RegistryAssumption DEF Sound, Closing, Open
<1>9. Searching'
  BY RegistryAssumption DEF Sound, Searching, Apart, Iterating, Registered, Open
<1>10. Owned'
  <2>1. PICK h \in Handles : /\ live[h] = None /\ live' = [live EXCEPT ![h] = dbName[c]]
                             /\ hdb' = [hdb EXCEPT ![c] = h] /\ pc' = [pc EXCEPT ![c] = "insert"]
    BY DEF Open
  <2>2. pc[c] = "open" /\ dbName[c] \in Names /\ dbName[c] \notin Registered
    BY DEF Open, Sound, Unrecorded
  <2>3. \A g \in Handles : live[g] # dbName[c]
    <3> SUFFICES ASSUME NEW g \in Handles, live[g] = dbName[c] PROVE FALSE
      OBVIOUS
    <3>1. PICK d \in Callers : hdb[d] = g /\ pc[d] \in Serving \cup {"insert", "close"}
      BY <2>2, RegistryAssumption DEF Sound, Owned
    <3>2. dbName[d] = dbName[c] /\ d # c
      BY <3>1, <2>2 DEF Sound, Held
    <3>3. CASE pc[d] \in Serving
      BY <3>2, <3>3, <2>2, UserHasEntry
    <3>4. CASE pc[d] \in {"insert", "close"}
      BY <3>2, <3>4, <2>2 DEF Apart, Missed
    <3> QED
      BY <3>1, <3>3, <3>4
  <2> QED
    <3> SUFFICES ASSUME NEW k \in Handles, live'[k] # None
                 PROVE  /\ \A g \in Handles \ {k} : live'[g] # live'[k]
                        /\ \E d \in Callers : hdb'[d] = k /\ pc'[d] \in Serving \cup {"insert", "close"}
      BY DEF Owned
    <3>1. CASE k = h
      BY <2>1, <2>3, <3>1
    <3>2. CASE k # h
      <4>1. live'[k] = live[k] /\ live[k] # None
        BY <2>1, <3>2
      <4>2. PICK d \in Callers : hdb[d] = k /\ pc[d] \in Serving \cup {"insert", "close"}
        BY <4>1 DEF Sound, Owned
      <4>3. d # c
        BY <2>2, <4>2
      <4>4. hdb'[d] = k /\ pc'[d] \in Serving \cup {"insert", "close"}
        BY <2>1, <4>2, <4>3
      <4> QED
        BY <2>1, <2>3, <4>1, <4>4, RegistryAssumption DEF Sound, Owned
    <3> QED
      BY <3>1, <3>2
<1> QED
  BY <1>1, <1>2, <1>3, <1>4, <1>5, <1>6, <1>7, <1>8, <1>9, <1>10 DEF Sound

LEMMA SumSound ==
  ASSUME RegistryTypes, Sound, Apart, RegistryTypes', Apart', alive', NEW c \in Callers, Sum(c)
  PROVE  Sound'
<1> USE DEF RegistryTypes, TypeOK, At, Goto, Serving
<1>1. Begun'
  BY RegistryAssumption DEF Sound, Begun, First, InCall, Apart, Registered, Sum
<1>2. Locked'
  BY RegistryAssumption DEF Sound, Locked, Begun, First, Sum
<1>3. Held'
  BY RegistryAssumption DEF Sound, Held, Sum
<1>4. Recorded'
  BY RegistryAssumption DEF Sound, Recorded, Sum
<1>5. Unrecorded'
  BY RegistryAssumption DEF Sound, Unrecorded, Begun, Registered, Apart, Sum
<1>6. Counted'
  <2>1. allOpenedDB' = allOpenedDB
    BY DEF Sum
  <2>2. \A d \in Callers : \A m \in Names : Uses(d, m)' <=> Uses(d, m)
    BY DEF Sum, Uses
  <2> QED
    BY <2>1, <2>2, SameUsers DEF Sound
<1>7. Copied'
  BY RegistryAssumption DEF Sound, Copied, Registered, Sum
<1>8. Closing'
  BY RegistryAssumption DEF Sound, Closing, Sum
<1>9. Searching'
  BY RegistryAssumption DEF Sound, Searching, Apart, Iterating, Registered, Sum
<1>10. Owned'
  BY RegistryAssumption DEF Sound, Owned, Sum
<1> QED
  BY <1>1, <1>2, <1>3, <1>4, <1>5, <1>6, <1>7, <1>8, <1>9, <1>10 DEF Sound

LEMMA IterInitSound ==
  ASSUME RegistryTypes, Sound, Apart, RegistryTypes', Apart', alive', NEW c \in Callers, IterInit(c)
  PROVE  Sound'
<1> USE DEF RegistryTypes, TypeOK, At, Goto, Serving
<1>1. Begun'
  BY RegistryAssumption DEF Sound, Begun, First, InCall, Apart, Registered, IterInit
<1>2. Locked'
  BY RegistryAssumption DEF Sound, Locked, Begun, First, IterInit
<1>3. Held'
  BY RegistryAssumption DEF Sound, Held, IterInit
<1>4. Recorded'
  BY RegistryAssumption DEF Sound, Recorded, IterInit
<1>5. Unrecorded'
  BY RegistryAssumption DEF Sound, Unrecorded, Begun, Registered, Apart, IterInit
<1>6. Counted'
  <2>1. allOpenedDB' = allOpenedDB
    BY DEF IterInit
  <2>2. \A d \in Callers : \A m \in Names : Uses(d, m)' <=> Uses(d, m)
    BY DEF IterInit, Uses
  <2> QED
    BY <2>1, <2>2, SameUsers DEF Sound
<1>7. Copied'
  BY RegistryAssumption DEF Sound, Copied, Registered, IterInit
<1>8. Closing'
  BY RegistryAssumption DEF Sound, Closing, IterInit
<1>9. Searching'
  <2>1. Cardinality(Registered) \in Nat /\ dbName[c] \in Registered /\ pc[c] = "iterinit"
    BY UserHasEntry, SizeGrows DEF IterInit, Registered
  <2>2. iter' = Registered /\ pc' = [pc EXCEPT ![c] = "next"] /\ UNCHANGED <<allOpenedDB, dbName, found, rounds>>
    BY DEF IterInit
  <2>3. \A d \in Callers : d # c => pc[d] \notin {"iterinit", "next", "check"}
    BY <2>1 DEF Apart, Iterating
  <2>4. Cardinality(Registered) <= rounds[c]
    BY <2>1 DEF Sound, Searching
  <2> QED
    BY <2>1, <2>2, <2>3, <2>4 DEF Searching
<1>10. Owned'
  BY RegistryAssumption DEF Sound, Owned, IterInit
<1> QED
  BY <1>1, <1>2, <1>3, <1>4, <1>5, <1>6, <1>7, <1>8, <1>9, <1>10 DEF Sound

LEMMA IterNextSound ==
  ASSUME RegistryTypes, Sound, Apart, RegistryTypes', Apart', alive', NEW c \in Callers, IterNext(c)
  PROVE  Sound'
<1> USE DEF RegistryTypes, TypeOK, At, Goto, Serving
<1>0. /\ pc[c] = "next" /\ dbName[c] \in iter /\ rounds[c] > 0
      /\ \E n \in iter : iter' = iter \ {n} /\ found' = [found EXCEPT ![c] = n]
      /\ rounds' = [rounds EXCEPT ![c] = @ - 1] /\ pc' = [pc EXCEPT ![c] = "check"]
      /\ UNCHANGED <<alive, created, allOpenedDB, dbmutex, live, dbName, hdb, opendb>>
  <2>1. pc[c] = "next" /\ dbName[c] \in iter /\ Cardinality(iter) <= rounds[c] /\ rounds[c] \in Nat
    <3>1. rounds[c] \in 0 .. Cardinality(Names)
      OBVIOUS
    <3> QED
      BY <3>1 DEF IterNext, Sound, Searching
  <2>2. Cardinality(iter) \in Nat /\ Cardinality(iter) # 0
    <3>1. IsFiniteSet(iter)
      BY RegistryAssumption, FS_Subset
    <3> QED
      BY <3>1, <2>1, FS_CardinalityType, FS_EmptySet
  <2> QED
    BY <2>1, <2>2 DEF IterNext
<1>1. Begun'
  BY <1>0, RegistryAssumption DEF Sound, Begun, First, InCall, Apart, Registered
<1>2. Locked'
  BY <1>0, RegistryAssumption DEF Sound, Locked, Begun, First
<1>3. Held'
  BY <1>0, RegistryAssumption DEF Sound, Held
<1>4. Recorded'
  BY <1>0, RegistryAssumption DEF Sound, Recorded
<1>5. Unrecorded'
  BY <1>0, RegistryAssumption DEF Sound, Unrecorded, Begun, Registered, Apart
<1>6. Counted'
  BY <1>0, SameUsers DEF Sound, Uses
<1>7. Copied'
  BY <1>0, RegistryAssumption DEF Sound, Copied, Registered
<1>8. Closing'
  BY <1>0, RegistryAssumption DEF Sound, Closing
<1>9. Searching'
  <2>1. PICK n \in iter : iter' = iter \ {n} /\ found' = [found EXCEPT ![c] = n]
    BY <1>0
  <2>2. Cardinality(iter') = Cardinality(iter) - 1 /\ Cardinality(iter) \in Nat
    <3>1. IsFiniteSet(iter)
      BY RegistryAssumption, FS_Subset
    <3> QED
      BY <3>1, <2>1, FS_RemoveElement, FS_CardinalityType
  <2>3. Cardinality(iter) <= rounds[c] /\ rounds[c] \in Nat
    <3>1. rounds[c] \in 0 .. Cardinality(Names)
      OBVIOUS
    <3> QED
      BY <1>0, <3>1 DEF Sound, Searching
  <2>4. \A d \in Callers : d # c => pc[d] \notin {"iterinit", "next", "check"}
    BY <1>0 DEF Apart, Iterating
  <2>5. found'[c] = n /\ rounds'[c] = rounds[c] - 1 /\ pc'[c] = "check" /\ dbName'[c] = dbName[c]
    BY <1>0, <2>1
  <2>6. \A d \in Callers : d # c => pc'[d] = pc[d]
    BY <1>0
  <2>7. dbName[c] \in iter /\ (dbName[c] = n \/ dbName[c] \in iter')
    BY <1>0, <2>1
  <2>8. Cardinality(iter)' <= rounds'[c]
    BY <2>2, <2>3, <2>5
  <2> QED
    BY <2>4, <2>5, <2>6, <2>7, <2>8 DEF Searching
<1>10. Owned'
  BY <1>0, RegistryAssumption DEF Sound, Owned
<1> QED
  BY <1>1, <1>2, <1>3, <1>4, <1>5, <1>6, <1>7, <1>8, <1>9, <1>10 DEF Sound

LEMMA CheckSound ==
  ASSUME RegistryTypes, Sound, Apart, RegistryTypes', Apart', alive', NEW c \in Callers, Check(c)
  PROVE  Sound'
<1> USE DEF RegistryTypes, TypeOK, At, Goto, Serving
<1>1. Begun'
  BY RegistryAssumption DEF Sound, Begun, First, InCall, Apart, Registered, Check
<1>2. Locked'
  BY RegistryAssumption DEF Sound, Locked, Begun, First, Check
<1>3. Held'
  BY RegistryAssumption DEF Sound, Held, Check
<1>4. Recorded'
  BY RegistryAssumption DEF Sound, Recorded, Check
<1>5. Unrecorded'
  BY RegistryAssumption DEF Sound, Unrecorded, Begun, Registered, Apart, Check
<1>6. Counted'
  <2>1. allOpenedDB' = allOpenedDB
    BY DEF Check
  <2>2. \A d \in Callers : \A m \in Names : Uses(d, m)' <=> Uses(d, m)
    BY DEF Check, Uses
  <2> QED
    BY <2>1, <2>2, SameUsers DEF Sound
<1>7. Copied'
  <2>1. CASE pc' = [pc EXCEPT ![c] = "next"] /\ UNCHANGED opendb
    BY <2>1 DEF Check, Sound, Copied, Registered
  <2>2. CASE /\ allOpenedDB[found[c]].hdb = hdb[c] /\ pc' = [pc EXCEPT ![c] = "drop"]
             /\ opendb' = [opendb EXCEPT ![c] = allOpenedDB[found[c]]]
    <3>1. pc[c] = "check" /\ UNCHANGED <<allOpenedDB, dbName, found>>
      BY DEF Check
    <3>2. found[c] = dbName[c]
      <4>1. hdb[c] \in Handles /\ live[hdb[c]] = dbName[c] /\ found[c] \in Names
        BY <3>1 DEF Sound, Held
      <4>2. found[c] \in Registered
        BY <2>2, <4>1, RegistryAssumption DEF Registered, NotOpened
      <4> QED
        BY <2>2, <4>1, <4>2, EntryIsOpen
    <3>3. \A d \in Callers : d # c => pc'[d] = pc[d] /\ opendb'[d] = opendb[d]
      BY <2>2
    <3>4. pc'[c] = "drop" /\ opendb'[c] = allOpenedDB[found[c]]
      BY <2>2
    <3> QED
      BY <3>1, <3>2, <3>3, <3>4 DEF Sound, Copied, Registered
  <2> QED
    BY <2>1, <2>2 DEF Check
<1>8. Closing'
  BY RegistryAssumption DEF Sound, Closing, Check
<1>9. Searching'
  <2>1. pc[c] = "check" /\ UNCHANGED <<allOpenedDB, iter, dbName, found, rounds>>
    BY DEF Check
  <2>2. \A d \in Callers : pc'[d] = pc[d] \/ (d = c /\ pc'[d] \in {"drop", "next"})
    BY DEF Check
  <2>3. pc'[c] = "next" => found[c] # dbName[c]
    <3>1. allOpenedDB[dbName[c]].hdb = hdb[c]
      BY <2>1, UserHasEntry
    <3> QED
      BY <2>1, <3>1 DEF Check
  <2> QED
    BY <2>1, <2>2, <2>3 DEF Sound, Searching, Registered
<1>10. Owned'
  BY RegistryAssumption DEF Sound, Owned, Check
<1> QED
  BY <1>1, <1>2, <1>3, <1>4, <1>5, <1>6, <1>7, <1>8, <1>9, <1>10 DEF Sound

LEMMA CloseSound ==
  ASSUME RegistryTypes, Sound, Apart, RegistryTypes', Apart', alive', NEW c \in Callers, Close(c)
  PROVE  Sound'
<1> USE DEF RegistryTypes, TypeOK, At, Goto, Serving
<1>1. Begun'
  BY RegistryAssumption DEF Sound, Begun, First, InCall, Apart, Registered, Close, Closed
<1>2. Locked'
  BY RegistryAssumption DEF Sound, Locked, Begun, First, Close, Closed
<1>3. Held'
  <2>1. /\ pc[c] = "close" /\ live' = [live EXCEPT ![hdb[c]] = None]
        /\ \A d \in Callers : pc'[d] = IF d = c THEN "idle" ELSE pc[d]
        /\ \A d \in Callers : d # c => hdb'[d] = hdb[d] /\ dbName'[d] = dbName[d]
    BY DEF Close, Closed
  <2>2. hdb[c] \in Handles /\ live[hdb[c]] = dbName[c] /\ dbName[c] \notin Registered
    BY <2>1 DEF Sound, Held, Unrecorded
  <2> SUFFICES ASSUME NEW d \in Callers, pc'[d] \in Serving \cup {"insert", "close"}
               PROVE  hdb'[d] \in Handles /\ live'[hdb'[d]] = dbName'[d]
    BY DEF Held
  <2>3. d # c /\ pc[d] \in Serving \cup {"insert", "close"}
    BY <2>1
  <2>4. hdb[d] \in Handles /\ live[hdb[d]] = dbName[d]
    BY <2>3 DEF Sound, Held
  <2>5. dbName[d] # dbName[c]
    <3>1. CASE pc[d] \in Serving
      BY <2>2, <3>1, UserHasEntry
    <3>2. CASE pc[d] = "insert"
      BY <2>1, <2>3, <3>2 DEF Apart, Missed
    <3>3. CASE pc[d] = "close"
      BY <2>1, <2>3, <3>3 DEF Sound, Closing
    <3> QED
      BY <2>3, <3>1, <3>2, <3>3
  <2> QED
    BY <2>1, <2>2, <2>3, <2>4, <2>5
<1>4. Recorded'
  BY RegistryAssumption DEF Sound, Recorded, Close, Closed
<1>5. Unrecorded'
  BY RegistryAssumption DEF Sound, Unrecorded, Begun, Registered, Apart, Close, Closed
<1>6. Counted'
  <2>1. allOpenedDB' = allOpenedDB
    BY DEF Close
  <2>2. \A d \in Callers : \A m \in Names : Uses(d, m)' <=> Uses(d, m)
    BY DEF Close, Closed, Uses
  <2> QED
    BY <2>1, <2>2, SameUsers DEF Sound
<1>7. Copied'
  BY RegistryAssumption DEF Sound, Copied, Registered, Close, Closed
<1>8. Closing'
  BY RegistryAssumption DEF Sound, Closing, Close, Closed
<1>9. Searching'
  BY RegistryAssumption DEF Sound, Searching, Apart, Iterating, Registered, Close, Closed
<1>10. Owned'
  BY RegistryAssumption DEF Sound, Owned, Close, Closed
<1> QED
  BY <1>1, <1>2, <1>3, <1>4, <1>5, <1>6, <1>7, <1>8, <1>9, <1>10 DEF Sound

(* The steps that change entries.  The table is created while nobody else  *)
(* is in a call.                                                           *)
LEMMA NewTableSound ==
  ASSUME RegistryTypes, Sound, Apart, RegistryTypes', NEW c \in Callers, NewTable(c)
  PROVE  Sound'
<1> USE DEF Serving
<1>1. /\ pc[c] = "new" /\ created' = TRUE /\ \A n \in Names : allOpenedDB'[n] = NotOpened
      /\ \A d \in Callers : pc'[d] = IF d = c THEN "init" ELSE pc[d]
      /\ UNCHANGED <<dbmutex, live, hdb, dbName>>
  BY DEF NewTable, At, Goto, RegistryTypes, TypeOK
<1>2. \A d \in Callers : d # c => pc[d] = "idle"
  BY <1>1 DEF Sound, Begun, First
<1>3. \A d \in Callers : pc'[d] = "init" \/ pc'[d] = "idle"
  BY <1>1, <1>2
<1>4. \A n \in Names : n \notin Registered' /\ Users(n)' = {}
  <2>1. \A d \in Callers, n \in Names : ~Uses(d, n)'
    BY <1>3 DEF Uses
  <2> QED
    BY <1>1, <2>1 DEF Registered, Users
<1>5. Begun'
  BY <1>1, <1>2, <1>3, <1>4 DEF Begun, First
<1>6. Counted'
  <2>1. \A n \in Names : allOpenedDB'[n].counter = 0
    BY <1>1 DEF NotOpened
  <2> QED
    BY <1>4, <2>1, FS_EmptySet DEF Counted
<1>7. Owned'
  <2>1. \A h \in Handles : live[h] = None
    BY <1>1, <1>2 DEF Sound, Owned
  <2> QED
    BY <1>1, <2>1 DEF Owned
<1>8. Locked'
  BY <1>1, <1>3 DEF Sound, Locked
<1>9. Held' /\ Recorded' /\ Unrecorded' /\ Copied' /\ Closing' /\ Searching'
  BY <1>3 DEF Held, Recorded, Unrecorded, Copied, Closing, Searching
<1> QED
  BY <1>5, <1>6, <1>7, <1>8, <1>9 DEF Sound

(* One user more: the entry that was read under the lock is still there.   *)
LEMMA BumpSound ==
  ASSUME RegistryTypes, Sound, Apart, RegistryTypes', NEW c \in Callers, Bump(c)
  PROVE  Sound'
<1>0. PICK n \in Names : dbName[c] = n
  BY DEF Bump, At, RegistryTypes
<1> USE <1>0
<1>1. /\ pc[c] = "bump" /\ n \in Registered /\ n \in Names /\ opendb[c] = allOpenedDB[n] /\ dbmutex = c
  BY DEF Bump, At, Sound, Copied, Locked, Registered
<1>2. /\ hdb[c]' = allOpenedDB[n].hdb /\ allOpenedDB[n].hdb \in Handles
      /\ live[allOpenedDB[n].hdb] = n /\ allOpenedDB[n].counter \in Nat \ {0}
  BY <1>1, EntryIsOpen DEF Bump, Opened, RegistryTypes, TypeOK
<1>3. \A d \in Callers : /\ pc'[d] = IF d = c THEN "session" ELSE pc[d]
                         /\ d # c => hdb'[d] = hdb[d] /\ opendb'[d] = opendb[d]
  BY DEF Bump, Opened, Goto, RegistryTypes, TypeOK
<1>4. UNCHANGED <<dbName, found, rounds, live, created>> /\ dbmutex' = None
  BY DEF Bump, Opened, Put
<1>5. /\ allOpenedDB'[n].counter = allOpenedDB[n].counter + 1
      /\ allOpenedDB'[n].hdb = allOpenedDB[n].hdb
      /\ \A m \in Names : m # n => allOpenedDB'[m] = allOpenedDB[m]
  <2>1. allOpenedDB' = [allOpenedDB EXCEPT ![n] = [opendb[c] EXCEPT !.counter = @ + 1]]
    BY DEF Bump, Put
  <2>2. opendb[c] \in Entries
    BY DEF RegistryTypes, TypeOK
  <2> QED
    BY <1>1, <2>1, <2>2 DEF RegistryTypes, TypeOK, Entries
<1>6. \A m \in Names : m \in Registered' <=> m \in Registered
  <2>1. allOpenedDB'[n] # NotOpened
    BY <1>2, <1>5, RegistryAssumption DEF NotOpened
  <2> QED
    BY <1>1, <1>5, <2>1 DEF Registered
<1>7. iter' = iter
  BY <1>1 DEF Bump, Put
<1>8. Begun'
  BY <1>1, <1>3, <1>4, <1>6 DEF Sound, Begun, First
<1>9. Locked'
  BY <1>1, <1>3, <1>4, RegistryAssumption DEF Sound, Locked
<1>10. Held'
  BY <1>1, <1>2, <1>3, <1>4 DEF Sound, Held
<1>11. Recorded'
  <2>1. \A m \in Names : allOpenedDB'[m].hdb = allOpenedDB[m].hdb
    BY <1>5
  <2> QED
    BY <1>1, <1>2, <1>3, <1>4, <2>1 DEF Sound, Recorded, RegistryTypes, Serving
<1>12. Unrecorded'
  BY <1>3, <1>4, <1>6 DEF Sound, Unrecorded, Registered
<1>13. Counted'
  <2>1. Users(n)' = Users(n) \cup {c} /\ c \notin Users(n)
    BY <1>1, <1>3, <1>4 DEF Users, Uses
  <2>2. \A m \in Names : m # n => Users(m)' = Users(m)
    BY <1>1, <1>3, <1>4 DEF Users, Uses
  <2>3. Cardinality(Users(n)') = Cardinality(Users(n)) + 1
    BY <2>1, FewUsers, FS_AddElement
  <2> QED
    BY <1>1, <1>2, <1>5, <1>6, <2>2, <2>3 DEF Sound, Counted
<1>14. Copied'
  <2>1. \A d \in Callers : d # c => pc[d] \notin {"bump", "drop"}
    BY <1>1 DEF Sound, Locked
  <2> QED
    BY <1>3, <2>1 DEF Copied
<1>15. Closing'
  BY <1>3, <1>4 DEF Sound, Closing
<1>16. Searching'
  <2>1. Registered' = Registered
    BY <1>6 DEF Registered
  <2> QED
    BY <1>3, <1>4, <1>7, <2>1 DEF Sound, Searching
<1>17. Owned'
  BY <1>1, <1>3, <1>4 DEF Sound, Owned, Serving
<1> QED
  BY <1>8, <1>9, <1>10, <1>11, <1>12, <1>13, <1>14, <1>15, <1>16, <1>17 DEF Sound

(* The first user: nobody else opens, closes or looks for an entry.        *)
LEMMA InsertSound ==
  ASSUME RegistryTypes, Sound, Apart, RegistryTypes', NEW c \in Callers, Insert(c)
  PROVE  Sound'
<1>0. PICK n \in Names : dbName[c] = n
  BY DEF Insert, At, RegistryTypes
<1> USE <1>0
<1>1. /\ pc[c] = "insert" /\ n \notin Registered /\ n \in Names
      /\ hdb[c] \in Handles /\ live[hdb[c]] = n
  BY DEF Insert, At, RegistryTypes, Sound, Unrecorded, Held
<1>2. \A d \in Callers : /\ pc'[d] = IF d = c THEN "session" ELSE pc[d]
                         /\ hdb'[d] = hdb[d]
                         /\ d # c => opendb'[d] = opendb[d]
  BY DEF Insert, Opened, Goto, RegistryTypes, TypeOK
<1>3. UNCHANGED <<dbName, found, rounds, live, created, dbmutex>>
  BY DEF Insert, Opened, Put
<1>4. /\ allOpenedDB'[n].counter = 1 /\ allOpenedDB'[n].hdb = hdb[c]
      /\ \A m \in Names : m # n => allOpenedDB'[m] = allOpenedDB[m]
  <2>1. allOpenedDB' = [allOpenedDB EXCEPT ![n] = [hdb |-> hdb[c], counter |-> 1]]
    BY DEF Insert, Put
  <2> QED
    BY <1>1, <2>1 DEF RegistryTypes, TypeOK
<1>5. n \in Registered' /\ \A m \in Names : m # n => (m \in Registered' <=> m \in Registered)
  BY <1>1, <1>4 DEF Registered, NotOpened
<1>6. \A d \in Callers : pc[d] \in Serving => dbName[d] \in Names /\ dbName[d] # n
  BY <1>1, UserHasEntry DEF RegistryTypes, Serving
<1>7. \A d \in Callers : d # c => pc[d] \notin {"iterinit", "next", "check"}
  BY <1>1 DEF Apart, Iterating, Missed
<1>8. \A d \in Callers : d # c /\ pc[d] \in {"open", "insert", "close"} => dbName[d] # n
  BY <1>1 DEF Apart, Missed
<1>9. Begun'
  BY <1>1, <1>2, <1>3, <1>5 DEF Sound, Begun, First
<1>10. Locked'
  BY <1>1, <1>2, <1>3 DEF Sound, Locked
<1>11. Held'
  BY <1>1, <1>2, <1>3 DEF Sound, Held
<1>12. Recorded'
  BY <1>1, <1>2, <1>3, <1>4, <1>6 DEF Sound, Recorded, RegistryTypes, Serving
<1>13. Unrecorded'
  <2> SUFFICES ASSUME NEW d \in Callers, pc'[d] \in {"open", "insert", "close"}
               PROVE  dbName[d] \notin Registered'
    BY <1>3 DEF Unrecorded
  <2>1. d # c /\ pc[d] \in {"open", "insert", "close"}
    BY <1>2
  <2>2. dbName[d] # n /\ dbName[d] \notin Registered
    BY <2>1, <1>8 DEF Sound, Unrecorded
  <2> QED
    BY <2>2, <1>5 DEF Registered
<1>14. Counted'
  <2>1. allOpenedDB[n].counter = 0
    BY <1>1 DEF Registered, NotOpened
  <2>2. Users(n) = {}
    BY <1>1, <2>1, FewUsers, FS_EmptySet DEF Sound, Counted
  <2>3. Users(n)' = {c}
    BY <1>1, <1>2, <1>3, <2>2 DEF Users, Uses
  <2>4. \A m \in Names : m # n => Users(m)' = Users(m)
    BY <1>1, <1>2, <1>3 DEF Users, Uses
  <2>5. Cardinality(Users(n)') = 1
    BY <2>3, FS_Singleton
  <2> QED
    BY <1>4, <1>5, <2>4, <2>5 DEF Sound, Counted
<1>15. Copied'
  <2> SUFFICES ASSUME NEW d \in Callers, pc'[d] \in {"bump", "drop"}
               PROVE  /\ pc'[d] = "bump" => dbName[d] \in Registered'
                      /\ pc'[d] = "drop" => found[d] = dbName[d]
                      /\ opendb'[d] = allOpenedDB'[dbName[d]]
    BY <1>3 DEF Copied
  <2>1. d # c /\ pc'[d] = pc[d] /\ opendb'[d] = opendb[d]
    BY <1>2
  <2>2. dbName[d] \in Names /\ dbName[d] # n
    BY <2>1, <1>1, <1>6 DEF Sound, Copied, Serving, Registered
  <2> QED
    BY <2>1, <2>2, <1>4, <1>5 DEF Sound, Copied
<1>16. Closing'
  BY <1>2, <1>3 DEF Sound, Closing
<1>17. Searching'
  BY <1>2, <1>7 DEF Searching
<1>18. Owned'
  BY <1>1, <1>2, <1>3 DEF Sound, Owned, Serving
<1> QED
  BY <1>9, <1>10, <1>11, <1>12, <1>13, <1>14, <1>15, <1>16, <1>17, <1>18 DEF Sound

(* One user less; the last one takes the entry away and goes to tchdbclose. *)
LEMMA DropSound ==
  ASSUME RegistryTypes, Sound, Apart, RegistryTypes', NEW c \in Callers, Drop(c)
  PROVE  Sound'
<1> DEFINE last == opendb[c].counter <= 1
<1>0. PICK n \in Names : dbName[c] = n
  BY DEF Drop, At, RegistryTypes
<1> USE <1>0
<1>1. /\ pc[c] = "drop" /\ n \in Names /\ found[c] = n /\ opendb[c] = allOpenedDB[n] /\ dbmutex = c
      /\ hdb[c] \in Handles /\ live[hdb[c]] = n
  BY DEF Drop, At, RegistryTypes, Sound, Copied, Locked, Held, Serving
<1>2. n \in Registered /\ allOpenedDB[n].hdb = hdb[c] /\ allOpenedDB[n].counter \in Nat \ {0}
  BY <1>1, UserHasEntry, EntryIsOpen DEF Serving
<1>3. \/ last /\ Out(n) /\ Goto(c, "close") /\ UNCHANGED locals
      \/ ~last /\ Put(n, [opendb[c] EXCEPT !.counter = @ - 1]) /\ Closed(c)
  BY <1>1, <1>2 DEF Drop
<1>4. /\ \A d \in Callers : d # c => /\ pc'[d] = pc[d] /\ dbName'[d] = dbName[d] /\ hdb'[d] = hdb[d]
                                     /\ opendb'[d] = opendb[d] /\ found'[d] = found[d]
                                     /\ rounds'[d] = rounds[d]
      /\ last => pc'[c] = "close" /\ dbName'[c] = n /\ hdb'[c] = hdb[c]
      /\ ~last => pc'[c] = "idle"
  BY <1>3 DEF Closed, Goto, RegistryTypes, TypeOK
<1>5. live' = live /\ created' = created /\ dbmutex' = None
  BY <1>3 DEF Drop, Put, Out
<1>6. /\ last => allOpenedDB'[n] = NotOpened
      /\ ~last => /\ allOpenedDB'[n].counter = allOpenedDB[n].counter - 1
                  /\ allOpenedDB'[n].hdb = hdb[c]
      /\ \A m \in Names : m # n => allOpenedDB'[m] = allOpenedDB[m]
  <2>1. CASE last
    BY <1>1, <1>3, <2>1 DEF Out, RegistryTypes, TypeOK
  <2>2. CASE ~last
    <3>1. allOpenedDB' = [allOpenedDB EXCEPT ![n] = [opendb[c] EXCEPT !.counter = @ - 1]]
      BY <1>3, <2>2 DEF Put
    <3>2. opendb[c] \in Entries
      BY DEF RegistryTypes, TypeOK
    <3> QED
      BY <1>1, <1>2, <2>2, <3>1, <3>2 DEF RegistryTypes, TypeOK, Entries
  <2> QED
    BY <2>1, <2>2
<1>7. /\ last => n \notin Registered'
      /\ ~last => n \in Registered'
      /\ \A m \in Names : m # n => (m \in Registered' <=> m \in Registered)
  <2>1. hdb[c] # None
    BY <1>1, RegistryAssumption
  <2> QED
    BY <1>1, <1>6, <2>1 DEF Registered, NotOpened
<1>8. iter' \subseteq iter /\ (~last => iter' = iter) /\ (last => iter' = iter \ {n})
  BY <1>2, <1>3 DEF Put, Out
<1>9. Users(n)' = Users(n) \ {c} /\ c \in Users(n)
  BY <1>1, <1>4 DEF Users, Uses
<1>10. Cardinality(Users(n)') = allOpenedDB[n].counter - 1
  <2>1. Cardinality(Users(n)) = allOpenedDB[n].counter
    BY <1>1 DEF Sound, Counted
  <2> QED
    BY <1>9, <2>1, FewUsers, FS_RemoveElement
<1>11. last => \A d \in Callers : d # c /\ pc[d] \in Serving => dbName[d] # n
  <2>1. last => Users(n)' = {}
    <3>1. IsFiniteSet(Users(n)')
      BY <1>9, FewUsers, FS_RemoveElement
    <3>2. last => allOpenedDB[n].counter = 1
      BY <1>1, <1>2
    <3> QED
      BY <1>10, <3>1, <3>2, FS_EmptySet
  <2> QED
    BY <1>9, <2>1 DEF Users, Uses, Serving
<1>12. Begun'
  BY <1>1, <1>4, <1>5, <1>7 DEF Sound, Begun, First
<1>13. Locked'
  BY <1>1, <1>4, <1>5, RegistryAssumption DEF Sound, Locked
<1>14. Held'
  BY <1>1, <1>4, <1>5 DEF Sound, Held, Serving
<1>15. Recorded'
  <2> SUFFICES ASSUME NEW d \in Callers, pc'[d] \in Serving
               PROVE  allOpenedDB'[dbName'[d]].hdb = hdb'[d]
    BY DEF Recorded
  <2>1. d # c
    BY <1>4 DEF Serving
  <2>2. pc[d] \in Serving /\ dbName'[d] = dbName[d] /\ hdb'[d] = hdb[d] /\ dbName[d] \in Names
    BY <2>1, <1>4 DEF RegistryTypes, Serving
  <2>3. allOpenedDB[dbName[d]].hdb = hdb[d]
    BY <2>2, UserHasEntry
  <2> QED
    BY <2>1, <2>2, <2>3, <1>2, <1>6, <1>11
<1>16. Unrecorded'
  <2> SUFFICES ASSUME NEW d \in Callers, pc'[d] \in {"open", "insert", "close"}
               PROVE  dbName'[d] \notin Registered'
    BY DEF Unrecorded
  <2>1. CASE d = c
    BY <2>1, <1>4, <1>7
  <2>2. CASE d # c
    <3>1. dbName'[d] = dbName[d] /\ dbName[d] \notin Registered
      BY <2>2, <1>4 DEF Sound, Unrecorded
    <3> QED
      BY <3>1, <1>2, <1>7 DEF Registered
  <2> QED
    BY <2>1, <2>2
<1>17. Counted'
  <2>1. \A m \in Names : m # n => Users(m)' = Users(m)
    BY <1>1, <1>4 DEF Users, Uses
  <2>2. allOpenedDB'[n].counter = allOpenedDB[n].counter - 1
    BY <1>1, <1>2, <1>6 DEF NotOpened
  <2>3. \A m \in Names : allOpenedDB'[m].counter = Cardinality(Users(m)')
    BY <2>1, <2>2, <1>6, <1>10 DEF Sound, Counted
  <2>4. \A m \in Names : allOpenedDB'[m].counter = 0 => m \notin Registered'
    BY <2>2, <1>1, <1>2, <1>6, <1>7 DEF Sound, Counted
  <2> QED
    BY <2>3, <2>4 DEF Counted
<1>18. Copied'
  <2>1. \A d \in Callers : pc'[d] \notin {"bump", "drop"}
    BY <1>1, <1>4 DEF Sound, Locked
  <2> QED
    BY <2>1 DEF Copied
<1>19. Closing'
  <2>1. \A d \in Callers : pc[d] = "close" => dbName[d] # n
    BY <1>2 DEF Sound, Unrecorded
  <2> QED
    BY <2>1, <1>4 DEF Sound, Closing
<1>20. Searching'
  <2> SUFFICES ASSUME NEW d \in Callers, pc'[d] \in {"iterinit", "next", "check"}
               PROVE  /\ pc'[d] = "iterinit" => Cardinality(Registered') <= rounds'[d]
                      /\ pc'[d] \in {"next", "check"} => Cardinality(iter') <= rounds'[d]
                      /\ pc'[d] = "next" => dbName'[d] \in iter'
                      /\ pc'[d] = "check" => found'[d] = dbName'[d] \/ dbName'[d] \in iter'
    BY DEF Searching
  <2>1. d # c /\ pc[d] = pc'[d]
    BY <1>4
  <2>2. dbName'[d] = dbName[d] /\ found'[d] = found[d] /\ rounds'[d] = rounds[d]
    BY <2>1, <1>4
  <2>3. rounds[d] \in Nat
    <3>1. rounds[d] \in 0 .. Cardinality(Names)
      BY DEF RegistryTypes, TypeOK
    <3> QED
      BY <3>1
  <2>4. /\ Cardinality(Registered') <= Cardinality(Registered)
        /\ Cardinality(Registered') \in Nat /\ Cardinality(Registered) \in Nat
    <3>1. Registered \subseteq Names /\ Registered' \subseteq Registered
      BY <1>2, <1>7 DEF Registered
    <3> QED
      BY <3>1, SizeGrows
  <2>5. /\ Cardinality(iter') <= Cardinality(iter)
        /\ Cardinality(iter') \in Nat /\ Cardinality(iter) \in Nat
    BY <1>8, SizeGrows DEF RegistryTypes, TypeOK
  <2>6. dbName[d] \in iter => dbName[d] \in iter'
    BY <2>1, <1>8, <1>11 DEF Serving
  <2> QED
    BY <2>1, <2>2, <2>3, <2>4, <2>5, <2>6 DEF Sound, Searching
<1>21. Owned'
  <2> SUFFICES ASSUME NEW h \in Handles, live[h] # None
               PROVE  \E d \in Callers : hdb'[d] = h /\ pc'[d] \in Serving \cup {"insert", "close"}
    BY <1>5 DEF Sound, Owned
  <2>1. PICK d \in Callers : hdb[d] = h /\ pc[d] \in Serving \cup {"insert", "close"}
    BY DEF Sound, Owned
  <2>2. CASE d # c
    BY <2>1, <2>2, <1>4
  <2>3. CASE d = c /\ last
    BY <2>1, <2>3, <1>4
  <2>4. CASE d = c /\ ~last
    <3>1. PICK e \in Users(n)' : TRUE
      <4>1. Cardinality(Users(n)') # 0
        BY <2>4, <1>1, <1>2, <1>10
      <4> QED
        BY <4>1, FS_EmptySet
    <3>2. e \in Callers /\ e # c /\ pc[e] \in Serving /\ dbName[e] = n
      BY <3>1, <1>9 DEF Users, Uses, Serving
    <3>3. hdb[e] = h
      BY <2>1, <2>4, <3>2, <1>2, UserHasEntry
    <3> QED
      BY <3>2, <3>3, <1>4
  <2> QED
    BY <2>2, <2>3, <2>4
<1> QED
  BY <1>12, <1>13, <1>14, <1>15, <1>16, <1>17, <1>18, <1>19, <1>20, <1>21 DEF Sound

(***************************************************************************)
(* The theorems.                                                           *)
(***************************************************************************)

(* The inductive invariant.                                                *)
RegistryInv ==
  /\ RegistryTypes
  /\ safe => Apart
  /\ safe /\ alive => Sound

LEMMA StepSound ==
  ASSUME RegistryInv, RegistryTypes', NEW c \in Callers, Step(c)
  PROVE  RegistryInv'
<1>1. safe' => safe /\ Apart /\ Apart'
  <2>1. ~Overlap' => Apart'
    BY DEF Overlap, Apart
  <2> QED
    BY <2>1 DEF Step, RegistryInv
<1>2. alive' => alive
  BY DEF Step, Create, Start, NewTable, InitMutex, Lookup, Bump, Open, Insert,
         Sum, IterInit, IterNext, Check, Drop, Close, At
<1>3. ASSUME safe', alive' PROVE Sound'
  <2>1. RegistryTypes /\ Sound /\ Apart /\ Apart'
    BY <1>1, <1>2, <1>3 DEF RegistryInv
  <2> QED
    BY <1>3, <2>1, CreateSound, StartSound, NewTableSound, InitMutexSound, LookupSound,
       BumpSound, OpenSound, InsertSound, SumSound, IterInitSound, IterNextSound,
       CheckSound, DropSound, CloseSound DEF Step
<1> QED
  BY <1>1, <1>3 DEF RegistryInv

LEMMA InitSound == Init => RegistryInv
<1> SUFFICES ASSUME Init PROVE RegistryInv
  OBVIOUS
<1>1. RegistryTypes
  BY InitTypes
<1>2. \A c \in Callers : pc[c] = "idle"
  BY DEF Init
<1>3. \A n \in Names : n \notin Registered /\ allOpenedDB[n].counter = 0 /\ Users(n) = {}
  BY <1>2 DEF Init, Registered, NotOpened, Users, Uses
<1>4. Begun /\ Held /\ Recorded /\ Unrecorded /\ Copied /\ Closing /\ Searching
  BY <1>2 DEF Begun, Held, Recorded, Unrecorded, Copied, Closing, Searching, First, Serving
<1>5. Locked
  BY <1>2, RegistryAssumption DEF Locked, Init
<1>6. Counted
  BY <1>3, FS_EmptySet DEF Counted
<1>7. Owned
  BY DEF Owned, Init
<1>8. Apart
  BY <1>2 DEF Apart, First, Missed, Iterating
<1> QED
  BY <1>1, <1>4, <1>5, <1>6, <1>7, <1>8 DEF RegistryInv, Sound

LEMMA RegistryInvariant == Spec => []RegistryInv
<1>1. RegistryInv /\ [Next]_vars => RegistryInv'
  <2> SUFFICES ASSUME RegistryInv, [Next]_vars PROVE RegistryInv'
    OBVIOUS
  <2>0. RegistryTypes'
    BY NextTypes DEF RegistryInv
  <2>1. CASE UNCHANGED vars
    <3> USE <2>1
    <3>1. Begun' <=> Begun
      BY DEF Begun, First, Registered
    <3>2. Locked' <=> Locked
      BY DEF Locked
    <3>3. (Held' <=> Held) /\ (Recorded' <=> Recorded) /\ (Closing' <=> Closing)
      BY DEF Held, Recorded, Closing
    <3>4. (Unrecorded' <=> Unrecorded) /\ (Copied' <=> Copied)
      BY DEF Unrecorded, Copied, Registered
    <3>5. Counted' <=> Counted
      BY DEF Counted, Registered, Users, Uses
    <3>6. Searching' <=> Searching
      BY DEF Searching, Registered
    <3>7. Owned' <=> Owned
      BY DEF Owned
    <3>8. Apart' <=> Apart
      BY DEF Apart, First, InCall, Missed, Iterating
    <3>9. safe' = safe /\ alive' = alive
      OBVIOUS
    <3> QED
      BY <2>0, <3>1, <3>2, <3>3, <3>4, <3>5, <3>6, <3>7, <3>8, <3>9 DEF RegistryInv, Sound
  <2>2. ASSUME NEW c \in Callers, Step(c) PROVE RegistryInv'
    BY <2>0, <2>2, StepSound
  <2> QED
    BY <2>1, <2>2 DEF Next, Ended
<1> QED
  BY <1>1, InitSound, PTL DEF Spec

(* While no calls have met that must not meet, a user's handle is open on  *)
(* the file it asked for (CreateDB, CloseDB).                              *)
THEOREM HandlesAreServed == Spec => []HandlesServed
<1>1. RegistryInv => HandlesServed
  BY DEF RegistryInv, Sound, Held, HandlesServed, Uses, Serving
<1> QED
  BY <1>1, RegistryInvariant, PTL

(* While no calls have met that must not meet, the counter of each entry   *)
(* is the number of users of its file, who all have its handle.            *)
THEOREM CountersAreExact == Spec => []CountersExact
<1>1. RegistryInv => CountersExact
  <2> SUFFICES ASSUME RegistryInv, safe, alive, NEW n \in Names
               PROVE  /\ allOpenedDB[n].counter = Cardinality({c \in Callers : Uses(c, n)})
                      /\ \A c \in Callers : Uses(c, n) => allOpenedDB[n].hdb = hdb[c]
    BY DEF CountersExact
  <2>1. allOpenedDB[n].counter = Cardinality({c \in Callers : Uses(c, n)})
    BY DEF RegistryInv, Sound, Counted, Users
  <2>2. \A c \in Callers : Uses(c, n) => allOpenedDB[n].hdb = hdb[c]
    BY DEF RegistryInv, Sound, Recorded, Uses, Serving
  <2> QED
    BY <2>1, <2>2
<1> QED
  BY <1>1, RegistryInvariant, PTL

(* While no calls have met that must not meet, a file is open at most once *)
(* and only for somebody: CloseDB of the last user closes it.              *)
THEOREM NothingIsLeftOpen == Spec => []NothingLeftOpen
<1>1. RegistryInv => NothingLeftOpen
  <2> SUFFICES ASSUME RegistryInv, safe, alive, NEW h \in Handles, live[h] # None
               PROVE  /\ \A g \in Handles \ {h} : live[g] # live[h]
                      /\ \E c \in Callers :
                           hdb[c] = h /\ (Uses(c, live[h]) \/ pc[c] \in {"insert", "close"})
    BY DEF NothingLeftOpen
  <2>1. Owned /\ Held
    BY DEF RegistryInv, Sound
  <2>2. PICK c \in Callers : hdb[c] = h /\ pc[c] \in Serving \cup {"insert", "close"}
    BY <2>1 DEF Owned
  <2>3. live[h] = dbName[c]
    BY <2>1, <2>2 DEF Held
  <2>4. Uses(c, live[h]) \/ pc[c] \in {"insert", "close"}
    BY <2>2, <2>3 DEF Uses, Serving
  <2> QED
    BY <2>1, <2>2, <2>4 DEF Owned
<1> QED
  BY <1>1, RegistryInvariant, PTL
=============================================================================
