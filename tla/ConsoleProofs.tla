---------------------------- MODULE ConsoleProofs ---------------------------
(* Proofs about Console, for every value of its constants. *)
EXTENDS Console, ProtocolProofs

USE DEF vars, console

(***************************************************************************)
(* Which branch of ExecCmd a line takes.                                   *)
(***************************************************************************)

LEMMA BranchNames ==
  /\ DOMAIN Branches = 1 .. 9
  /\ Branches[1] = "help" /\ Branches[2] = "open" /\ Branches[3] = "no database"
  BY DEF Branches

(* At most one. *)
LEMMA OneBranch ==
  ASSUME NEW l, NEW b, NEW c, Takes(l, b), Takes(l, c)
  PROVE  b = c
<1>1. PICK i \in DOMAIN Branches : /\ Branches[i] = b /\ Matches(l, b)
                                   /\ \A j \in 1 .. i - 1 : ~Matches(l, Branches[j])
  BY Zenon DEF Takes
<1>2. PICK k \in DOMAIN Branches : /\ Branches[k] = c /\ Matches(l, c)
                                   /\ \A j \in 1 .. k - 1 : ~Matches(l, Branches[j])
  BY Zenon DEF Takes
<1>3. i \in 1 .. 9 /\ k \in 1 .. 9
  BY BranchNames
<1>4. i \notin 1 .. k - 1 /\ k \notin 1 .. i - 1
  BY <1>1, <1>2, Zenon
<1>5. i = k
  BY <1>3, <1>4
<1> QED
  BY <1>1, <1>2, <1>5

LEMMA MatchesMeans ==
  ASSUME NEW l
  PROVE  /\ \A b \in {"set", "get", "del"} : Matches(l, b) => HasWithKey(l, b)
         /\ \A b \in {"open", "close"} : Matches(l, b) => Has(l, b)
         /\ Matches(l, "no database") <=>
              db = None /\ \E v \in {"set", "get", "del", "close"} : Has(l, v)
  BY DEF Matches

(* The branches behind the test of db need a database, and set, get and    *)
(* del a key.                                                              *)
LEMMA TakesMeans ==
  ASSUME NEW l
  PROVE  /\ Takes(l, "open") => Has(l, "open")
         /\ Takes(l, "close") => db # None
         /\ \A b \in {"set", "get", "del"} : Takes(l, b) => db # None /\ l.key # None
<1>1. \A b \in {"close", "set", "get", "del"} : Takes(l, b) => ~Matches(l, "no database")
  <2> SUFFICES ASSUME NEW b \in {"close", "set", "get", "del"}, Takes(l, b)
               PROVE  ~Matches(l, "no database")
    OBVIOUS
  <2>1. PICK i \in DOMAIN Branches : /\ Branches[i] = b
                                     /\ \A j \in 1 .. i - 1 : ~Matches(l, Branches[j])
    BY Zenon DEF Takes
  <2>2. i \in 1 .. 9 /\ i # 1 /\ i # 2 /\ i # 3
    BY <2>1, BranchNames
  <2>3. 3 \in 1 .. i - 1
    BY <2>2
  <2> QED
    BY <2>1, <2>3, BranchNames, Zenon
<1>2. \A b : Takes(l, b) => Matches(l, b)
  BY DEF Takes
<1> QED
  BY <1>1, <1>2, MatchesMeans DEF HasWithKey

(***************************************************************************)
(* Types.                                                                  *)
(***************************************************************************)

Alphabet ==
  {Blank} \cup UNION {{w[i] : i \in DOMAIN w} : w \in Words \cup (OldRecords \ {None})}

IsLine(l) ==
  /\ l \in [verb : Verbs, file : Files \cup {None}, key : Keys \cup {None},
            word : Seq(Alphabet)]
  /\ l.verb = "open" => l.file \in Files
  /\ l.word # <<>> => l.key \in Keys
  /\ l.key # None => l.verb \in {"set", "get", "del"}

LEMMA TypedLines == \A l \in Lines : IsLine(l)
<1>1. \A w \in Words : w \in Seq(Alphabet)
  <2> SUFFICES ASSUME NEW w \in Words PROVE w \in Seq(Alphabet)
    OBVIOUS
  <2>1. w \in Seq({w[i] : i \in DOMAIN w})
    BY ConsoleAssumption
  <2>2. {w[i] : i \in DOMAIN w} \subseteq Alphabet
    BY DEF Alphabet
  <2> QED
    BY <2>1, <2>2, SeqMonotonic
<1>2. <<>> \in Seq(Alphabet)
  BY EmptySeq
<1>3. \A v \in {"help", "close", "exit", "other"} : IsLine(Bare(v))
  BY <1>2 DEF Bare, Line, IsLine, Verbs
<1>4. \A f \in Files : IsLine(Line("open", f, None, <<>>))
  BY <1>2 DEF Line, IsLine, Verbs
<1>5. \A v \in {"get", "del"}, k \in Keys : IsLine(Line(v, None, k, <<>>))
  BY <1>2 DEF Line, IsLine, Verbs
<1>6. \A k \in Keys, w \in Words : IsLine(Line("set", None, k, w))
  BY <1>1 DEF Line, IsLine, Verbs
<1> QED
  <2> SUFFICES ASSUME NEW l \in Lines PROVE IsLine(l)
    OBVIOUS
  <2>1. \/ \E v \in {"help", "close", "exit", "other"} : l = Bare(v)
        \/ \E f \in Files : l = Line("open", f, None, <<>>)
        \/ \E v \in {"get", "del"}, k \in Keys : l = Line(v, None, k, <<>>)
        \/ \E k \in Keys, w \in Words : l = Line("set", None, k, w)
    BY DEF Lines
  <2> QED
    BY <1>3, <1>4, <1>5, <1>6, <2>1, Zenon

LEMMA RemainsAreLines ==
  ASSUME NEW l, IsLine(l), NEW r \in Remains(l)
  PROVE  IsLine(r)
<1>1. CASE l.word # <<>>
  <2> DEFINE w == SubSeq(l.word, 1, Len(l.word) - 1)
  <2>1. l.word \in Seq(Alphabet) /\ Len(l.word) \in Nat
    BY LenProperties DEF IsLine
  <2>2. \A i \in 1 .. Len(l.word) - 1 : l.word[i] \in Alphabet
    BY <2>1, ElementOfSeq
  <2>3. w \in Seq(Alphabet)
    BY <2>1, <2>2, SubSeqProperties
  <2> HIDE DEF w
  <2>4. r = [l EXCEPT !.word = w]
    BY <1>1 DEF Remains, w
  <2> QED
    BY <1>1, <2>3, <2>4 DEF IsLine
<1>2. CASE l.word = <<>> /\ l.key # None /\ l.key >= 10
  <2>1. l.key \in Keys /\ l.key \div 10 \in Keys
    BY <1>2, ConsoleAssumption DEF IsLine
  <2>2. r = [l EXCEPT !.key = l.key \div 10]
    BY <1>2 DEF Remains
  <2> QED
    BY <1>2, <2>1, <2>2 DEF IsLine
<1>3. CASE l.word = <<>> /\ ~(l.key # None /\ l.key >= 10)
  <2>1. <<>> \in Seq(Alphabet)
    BY EmptySeq
  <2>2. r = Bare("other") \/ r = l \/ (l.key # None /\ r = Bare(l.verb))
    BY <1>3 DEF Remains
  <2>3. IsLine(Bare("other"))
    BY <2>1 DEF Bare, Line, IsLine, Verbs
  <2>4. l.key # None => IsLine(Bare(l.verb))
    BY <2>1 DEF Bare, Line, IsLine
  <2> QED
    BY <2>2, <2>3, <2>4
<1> QED
  BY <1>1, <1>2, <1>3

(* The name that an open takes is the name of a file. *)
LEMMA OpensFile ==
  ASSUME NEW l, IsLine(l), Takes(l, "open")
  PROVE  SecondWord(l) \in Files
<1>1. Has(l, "open")
  BY TakesMeans
<1>2. CASE l.verb = "open"
  BY <1>2 DEF IsLine, SecondWord
<1>3. CASE l.verb # "open"
  <2>1. l.word # <<>>
    BY <1>1, <1>3, ConsoleAssumption DEF Has
  <2>2. l.key \in Keys
    BY <2>1 DEF IsLine
  <2> QED
    BY <1>3, <2>2, ConsoleAssumption DEF SecondWord
<1> QED
  BY <1>2, <1>3

(* A line of the user, or what is left of the last one. *)
LEMMA NextLine ==
  ASSUME IsLine(cmdbuf), Next
  PROVE  \E l : IsLine(l) /\ GetCmd(l) /\ ExecCmd(l)
  BY TypedLines, RemainsAreLines DEF Next

ConsoleTypes == TypeOK /\ IsLine(cmdbuf)

(* What CreateDB and CloseDB do to the handles. *)
LEMMA CreateDBTypes ==
  ASSUME TypeOK, NEW f \in Files, CreateDB(f)
  PROVE  /\ alive' \in BOOLEAN /\ db' \in Handles \cup {None}
         /\ live' \in [Handles -> Files \cup {None}]
  BY DEF TypeOK, CreateDB

LEMMA CloseDBTypes ==
  ASSUME TypeOK, CloseDB
  PROVE  alive' \in BOOLEAN /\ live' \in [Handles -> Files \cup {None}]
  BY DEF TypeOK, CloseDB, UseFreed, BrokenPipe

HasRecords(r) == DOMAIN r = Files /\ \A f \in Files : DOMAIN r[f] = Keys

LEMMA RecordTypes ==
  ASSUME NEW r, HasRecords(r), NEW f, NEW k, NEW v
  PROVE  HasRecords([r EXCEPT ![f][k] = v])
  BY DEF HasRecords

LEMMA CertainTypes == \A r : HasRecords(Certain(r))
  BY DEF HasRecords, Certain

LEMMA BranchTypes ==
  ASSUME ConsoleTypes, NEW l, IsLine(l), ExecCmd(l)
  PROVE  /\ alive' \in BOOLEAN
         /\ dbname' \in Files \cup {None} /\ db' \in Handles \cup {None}
         /\ live' \in [Handles -> Files \cup {None}]
         /\ HasRecords(records')
<1> USE DEF ConsoleTypes
<1>1. HasRecords(records)
  BY DEF TypeOK, HasRecords
<1>2. CASE Guide(l) \/ OpenTwice(l) \/ NoDatabase(l) \/ Unknown(l)
  BY <1>1, <1>2 DEF TypeOK, Guide, OpenTwice, NoDatabase, Unknown
<1>3. CASE Open(l)
  BY <1>1, <1>3, OpensFile, CreateDBTypes DEF TypeOK, Open
<1>4. CASE Close(l)
  BY <1>1, <1>4, CloseDBTypes DEF TypeOK, Close
<1>5. CASE Exit(l)
  BY <1>1, <1>5, CloseDBTypes DEF TypeOK, Exit
<1>6. CASE Set(l)
  <2>1. HasRecords(records')
    <3>1. \/ UNCHANGED records
          \/ \E v : records' = [records EXCEPT ![File][l.key] = v]
      BY <1>6, Zenon DEF Set, Failed, Killed
    <3>2. \A v : HasRecords([records EXCEPT ![File][l.key] = v])
      BY <1>1, RecordTypes, Zenon
    <3> QED
      BY <1>1, <3>1, <3>2, Zenon
  <2> QED
    BY <1>6, <2>1 DEF TypeOK, Set, UseFreed, Killed, BrokenPipe
<1>7. CASE Get(l)
  <2>1. HasRecords(records')
    BY <1>1, <1>7 DEF Get, Failed, Killed
  <2> QED
    BY <1>7, <2>1 DEF TypeOK, Get, UseFreed, Killed, BrokenPipe
<1>8. CASE Del(l)
  <2>1. HasRecords(records')
    <3>1. \/ UNCHANGED records
          \/ \E v : records' = [records EXCEPT ![File][l.key] = v]
      BY <1>8, Zenon DEF Del, Failed, Killed
    <3>2. \A v : HasRecords([records EXCEPT ![File][l.key] = v])
      BY <1>1, RecordTypes, Zenon
    <3> QED
      BY <1>1, <3>1, <3>2, Zenon
  <2> QED
    BY <1>8, <2>1 DEF TypeOK, Del, UseFreed, Killed, BrokenPipe
<1>9. CASE SetFails(l) \/ DelFails(l)
  <2>1. HasRecords(records')
    BY <1>1, <1>9, RecordTypes DEF SetFails, DelFails
  <2> QED
    BY <1>9, <2>1 DEF TypeOK, SetFails, DelFails
<1> QED
  BY <1>2, <1>3, <1>4, <1>5, <1>6, <1>7, <1>8, <1>9 DEF ExecCmd

(* The variables of the console keep their types. *)
THEOREM TypeCorrect == Spec => [](TypeOK /\ IsLine(cmdbuf))
<1>1. Init => ConsoleTypes
  <2> SUFFICES ASSUME Init PROVE ConsoleTypes
    OBVIOUS
  <2>1. <<>> \in Seq(Alphabet)
    BY EmptySeq
  <2>2. IsLine(cmdbuf)
    BY <2>1 DEF Init, Bare, Line, IsLine, Verbs
  <2>3. \A f \in Files : DOMAIN records[f] = Keys
    BY DEF Init
  <2>4. told = Certain(records) /\ HasRecords(Certain(records))
    BY CertainTypes DEF Init
  <2>5. 0 \in 0 .. MaxFaults
    BY ConsoleAssumption
  <2> QED
    BY <2>2, <2>3, <2>4, <2>5
    DEF Init, TypeOK, Bare, Line, Verbs, ConsoleTypes, HasRecords
<1>2. ConsoleTypes /\ [Next]_vars => ConsoleTypes'
  <2> SUFFICES ASSUME ConsoleTypes, [Next]_vars PROVE ConsoleTypes'
    OBVIOUS
  <2>1. CASE UNCHANGED vars
    BY <2>1 DEF ConsoleTypes, TypeOK
  <2>2. CASE Next
    <3>1. PICK l : IsLine(l) /\ GetCmd(l) /\ ExecCmd(l)
      BY <2>2, NextLine DEF ConsoleTypes
    <3>2. /\ cmdbuf' = l /\ UNCHANGED <<build, servers>>
          /\ eof' \in BOOLEAN /\ plain' \in BOOLEAN
      BY <3>1 DEF ExecCmd, GetCmd, ConsoleTypes, TypeOK
    <3>3. /\ alive' \in BOOLEAN
          /\ dbname' \in Files \cup {None} /\ db' \in Handles \cup {None}
          /\ live' \in [Handles -> Files \cup {None}]
          /\ HasRecords(records')
      BY <3>1, BranchTypes
    <3>4. HasRecords(told')
      <4>1. HasRecords(told)
        BY DEF ConsoleTypes, TypeOK, HasRecords
      <4>2. \/ told' = Certain(records') \/ told' = told
            \/ \E v : told' = [told EXCEPT ![dbname][l.key] = v]
        BY <3>1, Zenon DEF ExecCmd, Told
      <4>3. \A v : HasRecords([told EXCEPT ![dbname][l.key] = v])
        BY <4>1, RecordTypes, Zenon
      <4> QED
        BY <4>1, <4>2, <4>3, CertainTypes, Zenon
    <3>6. faults' \in 0 .. MaxFaults
      BY <3>1, ConsoleAssumption DEF ExecCmd, ConsoleTypes, TypeOK
    <3>5. l.verb \in Verbs
      BY <3>1 DEF IsLine
    <3> QED
      BY <3>1, <3>2, <3>3, <3>4, <3>5, <3>6 DEF ConsoleTypes, TypeOK, HasRecords
  <2> QED
    BY <2>1, <2>2
<1> QED
  BY <1>1, <1>2, PTL DEF Spec, ConsoleTypes

(***************************************************************************)
(* The prompt, the handle and the database.                                *)
(***************************************************************************)

LEMMA BranchPrompt ==
  ASSUME ConsoleTypes, OpenAsPrompted, NEW l, IsLine(l), ExecCmd(l)
  PROVE  OpenAsPrompted'
<1> USE DEF OpenAsPrompted
<1>1. alive /\ Remote' = Remote
  BY DEF ExecCmd, Remote
<1>2. CASE UNCHANGED console
  BY <1>1, <1>2
<1>3. CASE Open(l)
  <2>1. SecondWord(l) \in Files /\ None \notin Files /\ None \notin Handles
    BY <1>3, OpensFile, ConsoleAssumption DEF Open
  <2>2. dbname = None /\ dbname' = SecondWord(l)
    BY <1>3 DEF Open
  <2>3. \A h \in Handles : live[h] = None
    BY <1>1, <2>2
  <2>4. CASE \E h \in Handles : db' = h /\ live' = [live EXCEPT ![h] = SecondWord(l)]
    <3>1. PICK h \in Handles : db' = h /\ live' = [live EXCEPT ![h] = SecondWord(l)]
      BY <2>4
    <3>2. /\ live'[h] = SecondWord(l)
          /\ \A g \in Handles : g # h => live'[g] = None
      BY <2>3, <3>1 DEF ConsoleTypes, TypeOK
    <3> QED
      BY <2>1, <2>2, <3>1, <3>2
  <2>5. CASE Remote /\ db' = None /\ UNCHANGED live
    BY <1>1, <2>2, <2>3, <2>5
  <2>6. CASE alive' = FALSE
    BY <2>6
  <2> QED
    BY <1>3, <2>4, <2>5, <2>6 DEF Open, CreateDB
<1>4. ASSUME CloseDB, db # None, alive'
      PROVE  \A h \in Handles : live'[h] = None
  <2>1. \A h \in Handles : h # db => live[h] = None
    BY <1>1
  <2>2. CASE live' = [live EXCEPT ![db] = None]
    BY <2>1, <2>2 DEF ConsoleTypes, TypeOK
  <2>3. CASE Stale /\ UNCHANGED live
    BY <2>1, <2>3 DEF Stale
  <2> QED
    BY <1>4, <2>2, <2>3 DEF CloseDB, BrokenPipe
<1>5. CASE Close(l)
  BY <1>4, <1>5, TakesMeans DEF Close
<1>6. CASE Exit(l)
  BY <1>1, <1>4, <1>6 DEF Exit
<1> QED
  BY <1>2, <1>3, <1>5, <1>6
  DEF ExecCmd, Guide, OpenTwice, NoDatabase, Set, Get, Del, SetFails, DelFails, Unknown

(* The prompt shows what is open: at most one handle, the console's, on    *)
(* the file in the prompt; only vampireclient can have a name and no       *)
(* handle.                                                                 *)
THEOREM PromptIsTrue == Spec => []OpenAsPrompted
<1>1. Init => OpenAsPrompted
  BY DEF Init, OpenAsPrompted
<1>2. ConsoleTypes /\ OpenAsPrompted /\ [Next]_vars => OpenAsPrompted'
  <2> SUFFICES ASSUME ConsoleTypes, OpenAsPrompted, [Next]_vars PROVE OpenAsPrompted'
    OBVIOUS
  <2>1. CASE UNCHANGED vars
    BY <2>1 DEF OpenAsPrompted, Remote
  <2>2. CASE Next
    BY <2>2, NextLine, BranchPrompt DEF ConsoleTypes
  <2> QED
    BY <2>1, <2>2
<1> QED
  BY <1>1, <1>2, TypeCorrect, PTL DEF Spec, ConsoleTypes

(* After a failed open of vampireclient no line leads back to a database:  *)
(* open asks to close first, and close to open first.                      *)
THEOREM StuckStays == Spec => StuckForGood
<1>1. [Next]_vars => (Stuck => Stuck')
  <2> SUFFICES ASSUME [Next]_vars, Stuck PROVE Stuck'
    OBVIOUS
  <2>1. CASE UNCHANGED vars
    BY <2>1 DEF Stuck
  <2>2. CASE Next
    <3>1. PICK l : ExecCmd(l)
      BY <2>2 DEF Next
    <3>2. /\ ~Takes(l, "close")
          /\ \A b \in {"set", "get", "del"} : ~Takes(l, b)
      BY TakesMeans DEF Stuck
    <3>3. Guide(l) \/ OpenTwice(l) \/ NoDatabase(l) \/ Exit(l) \/ Unknown(l)
      BY <3>1, <3>2 DEF Stuck, ExecCmd, Open, Close, Set, Get, Del, SetFails, DelFails
    <3> QED
      BY <3>3 DEF Stuck, Guide, OpenTwice, NoDatabase, Exit, Unknown
  <2> QED
    BY <2>1, <2>2
<1> QED
  BY <1>1, PTL DEF Spec, StuckForGood

(***************************************************************************)
(* The records.                                                            *)
(***************************************************************************)

LEMMA ValueFacts ==
  ASSUME NEW l, IsLine(l)
  PROVE  ValueOf(l) \in Seq(Alphabet)
<1>1. l.word \in Seq(Alphabet)
  BY DEF IsLine
<1>2. <<Blank>> \in Seq(Alphabet)
  <2>1. Blank \in Alphabet
    BY DEF Alphabet
  <2> QED
    BY <2>1
<1>3. <<Blank>> \o l.word \in Seq(Alphabet)
  BY <1>1, <1>2, ConcatProperties, Zenon
<1> QED
  BY <1>1, <1>3, Zenon DEF ValueOf

LEMMA CharsOf ==
  ASSUME NEW A, NEW v \in Seq(A)
  PROVE  /\ Chars(v) \in Seq({Char(c) : c \in A})
         /\ Len(Chars(v)) = Len(v) /\ Len(v) \in Nat
         /\ Text(Chars(v)) = v
<1>1. /\ Len(v) \in Nat /\ DOMAIN v = 1 .. Len(v)
      /\ v \in [1 .. Len(v) -> A]
  BY LenProperties
<1>2. Chars(v) \in [1 .. Len(v) -> {Char(c) : c \in A}]
  BY <1>1 DEF Chars
<1>3. Chars(v) \in Seq({Char(c) : c \in A})
  BY <1>1, <1>2, SeqDef
<1>4. Len(Chars(v)) = Len(v)
  BY <1>1, <1>2, <1>3, LenProperties
<1>5. Text(Chars(v)) = [i \in 1 .. Len(v) |-> v[i]]
  BY <1>1 DEF Text, Chars, Char
<1> QED
  BY <1>1, <1>3, <1>4, <1>5

LEMMA CharsFacts ==
  ASSUME NEW v \in Seq(Alphabet)
  PROVE  /\ Chars(v) \in Seq({Char(c) : c \in Alphabet})
         /\ Len(Chars(v)) = Len(v) /\ Len(v) \in Nat
         /\ Text(Chars(v)) = v
  BY CharsOf

(* A request of SET and a reply to GET, formatted and parsed. *)
LEMMA Transmitted ==
  ASSUME NEW cmd, NEW k, NEW v \in Seq(Alphabet),
         FormatData2(MaxBufLen, cmd, <<Host(k)>>, Chars(v)) # Refused
  PROVE  /\ 5 + Len(v) <= MaxBufLen
         /\ ParseData(FormatData2(MaxBufLen, cmd, <<Host(k)>>, Chars(v)), MaxBufLen, MaxBufLen)
              = Parsed(0, cmd, 2, <<<<Host(k)>>, Chars(v)>>)
<1> DEFINE C  == {Char(c) : c \in Alphabet} \cup {Host(k)}
           d1 == <<Host(k)>>
           d2 == Chars(v)
<1>1. d1 \in Seq(C) /\ Len(d1) = 1
  OBVIOUS
<1>2. d2 \in Seq(C)
  BY CharsFacts, SeqMonotonic
<1>3. Len(d2) = Len(v) /\ Len(v) \in Nat /\ MaxBufLen \in Nat
  BY CharsFacts, LimitsAssumption
<1> HIDE DEF C, d1, d2
<1>4. ~(MaxBufLen < HeaderSize + Len(d1) + 1 + Len(d2))
  <2>1. FormatData2(MaxBufLen, cmd, d1, d2) # Refused
    BY DEF d1, d2
  <2> QED
    BY <1>1, <1>2, <1>3, <2>1, FormatsInBounds, Zenon
<1>5. /\ HeaderSize + Len(d1) + 1 + Len(d2) <= MaxBufLen
      /\ Len(d1) <= MaxBufLen /\ Len(d2) <= MaxBufLen
      /\ 5 + Len(v) <= MaxBufLen
  BY <1>1, <1>3, <1>4 DEF HeaderSize
<1>6. ParseData(FormatData2(MaxBufLen, cmd, d1, d2), MaxBufLen, MaxBufLen)
        = Parsed(0, cmd, 2, <<d1, d2>>)
  <2>1. d1 \in Seq(C) /\ d2 \in Seq(C) /\ MaxBufLen \in Nat
    BY <1>1, <1>2, <1>3
  <2>2. FormatData2(MaxBufLen, cmd, d1, d2) # Refused
    BY DEF d1, d2
  <2>3. ReadBack2(FormatData2(MaxBufLen, cmd, d1, d2), cmd, d1, d2)
    BY <2>1, <2>2, RoundTrip2, Zenon
  <2> QED
    BY <1>3, <1>5, <2>3, Zenon DEF ReadBack2
<1> QED
  BY <1>5, <1>6 DEF d1, d2

(* The server stores the word that was sent.                               *)
LEMMA ArrivesAsSent ==
  ASSUME NEW k, NEW v \in Seq(Alphabet), Fits(k, v)
  PROVE  Arrived(k, v) = v
<1>1. CASE Remote
  <2>1. ParseData(SetRequest(k, v), MaxBufLen, MaxBufLen)
          = Parsed(0, "SET", 2, <<<<Host(k)>>, Chars(v)>>)
    BY <1>1, Transmitted DEF Fits, SetRequest
  <2> DEFINE p == ParseData(SetRequest(k, v), MaxBufLen, MaxBufLen)
             c == Chars(v)
  <2> HIDE DEF p, c
  <2>3. p = Parsed(0, "SET", 2, <<<<Host(k)>>, c>>)
    BY <2>1 DEF p, c
  <2>4. p.data = <<<<Host(k)>>, c>>
    BY <2>3 DEF Parsed
  <2>5. p.data[2] = c
    BY <2>4
  <2>2. ParseData(SetRequest(k, v), MaxBufLen, MaxBufLen).data[2] = Chars(v)
    BY <2>5 DEF p, c
  <2> QED
    BY <1>1, <2>2, CharsFacts, Zenon DEF Arrived
<1>2. CASE ~Remote
  BY <1>2 DEF Arrived
<1> QED
  BY <1>1, <1>2

(* The reply to a GET is no larger than the request that set the record.   *)
LEMMA FitsIsReadable ==
  ASSUME NEW k, NEW v \in Seq(Alphabet), Fits(k, v)
  PROVE  Readable(k, v)
<1> SUFFICES ASSUME Remote PROVE GetReply(k, v).num = 2
  BY DEF Readable
<1> DEFINE C  == {Char(c) : c \in Alphabet} \cup {Host(k)}
           d1 == <<Host(k)>>
           d2 == Chars(v)
<1>1. 5 + Len(v) <= MaxBufLen
  BY Transmitted DEF Fits, SetRequest
<1>2. /\ d1 \in Seq(C) /\ Len(d1) = 1 /\ d2 \in Seq(C) /\ Len(d2) = Len(v)
      /\ Len(v) \in Nat /\ MaxBufLen \in Nat
  <2>1. d1 \in Seq(C) /\ Len(d1) = 1
    OBVIOUS
  <2>2. d2 \in Seq(C)
    BY CharsFacts, SeqMonotonic
  <2> QED
    BY <2>1, <2>2, CharsFacts, LimitsAssumption
<1> HIDE DEF C, d1, d2
<1>3. ~(MaxBufLen < HeaderSize + Len(d1) + 1 + Len(d2))
  BY <1>1, <1>2 DEF HeaderSize
<1>4. FormatData2(MaxBufLen, "GET", d1, d2) # Refused
  BY <1>2, <1>3, FormatsInBounds, Zenon
<1>5. ParseData(FormatData2(MaxBufLen, "GET", d1, d2), MaxBufLen, MaxBufLen)
        = Parsed(0, "GET", 2, <<d1, d2>>)
  BY <1>4, Transmitted DEF d1, d2
<1>6. GetReply(k, v) = Parsed(0, "GET", 2, <<d1, d2>>)
  BY <1>4, <1>5 DEF GetReply, d1, d2
<1> QED
  BY <1>6 DEF Parsed

(* What a line does to the records: nothing, or it changes one of them. *)
Stores(l) ==
  /\ Takes(l, "set") /\ ~Stale /\ Fits(l.key, ValueOf(l))
  /\ records' = [records EXCEPT ![File][l.key] = ValueOf(l)]
Removes(l) ==
  /\ Takes(l, "del") /\ ~Stale
  /\ records' = [records EXCEPT ![File][l.key] = None]

LEMMA RecordsChange ==
  ASSUME NEW l, IsLine(l), ExecCmd(l)
  PROVE  UNCHANGED records \/ Stores(l) \/ Removes(l)
<1>1. ValueOf(l) \in Seq(Alphabet)
  BY ValueFacts
<1>2. Fits(l.key, ValueOf(l)) => Arrived(l.key, ValueOf(l)) = ValueOf(l)
  BY <1>1, ArrivesAsSent
<1>3. CASE Set(l) \/ SetFails(l)
  BY <1>2, <1>3 DEF Set, SetFails, Failed, Killed, Stores
<1>4. CASE Del(l) \/ DelFails(l)
  BY <1>4 DEF Del, DelFails, Failed, Killed, Removes
<1> QED
  BY <1>3, <1>4
  DEF ExecCmd, Guide, OpenTwice, Open, NoDatabase, Close, Exit, Get, Failed, Killed, Unknown

(* What vampireclient has set, vampireclient can get: protocol.c never     *)
(* refuses the reply for a record whose SET it accepted.                   *)
THEOREM SetsAreReadable == Spec => []SetIsReadable
<1>1. Init => SetIsReadable
  BY DEF Init, SetIsReadable
<1>2. ConsoleTypes /\ SetIsReadable /\ [Next]_vars => SetIsReadable'
  <2> SUFFICES ASSUME ConsoleTypes, SetIsReadable, [Next]_vars
               PROVE  SetIsReadable'
    OBVIOUS
  <2>0. Remote' = Remote
    BY DEF Next, ExecCmd, Remote
  <2> SUFFICES ASSUME Remote, NEW f \in Files, NEW k \in Keys,
                      records'[f][k] \notin OldRecords
               PROVE  GetReply(k, records'[f][k]).num = 2
    BY <2>0 DEF SetIsReadable, Readable
  <2>1. CASE UNCHANGED records
    BY <2>1 DEF SetIsReadable, Readable
  <2>2. CASE Next
    <3>1. PICK l : IsLine(l) /\ ExecCmd(l)
      BY <2>2, NextLine DEF ConsoleTypes
    <3>2. CASE records'[f][k] = records[f][k]
      BY <3>2 DEF SetIsReadable, Readable
    <3>3. CASE records'[f][k] = None
      BY <3>3, ConsoleAssumption
    <3>4. CASE k = l.key /\ records'[f][k] = ValueOf(l) /\ Fits(l.key, ValueOf(l))
      BY <3>1, <3>4, ValueFacts, FitsIsReadable DEF Readable
    <3>5. \/ records'[f][k] = records[f][k] \/ records'[f][k] = None
          \/ k = l.key /\ records'[f][k] = ValueOf(l) /\ Fits(l.key, ValueOf(l))
      BY <3>1, RecordsChange DEF Stores, Removes, ConsoleTypes, TypeOK
    <3> QED
      BY <3>2, <3>3, <3>4, <3>5
  <2> QED
    BY <2>1, <2>2
<1> QED
  BY <1>1, <1>2, TypeCorrect, PTL DEF Spec, ConsoleTypes

(* What is known of a line that was taken as meant: its branch is that of  *)
(* its verb, and a set or del goes to the file in the prompt.              *)
LEMMA TakenAsMeant ==
  ASSUME ConsoleTypes, OpenAsPrompted, alive,
         NEW l, IsLine(l), AsMeant(l), NEW b \in {"set", "get", "del"}, Takes(l, b)
  PROVE  /\ l.verb = b /\ l.key \in Keys /\ ~Stale
         /\ dbname \in Files /\ File = dbname
<1>1. l.verb = b
  BY OneBranch DEF AsMeant
<1>2. db # None /\ l.key # None
  BY TakesMeans
<1>3. db \in Handles /\ live[db] # None
  BY <1>2 DEF AsMeant, Stale, ConsoleTypes, TypeOK
<1>4. live[db] = dbname /\ dbname # None
  BY <1>3 DEF OpenAsPrompted
<1>5. dbname \in Files
  BY <1>4 DEF ConsoleTypes, TypeOK
<1> QED
  BY <1>1, <1>2, <1>4, <1>5 DEF AsMeant, File, IsLine

AsTold(r, t) == \A f \in Files, k \in Keys : r[f][k] \in t[f][k]

(* The call about one record has had its effect v, or none, and the user   *)
(* knows which, or knows that it is one of the two.                        *)
Outcome(l, v) ==
  \/ /\ records' = [records EXCEPT ![dbname][l.key] = v]
     /\ \/ told' = [told EXCEPT ![dbname][l.key] = {v}]
        \/ told' = [told EXCEPT ![dbname][l.key] = @ \cup {v}]
  \/ /\ UNCHANGED records
     /\ UNCHANGED told \/ told' = [told EXCEPT ![dbname][l.key] = @ \cup {v}]

LEMMA OutcomeAsTold ==
  ASSUME ConsoleTypes, AsTold(records, told), NEW l, NEW v, Outcome(l, v)
  PROVE  AsTold(records', told')
<1> SUFFICES ASSUME NEW f \in Files, NEW k \in Keys PROVE records'[f][k] \in told'[f][k]
  BY DEF AsTold
<1>1. records[f][k] \in told[f][k]
  BY DEF AsTold
<1>2. HasRecords(records) /\ HasRecords(told)
  BY DEF ConsoleTypes, TypeOK, HasRecords
<1>3. CASE f = dbname /\ k = l.key
  BY <1>1, <1>2, <1>3 DEF Outcome, HasRecords
<1>4. CASE ~(f = dbname /\ k = l.key)
  <2>1. \A r, w : HasRecords(r) => [r EXCEPT ![dbname][l.key] = w][f][k] = r[f][k]
    BY <1>4 DEF HasRecords
  <2>2. records'[f][k] = records[f][k] /\ told'[f][k] = told[f][k]
    BY <1>2, <2>1 DEF Outcome
  <2> QED
    BY <1>1, <2>2
<1> QED
  BY <1>3, <1>4

(* A plain line leaves the records as the user is told. *)
LEMMA PlainLine ==
  ASSUME ConsoleTypes, OpenAsPrompted, RecordsAsTold,
         NEW l, IsLine(l), ExecCmd(l), plain'
  PROVE  AsTold(records', told')
<1>1. alive /\ plain /\ AsMeant(l) /\ AsTold(records, told) /\ told' = Told(l)
  BY DEF ExecCmd, RecordsAsTold, AsTold
<1>2. Output("ERROR", None) # Silent /\ Output("open first", None) # Silent
  BY DEF Output, Silent
<1>3. \A n \in 0 .. MaxFaults : n + 1 # n
  BY ConsoleAssumption
<1>4. CASE Set(l) /\ UNCHANGED faults
  <2>1. l.verb = "set" /\ File = dbname /\ ~Stale
    BY <1>1, <1>4, TakenAsMeant DEF Set
  <2>2. ValueOf(l) = l.word /\ (Fits(l.key, ValueOf(l)) => Arrived(l.key, ValueOf(l)) = l.word)
    BY <1>1, <2>1, ValueFacts, ArrivesAsSent DEF AsMeant
  <2>3. Outcome(l, l.word)
    BY <1>1, <1>2, <1>4, <2>1, <2>2
    DEF Set, Failed, Killed, BrokenPipe, Told, Outcome
  <2> QED
    BY <1>1, <2>3, OutcomeAsTold
<1>5. CASE Del(l) /\ UNCHANGED faults
  <2>1. l.verb = "del" /\ File = dbname /\ ~Stale
    BY <1>1, <1>5, TakenAsMeant DEF Del
  <2>2. Outcome(l, None)
    BY <1>1, <1>2, <1>5, <2>1 DEF Del, Failed, Killed, BrokenPipe, Told, Outcome
  <2> QED
    BY <1>1, <2>2, OutcomeAsTold
<1>6. CASE SetFails(l) /\ faults' = faults + 1
  <2>1. l.verb = "set" /\ File = dbname
    BY <1>1, <1>6, TakenAsMeant DEF SetFails
  <2>2. ValueOf(l) = l.word /\ Arrived(l.key, ValueOf(l)) = l.word
    BY <1>1, <1>6, <2>1, ValueFacts, ArrivesAsSent DEF AsMeant, SetFails
  <2>3. faults' # faults /\ alive'
    BY <1>1, <1>3, <1>6 DEF SetFails, ConsoleTypes, TypeOK
  <2>4. Outcome(l, l.word)
    BY <1>1, <1>6, <2>1, <2>2, <2>3 DEF SetFails, Told, Outcome
  <2> QED
    BY <1>1, <2>4, OutcomeAsTold
<1>7. CASE DelFails(l) /\ faults' = faults + 1
  <2>1. l.verb = "del" /\ File = dbname
    BY <1>1, <1>7, TakenAsMeant DEF DelFails
  <2>2. faults' # faults /\ alive'
    BY <1>1, <1>3, <1>7 DEF DelFails, ConsoleTypes, TypeOK
  <2>3. Outcome(l, None)
    BY <1>1, <1>7, <2>1, <2>2 DEF DelFails, Told, Outcome
  <2> QED
    BY <1>1, <2>3, OutcomeAsTold
<1>8. CASE /\ \/ Guide(l) \/ OpenTwice(l) \/ Open(l) \/ NoDatabase(l) \/ Close(l) \/ Exit(l)
              \/ Get(l) \/ Unknown(l)
           /\ UNCHANGED faults
  <2>1. UNCHANGED records
    BY <1>8 DEF Guide, OpenTwice, Open, NoDatabase, Close, Exit, Get, Failed, Killed, Unknown
  <2>2. UNCHANGED told
    <3>1. CASE l.verb \notin {"set", "del"}
      BY <1>1, <3>1 DEF Told
    <3>2. CASE l.verb \in {"set", "del"}
      <4>1. Takes(l, l.verb) \/ Takes(l, "no database")
        BY <1>1 DEF AsMeant
      <4>2. NoDatabase(l)
        BY <1>8, <3>2, <4>1, OneBranch
        DEF Guide, OpenTwice, Open, NoDatabase, Close, Exit, Get, Unknown
      <4> QED
        BY <1>1, <1>2, <1>8, <4>2 DEF NoDatabase, Told
    <3> QED
      BY <3>1, <3>2
  <2> QED
    BY <1>1, <2>1, <2>2 DEF AsTold
<1> QED
  BY <1>4, <1>5, <1>6, <1>7, <1>8 DEF ExecCmd

(* The records are what the user was told: exactly, but for those whose    *)
(* last set or del met a server that failed.                               *)
THEOREM RecordsStayAsTold == Spec => []RecordsAsTold
<1>1. Init => RecordsAsTold
  BY DEF Init, RecordsAsTold, Certain
<1>2. ConsoleTypes /\ OpenAsPrompted /\ RecordsAsTold /\ [Next]_vars => RecordsAsTold'
  <2> SUFFICES ASSUME ConsoleTypes, OpenAsPrompted, RecordsAsTold, [Next]_vars, plain'
               PROVE  AsTold(records', told')
    BY DEF RecordsAsTold, AsTold
  <2>1. CASE UNCHANGED vars
    BY <2>1 DEF RecordsAsTold, AsTold
  <2>2. CASE Next
    BY <2>2, NextLine, PlainLine DEF ConsoleTypes
  <2> QED
    BY <2>1, <2>2
<1> QED
  BY <1>1, <1>2, TypeCorrect, PromptIsTrue, PTL DEF Spec, ConsoleTypes

(* The records are words. *)
RecordsAreWords ==
  \A f \in Files, k \in Keys : records[f][k] \in Seq(Alphabet) \cup {None}

LEMMA RecordsStayWords == Spec => []RecordsAreWords
<1>1. Init => RecordsAreWords
  <2>1. \A v \in OldRecords : v \in Seq(Alphabet) \cup {None}
    <3> SUFFICES ASSUME NEW v \in OldRecords, v # None PROVE v \in Seq(Alphabet)
      OBVIOUS
    <3>1. v \in Seq({v[i] : i \in DOMAIN v})
      BY ConsoleAssumption
    <3>2. {v[i] : i \in DOMAIN v} \subseteq Alphabet
      BY DEF Alphabet
    <3> QED
      BY <3>1, <3>2, SeqMonotonic
  <2> QED
    BY <2>1 DEF Init, RecordsAreWords
<1>2. ConsoleTypes /\ RecordsAreWords /\ [Next]_vars => RecordsAreWords'
  <2> SUFFICES ASSUME ConsoleTypes, RecordsAreWords, [Next]_vars,
                      NEW f \in Files, NEW k \in Keys
               PROVE  records'[f][k] \in Seq(Alphabet) \cup {None}
    BY DEF RecordsAreWords
  <2>1. CASE UNCHANGED records
    BY <2>1 DEF RecordsAreWords
  <2>2. CASE Next
    <3>1. PICK l : IsLine(l) /\ ExecCmd(l)
      BY <2>2, NextLine DEF ConsoleTypes
    <3>2. ValueOf(l) \in Seq(Alphabet)
      BY <3>1, ValueFacts
    <3> QED
      BY <2>1, <3>1, <3>2, RecordsChange
      DEF Stores, Removes, RecordsAreWords, ConsoleTypes, TypeOK
  <2> QED
    BY <2>1, <2>2
<1> QED
  BY <1>1, <1>2, TypeCorrect, PTL DEF Spec, ConsoleTypes

(* A reply with one data is not taken for a record. *)
LEMMA OneDataIsNoRecord ==
  ASSUME NEW cmd, NEW k
  PROVE  ParseData(FormatData1(MaxBufLen, cmd, <<Host(k)>>), MaxBufLen, MaxBufLen).num # 2
<1> DEFINE buf == FormatData1(MaxBufLen, cmd, <<Host(k)>>)
           msg == Header(cmd, 1, 1) \o <<Host(k)>>
           p   == ParseData(buf, MaxBufLen, MaxBufLen)
<1>1. buf = Refused \/ buf = msg
  BY DEF FormatData1
<1>2. Len(msg) = 4 /\ msg[2] = Net(1) /\ Len(Refused) = 0
  BY DEF Header, Refused
<1> HIDE DEF buf, msg, p
<1>3. ASSUME buf = Refused PROVE p.num # 2
  <2>1. p = NotParsed
    BY <1>2, <1>3 DEF p, ParseData, HeaderSize
  <2> QED
    BY <2>1 DEF NotParsed, Parsed
<1>4. ASSUME buf = msg PROVE p.num # 2
  <2>1. Len(buf) = 4 /\ Read(buf[2], "net") = 1
    BY <1>2, <1>4, ReadNet
  <2>2. \A r, c, n, d : Parsed(r, c, n, d).num = n
    BY DEF Parsed
  <2>3. p.num = Read(buf[2], "net")
    BY <2>1, <2>2 DEF p, ParseData, HeaderSize
  <2> QED
    BY <2>1, <2>3
<1>5. p.num # 2
  BY <1>1, <1>3, <1>4
<1> QED
  BY <1>5 DEF buf, p

LEMMA FoundAsStored ==
  ASSUME NEW k, NEW v \in Seq(Alphabet), Readable(k, v), NEW x \in Found(k, v)
  PROVE  x = v \/ (Remote /\ x = Garbage)
<1>1. CASE ~Remote
  BY <1>1 DEF Found
<1>2. CASE Remote
  <2>1. GetReply(k, v).num = 2
    BY <1>2 DEF Readable
  <2>2. FormatData2(MaxBufLen, "GET", <<Host(k)>>, Chars(v)) # Refused
    BY <2>1, OneDataIsNoRecord, Zenon DEF GetReply
  <2>3. GetReply(k, v) = Parsed(0, "GET", 2, <<<<Host(k)>>, Chars(v)>>)
    BY <2>2, Transmitted, Zenon DEF GetReply
  <2> DEFINE r == GetReply(k, v)
             c == Chars(v)
  <2> HIDE DEF r, c
  <2>4. r = Parsed(0, "GET", 2, <<<<Host(k)>>, c>>)
    BY <2>3 DEF r, c
  <2>5. r.data = <<<<Host(k)>>, c>>
    BY <2>4 DEF Parsed
  <2>6. r.data[2] = c
    BY <2>5
  <2>7. Text(GetReply(k, v).data[2]) = v
    BY <2>6, CharsFacts, Zenon DEF r, c
  <2> QED
    BY <1>2, <2>7, Zenon DEF Found
<1> QED
  BY <1>1, <1>2

(* A get that finds the record shows what the user was told of it: the     *)
(* last set, and nothing of another key or file.                           *)
THEOREM GetsShowSets == Spec => []ShownAsSet
<1>1. Init => ShownAsSet
  <2>1. Init => shown = Output("", None)
    BY DEF Init, Silent
  <2>2. Output("", None).msg # "record"
    BY DEF Output
  <2> QED
    BY <2>1, <2>2, Zenon DEF ShownAsSet
<1>2. ConsoleTypes /\ OpenAsPrompted /\ RecordsAsTold /\ RecordsAreWords
        /\ ShownAsSet /\ [Next]_vars => ShownAsSet'
  <2> SUFFICES ASSUME ConsoleTypes, OpenAsPrompted, RecordsAsTold, RecordsAreWords,
                      ShownAsSet, [Next]_vars, plain', shown'.msg = "record"
               PROVE  \/ shown'.val \in told'[dbname'][cmdbuf'.key]
                      \/ Remote' /\ shown'.val = Garbage
    BY DEF ShownAsSet
  <2>1. CASE UNCHANGED vars
    BY <2>1 DEF ShownAsSet, Remote
  <2>2. CASE Next
    <3>1. PICK l : IsLine(l) /\ ExecCmd(l)
      BY <2>2, NextLine DEF ConsoleTypes
    <3>2. alive /\ AsMeant(l) /\ AsTold(records, told) /\ cmdbuf' = l /\ Remote' = Remote
      BY <3>1 DEF ExecCmd, RecordsAsTold, AsTold, Remote
    <3>3. Get(l)
      <4>1. \/ Get(l) \/ shown' = Silent
            \/ \E m \in {"guide", "close first", "open first", "closed", "ERROR", "unknown"} :
                 shown' = Output(m, None)
        BY <3>1 DEF ExecCmd, Guide, OpenTwice, Open, NoDatabase, Close, Exit, Set, Del, SetFails,
                    DelFails, Failed, Killed, Unknown
      <4>2. Silent.msg = "" /\ \A m : Output(m, None).msg = m
        BY DEF Output, Silent
      <4> QED
        BY <4>1, <4>2
    <3>4. /\ l.verb = "get" /\ l.key \in Keys /\ ~Stale
          /\ dbname \in Files /\ File = dbname
      BY <3>1, <3>2, <3>3, TakenAsMeant DEF Get
    <3>5. told' = told /\ dbname' = dbname
      BY <3>1, <3>3, <3>4 DEF ExecCmd, Get, Told
    <3> DEFINE v == records[File][l.key]
    <3>6. PICK x \in Found(l.key, v) :
            v # None /\ Readable(l.key, v) /\ shown' = Output("record", x)
      <4>1. Silent.msg # "record" /\ Output("ERROR", None).msg # "record"
        BY Zenon DEF Output, Silent
      <4> QED
        BY <3>3, <3>4, <4>1, Zenon DEF Get, Failed, Killed
    <3>7. v \in Seq(Alphabet)
      BY <3>4, <3>6 DEF RecordsAreWords
    <3> HIDE DEF v
    <3>8. x = v \/ (Remote /\ x = Garbage)
      BY <3>6, <3>7, FoundAsStored
    <3>9. shown'.val = x
      BY <3>6 DEF Output
    <3>10. v \in told'[dbname'][cmdbuf'.key]
      BY <3>2, <3>4, <3>5 DEF v, AsTold
    <3> QED
      BY <3>2, <3>8, <3>9, <3>10
  <2> QED
    BY <2>1, <2>2
<1> QED
  BY <1>1, <1>2, TypeCorrect, PromptIsTrue, RecordsStayAsTold, RecordsStayWords, PTL
  DEF Spec, ConsoleTypes

(***************************************************************************)
(* The list of servers.                                                    *)
(***************************************************************************)

RequestCells == {Net("CTRL_REG"), Net(0), Char(0)}

(* The request for the list has no data, so it is no list itself. *)
LEMMA ListRequestFacts ==
  /\ ListRequest \in Seq(RequestCells)
  /\ ~(2 <= ParseDataN(ListRequest).num)
<1> DEFINE C    == RequestCells
           zero == [i \in 1 .. MaxBufLen |-> Char(0)]
           msg  == Header("CTRL_REG", 0, 0)
           rest == SubSeq(zero, Len(msg) + 1, Len(zero))
<1>1. zero \in Seq(C) /\ Len(zero) = MaxBufLen /\ MaxBufLen \in Nat
  BY LimitsAssumption, SeqDef, LenProperties DEF RequestCells
<1>2. msg \in Seq(C) /\ Len(msg) = 3
  <2>1. msg = <<Net("CTRL_REG"), Net(0), Net(0)>>
    BY DEF Header
  <2> HIDE DEF msg
  <2> QED
    BY <2>1 DEF RequestCells
<1>3. ListRequest = FormatDataN(zero, "CTRL_REG", <<>>)
  BY DEF ListRequest
<1>4. ListRequest = Refused \/ ListRequest = msg \o rest
  BY <1>3 DEF FormatDataN
<1> HIDE DEF zero, msg
<1>5. CASE ListRequest = Refused
  <2>1. ParseDataN(Refused) = NotParsed
    BY DEF ParseDataN, Refused, HeaderSize
  <2>2. NotParsed.num = -1
    BY DEF NotParsed, Parsed
  <2>3. <<>> \in Seq(C)
    BY EmptySeq
  <2> QED
    BY <1>5, <2>1, <2>2, <2>3 DEF Refused
<1>6. CASE ListRequest # Refused
  <2>1. \A i \in Len(msg) + 1 .. Len(zero) : zero[i] \in C
    BY <1>1, <1>2, ElementOfSeq
  <2>2. rest \in Seq(C)
    BY <1>1, <1>2, <2>1, SubSeqProperties
  <2>3. ListRequest \in Seq(C)
    BY <1>2, <1>4, <1>6, <2>2, ConcatProperties
  <2>4. ParseDataN(ListRequest) = Parsed(0, "CTRL_REG", Len(<<>>), <<>>)
    <3>1. <<>> \in Seq(Seq(C)) /\ Len(<<>>) = 0 /\ 1 .. 0 = {} /\ 0 <= MaxDataNum
      BY EmptySeq, LimitsAssumption
    <3> QED
      BY <1>1, <1>3, <1>6, <3>1, RoundTripN
  <2>5. ~(2 <= Len(<<>>))
    OBVIOUS
  <2> QED
    BY <2>3, <2>4, <2>5 DEF Parsed
<1> QED
  BY <1>5, <1>6

(* A list that the client accepts is the master's: a list that does not    *)
(* fit is answered with a message that has no data.                        *)
LEMMA ListArrives ==
  ASSUME servers \in ServerLists, ListAccepted
  PROVE  [i \in 1 .. ListReply.num |-> Text(ListReply.data[i])] = servers
<1> DEFINE n         == Len(servers)
           A         == UNION {{servers[i][j] : j \in DOMAIN servers[i]} : i \in 1 .. n}
           Cell      == {Char(c) : c \in A} \cup RequestCells
           addresses == [i \in 1 .. n |-> Chars(servers[i])]
           reply     == FormatDataN(ListRequest, "CTRL_REG", addresses)
<1>1. /\ servers \in Seq({servers[i] : i \in DOMAIN servers})
      /\ n \in Nat /\ n <= MaxDataNum /\ DOMAIN servers = 1 .. n
  BY ServerListsAssumption, LenProperties
<1>2. \A i \in 1 .. n : servers[i] \in Seq(A) /\ Len(servers[i]) < MaxDataLen
  <2> SUFFICES ASSUME NEW i \in 1 .. n
               PROVE  servers[i] \in Seq(A) /\ Len(servers[i]) < MaxDataLen
    OBVIOUS
  <2>1. /\ servers[i] \in Seq({servers[i][j] : j \in DOMAIN servers[i]})
        /\ Len(servers[i]) < MaxDataLen
    BY <1>1, ServerListsAssumption
  <2>2. {servers[i][j] : j \in DOMAIN servers[i]} \subseteq A
    OBVIOUS
  <2> QED
    BY <2>1, <2>2, SeqMonotonic
<1>3. servers = [i \in 1 .. n |-> servers[i]]
  BY <1>1, LenProperties
<1>4. ListReply = ParseDataN(IF reply = Refused THEN ListRequest ELSE reply)
  BY <1>1 DEF ListReply
<1> HIDE DEF n, A
<1>5. \A i \in 1 .. n : /\ Chars(servers[i]) \in Seq(Cell)
                        /\ Len(Chars(servers[i])) < MaxDataLen
                        /\ Text(Chars(servers[i])) = servers[i]
  <2> SUFFICES ASSUME NEW i \in 1 .. n
               PROVE  /\ Chars(servers[i]) \in Seq(Cell)
                      /\ Len(Chars(servers[i])) < MaxDataLen
                      /\ Text(Chars(servers[i])) = servers[i]
    OBVIOUS
  <2>1. /\ Chars(servers[i]) \in Seq({Char(c) : c \in A})
        /\ Len(Chars(servers[i])) < MaxDataLen
        /\ Text(Chars(servers[i])) = servers[i]
    BY <1>2, CharsOf
  <2>2. Seq({Char(c) : c \in A}) \subseteq Seq(Cell)
    BY SeqMonotonic
  <2> QED
    BY <2>1, <2>2
<1>12. ListRequest \in Seq(Cell)
  <2>1. Seq(RequestCells) \subseteq Seq(Cell)
    BY SeqMonotonic
  <2> QED
    BY <2>1, ListRequestFacts
<1> HIDE DEF Cell
<1>6. /\ addresses \in Seq(Seq(Cell)) /\ Len(addresses) = n
      /\ \A i \in 1 .. n : addresses[i] = Chars(servers[i])
  BY <1>1, <1>5, SeqDef, LenProperties
<1> HIDE DEF addresses
<1>7. MaxBufLen \in Nat /\ 0 <= MaxDataNum
  BY LimitsAssumption
<1>8. reply # Refused
  <2> SUFFICES ASSUME reply = Refused PROVE FALSE
    OBVIOUS
  <2>1. ListReply = ParseDataN(ListRequest)
    BY <1>4
  <2> QED
    BY <2>1, ListRequestFacts DEF ListAccepted
<1>9. ListReply = Parsed(0, "CTRL_REG", n, addresses)
  <2>1. ParseDataN(reply) = Parsed(0, "CTRL_REG", Len(addresses), addresses)
    BY <1>1, <1>5, <1>6, <1>7, <1>8, <1>12, RoundTripN
  <2> QED
    BY <1>4, <1>6, <1>8, <2>1
<1>10. ListReply.num = n /\ ListReply.data = addresses
  BY <1>9 DEF Parsed
<1>11. \A i \in 1 .. n : Text(ListReply.data[i]) = servers[i]
  BY <1>5, <1>6, <1>10
<1> QED
  BY <1>3, <1>10, <1>11

(* An open database of vampireclient has the servers of the master's list, *)
(* all of them in their order, for lists of any length.                    *)
THEOREM ListsArriveWhole == Spec => []ListReceived
<1>1. Init => ListReceived
  BY DEF Init, ListReceived
<1>2. ConsoleTypes /\ ListReceived /\ [Next]_vars => ListReceived'
  <2> SUFFICES ASSUME ConsoleTypes, ListReceived, [Next]_vars PROVE ListReceived'
    OBVIOUS
  <2>1. CASE UNCHANGED vars
    BY <2>1 DEF ListReceived, Remote
  <2>2. CASE Next
    <3>1. PICK l : ExecCmd(l)
      BY <2>2 DEF Next
    <3>2. UNCHANGED <<build, servers>> /\ Remote' = Remote
      BY <3>1 DEF ExecCmd, Remote
    <3>3. CASE UNCHANGED <<db, nodes>>
      BY <3>2, <3>3 DEF ListReceived
    <3>4. CASE db' = None
      BY <3>4 DEF ListReceived
    <3>5. CASE Remote /\ ListAccepted
                 /\ nodes' = [i \in 1 .. ListReply.num |-> Text(ListReply.data[i])]
      <4>1. nodes' = servers
        BY <3>5, ListArrives DEF ConsoleTypes, TypeOK
      <4> QED
        BY <3>2, <4>1 DEF ListReceived
    <3>6. CASE ~Remote
      BY <3>2, <3>6 DEF ListReceived
    <3>7. \/ UNCHANGED <<db, nodes>> \/ db' = None \/ ~Remote
          \/ /\ Remote /\ ListAccepted
             /\ nodes' = [i \in 1 .. ListReply.num |-> Text(ListReply.data[i])]
      BY <3>1 DEF ExecCmd, Guide, OpenTwice, Open, CreateDB, NoDatabase, Close, Exit, Set, Get,
                  Del, SetFails, DelFails, Unknown
    <3> QED
      BY <3>3, <3>4, <3>5, <3>6, <3>7
  <2> QED
    BY <2>1, <2>2
<1> QED
  BY <1>1, <1>2, TypeCorrect, PTL DEF Spec, ConsoleTypes
=============================================================================
