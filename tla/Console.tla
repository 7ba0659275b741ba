------------------------------ MODULE Console -------------------------------
(***************************************************************************)
(* The command line (cmdline.c, started by client.c) and what it calls.    *)
(* The same console is linked with dbapi.o into vampire, which opens the   *)
(* files itself, and with clouddbapi.o into vampireclient, which sends     *)
(* messages of protocol.c to the servers.                                  *)
(*                                                                         *)
(* ExecCmd looks for keywords anywhere in the line and takes the first     *)
(* branch that matches, so a line is what the user meant (verb, file, key, *)
(* word) together with the keywords that its word happens to contain.      *)
(* When the input ends, fgets leaves the buffer alone and GetCmd cuts the  *)
(* last character off it: the last line is executed over and over, a       *)
(* character shorter each time.  (From an empty line it cuts the byte in   *)
(* front of the buffer, cmdline.c:55, which is not modelled.)              *)
(***************************************************************************)
EXTENDS Protocol

CONSTANTS Builds,      \* the programs: "vampire" and/or "vampireclient"
          Files,       \* database files
          DigitFile,   \* DigitFile[k]: the file that is called like key k
          Keys,        \* keys, whose decimal digits the user types
          Words,       \* what the user types as values, sequences of letters
          KeywordsIn,  \* KeywordsIn[w]: the command words that w contains
          Early,       \* words that also occur in "set " and the digits
          Blank,       \* stands for the line in front of a word
          OldRecords,  \* what the files may hold at the start
          ServerLists, \* the lists of addresses that the master may have
          Handles,     \* addresses of database objects
          Garbage,     \* what is read from dead memory
          MaxFaults,   \* bound: calls in which a server fails
          None

ASSUME ConsoleAssumption ==
  /\ Keys \subseteq Nat /\ \A k \in Keys : k >= 10 => k \div 10 \in Keys
  /\ None \notin Files /\ None \notin Handles /\ None \notin Keys
  /\ DigitFile \in [Keys -> Files]
  /\ \A w \in Words \cup (OldRecords \ {None}) : w \in Seq({w[i] : i \in DOMAIN w})
  /\ KeywordsIn[<<>>] = {}
  /\ None \in OldRecords
  /\ MaxFaults \in Nat

(* The master packs no more than MAX_DATA_NUM servers (PackServer), and    *)
(* "%s %d" of an IPv4 address and a port is shorter than MAX_DATA_LEN.     *)
ASSUME ServerListsAssumption ==
  \A s \in ServerLists :
    /\ s \in Seq({s[i] : i \in DOMAIN s}) /\ Len(s) <= MaxDataNum
    /\ \A i \in DOMAIN s : /\ s[i] \in Seq({s[i][j] : j \in DOMAIN s[i]})
                           /\ Len(s[i]) < MaxDataLen

VARIABLES
  build,    \* the program that runs
  servers,  \* the list of servers that the master keeps
  alive,    \* whether the process runs
  cmdbuf,   \* the line last executed
  eof,      \* whether the input has ended
  dbname,   \* the name in the prompt, None if empty
  db,       \* the handle of the console
  live,     \* live[h]: the file open behind handle h, None if closed
  nodes,    \* the list of servers that db keeps
  records,  \* records[f][k]: the record of key k in file f
  shown,    \* what the last line made the console print
  faults,   \* number of calls in which a server failed
  told,     \* history: told[f][k], what the record of key k in file f may
            \* be after the lines so far and what they printed, for as long
            \* as every line was plain
  plain     \* history: every line so far was typed and taken as meant

console == <<dbname, db, live, nodes>>
vars == <<build, servers, alive, cmdbuf, eof, console, records, shown, faults, told, plain>>

Verbs == {"help", "open", "set", "get", "del", "close", "exit", "other"}

Line(verb, file, key, word) ==
  [verb |-> verb, file |-> file, key |-> key, word |-> word]
Bare(verb) == Line(verb, None, None, <<>>)

Lines == {Bare(v) : v \in {"help", "close", "exit", "other"}}
           \cup {Line("open", f, None, <<>>) : f \in Files}
           \cup {Line(v, None, k, <<>>) : v \in {"get", "del"}, k \in Keys}
           \cup {Line("set", None, k, w) : k \in Keys, w \in Words}

Output(msg, val) == [msg |-> msg, val |-> val]
Silent == Output("", None)

Certain(r) == [f \in Files |-> [k \in Keys |-> {r[f][k]}]]

Init ==
  /\ build \in Builds
  /\ servers \in ServerLists
  /\ alive = TRUE
  /\ cmdbuf = Bare("other")
  /\ eof = FALSE
  /\ dbname = None
  /\ db = None
  /\ live = [h \in Handles |-> None]
  /\ nodes = <<>>
  /\ records \in [Files -> [Keys -> OldRecords]]
  /\ shown = Silent
  /\ faults = 0
  /\ told = Certain(records)
  /\ plain = TRUE

-----------------------------------------------------------------------------
(* Which branch a line takes. *)

Has(l, keyword) == l.verb = keyword \/ keyword \in KeywordsIn[l.word]
HasWithKey(l, keyword) == l.key # None /\ Has(l, keyword)

(* The conditions of ExecCmd in their order. *)
Branches == <<"help", "open", "no database", "close", "exit", "set", "get", "del", "other">>
Matches(l, branch) ==
  CASE branch = "no database" -> /\ db = None
                                 /\ \E v \in {"set", "get", "del", "close"} : Has(l, v)
    [] branch \in {"set", "get", "del"} -> HasWithKey(l, branch)
    [] branch = "other" -> TRUE
    [] OTHER -> Has(l, branch)

Takes(l, branch) ==
  \E i \in DOMAIN Branches :
    /\ Branches[i] = branch
    /\ Matches(l, branch)
    /\ \A j \in 1 .. i - 1 : ~Matches(l, Branches[j])

(* A mutant: what stands behind the keyword is taken as it is.             *)
SecondWordRaw(l) == IF l.verb = "open" THEN l.file ELSE l.key

(* The second word of the line, which an open takes for the file name. *)
SecondWord(l) == IF l.verb = "open" THEN l.file ELSE DigitFile[l.key]

(* strstr(cmdbuf, str): the text of the line from where the word first     *)
(* occurs, which may be in the command or in the key.                      *)
ValueOf(l) == IF l.word = <<>> \/ l.word \in Early THEN <<Blank>> \o l.word ELSE l.word

(* What may be left of the line when its last character is cut off: a      *)
(* word or a number that is shorter, or a command without them.  An open   *)
(* with less of its name still is one and runs into the test of dbname,    *)
(* which the line before has set.                                          *)
Remains(l) ==
  CASE l.word # <<>> -> {[l EXCEPT !.word = SubSeq(@, 1, Len(@) - 1)]}
    [] l.word = <<>> /\ l.key # None -> IF l.key >= 10 THEN {[l EXCEPT !.key = @ \div 10]}
                                       ELSE {Bare(l.verb)}
    [] OTHER -> {Bare("other")}
                  \cup IF l.verb \in {"open", "set", "get", "del"} THEN {l} ELSE {}

-----------------------------------------------------------------------------
(* The database behind the console. *)

Remote == build = "vampireclient"
File == live[db]
Stale == db # None /\ live[db] = None

(* RegisterServer: the request without data goes to the master, which      *)
(* packs its list into the same buffer; a list that does not fit sends     *)
(* the request back.                                                       *)
ListRequest == FormatDataN([i \in 1 .. MaxBufLen |-> Char(0)], "CTRL_REG", <<>>)
ListReply ==
  LET addresses == [i \in DOMAIN servers |-> Chars(servers[i])]
      reply     == FormatDataN(ListRequest, "CTRL_REG", addresses)
  IN  ParseDataN(IF reply = Refused THEN ListRequest ELSE reply)
ListAccepted == ListReply.cmd = "CTRL_REG" /\ 2 <= ListReply.num

(* CreateDB: exit(-1) when dbapi cannot open the file or no connection can *)
(* be made; NULL from clouddbapi when there is no list or a server says    *)
(* no.                                                                     *)
CreateDB(f) ==
  \/ /\ Remote => ListAccepted
     /\ \E h \in Handles :
          /\ live[h] = None
          /\ db' = h
          /\ live' = [live EXCEPT ![h] = f]
     /\ nodes' = IF Remote THEN [i \in 1 .. ListReply.num |-> Text(ListReply.data[i])]
                           ELSE <<>>
     /\ UNCHANGED alive
  \/ /\ Remote
     /\ db' = None
     /\ nodes' = <<>>
     /\ UNCHANGED <<live, alive>>
  \/ /\ alive' = FALSE
     /\ UNCHANGED <<db, live, nodes>>

(* A message to a server that has closed the connection before: SIGPIPE    *)
(* (net.c, SendData).                                                      *)
BrokenPipe == Remote /\ ~Stale /\ alive' = FALSE

(* To call dbapi with a handle that has been freed may end the process or  *)
(* fail; clouddbapi finds its sockets closed.                              *)
UseFreed ==
  \/ UNCHANGED alive
  \/ ~Remote /\ alive' = FALSE

CloseDB ==
  \/ /\ ~Stale
     /\ live' = [live EXCEPT ![db] = None]
     /\ UNCHANGED alive
  \/ BrokenPipe /\ UNCHANGED live
  \/ Stale /\ UseFreed /\ UNCHANGED live

(* A mutant: the client's buffer is larger than the server's.              *)
SetRequestLarger(k, v) == FormatData2(MaxBufLen + 1, "SET", <<Host(k)>>, Chars(v))

(* SetRecordRemote and the server's answer: the server stores what it      *)
(* parses.                                                                 *)
SetRequest(k, v) == FormatData2(MaxBufLen, "SET", <<Host(k)>>, Chars(v))
Fits(k, v) == ~Remote \/ SetRequest(k, v) # Refused

(* A mutant: the server stores the first data.                             *)
ArrivedFirst(k, v) ==
  IF Remote THEN Text(ParseData(SetRequest(k, v), MaxBufLen, MaxBufLen).data[1]) ELSE v

Arrived(k, v) ==
  IF Remote THEN Text(ParseData(SetRequest(k, v), MaxBufLen, MaxBufLen).data[2]) ELSE v

(* The reply to GET: a record that does not fit sends the request back.    *)
GetReply(k, v) ==
  LET reply == FormatData2(MaxBufLen, "GET", <<Host(k)>>, Chars(v))
  IN  ParseData(IF reply = Refused THEN FormatData1(MaxBufLen, "GET", <<Host(k)>>)
                                   ELSE reply, MaxBufLen, MaxBufLen)
Readable(k, v) == Remote => GetReply(k, v).num = 2

(* What printf finds behind value.str: GetRecordRemote has pointed it into *)
(* its own stack frame.                                                    *)
Found(k, v) == IF Remote THEN {Text(GetReply(k, v).data[2]), Garbage} ELSE {v}

-----------------------------------------------------------------------------
(* The branches. *)

Guide(l) ==
  /\ Takes(l, "help")
  /\ shown' = Output("guide", None)
  /\ UNCHANGED <<alive, console, records>>

OpenTwice(l) ==
  /\ Takes(l, "open")
  /\ dbname # None
  /\ shown' = Output("close first", None)
  /\ UNCHANGED <<alive, console, records>>

Open(l) ==
  /\ Takes(l, "open")
  /\ dbname = None
  /\ dbname' = SecondWord(l)
  /\ CreateDB(SecondWord(l))
  /\ shown' = Silent
  /\ UNCHANGED records

NoDatabase(l) ==
  /\ Takes(l, "no database")
  /\ shown' = Output("open first", None)
  /\ UNCHANGED <<alive, console, records>>

(* A mutant: the prompt keeps the name.                                    *)
CloseKeepName(l) ==
  /\ Takes(l, "close")
  /\ CloseDB
  /\ db' = None
  /\ shown' = Output("closed", None)
  /\ UNCHANGED <<dbname, nodes, records>>

Close(l) ==
  /\ Takes(l, "close")
  /\ CloseDB
  /\ db' = None
  /\ dbname' = None
  /\ shown' = Output("closed", None)
  /\ UNCHANGED <<nodes, records>>

(* Exit closes the database and returns to the loop. *)
Exit(l) ==
  /\ Takes(l, "exit")
  /\ \/ db # None /\ CloseDB /\ dbname' = None
     \/ db = None /\ UNCHANGED <<alive, live, dbname>>
  /\ shown' = Silent
  /\ UNCHANGED <<db, nodes, records>>

Failed == shown' = Output("ERROR", None) /\ UNCHANGED records
Killed == BrokenPipe /\ shown' = Silent /\ UNCHANGED records

Set(l) ==
  /\ Takes(l, "set")
  /\ \/ /\ ~Stale
        /\ Fits(l.key, ValueOf(l))
        /\ records' = [records EXCEPT ![File][l.key] = Arrived(l.key, ValueOf(l))]
        /\ shown' = Silent
        /\ UNCHANGED alive
     \/ ~Stale /\ Failed /\ UNCHANGED alive
     \/ Killed
     \/ Stale /\ UseFreed /\ Failed
  /\ UNCHANGED console

Get(l) ==
  /\ Takes(l, "get")
  /\ \/ /\ ~Stale
        /\ LET v == records[File][l.key]
           IN  \/ /\ v # None /\ Readable(l.key, v)
                  /\ \E x \in Found(l.key, v) : shown' = Output("record", x)
                  /\ UNCHANGED records
               \/ Failed
        /\ UNCHANGED alive
     \/ Killed
     \/ Stale /\ UseFreed /\ Failed
  /\ UNCHANGED console

(* DeleteRecordRemote reports no error on a socket that is closed.         *)
Del(l) ==
  /\ Takes(l, "del")
  /\ \/ /\ ~Stale
        /\ records[File][l.key] # None
        /\ records' = [records EXCEPT ![File][l.key] = None]
        /\ shown' = Silent
        /\ UNCHANGED alive
     \/ ~Stale /\ Failed /\ UNCHANGED alive
     \/ Killed
     \/ ~Remote /\ Stale /\ UseFreed /\ Failed
     \/ Remote /\ Stale /\ shown' = Silent /\ UNCHANGED <<alive, records>>
  /\ UNCHANGED console

(* A server fails in a SET: it answers SET_RSP although it has not stored  *)
(* the record (engine.c:283), or it has and the connection ends before the *)
(* answer arrives.                                                         *)
SetFails(l) ==
  /\ Takes(l, "set")
  /\ Remote /\ ~Stale /\ Fits(l.key, ValueOf(l))
  /\ \/ shown' = Silent /\ UNCHANGED records
     \/ /\ records' = [records EXCEPT ![File][l.key] = Arrived(l.key, ValueOf(l))]
        /\ shown' = Output("ERROR", None)
  /\ UNCHANGED <<alive, console>>

(* A server fails in a DELETE: recv() = -1, which DeleteRecordRemote takes *)
(* for success, or the connection ends after the record is deleted.        *)
DelFails(l) ==
  /\ Takes(l, "del")
  /\ Remote /\ ~Stale
  /\ \/ shown' = Silent /\ UNCHANGED records
     \/ /\ records[File][l.key] # None
        /\ records' = [records EXCEPT ![File][l.key] = None]
        /\ shown' = Output("ERROR", None)
  /\ UNCHANGED <<alive, console>>

Unknown(l) ==
  /\ Takes(l, "other")
  /\ shown' = Output("unknown", None)
  /\ UNCHANGED <<alive, console, records>>

(* What the line would do if it were taken as the guide explains it.       *)
AsMeant(l) ==
  /\ Takes(l, l.verb) \/ Takes(l, "no database")
  /\ l.verb = "set" => ValueOf(l) = l.word
  /\ ~Stale

(* What the user may take the records for: a set or del that prints        *)
(* nothing has been done, one that prints an error has not; but if a       *)
(* server failed in the call, either is possible.                          *)
Told(l) ==
  LET new == IF l.verb = "set" THEN l.word ELSE None
  IN  IF l.verb \notin {"set", "del"} \/ ~alive' THEN told
      ELSE IF faults' # faults
      THEN [told EXCEPT ![dbname][l.key] = @ \cup {new}]
      ELSE IF shown' = Silent
      THEN [told EXCEPT ![dbname][l.key] = {new}]
      ELSE told

ExecCmd(l) ==
  /\ alive
  /\ cmdbuf' = l
  /\ \/ /\ Guide(l) \/ OpenTwice(l) \/ Open(l) \/ NoDatabase(l) \/ Close(l) \/ Exit(l)
             \/ Set(l) \/ Get(l) \/ Del(l) \/ Unknown(l)
        /\ UNCHANGED faults
     \/ /\ SetFails(l) \/ DelFails(l)
        /\ faults < MaxFaults
        /\ faults' = faults + 1
  /\ plain' = (plain /\ ~eof' /\ AsMeant(l))
  /\ told' = IF plain' THEN Told(l) ELSE Certain(records')
  /\ UNCHANGED <<build, servers>>

(* The next line that the user types, or what is left of the last one.     *)
GetCmd(l) ==
  \/ ~eof /\ l \in Lines /\ UNCHANGED eof
  \/ l \in Remains(cmdbuf) /\ eof' = TRUE

Next == \E l \in Lines \cup Remains(cmdbuf) : GetCmd(l) /\ ExecCmd(l)

Spec == Init /\ [][Next]_vars

-----------------------------------------------------------------------------
(* Properties. *)

TypeOK ==
  /\ build \in Builds /\ servers \in ServerLists
  /\ alive \in BOOLEAN /\ eof \in BOOLEAN /\ plain \in BOOLEAN
  /\ cmdbuf.verb \in Verbs
  /\ dbname \in Files \cup {None}
  /\ db \in Handles \cup {None}
  /\ live \in [Handles -> Files \cup {None}]
  /\ faults \in 0 .. MaxFaults
  /\ DOMAIN records = Files /\ DOMAIN told = Files
  /\ \A f \in Files : DOMAIN records[f] = Keys /\ DOMAIN told[f] = Keys

(* The prompt and the handle follow the database: at most one handle is    *)
(* open, it is db, on the file that the prompt names.  A name without a    *)
(* handle is what a failed open of vampireclient leaves, a handle without  *)
(* a name what exit leaves, and that handle is closed.                     *)
OpenAsPrompted ==
  alive =>
    /\ \A h \in Handles : live[h] # None => h = db /\ live[h] = dbname
    /\ dbname # None /\ db # None => live[db] = dbname
    /\ dbname # None /\ db = None => Remote

(* A name without a handle: open asks to close first, close to open first. *)
Stuck == alive /\ dbname # None /\ db = None

(* From there no line, and not the end of the input, leads back to a       *)
(* database.                                                               *)
StuckForGood == [][Stuck => Stuck']_vars

(* The records are what the user was told.  With vampire, and with         *)
(* vampireclient but for the calls in which a server failed: a set or del  *)
(* that prints nothing has done what it says, in the file of the prompt,   *)
(* one that prints an error has done nothing, and no line touches another  *)
(* record.  A call in which a server failed has done what it says or       *)
(* nothing, whatever it prints.  This for as long as each line was typed   *)
(* (not repeated at the end of the input), each word stood for itself (is  *)
(* not empty, contains no command and does not also occur in front of      *)
(* itself) and no line came after an exit.                                 *)
RecordsAsTold ==
  plain => \A f \in Files, k \in Keys : records[f][k] \in told[f][k]

(* Under the same conditions get shows what was set, which is one value    *)
(* but for a key whose last set or del met a server that failed;           *)
(* vampireclient may show what it finds in dead memory instead.            *)
ShownAsSet ==
  plain /\ shown.msg = "record" =>
    \/ shown.val \in told[dbname][cmdbuf.key]
    \/ Remote /\ shown.val = Garbage

(* What vampireclient can set it can get: a record that it cannot read was *)
(* in the file before.                                                     *)
SetIsReadable ==
  \A f \in Files, k \in Keys :
    records[f][k] \notin OldRecords => Readable(k, records[f][k])

(* An open database of vampireclient goes to the servers of the master's   *)
(* list, each of them and in their order: sharding depends on it.          *)
ListReceived == Remote /\ db # None => nodes = servers
=============================================================================
