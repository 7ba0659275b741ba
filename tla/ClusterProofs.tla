--------------------------- MODULE ClusterProofs ---------------------------
(* Proofs about Cluster, for every value of its constants. *)
EXTENDS Cluster, LinkedListProofs, FunctionTheorems, FiniteSetTheorems, TLAPS

USE DEF vars, masterVars, serverVars, clientVars

(***************************************************************************)
(* Types.                                                                  *)
(***************************************************************************)

ServerTypes ==
  /\ masters \in Nat
  /\ pc \in [Servers -> {"off", "starting", "registered", "failing", "serving", "exhausted"}]
  /\ try \in [Servers -> Nat]
  /\ kills \in 0 .. MaxKills
  /\ lingering \subseteq Addresses
  /\ \A p \in Servers : IF pc[p] = "exhausted" THEN try[p] = Tries ELSE try[p] < Tries

(* The end of each field of the list, and where the nodes not yet          *)
(* allocated begin.                                                        *)
TypedList(l, ad) ==
  /\ ad \in Seq(Addresses \cup {Master})
  /\ Len(ad) \in Cells
  /\ l.pNext \in [Cells -> Cells \cup {NULL}]
  /\ \A end \in {l.pHead, l.pTail} : end # NULL => end \in Cells /\ end <= Len(ad)
  /\ \A i \in Cells : l.pNext[i] # NULL => i < l.pNext[i] /\ l.pNext[i] <= Len(ad)

ListTypes == TypedList(gServerList, addr)

LEMMA AddressTypes ==
  ASSUME ServerTypes, NEW p \in Servers, pc[p] # "exhausted"
  PROVE  AddrOf(p) \in Addresses
<1>1. try[p] \in 0 .. Tries - 1
  BY ClusterAssumption DEF ServerTypes
<1>2. HostOf[p] \in Hosts
  BY ClusterAssumption
<1> QED
  BY <1>1, <1>2 DEF AddrOf, Addresses

LEMMA NewListTypes ==
  TypedList(InitServerList, <<Master>>)
<1>1. 1 \in Cells
  <2>1. Cardinality(Servers) \in Nat
    BY EnoughCells, FS_CardinalityType
  <2>2. Tries * (Cardinality(Servers) + MaxKills) \in Nat
    BY <2>1, ClusterAssumption
  <2> QED
    BY <2>2, EnoughCells
<1>2. Len(<<Master>>) = 1 /\ <<Master>> \in Seq(Addresses \cup {Master})
  OBVIOUS
<1>3. \A i \in Cells : CreateLinkedList.pNext[i] = NULL
  BY DEF CreateLinkedList
<1>4. /\ InitServerList.pHead = 1 /\ InitServerList.pTail = 1
      /\ InitServerList.pNext = [q \in Cells |-> NULL]
  <2>1. CreateLinkedList.pHead = NULL /\ CreateLinkedList.pTail = NULL
    BY DEF CreateLinkedList
  <2>2. InitServerList.pHead = 1 /\ InitServerList.pTail = 1
    BY <2>1 DEF InitServerList, AddLNode
  <2>3. InitServerList.pNext = [q \in Cells |-> CASE q = 1 -> NULL
                              [] q = CreateLinkedList.pTail -> 1
                              [] OTHER -> CreateLinkedList.pNext[q]]
    BY DEF InitServerList, AddLNode
  <2>4. \A q \in Cells : q # CreateLinkedList.pTail
    BY <2>1, CellsAssumption
  <2> QED
    BY <2>2, <2>3, <2>4, <1>3
<1> QED
  BY <1>1, <1>2, <1>4 DEF TypedList

LEMMA InitTypes == Init => ServerTypes /\ ListTypes
<1> SUFFICES ASSUME Init PROVE ServerTypes /\ ListTypes
  OBVIOUS
<1>1. ServerTypes
  BY ClusterAssumption DEF Init, ServerTypes
<1>2. ListTypes
  BY NewListTypes DEF Init, ListTypes
<1> QED
  BY <1>1, <1>2

LEMMA ServersKeepTypes == ServerTypes /\ [Next]_vars => ServerTypes'
<1> SUFFICES ASSUME ServerTypes, [Next]_vars PROVE ServerTypes'
  OBVIOUS
<1> USE ClusterAssumption DEF ServerTypes
<1>1. CASE UNCHANGED <<pc, try, kills, lingering, masters>>
  BY <1>1
<1>2. CASE MasterKill \/ MasterStart
  BY <1>2 DEF MasterKill, MasterStart
<1>3. ASSUME NEW p \in Servers, Start(p) \/ Register(p) \/ Bind(p) \/ NoMaster(p)
      PROVE  ServerTypes'
  BY <1>3 DEF Start, Register, Bind, NoMaster, AddServer
<1>4. ASSUME NEW p \in Servers, Revoke(p) PROVE ServerTypes'
  BY <1>4 DEF Revoke, DelServer
<1>5. ASSUME NEW p \in Servers, Kill(p) PROVE ServerTypes'
  BY <1>5, AddressTypes DEF Kill
<1>6. ASSUME NEW a \in Addresses, Expire(a) PROVE ServerTypes'
  BY <1>6 DEF Expire
<1>7. ASSUME NEW c \in Clients, CreateDB(c) \/ Proceed(c) \/ ForeignAnswers(c) \/ CloseDB(c) PROVE ServerTypes'
  BY <1>7 DEF CreateDB, Proceed, Connect, Opened, OpenFails, ForeignAnswers, CloseDB
<1> QED
  BY <1>1, <1>2, <1>3, <1>4, <1>5, <1>6, <1>7 DEF Next, Run

(***************************************************************************)
(* The list.  Whatever SearchServerFunc finds, the node that DelLNode      *)
(* links past it comes before it, and what it is linked to behind it.      *)
(***************************************************************************)

LEMMA AddLNodeKeeps ==
  ASSUME ListTypes, Len(addr) + 1 \in Cells, NEW a \in Addresses,
         gServerList' = AddLNode(gServerList, Len(addr) + 1), addr' = Append(addr, a)
  PROVE  ListTypes'
<1> DEFINE n == Len(addr)
           l == gServerList
<1> USE CellsAssumption
<1>1. n \in Nat /\ Len(addr') = n + 1 /\ addr' \in Seq(Addresses \cup {Master})
  BY DEF ListTypes, TypedList
<1>2. /\ gServerList'.pHead \in {l.pHead, n + 1} /\ gServerList'.pTail = n + 1
      /\ gServerList'.pNext = [q \in Cells |-> CASE q = n + 1   -> NULL
                                                 [] q = l.pTail -> n + 1
                                                 [] OTHER       -> l.pNext[q]]
  BY DEF AddLNode
<1> HIDE DEF n, l
<1>3. ASSUME NEW i \in Cells
      PROVE  /\ i = n + 1 => gServerList'.pNext[i] = NULL
             /\ i # n + 1 /\ i = l.pTail => gServerList'.pNext[i] = n + 1
             /\ i # n + 1 /\ i # l.pTail => gServerList'.pNext[i] = l.pNext[i]
  <2>1. gServerList'.pNext[i] = CASE i = n + 1   -> NULL
                                  [] i = l.pTail -> n + 1
                                  [] OTHER       -> l.pNext[i]
    BY <1>2, Zenon
  <2>2. i = l.pTail => i # n + 1
    BY <1>1 DEF n, l, ListTypes, TypedList
  <2> QED
    BY <2>1, <2>2
<1>4. gServerList'.pNext \in [Cells -> Cells \cup {NULL}]
  <2>1. \A i \in Cells : gServerList'.pNext[i] \in Cells \cup {NULL}
    BY <1>3 DEF n, l, ListTypes, TypedList
  <2> QED
    BY <2>1, <1>2
<1>5. \A end \in {gServerList'.pHead, gServerList'.pTail} :
        end # NULL => end \in Cells /\ end <= n + 1
  BY <1>1, <1>2 DEF n, l, ListTypes, TypedList
<1>6. ASSUME NEW i \in Cells, gServerList'.pNext[i] # NULL
      PROVE  i < gServerList'.pNext[i] /\ gServerList'.pNext[i] <= n + 1
  <2>1. CASE i # n + 1 /\ i = l.pTail
    <3>1. i <= n /\ i \in Nat
      BY <2>1 DEF n, l, ListTypes, TypedList
    <3>2. gServerList'.pNext[i] = n + 1
      BY <2>1, <1>3
    <3> QED
      BY <3>1, <3>2, <1>1
  <2>2. CASE i # n + 1 /\ i # l.pTail
    <3>1. gServerList'.pNext[i] = l.pNext[i] /\ l.pNext[i] # NULL
      BY <2>2, <1>3, <1>6
    <3>2. i < l.pNext[i] /\ l.pNext[i] <= n /\ l.pNext[i] \in Nat
      BY <3>1 DEF n, l, ListTypes, TypedList
    <3> QED
      BY <3>1, <3>2, <1>1
  <2> QED
    BY <2>1, <2>2, <1>3, <1>6
<1>7. Len(addr') \in Cells
  BY <1>1 DEF n
<1> QED
  BY <1>1, <1>4, <1>5, <1>6, <1>7 DEF ListTypes, TypedList

LEMMA DelLNodeKeeps ==
  ASSUME ListTypes, NEW p, gServerList' = DelLNode(gServerList, p), addr' = addr
  PROVE  ListTypes'
<1> DEFINE l == gServerList
<1> USE CellsAssumption
<1>1. CASE gServerList' = l
  BY <1>1 DEF ListTypes, TypedList
<1>2. CASE p # NULL /\ l.pHead = p
  <2>1. p \in Cells /\ (l.pNext[p] # NULL => l.pNext[p] \in Cells /\ l.pNext[p] <= Len(addr))
    BY <1>2 DEF ListTypes, TypedList
  <2>2. gServerList' = Shorter(l, l.pNext[p], l.pNext)
    BY <1>2 DEF DelLNode
  <2>3. /\ gServerList'.pHead = l.pNext[p] /\ gServerList'.pTail \in {NULL, l.pTail}
        /\ gServerList'.pNext = l.pNext
    BY <2>2 DEF Shorter
  <2> QED
    BY <2>1, <2>3 DEF ListTypes, TypedList
<1>3. CASE p # NULL /\ l.pHead # p /\ Predecessors(l, p) # {}
  <2>1. PICK q \in Predecessors(l, p) :
          gServerList' = Shorter(l, l.pHead, [l.pNext EXCEPT ![q] = l.pNext[p]])
    BY <1>3 DEF DelLNode
  <2>2. q \in Cells /\ l.pNext[q] = p
    BY DEF Predecessors
  <2>3. p \in Cells /\ q < p
    BY <2>2, <1>3 DEF ListTypes, TypedList
  <2>4. /\ gServerList'.pHead = l.pHead /\ gServerList'.pTail \in {NULL, l.pTail}
        /\ gServerList'.pNext = [l.pNext EXCEPT ![q] = l.pNext[p]]
    BY <2>1 DEF Shorter
  <2>5. l.pNext \in [Cells -> Cells \cup {NULL}] /\ l.pNext[p] \in Cells \cup {NULL}
    BY <2>3 DEF ListTypes, TypedList
  <2>6. gServerList'.pNext \in [Cells -> Cells \cup {NULL}]
    BY <2>4, <2>5
  <2>7. l.pNext[p] # NULL => q < l.pNext[p] /\ l.pNext[p] <= Len(addr)
    <3>1. l.pNext[p] # NULL => p < l.pNext[p] /\ l.pNext[p] <= Len(addr)
      BY <2>3 DEF ListTypes, TypedList
    <3>2. p \in Nat /\ q \in Nat /\ (l.pNext[p] # NULL => l.pNext[p] \in Nat)
      BY <2>2, <2>3, <2>5
    <3> QED
      BY <3>1, <3>2, <2>3
  <2>8. ASSUME NEW i \in Cells, gServerList'.pNext[i] # NULL
        PROVE  i < gServerList'.pNext[i] /\ gServerList'.pNext[i] <= Len(addr)
    <3>1. CASE i = q
      BY <3>1, <2>4, <2>5, <2>7, <2>8
    <3>2. CASE i # q
      <4>1. gServerList'.pNext[i] = l.pNext[i]
        BY <3>2, <2>4, <2>5
      <4> QED
        BY <4>1, <2>8 DEF ListTypes, TypedList
    <3> QED
      BY <3>1, <3>2
  <2> QED
    BY <2>4, <2>6, <2>8 DEF ListTypes, TypedList
<1>4. p = NULL \/ (l.pHead # p /\ Predecessors(l, p) = {}) => gServerList' = l
  BY DEF DelLNode
<1> QED
  BY <1>1, <1>2, <1>3, <1>4

LEMMA ListKeepsTypes == ServerTypes /\ ListTypes /\ [Next]_vars => ListTypes'
<1> SUFFICES ASSUME ServerTypes, ListTypes, [Next]_vars PROVE ListTypes'
  OBVIOUS
<1>1. CASE UNCHANGED <<gServerList, addr>>
  BY <1>1 DEF ListTypes
<1>2. CASE MasterStart
  BY <1>2, NewListTypes DEF MasterStart, ListTypes
<1>3. ASSUME NEW p \in Servers, Register(p) PROVE ListTypes'
  <2>1. AddrOf(p) \in Addresses
    BY <1>3, AddressTypes DEF Register
  <2> QED
    BY <1>3, <2>1, AddLNodeKeeps DEF Register, AddServer
<1>4. ASSUME NEW p \in Servers, Revoke(p) PROVE ListTypes'
  BY <1>4, DelLNodeKeeps DEF Revoke, DelServer
<1>5. ASSUME NEW p \in Servers, Start(p) \/ Bind(p) \/ NoMaster(p) \/ Kill(p)
      PROVE  UNCHANGED <<gServerList, addr>>
  BY <1>5 DEF Start, Bind, NoMaster, Kill
<1>6. ASSUME NEW a \in Addresses, Expire(a) PROVE UNCHANGED <<gServerList, addr>>
  BY <1>6 DEF Expire
<1>7. ASSUME NEW c \in Clients, CreateDB(c) \/ Proceed(c) \/ ForeignAnswers(c) \/ CloseDB(c)
      PROVE  UNCHANGED <<gServerList, addr>>
  BY <1>7 DEF CreateDB, Proceed, Connect, Opened, OpenFails, ForeignAnswers, CloseDB
<1>8. CASE MasterKill
  BY <1>8, <1>1 DEF MasterKill
<1> QED
  BY <1>1, <1>2, <1>3, <1>4, <1>5, <1>6, <1>7, <1>8 DEF Next, Run

(* Every walk over the master's list ends, whatever servers and masters    *)
(* were killed and whatever entries were revoked (linkedlist.c, the loops  *)
(* of GetNextLNode's callers and of DelLNode).                             *)
THEOREM WalksTerminate == Spec => []WalksEnd
<1>1. Init => ServerTypes /\ ListTypes
  BY InitTypes
<1>2. ServerTypes /\ ListTypes /\ [Next]_vars => ServerTypes' /\ ListTypes'
  BY ServersKeepTypes, ListKeepsTypes
<1>3. ServerTypes /\ ListTypes => WalksEnd
  BY DEF ListTypes, TypedList, WalksEnd
<1> QED
  BY <1>1, <1>2, <1>3, PTL DEF Spec

(* An element more, an element less. *)
LEMMA OneMore ==
  ASSUME NEW A, NEW B, IsFiniteSet(B), A \subseteq B, NEW x \in B \ A
  PROVE  Cardinality(A) + 1 <= Cardinality(B)
<1>1. IsFiniteSet(A) /\ Cardinality(A) \in Nat
  BY FS_Subset, FS_CardinalityType
<1>2. Cardinality(A \cup {x}) = Cardinality(A) + 1
  BY <1>1, FS_AddElement
<1>3. A \cup {x} \in SUBSET B
  OBVIOUS
<1>4. Cardinality(A \cup {x}) <= Cardinality(B)
  BY <1>3, FS_Subset
<1> QED
  BY <1>2, <1>4

LEMMA OneLess ==
  ASSUME NEW A, NEW B, IsFiniteSet(B), NEW x, A \ {x} \subseteq B
  PROVE  Cardinality(A) <= Cardinality(B) + 1
<1>1. IsFiniteSet(B \cup {x}) /\ Cardinality(B \cup {x}) <= Cardinality(B) + 1
  <2>1. Cardinality(B) \in Nat
    BY FS_CardinalityType
  <2>2. IsFiniteSet(B \cup {x})
    BY FS_AddElement
  <2>3. Cardinality(B \cup {x}) = IF x \in B THEN Cardinality(B) ELSE Cardinality(B) + 1
    BY FS_AddElement
  <2> QED
    BY <2>1, <2>2, <2>3
<1>2. A \in SUBSET (B \cup {x})
  OBVIOUS
<1>3. IsFiniteSet(A) /\ Cardinality(A) <= Cardinality(B \cup {x})
  BY <1>1, <1>2, FS_Subset
<1>4. Cardinality(A) \in Nat /\ Cardinality(B) \in Nat /\ Cardinality(B \cup {x}) \in Nat
  BY <1>1, <1>3, FS_CardinalityType
<1> QED
  BY <1>1, <1>3, <1>4

(***************************************************************************)
(* The nodes of the list.  The master's own node stays first: nobody       *)
(* revokes the master's address.  A walk may miss the node at pTail, and   *)
(* nodes behind it, but it never passes pTail, and never visits more nodes *)
(* than len counts.                                                        *)
(***************************************************************************)

EnteredList(l, ad) ==
  /\ TypedList(l, ad)
  /\ l.pHead = 1 /\ ad[1] = Master
  /\ \A i \in 2 .. Len(ad) : ad[i] \in Addresses
  /\ l.pTail \in Cells
  /\ l.len \in Nat /\ Len(Chain(l)) <= l.len
  /\ \A i \in 1 .. Len(Chain(l)) : Chain(l)[i] = l.pTail => i = Len(Chain(l))

ListEntered == EnteredList(gServerList, addr)

(* As long as nobody damaged the list, len and pTail are exact.            *)
Exact(l) == l.len = Len(Chain(l)) /\ Chain(l)[Len(Chain(l))] = l.pTail

LastCell == 1 + Tries * (Cardinality(Servers) + MaxKills)

LEMMA CellsBounded == LastCell \in Nat /\ Cells = 1 .. LastCell /\ 1 \in Cells
<1>1. Cardinality(Servers) \in Nat
  BY EnoughCells, FS_CardinalityType
<1>2. Tries * (Cardinality(Servers) + MaxKills) \in Nat
  BY <1>1, ClusterAssumption
<1> QED
  BY <1>2, EnoughCells DEF LastCell

LEMMA TypedForward ==
  ASSUME NEW l, NEW ad, TypedList(l, ad)
  PROVE  Forward(l.pNext, LastCell)
BY CellsBounded DEF TypedList, Forward

LEMMA NodeFacts ==
  ASSUME NEW l, NEW ad, TypedList(l, ad), l.pHead = 1
  PROVE  /\ Path(l.pNext, 1, Chain(l))
         /\ Chain(l) \in Seq(Cells) /\ Len(Chain(l)) \in Nat /\ Len(Chain(l)) >= 1
         /\ Chain(l)[1] = 1
         /\ \A i \in 1 .. Len(Chain(l)) : Chain(l)[i] \in Cells /\ Chain(l)[i] \in 1 .. Len(ad)
         /\ \A i, j \in 1 .. Len(Chain(l)) : i < j => Chain(l)[i] < Chain(l)[j]
<1> DEFINE s == Chain(l)
<1>1. Forward(l.pNext, LastCell) /\ 1 \in Cells /\ 1 # NULL
  BY TypedForward, CellsBounded, CellsAssumption
<1>2. Path(l.pNext, 1, s)
  BY <1>1, ChainPath
<1> HIDE DEF s
<1>3. s \in Seq(Cells) /\ Len(s) \in Nat /\ Len(s) >= 1 /\ s[1] = 1
  BY <1>1, <1>2 DEF Path
<1>4. \A i, j \in 1 .. Len(s) : i < j => s[i] < s[j]
  BY <1>1, <1>2, PathClimbs
<1>5. ASSUME NEW i \in 1 .. Len(s) PROVE s[i] \in Cells /\ s[i] \in 1 .. Len(ad)
  <2>1. s[i] \in Cells /\ s[i] \in Nat /\ s[i] >= 1 /\ s[i] # NULL
    BY <1>2, PathNodes, CellsBounded
  <2>2. Len(ad) \in Nat
    BY CellsAssumption DEF TypedList
  <2>3. CASE i = 1
    BY <2>1, <2>2, <2>3, <1>3, CellsBounded DEF TypedList
  <2>4. CASE i # 1
    <3>1. i - 1 \in 1 .. Len(s) /\ i - 1 # Len(s) /\ i - 1 + 1 = i
      BY <1>3, <2>4
    <3>2. l.pNext[s[i - 1]] = s[i]
      BY <1>2, <3>1 DEF Path
    <3>3. s[i - 1] \in Cells
      BY <1>2, <3>1, PathNodes
    <3>4. s[i] <= Len(ad)
      BY <2>1, <3>2, <3>3 DEF TypedList
    <3> QED
      BY <2>1, <2>2, <3>4
  <2> QED
    BY <2>3, <2>4
<1> QED
  BY <1>2, <1>3, <1>4, <1>5 DEF s

LEMMA NewListEntered ==
  /\ EnteredList(InitServerList, <<Master>>)
  /\ Exact(InitServerList)
  /\ Chain(InitServerList) = <<1>>
<1> DEFINE l == InitServerList
<1>1. TypedList(l, <<Master>>) /\ 1 \in Cells
  BY NewListTypes, CellsBounded
<1>2. l.pHead = 1 /\ l.pTail = 1 /\ l.len = 1
  BY DEF InitServerList, AddLNode, CreateLinkedList
<1>3. l.pNext[1] = NULL
  <2>1. Len(<<Master>>) = 1
    OBVIOUS
  <2> HIDE DEF l
  <2>2. l.pNext[1] # NULL => 1 < l.pNext[1] /\ l.pNext[1] <= 1 /\ l.pNext[1] \in Nat
    BY <1>1, <2>1, CellsAssumption DEF TypedList
  <2> QED
    BY <2>2
<1>4. Path(l.pNext, 1, <<1>>)
  <2>1. <<1>> \in Seq(Cells) /\ Len(<<1>>) = 1 /\ <<1>>[1] = 1 /\ <<1>> # <<>>
    BY <1>1
  <2>2. 1 # NULL
    BY <1>1, CellsAssumption
  <2> QED
    BY <1>3, <2>1, <2>2 DEF Path
<1>5. Chain(l) = <<1>>
  BY <1>1, <1>2, <1>4, NodeFacts, PathUnique
<1> HIDE DEF l
<1> QED
  BY <1>1, <1>2, <1>5 DEF l, EnteredList, Exact

(* AddServer: the new node is linked behind pTail, wherever that is.       *)
LEMMA NodeAppended ==
  ASSUME NEW l, NEW ad, NEW a \in Addresses, EnteredList(l, ad),
         TypedList(AddLNode(l, Len(ad) + 1), Append(ad, a))
  PROVE  /\ EnteredList(AddLNode(l, Len(ad) + 1), Append(ad, a))
         /\ Exact(l) => /\ Exact(AddLNode(l, Len(ad) + 1))
                        /\ Chain(AddLNode(l, Len(ad) + 1)) = Append(Chain(l), Len(ad) + 1)
<1> DEFINE n == Len(ad)
           p == n + 1
           m == AddLNode(l, p)
           s == Chain(l)
<1>1. /\ TypedList(l, ad) /\ l.pHead = 1 /\ ad[1] = Master /\ l.pTail \in Cells
      /\ l.len \in Nat /\ Len(s) <= l.len
      /\ \A i \in 2 .. n : ad[i] \in Addresses
      /\ \A i \in 1 .. Len(s) : s[i] = l.pTail => i = Len(s)
  BY DEF EnteredList
<1>2. /\ ad \in Seq(Addresses \cup {Master}) /\ n \in Nat /\ n \in Cells /\ n >= 1
      /\ Append(ad, a) \in Seq(Addresses \cup {Master})
      /\ Len(Append(ad, a)) = p
      /\ \A i \in 1 .. n : Append(ad, a)[i] = ad[i]
      /\ Append(ad, a)[p] = a
  BY <1>1, CellsBounded DEF TypedList
<1>3. /\ s \in Seq(Cells) /\ Len(s) \in Nat /\ Len(s) >= 1 /\ s[1] = 1
      /\ \A i \in 1 .. Len(s) : s[i] \in Cells /\ s[i] \in 1 .. n
  BY <1>1, NodeFacts
<1>4. p \in Cells /\ TypedList(m, Append(ad, a))
  BY <1>2 DEF TypedList
<1>5. l.pTail \in Nat /\ l.pTail <= n /\ l.pTail # NULL /\ 1 # NULL /\ 1 \in Cells
  BY <1>1, CellsAssumption, CellsBounded DEF TypedList
<1>6. m.pHead = 1 /\ m.pTail = p /\ m.len = l.len + 1
  BY <1>1, <1>5 DEF AddLNode
<1> HIDE DEF n, s, m
<1>7. p # l.pTail /\ ~In(s, p)
  BY <1>2, <1>3, <1>5 DEF In
<1>8. /\ s[Len(s)] = l.pTail => Chain(m) = Append(s, p)
      /\ ~In(s, l.pTail) => Chain(m) = s
  <2>1. Forward(l.pNext, LastCell) /\ Forward(m.pNext, LastCell)
    BY <1>1, <1>4, TypedForward
  <2> QED
    BY <1>1, <1>4, <1>5, <1>7, <2>1, AddedChain DEF s, m
<1>9. s[Len(s)] = l.pTail \/ ~In(s, l.pTail)
  BY <1>1 DEF In
<1>10. CASE s[Len(s)] = l.pTail
  <2>1. /\ Len(Append(s, p)) = Len(s) + 1
        /\ \A i \in 1 .. Len(s) : Append(s, p)[i] = s[i]
        /\ Append(s, p)[Len(s) + 1] = p
    BY <1>3, <1>4
  <2>2. \A i \in 1 .. Len(Chain(m)) : Chain(m)[i] = m.pTail => i = Len(Chain(m))
    <3> SUFFICES ASSUME NEW i \in 1 .. Len(s) + 1, Append(s, p)[i] = p PROVE i = Len(s) + 1
      BY <1>6, <1>8, <1>10, <2>1
    <3>1. i \in 1 .. Len(s) \/ i = Len(s) + 1
      BY <1>3
    <3>2. i \in 1 .. Len(s) => s[i] = p
      BY <2>1
    <3> QED
      BY <3>1, <3>2, <1>7 DEF In
  <2>3. Len(Chain(m)) <= m.len /\ m.len \in Nat
    BY <1>1, <1>3, <1>6, <1>8, <1>10, <2>1
  <2>4. \A i \in 2 .. p : Append(ad, a)[i] \in Addresses
    BY <1>1, <1>2
  <2>5. Append(ad, a)[1] = Master
    BY <1>1, <1>2
  <2>6. EnteredList(m, Append(ad, a))
    BY <1>2, <1>4, <1>6, <2>2, <2>3, <2>4, <2>5 DEF EnteredList
  <2>7. Exact(l) => Exact(m)
    BY <1>3, <1>6, <1>8, <1>10, <2>1 DEF Exact, s
  <2> QED
    BY <1>8, <1>10, <2>6, <2>7 DEF m, n, s
<1>11. CASE ~In(s, l.pTail)
  <2>1. \A i \in 1 .. Len(Chain(m)) : Chain(m)[i] = m.pTail => i = Len(Chain(m))
    BY <1>6, <1>7, <1>8, <1>11 DEF In
  <2>2. Len(Chain(m)) <= m.len /\ m.len \in Nat
    BY <1>1, <1>3, <1>6, <1>8, <1>11
  <2>3. \A i \in 2 .. p : Append(ad, a)[i] \in Addresses
    BY <1>1, <1>2
  <2>4. Append(ad, a)[1] = Master
    BY <1>1, <1>2
  <2>5. EnteredList(m, Append(ad, a))
    BY <1>2, <1>4, <1>6, <2>1, <2>2, <2>3, <2>4 DEF EnteredList
  <2>6. ~Exact(l)
    <3>1. Len(s) \in 1 .. Len(s)
      BY <1>3
    <3> QED
      BY <3>1, <1>11 DEF Exact, In, s
  <2> QED
    BY <2>5, <2>6 DEF m, n
<1> QED
  BY <1>9, <1>10, <1>11

(* DelServer: a node other than the first is unlinked.                     *)
LEMMA NodeRemoved ==
  ASSUME NEW l, NEW ad, EnteredList(l, ad), NEW k \in 2 .. Len(Chain(l)),
         TypedList(DelLNode(l, Chain(l)[k]), ad)
  PROVE  /\ EnteredList(DelLNode(l, Chain(l)[k]), ad)
         /\ Chain(DelLNode(l, Chain(l)[k])) = Removed(Chain(l), k)
         /\ Exact(l) /\ k # Len(Chain(l)) => Exact(DelLNode(l, Chain(l)[k]))
<1> DEFINE s == Chain(l)
           d == DelLNode(l, s[k])
           r == Removed(s, k)
<1>1. /\ TypedList(l, ad) /\ TypedList(d, ad)
      /\ l.pHead = 1 /\ ad[1] = Master /\ l.pTail \in Cells
      /\ l.len \in Nat /\ Len(s) <= l.len
      /\ \A i \in 2 .. Len(ad) : ad[i] \in Addresses
      /\ \A i \in 1 .. Len(s) : s[i] = l.pTail => i = Len(s)
  BY DEF EnteredList
<1>2. /\ s \in Seq(Cells) /\ Len(s) \in Nat /\ Len(s) >= 1
  BY <1>1, NodeFacts
<1>3. /\ d.pHead = 1 /\ Chain(d) = r
      /\ d.len = l.len - 1
      /\ d.pTail = IF l.len = 1 THEN NULL ELSE l.pTail
  <2>1. Forward(l.pNext, LastCell) /\ Forward(d.pNext, LastCell) /\ l.pHead \in Cells
    BY <1>1, TypedForward, CellsBounded
  <2> QED
    BY <1>1, <2>1, DeletedChain
<1> HIDE DEF s, d, r
<1>4. k \in Nat /\ k >= 2 /\ k <= Len(s) /\ l.len # 1 /\ k \in 1 .. Len(s)
  BY <1>1, <1>2 DEF s
<1>5. /\ Len(r) = Len(s) - 1
      /\ \A i \in 1 .. Len(s) - 1 : r[i] = IF i < k THEN s[i] ELSE s[i + 1]
  BY <1>2, <1>4, RemovedFacts DEF r
<1>6. \A i \in 1 .. Len(Chain(d)) : Chain(d)[i] = d.pTail => i = Len(Chain(d))
  <2> SUFFICES ASSUME NEW i \in 1 .. Len(s) - 1, r[i] = l.pTail PROVE i = Len(s) - 1
    BY <1>3, <1>4, <1>5
  <2>1. CASE i < k
    <3>1. i \in 1 .. Len(s) /\ s[i] = l.pTail /\ i # Len(s)
      BY <1>2, <1>4, <1>5, <2>1
    <3> QED
      BY <1>1, <3>1
  <2>2. CASE ~(i < k)
    <3>1. i + 1 \in 1 .. Len(s) /\ s[i + 1] = l.pTail
      BY <1>2, <1>4, <1>5, <2>2
    <3>2. i + 1 = Len(s)
      BY <1>1, <3>1
    <3> QED
      BY <1>2, <3>2
  <2> QED
    BY <2>1, <2>2
<1>7. d.len \in Nat /\ Len(Chain(d)) <= d.len /\ d.pTail \in Cells
  BY <1>1, <1>2, <1>3, <1>4, <1>5
<1>8. EnteredList(d, ad)
  BY <1>1, <1>3, <1>6, <1>7 DEF EnteredList
<1>9. ASSUME Exact(l), k # Len(s) PROVE Exact(d)
  <2>1. l.len = Len(s) /\ s[Len(s)] = l.pTail
    BY <1>9 DEF Exact, s
  <2>2. d.len = Len(Chain(d))
    BY <1>3, <1>5, <2>1
  <2>3. Len(s) - 1 \in 1 .. Len(s) - 1 /\ ~(Len(s) - 1 < k) /\ Len(s) - 1 + 1 = Len(s)
    BY <1>2, <1>4, <1>9
  <2>4. r[Len(s) - 1] = s[Len(s)]
    BY <1>5, <2>3
  <2> QED
    BY <1>3, <1>4, <1>5, <2>1, <2>2, <2>4 DEF Exact
<1> QED
  BY <1>3, <1>8, <1>9 DEF s, d, r

(***************************************************************************)
(* The addresses on the list.                                              *)
(***************************************************************************)

Names(l, ad) == [i \in DOMAIN Chain(l) |-> ad[Chain(l)[i]]]

Positions(s, a) == {i \in 1 .. Len(s) : s[i] = a}

LEMMA PositionsLeast ==
  ASSUME NEW s, NEW a, Positions(s, a) # {}
  PROVE  /\ Min(Positions(s, a)) \in Positions(s, a)
         /\ \A i \in Positions(s, a) : Min(Positions(s, a)) <= i
<1> DEFINE P == Positions(s, a)
<1>1. P \in SUBSET Nat
  BY DEF Positions
<1>2. \E m \in P : \A i \in P : m <= i
  BY <1>1, Least
<1> QED
  BY <1>2 DEF Min

LEMMA NamesFacts ==
  ASSUME NEW l, NEW ad, EnteredList(l, ad)
  PROVE  /\ Names(l, ad) \in Seq(Addresses \cup {Master})
         /\ Len(Names(l, ad)) = Len(Chain(l))
         /\ Len(Chain(l)) \in Nat /\ Len(Chain(l)) >= 1
         /\ Names(l, ad)[1] = Master
         /\ \A i \in 1 .. Len(Chain(l)) : Names(l, ad)[i] = ad[Chain(l)[i]]
         /\ \A i \in 2 .. Len(Chain(l)) : Names(l, ad)[i] \in Addresses
<1> DEFINE s == Chain(l)
<1>1. /\ TypedList(l, ad) /\ l.pHead = 1 /\ ad[1] = Master
      /\ \A i \in 2 .. Len(ad) : ad[i] \in Addresses
  BY DEF EnteredList
<1>2. /\ s \in Seq(Cells) /\ Len(s) \in Nat /\ Len(s) >= 1 /\ s[1] = 1
      /\ \A i \in 1 .. Len(s) : s[i] \in Cells /\ s[i] \in 1 .. Len(ad)
      /\ \A i, j \in 1 .. Len(s) : i < j => s[i] < s[j]
  BY <1>1, NodeFacts
<1>3. Names(l, ad) = [i \in 1 .. Len(s) |-> ad[s[i]]]
  BY <1>2 DEF Names
<1> HIDE DEF s
<1>4. Len(ad) \in Nat /\ \A i \in 1 .. Len(ad) : ad[i] \in Addresses \cup {Master}
  BY <1>1, CellsAssumption DEF TypedList
<1>5. \A i \in 1 .. Len(s) : ad[s[i]] \in Addresses \cup {Master}
  BY <1>2, <1>4
<1>6. [i \in 1 .. Len(s) |-> ad[s[i]]] \in Seq(Addresses \cup {Master})
  BY <1>2, <1>5, IsASeq
<1>7. ASSUME NEW i \in 2 .. Len(s) PROVE ad[s[i]] \in Addresses
  <2>1. i \in 1 .. Len(s) /\ 1 \in 1 .. Len(s) /\ 1 < i
    BY <1>2
  <2>2. s[1] < s[i] /\ s[i] \in 1 .. Len(ad)
    BY <1>2, <2>1
  <2>3. s[i] \in 2 .. Len(ad)
    BY <1>2, <1>4, <2>2
  <2> QED
    BY <1>1, <2>3
<1>8. Len(Names(l, ad)) = Len(s)
  BY <1>2, <1>3
<1>9. 1 \in 1 .. Len(s) /\ ad[s[1]] = Master
  BY <1>1, <1>2
<1> QED
  BY <1>2, <1>3, <1>6, <1>7, <1>8, <1>9 DEF s

LEMMA ListedFacts ==
  ASSUME ListEntered
  PROVE  /\ Listed \in Seq(Addresses \cup {Master})
         /\ Len(Listed) = Len(Chain(gServerList)) /\ Len(Listed) \in Nat /\ Len(Listed) >= 1
         /\ Listed[1] = Master
         /\ \A i \in 1 .. Len(Listed) : Listed[i] = addr[Chain(gServerList)[i]]
         /\ \A i \in 2 .. Len(Listed) : Listed[i] \in Addresses
<1>1. Listed = Names(gServerList, addr)
  BY DEF Listed, Names
<1> QED
  BY <1>1, NamesFacts DEF ListEntered

LEMMA EntriesPositions ==
  ASSUME ListEntered, NEW a
  PROVE  /\ Entries(a) = Positions(Listed, a) /\ Found(gServerList, a) = Positions(Listed, a)
         /\ IsFiniteSet(Entries(a)) /\ Cardinality(Entries(a)) \in Nat
<1>1. DOMAIN Listed = 1 .. Len(Listed) /\ DOMAIN Chain(gServerList) = 1 .. Len(Listed)
  <2>1. Chain(gServerList) \in Seq(Cells)
    BY NodeFacts DEF ListEntered, EnteredList
  <2> QED
    BY <2>1, ListedFacts
<1>2. Entries(a) = Positions(Listed, a) /\ Found(gServerList, a) = Positions(Listed, a)
  BY <1>1, ListedFacts DEF Entries, Positions, Found
<1>3. IsFiniteSet(1 .. Len(Listed)) /\ Positions(Listed, a) \in SUBSET (1 .. Len(Listed))
  BY ListedFacts, FS_Interval DEF Positions
<1> QED
  BY <1>2, <1>3, FS_Subset, FS_CardinalityType

(* What a revocation finds: the first node with the address, which is not  *)
(* the master's.                                                           *)
LEMMA Searched ==
  ASSUME ListEntered, NEW a \in Addresses
  PROVE  /\ Positions(Listed, a) = {} => SearchServerFunc(gServerList, a) = NULL
         /\ Positions(Listed, a) # {} =>
              /\ Min(Positions(Listed, a)) \in 2 .. Len(Listed)
              /\ SearchServerFunc(gServerList, a)
                   = Chain(gServerList)[Min(Positions(Listed, a))]
<1> DEFINE P == Positions(Listed, a)
<1>1. Found(gServerList, a) = P /\ Len(Chain(gServerList)) = Len(Listed)
  BY EntriesPositions, ListedFacts
<1>2. CASE P = {}
  BY <1>1, <1>2 DEF SearchServerFunc
<1>3. CASE P # {}
  <2>1. Min(P) \in P
    BY <1>3, PositionsLeast
  <2>2. Min(P) \in 1 .. Len(Listed) /\ Listed[Min(P)] = a
    BY <2>1 DEF Positions
  <2>3. a # Master
    BY ClusterAssumption
  <2>4. Min(P) # 1
    BY <2>2, <2>3, ListedFacts
  <2>5. Min(P) \in 2 .. Len(Listed) /\ ~(Len(Listed) < 2)
    BY <2>2, <2>4, ListedFacts
  <2> QED
    BY <1>1, <1>3, <2>5 DEF SearchServerFunc
<1> QED
  BY <1>2, <1>3

LEMMA AddressJoins ==
  ASSUME ListEntered, ListTypes', NEW a \in Addresses, AddServer(a)
  PROVE  /\ ListEntered'
         /\ Exact(gServerList) => Exact(gServerList') /\ Listed' = Append(Listed, a)
<1> DEFINE n == Len(addr)
           s == Chain(gServerList)
<1>1. /\ addr' = Append(addr, a) /\ gServerList' = AddLNode(gServerList, n + 1)
      /\ EnteredList(gServerList, addr) /\ TypedList(gServerList', addr')
  BY DEF AddServer, ListEntered, ListTypes
<1>2. /\ EnteredList(gServerList', addr')
      /\ Exact(gServerList) => Exact(gServerList') /\ Chain(gServerList') = Append(s, n + 1)
  BY <1>1, NodeAppended
<1>3. ASSUME Exact(gServerList) PROVE Listed' = Append(Listed, a)
  <2>1. Chain(gServerList') = Append(s, n + 1)
    BY <1>2, <1>3
  <2>2. Listed' = Names(gServerList', addr')
    BY DEF Listed, Names
  <2>3. /\ s \in Seq(Cells) /\ Len(s) \in Nat /\ n + 1 \in Cells
        /\ \A i \in 1 .. Len(s) : s[i] \in 1 .. n
    BY <1>1, NodeFacts DEF AddServer, EnteredList
  <2>4. /\ addr \in Seq(Addresses \cup {Master}) /\ n \in Nat
        /\ \A i \in 1 .. n : addr'[i] = addr[i]
        /\ addr'[n + 1] = a
    BY <1>1 DEF EnteredList, TypedList
  <2>5. /\ Listed' \in Seq(Addresses \cup {Master}) /\ Len(Listed') = Len(s) + 1
        /\ \A i \in 1 .. Len(s) + 1 : Listed'[i] = addr'[Append(s, n + 1)[i]]
    <3>1. Len(Append(s, n + 1)) = Len(s) + 1
      BY <2>3
    <3> QED
      BY <1>2, <2>1, <2>2, <3>1, NamesFacts
  <2>6. /\ Listed \in Seq(Addresses \cup {Master}) /\ Len(Listed) = Len(s)
        /\ \A i \in 1 .. Len(s) : Listed[i] = addr[s[i]]
    BY ListedFacts
  <2> HIDE DEF n, s
  <2>7. ASSUME NEW i \in 1 .. Len(s) + 1 PROVE Listed'[i] = Append(Listed, a)[i]
    <3>1. CASE i = Len(s) + 1
      <4>1. Append(s, n + 1)[i] = n + 1 /\ Append(Listed, a)[i] = a
        BY <2>3, <2>6, <3>1
      <4> QED
        BY <2>4, <2>5, <4>1
    <3>2. CASE i # Len(s) + 1
      <4>1. i \in 1 .. Len(s)
        BY <2>3, <3>2
      <4>2. Append(s, n + 1)[i] = s[i] /\ Append(Listed, a)[i] = Listed[i]
        BY <2>3, <2>6, <4>1
      <4> QED
        BY <2>3, <2>4, <2>5, <2>6, <4>1, <4>2
    <3> QED
      BY <3>1, <3>2
  <2>8. Append(Listed, a) \in Seq(Addresses \cup {Master}) /\ Len(Append(Listed, a)) = Len(s) + 1
    BY <2>6
  <2> QED
    BY <2>5, <2>7, <2>8, SeqEqual
<1> QED
  BY <1>2, <1>3 DEF ListEntered

LEMMA AddressLeaves ==
  ASSUME ListEntered, ListTypes', NEW a \in Addresses, DelServer(a)
  PROVE  /\ ListEntered'
         /\ Positions(Listed, a) = {} => UNCHANGED <<gServerList, addr>>
         /\ Positions(Listed, a) # {} =>
              /\ Listed' = Removed(Listed, Min(Positions(Listed, a)))
              /\ Exact(gServerList) /\ Min(Positions(Listed, a)) # Len(Listed)
                   => Exact(gServerList')
<1> DEFINE s == Chain(gServerList)
           k == Min(Positions(Listed, a))
<1>1. /\ addr' = addr /\ EnteredList(gServerList, addr) /\ TypedList(gServerList', addr)
      /\ gServerList' = DelLNode(gServerList, SearchServerFunc(gServerList, a))
  BY DEF DelServer, ListEntered, ListTypes
<1>2. CASE Positions(Listed, a) = {}
  <2>1. SearchServerFunc(gServerList, a) = NULL
    BY <1>2, Searched
  <2>2. gServerList' = gServerList
    BY <1>1, <2>1 DEF DelLNode
  <2> QED
    BY <1>1, <1>2, <2>2 DEF ListEntered
<1>3. CASE Positions(Listed, a) # {}
  <2>1. k \in 2 .. Len(Listed) /\ SearchServerFunc(gServerList, a) = s[k]
    BY <1>3, Searched
  <2>2. /\ Listed \in Seq(Addresses \cup {Master}) /\ Len(Listed) = Len(s) /\ Len(s) \in Nat
        /\ \A i \in 1 .. Len(s) : Listed[i] = addr[s[i]]
    BY ListedFacts
  <2>3. k \in 2 .. Len(s) /\ k \in 1 .. Len(s) /\ k \in 1 .. Len(Listed)
    BY <2>1, <2>2
  <2>4. /\ EnteredList(gServerList', addr)
        /\ Chain(gServerList') = Removed(s, k)
        /\ Exact(gServerList) /\ k # Len(s) => Exact(gServerList')
    BY <1>1, <2>1, <2>3, NodeRemoved
  <2>5. Listed' = Names(gServerList', addr)
    BY <1>1 DEF Listed, Names
  <2>6. s \in Seq(Cells)
    BY <1>1, NodeFacts DEF EnteredList
  <2> HIDE DEF s, k
  <2>7. /\ Len(Removed(s, k)) = Len(s) - 1
        /\ \A i \in 1 .. Len(s) - 1 : Removed(s, k)[i] = IF i < k THEN s[i] ELSE s[i + 1]
    BY <2>3, <2>6, RemovedFacts
  <2>8. /\ Removed(Listed, k) \in Seq(Addresses \cup {Master})
        /\ Len(Removed(Listed, k)) = Len(s) - 1
        /\ \A i \in 1 .. Len(s) - 1 :
             Removed(Listed, k)[i] = IF i < k THEN Listed[i] ELSE Listed[i + 1]
    BY <2>2, <2>3, RemovedFacts
  <2>9. /\ Listed' \in Seq(Addresses \cup {Master}) /\ Len(Listed') = Len(s) - 1
        /\ \A i \in 1 .. Len(s) - 1 : Listed'[i] = addr[Removed(s, k)[i]]
    BY <2>4, <2>5, <2>7, NamesFacts
  <2>10. ASSUME NEW i \in 1 .. Len(s) - 1 PROVE Listed'[i] = Removed(Listed, k)[i]
    <3>1. i \in 1 .. Len(s) /\ i + 1 \in 1 .. Len(s)
      BY <2>2
    <3>2. Listed'[i] = addr[Removed(s, k)[i]]
      BY <2>9
    <3>3. CASE i < k
      <4>1. Removed(s, k)[i] = s[i] /\ Removed(Listed, k)[i] = Listed[i]
        BY <2>7, <2>8, <3>3
      <4> QED
        BY <2>2, <3>1, <3>2, <4>1
    <3>4. CASE ~(i < k)
      <4>1. Removed(s, k)[i] = s[i + 1] /\ Removed(Listed, k)[i] = Listed[i + 1]
        BY <2>7, <2>8, <3>4
      <4> QED
        BY <2>2, <3>1, <3>2, <4>1
    <3> QED
      BY <3>3, <3>4
  <2>11. Listed' = Removed(Listed, k)
    BY <2>8, <2>9, <2>10, SeqEqual
  <2> QED
    BY <1>1, <1>3, <2>2, <2>4, <2>11 DEF ListEntered, s, k
<1> QED
  BY <1>2, <1>3

(***************************************************************************)
(* The list after any steps, damaged or not, and the clients that read it. *)
(***************************************************************************)

LEMMA KeepsEntered == ServerTypes /\ ListEntered /\ [Next]_vars => ListEntered'
<1> SUFFICES ASSUME ServerTypes, ListEntered, [Next]_vars PROVE ListEntered'
  OBVIOUS
<1>1. ListTypes /\ ListTypes'
  BY ListKeepsTypes DEF ListEntered, EnteredList, ListTypes
<1>2. CASE UNCHANGED <<gServerList, addr>>
  BY <1>2 DEF ListEntered
<1>3. CASE MasterStart
  BY <1>3, NewListEntered DEF MasterStart, ListEntered
<1>4. ASSUME NEW p \in Servers, Register(p) PROVE ListEntered'
  <2>1. AddrOf(p) \in Addresses
    BY <1>4, AddressTypes DEF Register
  <2> QED
    BY <1>1, <1>4, <2>1, AddressJoins DEF Register
<1>5. ASSUME NEW p \in Servers, Revoke(p) PROVE ListEntered'
  <2>1. AddrOf(p) \in Addresses
    BY <1>5, AddressTypes DEF Revoke
  <2> QED
    BY <1>1, <1>5, <2>1, AddressLeaves DEF Revoke
<1>6. ASSUME NEW p \in Servers, Start(p) \/ Bind(p) \/ NoMaster(p) \/ Kill(p)
      PROVE  UNCHANGED <<gServerList, addr>>
  BY <1>6 DEF Start, Bind, NoMaster, Kill
<1>7. ASSUME NEW a \in Addresses, Expire(a) PROVE UNCHANGED <<gServerList, addr>>
  BY <1>7 DEF Expire
<1>8. ASSUME NEW c \in Clients, CreateDB(c) \/ Proceed(c) \/ ForeignAnswers(c) \/ CloseDB(c)
      PROVE  UNCHANGED <<gServerList, addr>>
  BY <1>8 DEF CreateDB, Proceed, Connect, Opened, OpenFails, ForeignAnswers, CloseDB
<1>9. CASE MasterKill
  BY <1>9, <1>2 DEF MasterKill
<1> QED
  BY <1>2, <1>3, <1>4, <1>5, <1>6, <1>7, <1>8, <1>9 DEF Next, Run

ClientStates == {"off", "connecting", "waiting", "unanswered", "open", "failed", "exited"}

ClientTypes ==
  /\ cpc \in [Clients -> ClientStates]
  /\ serverList \in [Clients -> Seq(Addresses \cup {Master, NULL})]
  /\ node \in [Clients -> Nat]
  /\ \A c \in Clients : /\ node[c] <= Len(serverList[c])
                        /\ cpc[c] \in {"connecting", "waiting"} => node[c] >= 1
  /\ link \in [Clients -> Servers \cup {Master, NULL}]

RestTypes ==
  /\ gServerList \in LinkedLists
  /\ masterUp \in BOOLEAN /\ masters <= MaxMasters

LEMMA PackServerFacts ==
  ASSUME ListEntered
  PROVE  /\ PackServer \in Seq(Addresses \cup {Master, NULL})
         /\ Len(PackServer) = Announced /\ gServerList.len \in Nat
         /\ gServerList.len >= 2 => Announced >= 2
         /\ Len(Listed) <= gServerList.len
         /\ Packs => /\ Len(PackServer) = gServerList.len
                     /\ \A i \in 1 .. Len(Listed) : PackServer[i] = Listed[i]
<1>1. gServerList.len \in Nat /\ Len(Listed) <= gServerList.len /\ Len(Listed) \in Nat
  BY ListedFacts DEF ListEntered, EnteredList
<1>2. /\ Announced \in Nat /\ (gServerList.len >= 2 => Announced >= 2)
      /\ Packs => Announced = gServerList.len
  BY <1>1, ClusterAssumption DEF Announced, Packs
<1>3. \A i \in 1 .. Announced :
        (IF Packs /\ i <= Len(Listed) THEN Listed[i] ELSE NULL) \in Addresses \cup {Master, NULL}
  <2> SUFFICES ASSUME NEW i \in 1 .. Announced, i <= Len(Listed)
               PROVE  Listed[i] \in Addresses \cup {Master}
    OBVIOUS
  <2>1. i \in 1 .. Len(Listed)
    BY <1>1, <1>2
  <2> QED
    BY <2>1, ListedFacts, ElementOfSeq
<1>4. PackServer \in [1 .. Announced -> Addresses \cup {Master, NULL}]
  BY <1>3 DEF PackServer
<1>5. PackServer \in Seq(Addresses \cup {Master, NULL})
  BY <1>2, <1>4, IsASeq
<1>6. Len(PackServer) = Announced
  BY <1>2, <1>4, <1>5
<1>7. Packs => \A i \in 1 .. Len(Listed) : PackServer[i] = Listed[i]
  BY <1>1, <1>2 DEF PackServer
<1> QED
  BY <1>1, <1>2, <1>5, <1>6, <1>7

LEMMA ClientsKeepTypes == ListEntered /\ ClientTypes /\ [Next]_vars => ClientTypes'
<1> SUFFICES ASSUME ListEntered, ClientTypes, [Next]_vars PROVE ClientTypes'
  OBVIOUS
<1> USE DEF ClientTypes, ClientStates
<1>1. CASE UNCHANGED clientVars
  BY <1>1
<1>2. CASE MasterKill
  BY <1>2 DEF MasterKill
<1>3. ASSUME NEW p \in Servers, Kill(p) PROVE ClientTypes'
  BY <1>3 DEF Kill
<1>4. ASSUME NEW p \in Servers, Start(p) \/ Run(p) PROVE UNCHANGED clientVars
  BY <1>4 DEF Start, Run, Register, Bind, Revoke, NoMaster
<1>5. ASSUME NEW c \in Clients, CreateDB(c) PROVE ClientTypes'
  <2>1. /\ PackServer \in Seq(Addresses \cup {Master, NULL})
        /\ Len(PackServer) = Announced /\ gServerList.len \in Nat
        /\ gServerList.len >= 2 => Announced >= 2
    BY PackServerFacts
  <2>2. CASE ReplyAccepted /\ cpc' = [cpc EXCEPT ![c] = "connecting"]
             /\ serverList' = [serverList EXCEPT ![c] = PackServer]
             /\ node' = [node EXCEPT ![c] = 1] /\ link' = link
    <3>1. 1 <= Len(PackServer)
      BY <2>1, <2>2 DEF ReplyAccepted
    <3> HIDE DEF ClientTypes
    <3>2. /\ cpc' \in [Clients -> ClientStates]
          /\ serverList' \in [Clients -> Seq(Addresses \cup {Master, NULL})]
          /\ node' \in [Clients -> Nat]
          /\ link' \in [Clients -> Servers \cup {Master, NULL}]
      BY <2>1, <2>2 DEF ClientTypes, ClientStates
    <3>3. \A d \in Clients : /\ node'[d] <= Len(serverList'[d])
                             /\ cpc'[d] \in {"connecting", "waiting"} => node'[d] >= 1
      BY <2>2, <3>1 DEF ClientTypes
    <3> QED
      BY <3>2, <3>3 DEF ClientTypes
  <2>3. CASE /\ \E x \in {"failed", "exited"} : cpc' = [cpc EXCEPT ![c] = x]
             /\ serverList' = [serverList EXCEPT ![c] = << >>]
             /\ node' = [node EXCEPT ![c] = 0] /\ link' = link
    <3>1. << >> \in Seq(Addresses \cup {Master, NULL}) /\ Len(<< >>) = 0
      OBVIOUS
    <3> QED
      BY <2>3, <3>1
  <2> QED
    BY <1>5, <2>2, <2>3 DEF CreateDB
<1>6. ASSUME NEW c \in Clients, Connect(c) PROVE ClientTypes'
  <2>1. /\ \E x \in {"waiting", "unanswered", "exited"} : cpc' = [cpc EXCEPT ![c] = x]
        /\ link' = link \/ \E x \in Servers \cup {Master} : link' = [link EXCEPT ![c] = x]
        /\ cpc[c] = "connecting"
        /\ UNCHANGED <<serverList, node>>
    BY <1>6 DEF Connect
  <2> QED
    BY <2>1
<1>7. ASSUME NEW c \in Clients, Opened(c) PROVE ClientTypes'
  <2>1. CASE node[c] < Len(serverList[c]) /\ node' = [node EXCEPT ![c] = @ + 1]
             /\ cpc' = [cpc EXCEPT ![c] = "connecting"]
    <3>1. Len(serverList[c]) \in Nat /\ node[c] \in Nat
      OBVIOUS
    <3> QED
      BY <1>7, <2>1, <3>1 DEF Opened
  <2>2. CASE node' = node /\ cpc' = [cpc EXCEPT ![c] = "open"]
    BY <1>7, <2>2 DEF Opened
  <2> QED
    BY <1>7, <2>1, <2>2 DEF Opened
<1>8. ASSUME NEW c \in Clients, OpenFails(c) PROVE ClientTypes'
  BY <1>8 DEF OpenFails
<1>9. ASSUME NEW c \in Clients, CloseDB(c) PROVE ClientTypes'
  <2>1. << >> \in Seq(Addresses \cup {Master, NULL}) /\ Len(<< >>) = 0
    OBVIOUS
  <2> QED
    BY <1>9, <2>1 DEF CloseDB
<1>10. MasterStart => UNCHANGED clientVars
  BY DEF MasterStart
<1>11. ASSUME NEW a \in Addresses, Expire(a) PROVE UNCHANGED clientVars
  BY <1>11 DEF Expire
<1>12. ASSUME NEW c \in Clients, ForeignAnswers(c) PROVE ClientTypes'
  BY <1>12 DEF ForeignAnswers
<1> QED
  BY <1>1, <1>2, <1>3, <1>4, <1>5, <1>6, <1>7, <1>8, <1>9, <1>10, <1>11, <1>12 DEF Next, Proceed

LEMMA AddedIsList ==
  ASSUME NEW m, NEW p, NEW ad, EnteredList(AddLNode(m, p), ad)
  PROVE  AddLNode(m, p) \in LinkedLists
<1> DEFINE l == AddLNode(m, p)
<1>1. l = [pHead |-> l.pHead, pTail |-> l.pTail, len |-> l.len, pNext |-> l.pNext]
  BY DEF AddLNode
<1> HIDE DEF l
<1>2. /\ l.pHead \in Cells \cup {NULL} /\ l.pTail \in Cells \cup {NULL} /\ l.len \in Nat
      /\ l.pNext \in [Cells -> Cells \cup {NULL}]
  BY CellsBounded DEF l, EnteredList, TypedList
<1>3. l \in LinkedLists
  BY <1>1, <1>2 DEF LinkedLists
<1> QED
  BY <1>3 DEF l

LEMMA RestKeepsTypes ==
  ServerTypes /\ ListEntered /\ ListEntered' /\ RestTypes /\ [Next]_vars => RestTypes'
<1> SUFFICES ASSUME ServerTypes, ListEntered, ListEntered', RestTypes, [Next]_vars
             PROVE  RestTypes'
  OBVIOUS
<1>1. UNCHANGED gServerList \/ gServerList' \in LinkedLists
  <2>1. CASE \E m, p : gServerList' = AddLNode(m, p)
    BY <2>1, AddedIsList DEF ListEntered
  <2>2. CASE \E h, x : gServerList' = Shorter(gServerList, h, x)
    BY <2>2 DEF Shorter, LinkedLists, ListEntered, EnteredList, TypedList
  <2>3. \A p : \/ DelLNode(gServerList, p) = gServerList
               \/ \E h, x : DelLNode(gServerList, p) = Shorter(gServerList, h, x)
    BY DEF DelLNode
  <2>4. ASSUME NEW p \in Servers, Register(p) PROVE \E m, q : gServerList' = AddLNode(m, q)
    BY <2>4 DEF Register, AddServer
  <2>5. ASSUME NEW p \in Servers, Revoke(p) PROVE \E q : gServerList' = DelLNode(gServerList, q)
    BY <2>5 DEF Revoke, DelServer
  <2>6. MasterStart => \E m, p : gServerList' = AddLNode(m, p)
    BY DEF MasterStart, InitServerList
  <2>7. ASSUME NEW p \in Servers, Start(p) \/ Bind(p) \/ NoMaster(p) \/ Kill(p)
        PROVE  UNCHANGED gServerList
    BY <2>7 DEF Start, Bind, NoMaster, Kill
  <2>8. ASSUME NEW c \in Clients, CreateDB(c) \/ Proceed(c) \/ ForeignAnswers(c) \/ CloseDB(c)
        PROVE  UNCHANGED gServerList
    BY <2>8 DEF CreateDB, Proceed, Connect, Opened, OpenFails, ForeignAnswers, CloseDB
  <2>9. MasterKill \/ (\E a \in Addresses : Expire(a)) => UNCHANGED gServerList
    BY DEF MasterKill, Expire
  <2> QED
    BY <2>1, <2>2, <2>3, <2>4, <2>5, <2>6, <2>7, <2>8, <2>9 DEF Next, Run
<1>2. masterUp' \in BOOLEAN /\ masters' <= MaxMasters
  <2>1. CASE MasterKill \/ MasterStart
    <3>1. masterUp' = FALSE \/ masterUp' = TRUE
      BY <2>1, Zenon DEF MasterKill, MasterStart
    <3>2. masterUp' \in BOOLEAN
      BY <3>1, Zenon
    <3>3. (masters < MaxMasters /\ masters' = masters + 1) \/ masters' = masters
      BY <2>1, Zenon DEF MasterKill, MasterStart
    <3>4. masters' <= MaxMasters
      BY <3>3, ClusterAssumption DEF RestTypes, ServerTypes
    <3> QED
      BY <3>2, <3>4
  <2>2. ASSUME NEW p \in Servers, Start(p) \/ Run(p) \/ Kill(p) PROVE UNCHANGED <<masterUp, masters>>
    BY <2>2 DEF Start, Run, Register, AddServer, Bind, Revoke, DelServer, NoMaster, Kill
  <2>3. ASSUME NEW c \in Clients, CreateDB(c) \/ Proceed(c) \/ ForeignAnswers(c) \/ CloseDB(c)
        PROVE  UNCHANGED <<masterUp, masters>>
    BY <2>3 DEF CreateDB, Proceed, Connect, Opened, OpenFails, ForeignAnswers, CloseDB
  <2>4. (\E a \in Addresses : Expire(a)) => UNCHANGED <<masterUp, masters>>
    BY DEF Expire
  <2> QED
    BY <2>1, <2>2, <2>3, <2>4 DEF Next, RestTypes
<1> QED
  BY <1>1, <1>2 DEF RestTypes

AlwaysInv == ServerTypes /\ ListEntered /\ ClientTypes /\ RestTypes

LEMMA InitAlways == Init => AlwaysInv
<1> SUFFICES ASSUME Init PROVE AlwaysInv
  OBVIOUS
<1>1. ServerTypes /\ ListEntered
  BY InitTypes, NewListEntered DEF Init, ListEntered
<1>2. ClientTypes
  <2>1. << >> \in Seq(Addresses \cup {Master, NULL}) /\ Len(<< >>) = 0
    OBVIOUS
  <2> QED
    BY <2>1 DEF Init, ClientTypes, ClientStates
<1>3. gServerList \in LinkedLists
  BY <1>1, AddedIsList DEF Init, InitServerList, ListEntered
<1>4. RestTypes
  BY <1>3, ClusterAssumption DEF Init, RestTypes
<1> QED
  BY <1>1, <1>2, <1>4 DEF AlwaysInv

LEMMA KeepsAlways == AlwaysInv /\ [Next]_vars => AlwaysInv'
BY ServersKeepTypes, KeepsEntered, ClientsKeepTypes, RestKeepsTypes DEF AlwaysInv

LEMMA SpecAlways == Spec => []AlwaysInv
BY InitAlways, KeepsAlways, PTL DEF Spec

(* Every variable keeps its type: the list's fields, the master's counters,*)
(* the loop variable of main (server.c), the list and the position in it   *)
(* of CreateDB (clouddbapi.c).                                             *)
THEOREM ClusterTypes == Spec => []TypeOK
<1>1. AlwaysInv => TypeOK
  <2> SUFFICES ASSUME AlwaysInv PROVE TypeOK
    OBVIOUS
  <2>1. addr \in Seq(Addresses \cup {Master}) /\ Len(addr) \in Cells
    BY DEF AlwaysInv, ListEntered, EnteredList, TypedList
  <2>2. gServerList \in LinkedLists /\ masterUp \in BOOLEAN
    BY DEF AlwaysInv, RestTypes
  <2>3. masters \in 0 .. MaxMasters
    BY ClusterAssumption DEF AlwaysInv, RestTypes, ServerTypes
  <2>4. try \in [Servers -> 0 .. Tries]
    BY ClusterAssumption DEF AlwaysInv, ServerTypes
  <2>5. \A c \in Clients : node[c] \in 0 .. Len(serverList[c])
    <3> SUFFICES ASSUME NEW c \in Clients PROVE node[c] \in 0 .. Len(serverList[c])
      OBVIOUS
    <3>1. Len(serverList[c]) \in Nat /\ node[c] \in Nat /\ node[c] <= Len(serverList[c])
      BY DEF AlwaysInv, ClientTypes
    <3> QED
      BY <3>1
  <2> QED
    BY <2>1, <2>2, <2>3, <2>4, <2>5 DEF AlwaysInv, ServerTypes, ClientTypes, ClientStates, TypeOK
<1> QED
  BY <1>1, SpecAlways, PTL

(* The length that PackServer tests, and a reply announces, covers every   *)
(* address that it reaches, the master's first, however servers and        *)
(* masters were killed and whatever entries they left (servlistmgr.c,      *)
(* PackServer and DelServer).                                              *)
THEOREM RepliesCoverTheList == Spec => []ReplyCoversList
<1>1. AlwaysInv => ReplyCoversList
  <2> SUFFICES ASSUME AlwaysInv PROVE ReplyCoversList
    OBVIOUS
  <2>1. ListEntered
    BY DEF AlwaysInv
  <2>2. /\ Listed \in Seq(Addresses \cup {Master}) /\ Len(Listed) >= 1 /\ Listed[1] = Master
        /\ Len(Listed) <= gServerList.len
    BY <2>1, ListedFacts, PackServerFacts
  <2>3. Listed # << >> /\ Head(Listed) = Master
    BY <2>2
  <2> QED
    BY <2>2, <2>3 DEF ReplyCoversList
<1> QED
  BY <1>1, SpecAlways, PTL

(***************************************************************************)
(* What a database is open on.  CreateDB goes through its list in order,   *)
(* and only a server's reply takes it past an entry.                       *)
(***************************************************************************)

WasServer(c, i) == serverList[c][i] \notin Foreign \cup {NULL}

OpeningOf(c) ==
  /\ cpc[c] \in {"connecting", "waiting", "unanswered", "open"} =>
       Len(serverList[c]) >= 2 /\ serverList[c][1] \in {Master, NULL}
  /\ cpc[c] \in {"connecting", "unanswered"} => \A i \in 1 .. node[c] - 1 : WasServer(c, i)
  /\ cpc[c] \in {"waiting", "open"} => \A i \in 1 .. node[c] : WasServer(c, i)
  /\ cpc[c] = "open" => node[c] = Len(serverList[c])

(* A server binds no port that another program holds. *)
ServersApart == \A p \in Servers : pc[p] = "serving" => AddrOf(p) \notin Foreign

OpeningInv == ServersApart /\ \A c \in Clients : OpeningOf(c)

LEMMA ServersStayApart == ServersApart /\ ServerTypes /\ [Next]_vars => ServersApart'
<1> SUFFICES ASSUME ServersApart, ServerTypes, [Next]_vars PROVE ServersApart'
  OBVIOUS
<1> USE DEF ServersApart, ServerTypes, AddrOf
<1>1. CASE UNCHANGED <<pc, try>>
  BY <1>1
<1>2. ASSUME NEW p \in Servers, Start(p) \/ NoMaster(p) \/ Register(p) \/ Revoke(p) \/ Kill(p)
      PROVE  ServersApart'
  BY <1>2 DEF Start, NoMaster, Register, Revoke, Kill
<1>3. ASSUME NEW p \in Servers, Bind(p) PROVE ServersApart'
  BY <1>3 DEF Bind, Taken
<1>4. MasterKill \/ MasterStart \/ (\E a \in Addresses : Expire(a)) => UNCHANGED <<pc, try>>
  BY DEF MasterKill, MasterStart, Expire
<1>5. ASSUME NEW c \in Clients, CreateDB(c) \/ Proceed(c) \/ ForeignAnswers(c) \/ CloseDB(c)
      PROVE  UNCHANGED <<pc, try>>
  BY <1>5 DEF CreateDB, Proceed, Connect, Opened, OpenFails, ForeignAnswers, CloseDB
<1> QED
  BY <1>1, <1>2, <1>3, <1>4, <1>5 DEF Next, Run

(* The step of one client does not touch another. *)
LEMMA OpeningStep ==
  ASSUME AlwaysInv, OpeningInv, NEW c \in Clients,
         CreateDB(c) \/ Proceed(c) \/ ForeignAnswers(c) \/ CloseDB(c)
  PROVE  \A d \in Clients : OpeningOf(d)'
<1>1. /\ cpc \in [Clients -> ClientStates]
      /\ serverList \in [Clients -> Seq(Addresses \cup {Master, NULL})]
      /\ node \in [Clients -> Nat] /\ \A d \in Clients : Len(serverList[d]) \in Nat
      /\ \A d \in Clients : cpc[d] \in {"connecting", "waiting"} => node[d] >= 1
      /\ \A d \in Clients : node[d] <= Len(serverList[d])
  BY DEF AlwaysInv, ClientTypes
<1>2. ASSUME NEW d \in Clients, d # c PROVE OpeningOf(d)'
  <2>1. cpc'[d] = cpc[d] /\ serverList'[d] = serverList[d] /\ node'[d] = node[d]
    BY <1>1, <1>2 DEF CreateDB, Proceed, Connect, Opened, OpenFails, ForeignAnswers, CloseDB
  <2> QED
    BY <2>1 DEF OpeningInv, OpeningOf, WasServer
<1>3. OpeningOf(c)
  BY DEF OpeningInv
<1>4. ASSUME CreateDB(c) PROVE OpeningOf(c)'
  <2>1. CASE ReplyAccepted /\ cpc'[c] = "connecting" /\ serverList'[c] = PackServer
             /\ node'[c] = 1
    <3>1. Len(PackServer) >= 2 /\ gServerList.len >= 2
      BY <2>1, PackServerFacts DEF AlwaysInv, ReplyAccepted
    <3>2. PackServer[1] \in {Master, NULL}
      <4>1. Len(Listed) >= 1 /\ Listed[1] = Master /\ Len(Listed) \in Nat
        BY ListedFacts DEF AlwaysInv
      <4>2. 1 \in 1 .. Announced
        BY <3>1, PackServerFacts DEF AlwaysInv
      <4> QED
        BY <4>1, <4>2 DEF PackServer
    <3>3. 1 .. 1 - 1 = {}
      OBVIOUS
    <3> QED
      BY <2>1, <3>1, <3>2, <3>3 DEF OpeningOf
  <2>2. CASE cpc'[c] \in {"failed", "exited"}
    BY <2>2 DEF OpeningOf
  <2> QED
    BY <1>1, <1>4, <2>1, <2>2 DEF CreateDB
<1>5. ASSUME Connect(c) PROVE OpeningOf(c)'
  <2>1. cpc[c] = "connecting" /\ serverList'[c] = serverList[c] /\ node'[c] = node[c]
    BY <1>5 DEF Connect
  <2>2. CASE cpc'[c] = "waiting"
    <3>1. Target(c) = Master \/ \E p \in Servers : Serves(p, Target(c))
      BY <1>1, <1>5, <2>2 DEF Connect
    <3>2. Target(c) \notin Foreign \cup {NULL}
      <4>1. Master \notin Foreign \cup {NULL}
        BY ClusterAssumption
      <4>2. ASSUME NEW p \in Servers, Serves(p, Target(c))
            PROVE  Target(c) \notin Foreign \cup {NULL}
        <5>1. AddrOf(p) \in Addresses /\ AddrOf(p) \notin Foreign
          BY <4>2, AddressTypes DEF Serves, OpeningInv, ServersApart, AlwaysInv
        <5> QED
          BY <4>2, <5>1, ClusterAssumption DEF Serves
      <4> QED
        BY <3>1, <4>1, <4>2
    <3>3. \A i \in 1 .. node[c] : i = node[c] \/ i \in 1 .. node[c] - 1
      BY <1>1
    <3> QED
      BY <1>3, <2>1, <2>2, <3>2, <3>3 DEF OpeningOf, WasServer, Target
  <2>3. CASE cpc'[c] = "unanswered"
    BY <1>3, <2>1, <2>3 DEF OpeningOf, WasServer
  <2>4. CASE cpc'[c] = "exited"
    BY <2>4 DEF OpeningOf
  <2> QED
    BY <1>1, <1>5, <2>2, <2>3, <2>4 DEF Connect
<1>6. ASSUME Opened(c) PROVE OpeningOf(c)'
  <2>1. cpc[c] = "waiting" /\ serverList'[c] = serverList[c]
    BY <1>6 DEF Opened
  <2>2. CASE node'[c] = node[c] + 1 /\ cpc'[c] = "connecting"
    <3>1. (node[c] + 1) - 1 = node[c]
      BY <1>1
    <3> QED
      BY <1>3, <2>1, <2>2, <3>1 DEF OpeningOf, WasServer
  <2>3. CASE node'[c] = node[c] /\ cpc'[c] = "open" /\ node[c] = Len(serverList[c])
    BY <1>3, <2>1, <2>3 DEF OpeningOf, WasServer
  <2> QED
    BY <1>1, <1>6, <2>2, <2>3 DEF Opened
<1>7. ASSUME OpenFails(c) \/ ForeignAnswers(c) \/ CloseDB(c) PROVE OpeningOf(c)'
  <2>1. cpc'[c] \in {"failed", "off"}
    BY <1>1, <1>7 DEF OpenFails, ForeignAnswers, CloseDB
  <2> QED
    BY <2>1 DEF OpeningOf
<1> QED
  BY <1>2, <1>4, <1>5, <1>6, <1>7 DEF Proceed

(* A database is open only on the master and at least one server more, and *)
(* every entry of its list was a server that answered: not an empty string *)
(* in place of what PackServer could not pack, nor another program         *)
(* (clouddbapi.c, CreateDB; remotedbapi.c, CreateRemoteDB).                *)
THEOREM OpensWhole == Spec => []OpenIsWhole
<1>1. Init => OpeningInv
  BY DEF Init, OpeningInv, ServersApart, OpeningOf
<1>2. AlwaysInv /\ OpeningInv /\ [Next]_vars => OpeningInv'
  <2> SUFFICES ASSUME AlwaysInv, OpeningInv, [Next]_vars PROVE OpeningInv'
    OBVIOUS
  <2>1. ServersApart'
    BY ServersStayApart DEF AlwaysInv, OpeningInv
  <2>2. CASE UNCHANGED <<cpc, serverList, node>>
    BY <2>1, <2>2 DEF OpeningInv, OpeningOf, WasServer
  <2>3. ASSUME NEW c \in Clients, CreateDB(c) \/ Proceed(c) \/ ForeignAnswers(c) \/ CloseDB(c)
        PROVE  OpeningInv'
    BY <2>1, <2>3, OpeningStep DEF OpeningInv
  <2>4. ASSUME NEW p \in Servers, Start(p) \/ Run(p) \/ Kill(p)
        PROVE  UNCHANGED <<cpc, serverList, node>>
    BY <2>4 DEF Start, Run, Register, Bind, Revoke, NoMaster, Kill
  <2>5. MasterKill \/ MasterStart \/ (\E a \in Addresses : Expire(a))
          => UNCHANGED <<cpc, serverList, node>>
    BY DEF MasterKill, MasterStart, Expire
  <2> QED
    BY <2>2, <2>3, <2>4, <2>5 DEF Next
<1>3. AlwaysInv /\ OpeningInv => OpenIsWhole
  <2> SUFFICES ASSUME AlwaysInv, OpeningInv, NEW c \in Clients, cpc[c] = "open"
               PROVE  /\ Len(serverList[c]) >= 2 /\ Head(serverList[c]) = Master
                      /\ \A i \in DOMAIN serverList[c] :
                           serverList[c][i] \notin Foreign \cup {NULL}
    BY DEF OpenIsWhole
  <2>1. /\ serverList[c] \in Seq(Addresses \cup {Master, NULL})
        /\ Len(serverList[c]) \in Nat /\ DOMAIN serverList[c] = 1 .. Len(serverList[c])
    BY DEF AlwaysInv, ClientTypes
  <2>2. /\ Len(serverList[c]) >= 2 /\ serverList[c][1] \in {Master, NULL}
        /\ \A i \in 1 .. Len(serverList[c]) : WasServer(c, i)
    BY DEF OpeningInv, OpeningOf
  <2>3. 1 \in 1 .. Len(serverList[c])
    BY <2>1, <2>2
  <2>4. serverList[c][1] = Master
    BY <2>2, <2>3 DEF WasServer
  <2>5. Head(serverList[c]) = serverList[c][1]
    BY <2>1, <2>2
  <2> QED
    BY <2>1, <2>2, <2>4, <2>5 DEF WasServer
<1> QED
  BY <1>1, <1>2, <1>3, SpecAlways, PTL DEF Spec

(***************************************************************************)
(* The entries of an address.  While the master lives (masters = 0) and no *)
(* other program holds a port, each server that has registered an address  *)
(* and not revoked it has an entry of its own there, and one more entry is *)
(* left of a server that was killed if the port still lingers, or if       *)
(* somebody failed to bind it that nobody serves any longer.  So whenever  *)
(* an address is revoked it has two entries: the first, which DelServer    *)
(* unlinks, is not the last node of the list, and pTail stays exact.       *)
(***************************************************************************)

LEMMA CountPositions ==
  ASSUME NEW C, NEW s \in Seq(C), NEW a
  PROVE  /\ Positions(s, a) = {i \in DOMAIN s : s[i] = a}
         /\ IsFiniteSet(Positions(s, a)) /\ Cardinality(Positions(s, a)) \in Nat
<1>1. DOMAIN s = 1 .. Len(s) /\ Len(s) \in Nat
  OBVIOUS
<1>2. IsFiniteSet(1 .. Len(s)) /\ Positions(s, a) \in SUBSET (1 .. Len(s))
  BY <1>1, FS_Interval DEF Positions
<1> QED
  BY <1>1, <1>2, FS_Subset, FS_CardinalityType DEF Positions

LEMMA TwoPositions ==
  ASSUME NEW C, NEW s \in Seq(C), NEW a, Cardinality(Positions(s, a)) >= 2
  PROVE  Positions(s, a) # {} /\ Min(Positions(s, a)) # Len(s)
<1> DEFINE P == Positions(s, a)
<1>1. P # {}
  <2>1. Cardinality({}) = 0
    BY FS_EmptySet
  <2>2. ~(Cardinality({}) >= 2)
    BY <2>1
  <2> QED
    BY <2>2, Zenon
<1>2. \A i \in P : Min(P) <= i
  BY <1>1, PositionsLeast
<1>3. ASSUME \A i \in P : Len(s) <= i PROVE FALSE
  <2>1. P \in SUBSET {Len(s)}
    BY <1>3 DEF Positions
  <2>2. IsFiniteSet({Len(s)}) /\ Cardinality({Len(s)}) = 1
    BY FS_Singleton
  <2>3. Cardinality(P) <= 1 /\ Cardinality(P) \in Nat
    BY <2>1, <2>2, FS_Subset, CountPositions
  <2> HIDE DEF P
  <2> QED
    BY <2>3 DEF P
<1> QED
  BY <1>1, <1>2, <1>3

LEMMA AppendedPositions ==
  ASSUME NEW C, NEW s \in Seq(C), NEW x \in C, NEW a
  PROVE  Cardinality(Positions(Append(s, x), a))
           = Cardinality(Positions(s, a)) + (IF x = a THEN 1 ELSE 0)
<1> DEFINE P == Positions(s, a)
<1>1. /\ Len(s) \in Nat /\ Len(Append(s, x)) = Len(s) + 1
      /\ \A i \in 1 .. Len(s) : Append(s, x)[i] = s[i]
      /\ Append(s, x)[Len(s) + 1] = x
  OBVIOUS
<1>2. IsFiniteSet(P) /\ Cardinality(P) \in Nat
  BY CountPositions
<1>3. CASE x = a
  <2>1. Positions(Append(s, x), a) = P \cup {Len(s) + 1}
    BY <1>1, <1>3 DEF Positions
  <2>2. Len(s) + 1 \notin P
    BY <1>1 DEF Positions
  <2> QED
    BY <1>2, <1>3, <2>1, <2>2, FS_AddElement
<1>4. CASE x # a
  <2>1. Positions(Append(s, x), a) = P
    BY <1>1, <1>4 DEF Positions
  <2> QED
    BY <1>2, <1>4, <2>1
<1> QED
  BY <1>3, <1>4

LEMMA RemovedPositions ==
  ASSUME NEW C, NEW s \in Seq(C), NEW k \in 1 .. Len(s), NEW a
  PROVE  Cardinality(Positions(Removed(s, k), a))
           = Cardinality(Positions(s, a)) - (IF s[k] = a THEN 1 ELSE 0)
<1> DEFINE P == Positions(s, a)
           r == Removed(s, k)
           Q == Positions(r, a)
           f == [i \in Q |-> IF i < k THEN i ELSE i + 1]
<1>1. /\ r \in Seq(C) /\ Len(r) = Len(s) - 1 /\ Len(s) \in Nat
      /\ \A i \in 1 .. Len(s) - 1 : r[i] = IF i < k THEN s[i] ELSE s[i + 1]
  <2>1. Len(s) \in Nat
    BY LenProperties
  <2> HIDE DEF r
  <2>2. /\ r \in Seq(C) /\ Len(r) = Len(s) - 1
        /\ \A i \in 1 .. Len(s) - 1 : r[i] = IF i < k THEN s[i] ELSE s[i + 1]
    BY RemovedFacts DEF r
  <2> QED
    BY <2>1, <2>2
<1>2. /\ IsFiniteSet(P) /\ Cardinality(P) \in Nat
      /\ IsFiniteSet(Q) /\ Cardinality(Q) \in Nat
  BY <1>1, CountPositions
<1> HIDE DEF r
<1>3. f \in [Q -> P \ {k}]
  <2> SUFFICES ASSUME NEW i \in Q PROVE (IF i < k THEN i ELSE i + 1) \in P \ {k}
    OBVIOUS
  <2>1. i \in 1 .. Len(s) - 1 /\ r[i] = a
    BY <1>1 DEF Positions
  <2>2. CASE i < k
    BY <1>1, <2>1, <2>2 DEF Positions
  <2>3. CASE ~(i < k)
    BY <1>1, <2>1, <2>3 DEF Positions
  <2> QED
    BY <2>2, <2>3
<1>4. \A i, j \in Q : f[i] = f[j] => i = j
  BY <1>1 DEF Positions
<1>5. ASSUME NEW j \in P \ {k} PROVE \E i \in Q : f[i] = j
  <2>1. j \in 1 .. Len(s) /\ s[j] = a /\ j # k
    BY DEF Positions
  <2>2. CASE j < k
    <3>1. j \in 1 .. Len(s) - 1 /\ r[j] = s[j]
      BY <1>1, <2>1, <2>2
    <3>2. j \in Q
      BY <1>1, <2>1, <3>1 DEF Positions
    <3> QED
      BY <2>2, <3>2
  <2>3. CASE ~(j < k)
    <3>1. j - 1 \in 1 .. Len(s) - 1 /\ ~(j - 1 < k) /\ j - 1 + 1 = j
      BY <1>1, <2>1, <2>3
    <3>2. r[j - 1] = s[j]
      BY <1>1, <3>1
    <3>3. j - 1 \in Q
      BY <1>1, <2>1, <3>1, <3>2 DEF Positions
    <3> QED
      BY <3>1, <3>3
  <2> QED
    BY <2>2, <2>3
<1> HIDE DEF f, P, Q
<1>6. ExistsBijection(Q, P \ {k})
  BY <1>3, <1>4, <1>5, Fun_IsBij, Fun_ExistsBij
<1>7. Cardinality(P \ {k}) = Cardinality(Q)
  BY <1>2, <1>6, FS_Bijection
<1>8. k \in P <=> s[k] = a
  BY DEF P, Positions
<1>9. Cardinality(P \ {k}) = IF k \in P THEN Cardinality(P) - 1 ELSE Cardinality(P)
  BY <1>2, FS_RemoveElement
<1>10. Cardinality(Q) = Cardinality(P) - (IF s[k] = a THEN 1 ELSE 0)
  BY <1>2, <1>7, <1>8, <1>9
<1> QED
  BY <1>10 DEF P, Q, r

(* The servers whose entries are due. *)
Registrants == {p \in Servers : pc[p] \in {"registered", "failing", "serving"}}

(* Somebody who held a was killed, and left an entry.                      *)
Abandoned(a) ==
  \/ a \in lingering
  \/ /\ \E p \in Servers : pc[p] = "failing" /\ AddrOf(p) = a
     /\ \A p \in Servers : ~Serves(p, a)

Accounts ==
  /\ masterUp
  /\ Exact(gServerList)
  /\ \A a \in Addresses :
       /\ Cardinality(Registered(a)) <= Cardinality(Entries(a))
       /\ Abandoned(a) => Cardinality(Registered(a)) + 1 <= Cardinality(Entries(a))
  /\ Len(Listed) <= 1 + Cardinality(Registrants) + kills

LEMMA ServerSets ==
  /\ IsFiniteSet(Registrants) /\ Cardinality(Registrants) \in Nat
  /\ \A a : IsFiniteSet(Registered(a)) /\ Cardinality(Registered(a)) \in Nat
  /\ IsFiniteSet(Registrants') /\ Cardinality(Registrants') \in Nat
  /\ \A a : IsFiniteSet(Registered(a)') /\ Cardinality(Registered(a)') \in Nat
<1>1. \A X \in SUBSET Servers : IsFiniteSet(X) /\ Cardinality(X) \in Nat
  BY EnoughCells, FS_Subset, FS_CardinalityType
<1>2. Registrants \in SUBSET Servers /\ Registrants' \in SUBSET Servers
  BY DEF Registrants
<1>3. \A a : Registered(a) \in SUBSET Servers /\ Registered(a)' \in SUBSET Servers
  BY DEF Registered
<1> QED
  BY <1>1, <1>2, <1>3

LEMMA StartKeepsAccounts ==
  ASSUME AlwaysInv, Accounts, NEW p \in Servers, Start(p) \/ Kill(p) \/ Bind(p), Foreign = {}
  PROVE  Accounts'
<1>1. /\ UNCHANGED <<gServerList, addr, masterUp>>
      /\ ServerTypes
      /\ \A q \in Servers : q # p => pc'[q] = pc[q] /\ try'[q] = try[q] /\ AddrOf(q)' = AddrOf(q)
  BY DEF Start, Kill, Bind, AlwaysInv, ServerTypes, AddrOf
<1>2. /\ Exact(gServerList)' /\ masterUp' /\ Listed' = Listed
      /\ \A a : Entries(a)' = Entries(a)
  BY <1>1 DEF Accounts, Listed, Entries
<1>3. Len(Listed) \in Nat /\ kills \in Nat /\ \A a : Cardinality(Entries(a)) \in Nat
  BY <1>1, ListedFacts, EntriesPositions, ClusterAssumption DEF AlwaysInv, ServerTypes
<1>4. CASE Start(p)
  <2>1. pc[p] = "off" /\ pc'[p] = "starting" /\ UNCHANGED <<kills, lingering>>
    BY <1>1, <1>4 DEF Start, ServerTypes
  <2>2. Registrants' = Registrants
    BY <1>1, <2>1 DEF Registrants
  <2>3. \A a : Registered(a)' = Registered(a)
    BY <1>1, <2>1 DEF Registered
  <2>4. \A a : Abandoned(a)' = Abandoned(a)
    BY <1>1, <2>1 DEF Abandoned, Serves
  <2> QED
    BY <1>2, <2>1, <2>2, <2>3, <2>4 DEF Accounts
<1>5. CASE Kill(p)
  <2>1. /\ pc'[p] = "off" /\ try' = try /\ kills' = kills + 1
        /\ \/ lingering' = lingering
           \/ pc[p] = "serving" /\ lingering' = lingering \cup {AddrOf(p)}
    BY <1>1, <1>5 DEF Kill, ServerTypes
  <2>2. CASE p \notin Registrants
    <3>1. pc[p] \notin {"registered", "failing", "serving"} /\ lingering' = lingering
      BY <2>1, <2>2 DEF Registrants
    <3>2. Registrants' = Registrants
      BY <1>1, <2>1, <3>1 DEF Registrants
    <3>3. \A a : Registered(a)' = Registered(a)
      BY <1>1, <2>1, <3>1 DEF Registered
    <3>4. \A a : Abandoned(a)' = Abandoned(a)
      BY <1>1, <2>1, <3>1 DEF Abandoned, Serves
    <3> QED
      BY <1>2, <1>3, <2>1, <3>2, <3>3, <3>4, ServerSets DEF Accounts
  <2>3. CASE p \in Registrants
    <3>1. Registrants' = Registrants \ {p}
      BY <1>1, <2>1 DEF Registrants
    <3>2. Cardinality(Registrants') = Cardinality(Registrants) - 1
      BY <2>3, <3>1, ServerSets, FS_RemoveElement
    <3>3. Len(Listed') <= 1 + Cardinality(Registrants') + kills'
      BY <1>2, <1>3, <2>1, <3>2, ServerSets DEF Accounts
    <3>4. ASSUME NEW a \in Addresses
          PROVE  /\ Cardinality(Registered(a)') <= Cardinality(Entries(a)')
                 /\ Abandoned(a)' => Cardinality(Registered(a)') + 1 <= Cardinality(Entries(a)')
      <4>1. CASE a # AddrOf(p)
        <5>1. Registered(a)' = Registered(a)
          BY <1>1, <2>1, <4>1 DEF Registered
        <5>2. Abandoned(a)' => Abandoned(a)
          <6>1. a \in lingering' => a \in lingering
            BY <2>1, <4>1
          <6>2. \A q \in Servers : (pc'[q] = "failing" /\ AddrOf(q)' = a) => pc[q] = "failing" /\ AddrOf(q) = a
            BY <1>1, <2>1
          <6>3. \A q \in Servers : Serves(q, a) => Serves(q, a)'
            BY <1>1, <4>1 DEF Serves
          <6> QED
            BY <6>1, <6>2, <6>3 DEF Abandoned
        <5> QED
          BY <1>2, <5>1, <5>2 DEF Accounts
      <4>2. CASE a = AddrOf(p)
        <5>1. p \in Registered(a) /\ Registered(a)' = Registered(a) \ {p}
          BY <1>1, <2>1, <2>3, <4>2 DEF Registered, Registrants
        <5>2. Cardinality(Registered(a)') = Cardinality(Registered(a)) - 1
          BY <5>1, ServerSets, FS_RemoveElement
        <5> QED
          BY <1>2, <1>3, <5>2, ServerSets DEF Accounts
      <4> QED
        BY <4>1, <4>2
    <3> QED
      BY <1>2, <3>3, <3>4 DEF Accounts
  <2> QED
    BY <2>2, <2>3
<1>6. CASE Bind(p)
  <2>1. /\ pc[p] = "registered" /\ pc'[p] \in {"serving", "failing"} /\ AddrOf(p)' = AddrOf(p)
        /\ UNCHANGED <<kills, lingering, try>>
        /\ pc'[p] = "serving" => ~Taken(AddrOf(p)) /\ AddrOf(p) \notin lingering
        /\ pc'[p] = "failing" => Taken(AddrOf(p)) \/ AddrOf(p) \in lingering
    BY <1>1, <1>6 DEF Bind, ServerTypes, AddrOf
  <2>2. Registrants' = Registrants
    BY <1>1, <2>1 DEF Registrants
  <2>3. \A a : Registered(a)' = Registered(a)
    BY <1>1, <2>1 DEF Registered
  <2>4. ASSUME NEW a \in Addresses, Abandoned(a)' PROVE Abandoned(a)
    <3>1. CASE a \in lingering
      BY <3>1 DEF Abandoned
    <3>2. CASE a \notin lingering
      <4>1. PICK q \in Servers : pc'[q] = "failing" /\ AddrOf(q)' = a
        BY <2>1, <2>4, <3>2 DEF Abandoned
      <4>2. \A r \in Servers : ~(pc'[r] = "serving" /\ AddrOf(r)' = a)
        BY <2>1, <2>4, <3>2 DEF Abandoned, Serves
      <4>3. \A r \in Servers : ~Serves(r, a)
        BY <1>1, <2>1, <4>2 DEF Serves
      <4>4. q # p
        BY <2>1, <3>2, <4>1, <4>3 DEF Taken
      <4> QED
        BY <1>1, <4>1, <4>3, <4>4 DEF Abandoned
    <3> QED
      BY <3>1, <3>2
  <2> QED
    BY <1>2, <2>1, <2>2, <2>3, <2>4 DEF Accounts
<1> QED
  BY <1>4, <1>5, <1>6

LEMMA RegisterKeepsAccounts ==
  ASSUME AlwaysInv, ListEntered', Accounts, NEW p \in Servers, Register(p)
  PROVE  Accounts'
<1> DEFINE x == AddrOf(p)
<1>1. /\ pc[p] = "starting" /\ pc'[p] = "registered" /\ AddServer(x)
      /\ UNCHANGED <<try, kills, lingering, masterUp>>
      /\ \A q \in Servers : q # p => pc'[q] = pc[q]
      /\ \A q \in Servers : AddrOf(q)' = AddrOf(q)
  BY DEF Register, AddServer, AlwaysInv, ServerTypes, AddrOf
<1>2. x \in Addresses /\ ListEntered
  BY <1>1, AddressTypes DEF AlwaysInv
<1>3. /\ Exact(gServerList') /\ Listed' = Append(Listed, x)
  <2>1. ListTypes'
    BY DEF ListEntered, EnteredList, ListTypes
  <2> QED
    BY <1>1, <1>2, <2>1, AddressJoins DEF Accounts
<1> HIDE DEF x
<1>4. Listed \in Seq(Addresses \cup {Master}) /\ x \in Addresses \cup {Master} /\ kills \in Nat
  BY <1>2, ListedFacts, ClusterAssumption DEF AlwaysInv, ServerTypes
<1>5. \A a : /\ Entries(a) = Positions(Listed, a) /\ Entries(a)' = Positions(Listed', a)
             /\ Cardinality(Entries(a)) \in Nat
  <2>1. Listed' \in Seq(Addresses \cup {Master})
    BY <1>3, <1>4
  <2> QED
    BY <1>4, <2>1, CountPositions DEF Entries
<1>6. \A a : Cardinality(Entries(a)') = Cardinality(Entries(a)) + (IF x = a THEN 1 ELSE 0)
  BY <1>3, <1>4, <1>5, AppendedPositions
<1>7. ASSUME NEW a \in Addresses
      PROVE  /\ Cardinality(Registered(a)') <= Cardinality(Entries(a)')
             /\ Abandoned(a)' => Cardinality(Registered(a)') + 1 <= Cardinality(Entries(a)')
  <2>1. Cardinality(Registered(a)') = Cardinality(Registered(a)) + (IF x = a THEN 1 ELSE 0)
    <3>1. CASE x = a
      <4>1. Registered(a)' = Registered(a) \cup {p} /\ p \notin Registered(a)
        BY <1>1, <3>1 DEF Registered, x
      <4> QED
        BY <3>1, <4>1, ServerSets, FS_AddElement
    <3>2. CASE x # a
      <4>1. Registered(a)' = Registered(a)
        BY <1>1, <3>2 DEF Registered, x
      <4> QED
        BY <3>2, <4>1, ServerSets
    <3> QED
      BY <3>1, <3>2
  <2>2. Abandoned(a)' => Abandoned(a)
    BY <1>1 DEF Abandoned, Serves
  <2>3. /\ Cardinality(Registered(a)) <= Cardinality(Entries(a))
        /\ Abandoned(a) => Cardinality(Registered(a)) + 1 <= Cardinality(Entries(a))
    BY DEF Accounts
  <2>4. Cardinality(Registered(a)) \in Nat /\ Cardinality(Entries(a)) \in Nat
    BY <1>5, ServerSets
  <2>5. Cardinality(Entries(a)') = Cardinality(Entries(a)) + (IF x = a THEN 1 ELSE 0)
    BY <1>6
  <2> QED
    BY <2>1, <2>2, <2>3, <2>4, <2>5
<1>8. Len(Listed') <= 1 + Cardinality(Registrants') + kills'
  <2>1. Registrants' = Registrants \cup {p} /\ p \notin Registrants
    BY <1>1 DEF Registrants
  <2>2. Cardinality(Registrants') = Cardinality(Registrants) + 1
    BY <2>1, ServerSets, FS_AddElement
  <2>3. Len(Listed') = Len(Listed) + 1 /\ Len(Listed) \in Nat
    BY <1>3, <1>4
  <2> QED
    BY <1>1, <1>4, <2>2, <2>3, ServerSets DEF Accounts
<1> QED
  BY <1>1, <1>3, <1>7, <1>8 DEF Accounts

(* A revocation finds an entry, and it is not the last of the list. *)
LEMMA RevokedTwice ==
  ASSUME Foreign = {}, AlwaysInv, Accounts, NEW p \in Servers, pc[p] = "failing"
  PROVE  /\ Cardinality(Entries(AddrOf(p))) >= 2
         /\ Positions(Listed, AddrOf(p)) # {}
         /\ Min(Positions(Listed, AddrOf(p))) # Len(Listed)
<1> DEFINE x == AddrOf(p)
           P == Positions(Listed, x)
<1>1. x \in Addresses /\ ListEntered
  BY AddressTypes DEF AlwaysInv
<1>2. /\ Entries(x) = P /\ IsFiniteSet(P) /\ Cardinality(P) \in Nat
      /\ Cardinality(Registered(x)) \in Nat /\ IsFiniteSet(Registered(x))
  BY <1>1, EntriesPositions, ServerSets
<1>3. p \in Registered(x)
  BY DEF Registered
<1>4. Cardinality(P) >= 2
  <2>1. CASE \E q \in Servers : Serves(q, x)
    <3>1. PICK q \in Servers : Serves(q, x)
      BY <2>1
    <3>2. q \in Registered(x) /\ q # p
      BY <3>1 DEF Serves, Registered
    <3>3. {q} \subseteq Registered(x) /\ p \in Registered(x) \ {q}
      BY <1>3, <3>2
    <3>4. Cardinality({q}) + 1 <= Cardinality(Registered(x))
      BY <1>2, <3>3, OneMore
    <3>5. Cardinality({q}) = 1
      BY FS_Singleton
    <3> QED
      BY <1>1, <1>2, <3>4, <3>5 DEF Accounts
  <2>2. CASE \A q \in Servers : ~Serves(q, x)
    <3>1. Abandoned(x)
      BY <2>2 DEF Abandoned
    <3>2. {} \subseteq Registered(x) /\ p \in Registered(x) \ {}
      BY <1>3
    <3>3. Cardinality({}) + 1 <= Cardinality(Registered(x)) /\ Cardinality({}) = 0
      BY <1>2, <3>2, OneMore, FS_EmptySet
    <3> QED
      BY <1>1, <1>2, <3>1, <3>3 DEF Accounts
  <2> QED
    BY <2>1, <2>2
<1>5. P # {} /\ Min(P) # Len(Listed)
  BY <1>1, <1>4, ListedFacts, TwoPositions
<1> QED
  BY <1>2, <1>4, <1>5

LEMMA RevokeKeepsAccounts ==
  ASSUME Foreign = {}, AlwaysInv, ListEntered', Accounts, NEW p \in Servers, Revoke(p)
  PROVE  /\ Accounts'
         /\ Listed' = Removed(Listed, Min(Positions(Listed, AddrOf(p))))
<1> DEFINE x == AddrOf(p)
           k == Min(Positions(Listed, x))
<1>1. /\ pc[p] = "failing" /\ pc'[p] \in {"starting", "exhausted"} /\ DelServer(x)
      /\ UNCHANGED <<kills, lingering, masterUp>>
      /\ \A q \in Servers : q # p => pc'[q] = pc[q] /\ try'[q] = try[q] /\ AddrOf(q)' = AddrOf(q)
  BY DEF Revoke, DelServer, AlwaysInv, ServerTypes, AddrOf
<1>2. x \in Addresses /\ ListEntered
  BY <1>1, AddressTypes DEF AlwaysInv
<1>3. /\ Cardinality(Entries(x)) >= 2 /\ Positions(Listed, x) # {} /\ k # Len(Listed)
  BY <1>1, RevokedTwice
<1>4. Listed' = Removed(Listed, k) /\ Exact(gServerList')
  <2>1. ListTypes'
    BY DEF ListEntered, EnteredList, ListTypes
  <2> QED
    BY <1>1, <1>2, <1>3, <2>1, AddressLeaves DEF Accounts
<1>5. k \in Positions(Listed, x)
  BY <1>3, PositionsLeast
<1> HIDE DEF x, k
<1>6. k \in 1 .. Len(Listed) /\ Listed[k] = x
  BY <1>5 DEF Positions
<1>7. /\ Listed \in Seq(Addresses \cup {Master}) /\ kills \in Nat
      /\ Len(Listed) \in Nat /\ Len(Listed') = Len(Listed) - 1
      /\ Listed' \in Seq(Addresses \cup {Master})
  BY <1>2, <1>4, <1>6, ListedFacts, RemovedFacts, ClusterAssumption DEF AlwaysInv, ServerTypes
<1>8. \A a : /\ Entries(a) = Positions(Listed, a) /\ Entries(a)' = Positions(Listed', a)
             /\ Cardinality(Entries(a)) \in Nat
  BY <1>7, CountPositions DEF Entries
<1>9. \A a : Cardinality(Entries(a)') = Cardinality(Entries(a)) - (IF x = a THEN 1 ELSE 0)
  BY <1>4, <1>6, <1>7, <1>8, RemovedPositions
<1>10. ASSUME NEW a \in Addresses
       PROVE  /\ Cardinality(Registered(a)') <= Cardinality(Entries(a)')
              /\ Abandoned(a)' => Cardinality(Registered(a)') + 1 <= Cardinality(Entries(a)')
  <2>1. Cardinality(Registered(a)') = Cardinality(Registered(a)) - (IF x = a THEN 1 ELSE 0)
    <3>1. CASE x = a
      <4>1. Registered(a)' = Registered(a) \ {p} /\ p \in Registered(a)
        BY <1>1, <3>1 DEF Registered, x
      <4> QED
        BY <3>1, <4>1, ServerSets, FS_RemoveElement
    <3>2. CASE x # a
      <4>1. Registered(a)' = Registered(a)
        BY <1>1, <3>2 DEF Registered, x
      <4> QED
        BY <3>2, <4>1, ServerSets
    <3> QED
      BY <3>1, <3>2
  <2>2. Abandoned(a)' => Abandoned(a)
    <3>1. \A q \in Servers : pc'[q] = "failing" /\ AddrOf(q)' = a => pc[q] = "failing" /\ AddrOf(q) = a
      BY <1>1
    <3>2. \A q \in Servers : Serves(q, a) => Serves(q, a)'
      BY <1>1 DEF Serves
    <3> QED
      BY <1>1, <3>1, <3>2 DEF Abandoned
  <2>3. /\ Cardinality(Registered(a)) <= Cardinality(Entries(a))
        /\ Abandoned(a) => Cardinality(Registered(a)) + 1 <= Cardinality(Entries(a))
    BY DEF Accounts
  <2>4. Cardinality(Registered(a)) \in Nat /\ Cardinality(Entries(a)) \in Nat
    BY <1>8, ServerSets
  <2>5. Cardinality(Entries(a)') = Cardinality(Entries(a)) - (IF x = a THEN 1 ELSE 0)
    BY <1>9
  <2> QED
    BY <2>1, <2>2, <2>3, <2>4, <2>5
<1>11. Len(Listed') <= 1 + Cardinality(Registrants') + kills'
  <2>1. Registrants' = Registrants \ {p} /\ p \in Registrants
    BY <1>1 DEF Registrants
  <2>2. Cardinality(Registrants') = Cardinality(Registrants) - 1
    BY <2>1, ServerSets, FS_RemoveElement
  <2> QED
    BY <1>1, <1>7, <2>2, ServerSets DEF Accounts
<1>12. Accounts'
  BY <1>1, <1>4, <1>10, <1>11 DEF Accounts
<1> QED
  BY <1>4, <1>12 DEF x, k

LEMMA ExpireKeepsAccounts ==
  ASSUME Accounts, NEW b \in Addresses, Expire(b)
  PROVE  Accounts'
<1>1. /\ lingering' \subseteq lingering
      /\ UNCHANGED <<gServerList, addr, masterUp, pc, try, kills>>
  BY DEF Expire
<1>2. /\ Exact(gServerList)' /\ masterUp' /\ Listed' = Listed /\ Registrants' = Registrants
      /\ \A a : Entries(a)' = Entries(a) /\ Registered(a)' = Registered(a)
  BY <1>1 DEF Accounts, Listed, Entries, Registered, Registrants, AddrOf
<1>3. \A a : Abandoned(a)' => Abandoned(a)
  BY <1>1 DEF Abandoned, Serves, AddrOf
<1> QED
  BY <1>1, <1>2, <1>3 DEF Accounts

AccountsKept == masters = 0 => Accounts

LEMMA KeepsAccounts ==
  ASSUME Foreign = {}
  PROVE  AlwaysInv /\ AlwaysInv' /\ AccountsKept /\ [Next]_vars => AccountsKept'
<1> SUFFICES ASSUME AlwaysInv, ListEntered', AccountsKept, [Next]_vars, masters' = 0
             PROVE  Accounts'
  BY DEF AccountsKept, AlwaysInv
<1>1. CASE UNCHANGED <<gServerList, addr, masterUp, masters, pc, try, kills, lingering>>
  <2>1. Accounts
    BY <1>1 DEF AccountsKept
  <2>2. /\ Listed' = Listed /\ Registrants' = Registrants /\ Exact(gServerList)' = Exact(gServerList)
        /\ \A a : Entries(a)' = Entries(a) /\ Registered(a)' = Registered(a)
                  /\ Abandoned(a)' = Abandoned(a)
    BY <1>1 DEF Listed, Entries, Registered, Registrants, AddrOf, Abandoned, Serves, Exact
  <2> QED
    BY <1>1, <2>1, <2>2 DEF Accounts
<1>2. ASSUME MasterKill PROVE FALSE
  <2>1. masters' = masters + 1 /\ masters \in Nat
    BY <1>2 DEF MasterKill, AlwaysInv, ServerTypes
  <2> QED
    BY <2>1
<1>3. ASSUME NEW p \in Servers, Start(p) \/ Run(p) \/ Kill(p) PROVE Accounts /\ Accounts'
  <2>1. masters' = masters
    BY <1>3 DEF Start, Run, Register, AddServer, Bind, Revoke, DelServer, NoMaster, Kill
  <2>2. Accounts /\ masterUp
    BY <2>1 DEF AccountsKept, Accounts
  <2>3. ~NoMaster(p)
    BY <2>2 DEF NoMaster
  <2> QED
    BY <1>3, <2>2, <2>3, StartKeepsAccounts, RegisterKeepsAccounts, RevokeKeepsAccounts DEF Run
<1>4. ASSUME MasterStart PROVE FALSE
  <2>1. masters' = masters /\ ~masterUp
    BY <1>4 DEF MasterStart
  <2> QED
    BY <2>1 DEF AccountsKept, Accounts
<1>5. ASSUME NEW a \in Addresses, Expire(a) PROVE Accounts'
  <2>1. masters' = masters
    BY <1>5 DEF Expire
  <2> QED
    BY <1>5, <2>1, ExpireKeepsAccounts DEF AccountsKept
<1>6. ASSUME NEW c \in Clients, CreateDB(c) \/ Proceed(c) \/ ForeignAnswers(c) \/ CloseDB(c)
      PROVE  UNCHANGED <<gServerList, addr, masterUp, masters, pc, try, kills, lingering>>
  BY <1>6 DEF CreateDB, Proceed, Connect, Opened, OpenFails, ForeignAnswers, CloseDB
<1> QED
  BY <1>1, <1>2, <1>3, <1>4, <1>5, <1>6 DEF Next

LEMMA InitAccounts == Init => AccountsKept
<1> SUFFICES ASSUME Init PROVE Accounts
  BY DEF AccountsKept
<1>1. ListEntered /\ Exact(gServerList) /\ Chain(gServerList) = <<1>> /\ masterUp
  BY NewListEntered DEF Init, ListEntered
<1>2. Len(Listed) = 1 /\ kills = 0
  BY <1>1, ListedFacts DEF Init
<1>3. ASSUME NEW a \in Addresses
      PROVE  /\ Cardinality(Registered(a)) <= Cardinality(Entries(a))
             /\ ~Abandoned(a)
  <2>1. Registered(a) = {}
    BY DEF Init, Registered
  <2>2. Cardinality(Registered(a)) = 0 /\ Cardinality(Entries(a)) \in Nat
    BY <1>1, <2>1, FS_EmptySet, EntriesPositions
  <2>3. ~Abandoned(a)
    BY DEF Init, Abandoned
  <2> QED
    BY <2>2, <2>3
<1> QED
  BY <1>1, <1>2, <1>3, ServerSets DEF Accounts

LEMMA SpecAccounts == ASSUME Foreign = {} PROVE Spec => [](AlwaysInv /\ AccountsKept)
<1>1. Init => AlwaysInv /\ AccountsKept
  BY InitAlways, InitAccounts
<1>2. AlwaysInv /\ AccountsKept /\ [Next]_vars => AlwaysInv' /\ AccountsKept'
  BY KeepsAlways, KeepsAccounts
<1> QED
  BY <1>1, <1>2, PTL DEF Spec

(* The length and the tail of the master's list stay exact (linkedlist.c,  *)
(* DelLNode, which does not move pTail), however many servers start,       *)
(* collide on ports, die and revoke, until the master is killed.  That the *)
(* list may be damaged then, and when another program holds a port, is why *)
(* both are excluded.                                                      *)
THEOREM ListStaysSound == ASSUME Foreign = {} PROVE Spec => [](masters = 0 => ListSound)
<1>1. AlwaysInv /\ AccountsKept => (masters = 0 => ListSound)
  <2> SUFFICES ASSUME AlwaysInv, Accounts PROVE ListSound
    BY DEF AccountsKept
  <2>1. Chain(gServerList) # << >>
    <3>1. Len(Chain(gServerList)) >= 1
      BY ListedFacts DEF AlwaysInv
    <3> QED
      BY <3>1
  <2> QED
    BY <2>1 DEF Accounts, Exact, ListSound, WellFormed
<1> QED
  BY <1>1, SpecAccounts, PTL

(* Every server that has registered an address and not revoked it keeps an *)
(* entry there, and only killed servers leave entries behind (engine.c,    *)
(* the control requests; server.c, the loop of main).                      *)
THEOREM EntriesStayAccounted ==
  ASSUME Foreign = {} PROVE Spec => [](masters = 0 => EntriesAccounted)
<1>1. AlwaysInv /\ AccountsKept => (masters = 0 => EntriesAccounted)
  <2> SUFFICES ASSUME AlwaysInv, Accounts PROVE EntriesAccounted
    BY DEF AccountsKept
  <2>1. UNION {Registered(a) : a \in Addresses} = Registrants
    <3>1. \A p \in Registrants : AddrOf(p) \in Addresses /\ p \in Registered(AddrOf(p))
      BY AddressTypes DEF Registrants, Registered, AlwaysInv
    <3>2. \A a : Registered(a) \subseteq Registrants
      BY DEF Registrants, Registered
    <3> QED
      BY <3>1, <3>2
  <2> QED
    BY <2>1 DEF Accounts, EntriesAccounted
<1> QED
  BY <1>1, SpecAccounts, PTL

(***************************************************************************)
(* What clients are told, and what the list promises, while one master     *)
(* runs: MaxMasters = 0 says that it is never killed.                      *)
(***************************************************************************)

LEMMA SpecAccountsAlways ==
  ASSUME Foreign = {}, MaxMasters = 0
  PROVE  Spec => [](AlwaysInv /\ Accounts)
<1>1. AlwaysInv /\ AccountsKept => Accounts
  BY DEF AlwaysInv, RestTypes, ServerTypes, AccountsKept
<1> QED
  BY <1>1, SpecAccounts, PTL

(* A client that asks for the list gets the master first and every server  *)
(* that is up at that moment (clouddbapi.c, CreateDB; servlistmgr.c,       *)
(* PackServer), if MAX_DATA_NUM is enough for the servers and the entries  *)
(* that kills leave behind.                                                *)
THEOREM SnapshotsComplete ==
  ASSUME Foreign = {}, MaxMasters = 0,
         1 + Cardinality(Servers) + MaxKills <= MaxDataNum
  PROVE  Spec => SnapshotComplete
<1> DEFINE Told(c) == /\ serverList'[c][1] = Master
                      /\ \A p \in Servers : pc[p] = "serving"
                                              => Contains(serverList'[c], AddrOf(p))
           Asked(c) == cpc[c] # "connecting" /\ cpc'[c] = "connecting" /\ node'[c] = 1
<1>1. ASSUME AlwaysInv, Accounts, [Next]_vars, NEW c \in Clients, Asked(c)
      PROVE  Told(c)
  <2>1. CreateDB(c)
    <3>1. ASSUME NEW d \in Clients,
                 CreateDB(d) \/ Proceed(d) \/ ForeignAnswers(d) \/ CloseDB(d)
          PROVE  d = c /\ CreateDB(c)
      <4>1. d = c
        BY <1>1, <3>1 DEF CreateDB, Proceed, Connect, Opened, OpenFails, ForeignAnswers, CloseDB,
                          AlwaysInv, ClientTypes
      <4>2. ~Connect(c) /\ ~OpenFails(c) /\ ~ForeignAnswers(c) /\ ~CloseDB(c)
        BY <1>1 DEF Connect, OpenFails, ForeignAnswers, CloseDB, AlwaysInv, ClientTypes
      <4>3. ~Opened(c)
        <5> SUFFICES ASSUME Opened(c) PROVE FALSE
          OBVIOUS
        <5>1. node[c] >= 1 /\ node[c] \in Nat
          BY <1>1 DEF Opened, AlwaysInv, ClientTypes
        <5>2. cpc'[c] = "open" \/ node'[c] = node[c] + 1
          BY <1>1 DEF Opened, AlwaysInv, ClientTypes
        <5> QED
          BY <1>1, <5>1, <5>2
      <4> QED
        BY <3>1, <4>1, <4>2, <4>3 DEF Proceed
    <3>2. UNCHANGED cpc => FALSE
      BY <1>1
    <3>3. MasterKill \/ MasterStart => UNCHANGED cpc
      BY DEF MasterKill, MasterStart
    <3>4. ASSUME NEW p \in Servers, Start(p) \/ Run(p) \/ Kill(p) PROVE UNCHANGED cpc
      BY <3>4 DEF Start, Run, Register, Bind, Revoke, NoMaster, Kill
    <3>5. (\E a \in Addresses : Expire(a)) => UNCHANGED cpc
      BY DEF Expire
    <3> QED
      BY <1>1, <3>1, <3>2, <3>3, <3>4, <3>5 DEF Next
  <2>2. serverList'[c] = PackServer
    BY <1>1, <2>1 DEF CreateDB, AlwaysInv, ClientTypes
  <2>3. ListEntered
    BY <1>1 DEF AlwaysInv
  <2>10. Packs
    <3>1. gServerList.len = Len(Chain(gServerList)) /\ Len(Listed) <= 1 + Cardinality(Registrants) + kills
      BY <1>1 DEF Accounts, Exact
    <3>2. Len(Listed) = Len(Chain(gServerList)) /\ Len(Listed) \in Nat
      BY <2>3, ListedFacts
    <3>3. /\ Cardinality(Registrants) <= Cardinality(Servers)
          /\ Cardinality(Servers) \in Nat /\ Cardinality(Registrants) \in Nat
      <4>1. Registrants \in SUBSET Servers
        BY DEF Registrants
      <4> QED
        BY <4>1, EnoughCells, FS_Subset, FS_CardinalityType
    <3>4. kills <= MaxKills /\ kills \in Nat /\ MaxKills \in Nat
      BY <1>1, ClusterAssumption DEF AlwaysInv, ServerTypes
    <3> QED
      BY <3>1, <3>2, <3>3, <3>4, ClusterAssumption DEF Packs
  <2>4. /\ Len(Listed) \in Nat /\ Len(Listed) >= 1 /\ Listed[1] = Master
        /\ Len(PackServer) = gServerList.len /\ Len(Listed) <= gServerList.len
        /\ gServerList.len \in Nat
        /\ \A i \in 1 .. Len(Listed) : PackServer[i] = Listed[i]
    BY <2>3, <2>10, ListedFacts, PackServerFacts
  <2>5. PackServer[1] = Master
    BY <2>4
  <2>6. ASSUME NEW p \in Servers, pc[p] = "serving" PROVE Contains(PackServer, AddrOf(p))
    <3>1. AddrOf(p) \in Addresses /\ p \in Registered(AddrOf(p))
      BY <1>1, <2>6, AddressTypes DEF Registered, AlwaysInv
    <3>2. Cardinality(Registered(AddrOf(p))) # 0
      BY <3>1, ServerSets, FS_EmptySet
    <3>3. Cardinality(Entries(AddrOf(p))) # 0
      <4>1. Cardinality(Registered(AddrOf(p))) <= Cardinality(Entries(AddrOf(p)))
        BY <1>1, <3>1 DEF Accounts
      <4>2. Cardinality(Registered(AddrOf(p))) \in Nat /\ Cardinality(Entries(AddrOf(p))) \in Nat
        BY <2>3, ServerSets, EntriesPositions
      <4> QED
        BY <3>2, <4>1, <4>2
    <3>4. PICK i \in Entries(AddrOf(p)) : TRUE
      BY <3>3, FS_EmptySet
    <3>5. i \in 1 .. Len(Listed) /\ Listed[i] = AddrOf(p)
      BY <2>3, <3>4, EntriesPositions DEF Positions
    <3>6. i \in 1 .. Len(PackServer) /\ PackServer[i] = AddrOf(p)
      BY <2>4, <3>5
    <3> QED
      BY <3>6 DEF Contains
  <2> QED
    BY <2>2, <2>5, <2>6
<1>2. AlwaysInv /\ Accounts /\ [Next]_vars => [\A c \in Clients : Asked(c) => Told(c)]_vars
  BY <1>1
<1>3. Spec => [][\A c \in Clients : Asked(c) => Told(c)]_vars
  BY <1>2, SpecAccountsAlways, PTL DEF Spec
<1> QED
  BY <1>3 DEF SnapshotComplete

LEMMA RemovedFirst ==
  ASSUME NEW C, NEW s \in Seq(C), NEW a, Positions(s, a) # {}
  PROVE  Contains(s, a) /\ RemoveFirst(s, a) = Removed(s, Min(Positions(s, a)))
<1> DEFINE k == Min(Positions(s, a))
<1>1. k \in 1 .. Len(s) /\ s[k] = a
  BY PositionsLeast DEF Positions
<1>2. Contains(s, a)
  BY <1>1 DEF Contains
<1>3. RemoveFirst(s, a) = RemoveAt(s, k)
  <2>1. {i \in 1 .. Len(s) : s[i] = a} # {}
    BY DEF Positions
  <2>2. SelectInSeq(s, LAMBDA v : v = a) = k
    BY <2>1 DEF SelectInSeq, Positions
  <2> QED
    BY <1>1, <2>2 DEF RemoveFirst
<1> HIDE DEF k
<1>4. Len(s) \in Nat /\ k \in Nat /\ k - 1 \in Nat /\ k >= 1 /\ k <= Len(s)
  BY <1>1
<1>5. /\ Removed(s, k) \in Seq(C) /\ Len(Removed(s, k)) = Len(s) - 1
      /\ \A i \in 1 .. Len(s) - 1 : Removed(s, k)[i] = IF i < k THEN s[i] ELSE s[i + 1]
  BY <1>1, RemovedFacts
<1> DEFINE b == SubSeq(s, 1, k - 1)
           e == SubSeq(s, k + 1, Len(s))
<1>6. /\ b \in Seq(C) /\ Len(b) = k - 1
      /\ \A i \in 1 .. k - 1 : b[i] = s[i]
  BY <1>4, SubSeqProperties
<1>7. /\ e \in Seq(C) /\ Len(e) = Len(s) - k
      /\ \A i \in 1 .. Len(s) - k : e[i] = s[i + k]
  BY <1>4, SubSeqProperties
<1>8. RemoveAt(s, k) = b \o e
  BY DEF RemoveAt
<1> HIDE DEF b, e
<1>9. /\ b \o e \in Seq(C) /\ Len(b \o e) = Len(s) - 1
      /\ \A i \in 1 .. Len(s) - 1 : (b \o e)[i] = IF i <= k - 1 THEN b[i] ELSE e[i - (k - 1)]
  <2>1. /\ b \o e \in Seq(C) /\ Len(b \o e) = Len(b) + Len(e)
        /\ \A i \in 1 .. Len(b) + Len(e) :
             (b \o e)[i] = IF i <= Len(b) THEN b[i] ELSE e[i - Len(b)]
    BY <1>6, <1>7, ConcatProperties
  <2>2. Len(b) + Len(e) = Len(s) - 1
    BY <1>4, <1>6, <1>7
  <2> QED
    BY <1>6, <2>1, <2>2
<1>10. ASSUME NEW i \in 1 .. Len(s) - 1 PROVE (b \o e)[i] = Removed(s, k)[i]
  <2>1. CASE i < k
    BY <1>4, <1>5, <1>6, <1>9, <2>1
  <2>2. CASE ~(i < k)
    <3>1. i - (k - 1) \in 1 .. Len(s) - k /\ i - (k - 1) + k = i + 1 /\ ~(i <= k - 1)
      BY <1>4, <2>2
    <3> QED
      BY <1>5, <1>7, <1>9, <2>2, <3>1
  <2> QED
    BY <2>1, <2>2
<1>11. RemoveAt(s, k) = Removed(s, k)
  BY <1>5, <1>8, <1>9, <1>10, SeqEqual
<1> QED
  BY <1>2, <1>3, <1>11 DEF k

(* The linked list of the master implements the ordered membership that    *)
(* clients shard their records by: a registration appends, a revocation    *)
(* removes the first entry with that address, and nothing else changes the *)
(* list (servlistmgr.c, linkedlist.c).                                     *)
THEOREM MasterImplementsMembership ==
  ASSUME Foreign = {}, MaxMasters = 0
  PROVE  Spec => ImplementsMembership
<1>1. Init => Members!MemberInit
  <2> SUFFICES ASSUME Init PROVE Listed = <<Master>>
    BY DEF Members!MemberInit
  <2>1. ListEntered /\ Chain(gServerList) = <<1>>
    BY NewListEntered DEF Init, ListEntered
  <2>2. Listed \in Seq(Addresses \cup {Master}) /\ Len(Listed) = 1 /\ Listed[1] = Master
    BY <2>1, ListedFacts
  <2> QED
    BY <2>2
<1>2. ASSUME AlwaysInv, Accounts, AlwaysInv', [Next]_vars PROVE [Members!MemberNext]_Listed
  <2>1. CASE UNCHANGED <<gServerList, addr>>
    BY <2>1 DEF Listed
  <2>2. ASSUME NEW p \in Servers, Register(p) PROVE Members!MemberNext
    <3>1. AddrOf(p) \in Addresses /\ ListEntered /\ ListTypes'
      BY <1>2, <2>2, AddressTypes DEF Register, AlwaysInv, ListEntered, EnteredList, ListTypes
    <3>2. Listed' = Append(Listed, AddrOf(p))
      BY <1>2, <2>2, <3>1, AddressJoins DEF Register, Accounts
    <3> QED
      BY <3>1, <3>2 DEF Members!MemberNext, Members!Join
  <2>3. ASSUME NEW p \in Servers, Revoke(p) PROVE Members!MemberNext
    <3>1. AddrOf(p) \in Addresses /\ ListEntered /\ pc[p] = "failing"
      BY <1>2, <2>3, AddressTypes DEF Revoke, AlwaysInv
    <3>2. Positions(Listed, AddrOf(p)) # {}
      BY <1>2, <3>1, RevokedTwice
    <3>3. Listed' = Removed(Listed, Min(Positions(Listed, AddrOf(p))))
      BY <1>2, <2>3, RevokeKeepsAccounts DEF AlwaysInv
    <3>4. Contains(Listed, AddrOf(p)) /\ Listed' = RemoveFirst(Listed, AddrOf(p))
      BY <3>1, <3>2, <3>3, ListedFacts, RemovedFirst
    <3>5. Members!Contains(Listed, AddrOf(p))
      BY <3>4 DEF Members!Contains, Contains
    <3>6. Members!RemoveFirst(Listed, AddrOf(p)) = RemoveFirst(Listed, AddrOf(p))
      BY DEF Members!RemoveFirst, RemoveFirst, Members!RemoveAt, RemoveAt,
             Members!SelectInSeq, SelectInSeq, Members!Min, Min
    <3> QED
      BY <3>1, <3>4, <3>5, <3>6 DEF Members!MemberNext, Members!Leave
  <2>4. ~MasterStart
    BY <1>2 DEF MasterStart, Accounts
  <2>5. MasterKill => UNCHANGED <<gServerList, addr>>
    BY DEF MasterKill
  <2>6. ASSUME NEW p \in Servers, Start(p) \/ Bind(p) \/ NoMaster(p) \/ Kill(p)
        PROVE  UNCHANGED <<gServerList, addr>>
    BY <2>6 DEF Start, Bind, NoMaster, Kill
  <2>7. ASSUME NEW c \in Clients, CreateDB(c) \/ Proceed(c) \/ ForeignAnswers(c) \/ CloseDB(c)
        PROVE  UNCHANGED <<gServerList, addr>>
    BY <2>7 DEF CreateDB, Proceed, Connect, Opened, OpenFails, ForeignAnswers, CloseDB
  <2>8. (\E a \in Addresses : Expire(a)) => UNCHANGED <<gServerList, addr>>
    BY DEF Expire
  <2> QED
    BY <1>2, <2>1, <2>2, <2>3, <2>4, <2>5, <2>6, <2>7, <2>8 DEF Next, Run
<1> QED
  BY <1>1, <1>2, SpecAccountsAlways, PTL DEF ImplementsMembership, Members!MemberSpec, Spec

(***************************************************************************)
(* The ports.  Each port that a server has tried in vain since it started  *)
(* is held by another server or another program, or it was lingering then; *)
(* a port comes to linger, and a server leaves the port it held, only by a *)
(* kill.                                                                   *)
(***************************************************************************)

(* The ports that p has tried in vain. *)
Failures(p) == IF pc[p] = "failing" THEN try[p] + 1 ELSE try[p]

(* Servers that hold a port of p's machine below that number, ports that   *)
(* linger from there on, and ports below it that other programs hold.      *)
Blocking(p) == {q \in Servers : /\ pc[q] = "serving" /\ HostOf[q] = HostOf[p]
                                /\ try[q] < Failures(p)}
Ahead(p)    == {a \in lingering : a[1] = HostOf[p] /\ a[2] >= Failures(p)}
Occupied(p) == {a \in Foreign : a[1] = HostOf[p] /\ a[2] < Failures(p)}

LingeringCounted == IsFiniteSet(lingering) /\ Cardinality(lingering) <= kills

PortsCounted ==
  \A p \in Servers : pc[p] # "off" =>
    Failures(p) + Cardinality(Ahead(p))
      <= Cardinality(Blocking(p)) + Cardinality(Occupied(p)) + kills

LEMMA KillsKeepLingering ==
  ASSUME ServerTypes, LingeringCounted, NEW p \in Servers, Kill(p)
  PROVE  LingeringCounted' /\ kills' = kills + 1
<1>1. kills' = kills + 1 /\ kills \in Nat
  BY ClusterAssumption DEF Kill, ServerTypes
<1>2. Cardinality(lingering) \in Nat
  BY FS_CardinalityType DEF LingeringCounted
<1>3. CASE lingering' = lingering
  BY <1>1, <1>2, <1>3 DEF LingeringCounted
<1>4. CASE lingering' = lingering \cup {AddrOf(p)}
  <2>1. IsFiniteSet(lingering')
    BY <1>4, FS_AddElement DEF LingeringCounted
  <2>2. Cardinality(lingering') <= Cardinality(lingering) + 1
    BY <2>1, <1>4, OneLess, FS_AddElement, <1>2 DEF LingeringCounted
  <2>3. Cardinality(lingering') \in Nat
    BY <2>1, FS_CardinalityType
  <2> QED
    BY <2>1, <2>2, <2>3, <1>1, <1>2 DEF LingeringCounted
<1> QED
  BY <1>3, <1>4 DEF Kill

LEMMA KeepsLingering == ServerTypes /\ LingeringCounted /\ [Next]_vars => LingeringCounted'
<1> SUFFICES ASSUME ServerTypes, LingeringCounted, [Next]_vars PROVE LingeringCounted'
  OBVIOUS
<1>1. CASE UNCHANGED <<kills, lingering>>
  BY <1>1 DEF LingeringCounted
<1>2. ASSUME NEW p \in Servers, Kill(p) PROVE LingeringCounted'
  BY <1>2, KillsKeepLingering
<1>3. ASSUME NEW a \in Addresses, Expire(a) PROVE LingeringCounted'
  <2>1. lingering' = lingering \ {a} /\ kills' = kills
    BY <1>3 DEF Expire
  <2>2. lingering' \in SUBSET lingering
    BY <2>1
  <2>3. IsFiniteSet(lingering') /\ Cardinality(lingering') <= Cardinality(lingering)
    BY <2>2, FS_Subset DEF LingeringCounted
  <2>4. Cardinality(lingering') \in Nat /\ Cardinality(lingering) \in Nat /\ kills \in Nat
    BY <2>3, FS_CardinalityType, ClusterAssumption DEF LingeringCounted, ServerTypes
  <2> QED
    BY <2>1, <2>3, <2>4 DEF LingeringCounted
<1>4. ASSUME NEW p \in Servers, Start(p) \/ Run(p) PROVE UNCHANGED <<kills, lingering>>
  BY <1>4 DEF Start, Run, Register, Bind, Revoke, NoMaster
<1>5. ASSUME NEW c \in Clients, CreateDB(c) \/ Proceed(c) \/ ForeignAnswers(c) \/ CloseDB(c)
      PROVE  UNCHANGED <<kills, lingering>>
  BY <1>5 DEF CreateDB, Proceed, Connect, Opened, OpenFails, ForeignAnswers, CloseDB
<1>6. MasterKill \/ MasterStart => UNCHANGED <<kills, lingering>>
  BY DEF MasterKill, MasterStart
<1> QED
  BY <1>1, <1>2, <1>3, <1>4, <1>5, <1>6 DEF Next

LEMMA KeepsPorts ==
  ASSUME IsFiniteSet(Foreign), ServerTypes, ServerTypes', LingeringCounted, LingeringCounted',
         PortsCounted, [Next]_vars
  PROVE  PortsCounted'
<1> SUFFICES ASSUME NEW q \in Servers, pc'[q] # "off"
             PROVE  Failures(q)' + Cardinality(Ahead(q)')
                      <= Cardinality(Blocking(q)') + Cardinality(Occupied(q)') + kills'
  BY DEF PortsCounted
<1> DEFINE f  == Failures(q)             f1 == Failures(q)'
           a  == Cardinality(Ahead(q))   a1 == Cardinality(Ahead(q)')
           b  == Cardinality(Blocking(q)) b1 == Cardinality(Blocking(q)')
           o  == Cardinality(Occupied(q)) o1 == Cardinality(Occupied(q)')
<1>1. /\ IsFiniteSet(Ahead(q)) /\ IsFiniteSet(Ahead(q)')
      /\ IsFiniteSet(Blocking(q)) /\ IsFiniteSet(Blocking(q)')
      /\ IsFiniteSet(Occupied(q)) /\ IsFiniteSet(Occupied(q)')
  <2>1. Ahead(q) \in SUBSET lingering /\ Ahead(q)' \in SUBSET lingering'
    BY DEF Ahead
  <2>2. Blocking(q) \in SUBSET Servers /\ Blocking(q)' \in SUBSET Servers
    BY DEF Blocking
  <2>3. Occupied(q) \in SUBSET Foreign /\ Occupied(q)' \in SUBSET Foreign
    BY DEF Occupied
  <2>4. IsFiniteSet(Servers) /\ IsFiniteSet(lingering) /\ IsFiniteSet(lingering')
    BY EnoughCells DEF LingeringCounted
  <2> QED
    BY <2>1, <2>2, <2>3, <2>4, FS_Subset
<1>2. /\ a \in Nat /\ a1 \in Nat /\ b \in Nat /\ b1 \in Nat /\ o \in Nat /\ o1 \in Nat
      /\ f \in Nat /\ f1 \in Nat /\ kills \in Nat /\ kills' \in Nat
  <2>1. f \in Nat /\ f1 \in Nat /\ kills \in Nat /\ kills' \in Nat
    BY ClusterAssumption DEF Failures, ServerTypes
  <2> QED
    BY <1>1, <2>1, FS_CardinalityType
<1>3. pc[q] # "off" => f + a <= b + o + kills
  BY DEF PortsCounted
<1>4. ASSUME pc[q] # "off", f1 = f, kills' = kills,
             Blocking(q) \subseteq Blocking(q)', Ahead(q)' \subseteq Ahead(q)
      PROVE  f1 + a1 <= b1 + o1 + kills'
  <2>1. Occupied(q)' = Occupied(q)
    BY <1>4 DEF Occupied
  <2>2. b <= b1 /\ a1 <= a
    <3>1. Blocking(q) \in SUBSET Blocking(q)' /\ Ahead(q)' \in SUBSET Ahead(q)
      BY <1>4
    <3> QED
      BY <3>1, <1>1, FS_Subset
  <2>3. o1 = o
    BY <2>1
  <2> HIDE DEF f, f1, a, a1, b, b1, o, o1
  <2> QED
    BY <2>2, <2>3, <1>2, <1>3, <1>4
<1>5. CASE UNCHANGED serverVars
  <2>1. f1 = f /\ Blocking(q)' = Blocking(q) /\ Ahead(q)' = Ahead(q) /\ kills' = kills
    BY <1>5 DEF Failures, Blocking, Ahead
  <2> QED
    BY <2>1, <1>4, <1>5
<1>6. ASSUME NEW p \in Servers, Start(p) \/ Run(p) \/ Kill(p)
      PROVE  f1 + a1 <= b1 + o1 + kills'
  <2>1. CASE Start(p) /\ p = q
    <3>1. f1 = 0 /\ lingering' = lingering /\ kills' = kills
      BY <2>1 DEF Start, Failures, ServerTypes
    <3>2. Ahead(q)' \in SUBSET lingering
      BY <3>1 DEF Ahead
    <3>3. a1 <= Cardinality(lingering) /\ Cardinality(lingering) \in Nat
      BY <3>2, FS_Subset, FS_CardinalityType DEF LingeringCounted
    <3>4. a1 <= kills'
      BY <3>1, <3>3, <1>2 DEF LingeringCounted
    <3> HIDE DEF f, f1, a, a1, b, b1, o, o1
    <3> QED
      BY <3>1, <3>4, <1>2
  <2>2. CASE Start(p) /\ p # q
    BY <2>2, <1>4 DEF Start, Failures, Blocking, Ahead, ServerTypes
  <2>3. CASE Register(p) \/ NoMaster(p) \/ Revoke(p)
    <3>1. f1 = f /\ pc[q] # "off"
      BY <2>3 DEF Register, NoMaster, Revoke, Failures, ServerTypes
    <3>2. kills' = kills /\ lingering' = lingering /\ pc[p] # "serving"
      BY <2>3 DEF Register, NoMaster, Revoke
    <3>3. \A r \in Servers : r # p => pc'[r] = pc[r] /\ try'[r] = try[r]
      BY <2>3 DEF Register, NoMaster, Revoke, ServerTypes
    <3>4. Blocking(q) \subseteq Blocking(q)' /\ Ahead(q)' \subseteq Ahead(q)
      BY <3>1, <3>2, <3>3 DEF Blocking, Ahead
    <3> QED
      BY <3>1, <3>2, <3>4, <1>4
  <2>4. CASE Bind(p)
    <3>1. /\ kills' = kills /\ lingering' = lingering /\ try' = try
          /\ pc[p] = "registered" /\ pc'[p] \in {"serving", "failing"}
          /\ \A r \in Servers : r # p => pc'[r] = pc[r]
      BY <2>4 DEF Bind, ServerTypes
    <3>2. pc[q] # "off"
      BY <3>1
    <3>3. CASE ~(p = q /\ pc'[p] = "failing")
      <4>1. f1 = f
        BY <3>1, <3>3 DEF Failures
      <4>2. Blocking(q) \subseteq Blocking(q)' /\ Ahead(q)' \subseteq Ahead(q)
        BY <3>1, <4>1 DEF Blocking, Ahead
      <4> QED
        BY <3>1, <3>2, <4>1, <4>2, <1>4
    <3>4. CASE p = q /\ pc'[p] = "failing"
      <4>1. f = try[q] /\ f1 = f + 1 /\ try[q] \in Nat
        BY <3>1, <3>4 DEF Failures, ServerTypes
      <4>2. /\ Blocking(q) \subseteq Blocking(q)'
            /\ Occupied(q) \subseteq Occupied(q)'
            /\ Ahead(q)' \subseteq Ahead(q)
        <5>1. Blocking(q) \subseteq Blocking(q)'
          BY <3>1, <4>1 DEF Blocking, ServerTypes
        <5>2. Occupied(q) \subseteq Occupied(q)'
          BY <3>1, <4>1, ClusterAssumption DEF Occupied, Addresses
        <5>3. Ahead(q)' \subseteq Ahead(q)
          BY <3>1, <4>1, ClusterAssumption DEF Ahead, ServerTypes, Addresses
        <5> QED
          BY <5>1, <5>2, <5>3
      <4>3. b <= b1 /\ o <= o1 /\ a1 <= a
        <5>1. /\ Blocking(q) \in SUBSET Blocking(q)' /\ Occupied(q) \in SUBSET Occupied(q)'
              /\ Ahead(q)' \in SUBSET Ahead(q)
          BY <4>2
        <5> QED
          BY <5>1, <1>1, FS_Subset
      <4>4. AddrOf(q)[1] = HostOf[q] /\ AddrOf(q)[2] = f
        BY <4>1 DEF AddrOf
      <4>5. \/ AddrOf(q) \in Foreign
            \/ \E r \in Servers : Serves(r, AddrOf(q))
            \/ AddrOf(q) \in lingering
        BY <2>4, <3>4 DEF Bind, Taken, ServerTypes
      <4>6. CASE AddrOf(q) \in Foreign
        <5>1. AddrOf(q) \in Occupied(q)' \ Occupied(q)
          BY <4>6, <4>4, <4>1 DEF Occupied
        <5>2. o + 1 <= o1
          BY <5>1, <4>2, <1>1, OneMore
        <5> HIDE DEF f, f1, a, a1, b, b1, o, o1
        <5> QED
          BY <5>2, <4>1, <4>3, <1>2, <1>3, <3>1, <3>2
      <4>7. ASSUME NEW r \in Servers, Serves(r, AddrOf(q))
            PROVE  f1 + a1 <= b1 + o1 + kills'
        <5>1. pc[r] = "serving" /\ HostOf[r] = HostOf[q] /\ try[r] = f /\ r # q
          BY <4>7, <4>1, <3>1, <3>4 DEF Serves, AddrOf
        <5>2. r \in Blocking(q)' \ Blocking(q)
          BY <5>1, <4>1, <3>1, <3>4 DEF Blocking
        <5>3. b + 1 <= b1
          BY <5>2, <4>2, <1>1, OneMore
        <5> HIDE DEF f, f1, a, a1, b, b1, o, o1
        <5> QED
          BY <5>3, <4>1, <4>3, <1>2, <1>3, <3>1, <3>2
      <4>8. CASE AddrOf(q) \in lingering
        <5>1. AddrOf(q) \in Ahead(q) \ Ahead(q)'
          BY <4>8, <4>4, <4>1 DEF Ahead
        <5>2. a1 + 1 <= a
          BY <5>1, <4>2, <1>1, OneMore
        <5> HIDE DEF f, f1, a, a1, b, b1, o, o1
        <5> QED
          BY <5>2, <4>1, <4>3, <1>2, <1>3, <3>1, <3>2
      <4> QED
        BY <4>5, <4>6, <4>7, <4>8
    <3> QED
      BY <3>3, <3>4
  <2>5. CASE Kill(p)
    <3>1. /\ kills' = kills + 1 /\ try' = try /\ pc'[p] = "off"
          /\ \A r \in Servers : r # p => pc'[r] = pc[r]
          /\ \/ lingering' = lingering
             \/ pc[p] = "serving" /\ lingering' = lingering \cup {AddrOf(p)}
      BY <2>5 DEF Kill, ServerTypes
    <3>2. p # q /\ pc[q] # "off" /\ f1 = f
      BY <3>1 DEF Failures
    <3>3. Occupied(q)' = Occupied(q)
      BY <3>2 DEF Occupied
    <3>4. Blocking(q) \ {p} \subseteq Blocking(q)'
      BY <3>1, <3>2 DEF Blocking
    <3>5. Ahead(q)' \ {AddrOf(p)} \subseteq Ahead(q)
      BY <3>1, <3>2 DEF Ahead
    <3>6. CASE p \in Blocking(q)
      <4>1. AddrOf(p) \notin Ahead(q)'
        BY <3>6, <3>2, <1>2 DEF Ahead, AddrOf, Blocking, ServerTypes
      <4>2. Ahead(q)' \in SUBSET Ahead(q)
        BY <3>5, <4>1
      <4>3. a1 <= a /\ b <= b1 + 1 /\ o1 = o
        BY <4>2, <3>3, <3>4, <1>1, OneLess, FS_Subset
      <4> HIDE DEF f, f1, a, a1, b, b1, o, o1
      <4> QED
        BY <4>3, <3>1, <3>2, <1>2, <1>3
    <3>7. CASE p \notin Blocking(q)
      <4>1. Blocking(q) \in SUBSET Blocking(q)'
        BY <3>4, <3>7
      <4>2. b <= b1 /\ a1 <= a + 1 /\ o1 = o
        BY <4>1, <3>3, <3>5, <1>1, OneLess, FS_Subset
      <4> HIDE DEF f, f1, a, a1, b, b1, o, o1
      <4> QED
        BY <4>2, <3>1, <3>2, <1>2, <1>3
    <3> QED
      BY <3>6, <3>7
  <2> QED
    BY <1>6, <2>1, <2>2, <2>3, <2>4, <2>5 DEF Run
<1>7. ASSUME NEW x \in Addresses, Expire(x) PROVE f1 + a1 <= b1 + o1 + kills'
  <2>1. /\ lingering' \subseteq lingering /\ kills' = kills /\ pc' = pc /\ try' = try
    BY <1>7 DEF Expire
  <2>2. f1 = f /\ Blocking(q)' = Blocking(q) /\ Ahead(q)' \subseteq Ahead(q)
    BY <2>1 DEF Failures, Blocking, Ahead
  <2> QED
    BY <2>1, <2>2, <1>4
<1>8. ASSUME NEW c \in Clients, CreateDB(c) \/ Proceed(c) \/ ForeignAnswers(c) \/ CloseDB(c)
      PROVE  UNCHANGED serverVars
  BY <1>8 DEF CreateDB, Proceed, Connect, Opened, OpenFails, ForeignAnswers, CloseDB
<1>9. MasterKill \/ MasterStart => UNCHANGED serverVars
  BY DEF MasterKill, MasterStart
<1> QED
  BY <1>5, <1>6, <1>7, <1>8, <1>9 DEF Next

LEMMA PortsSuffice ==
  ASSUME IsFiniteSet(Foreign),
         Tries >= Cardinality(Servers) + MaxKills + Cardinality(Foreign),
         ServerTypes, LingeringCounted, PortsCounted
  PROVE  NeverExhausted
<1> SUFFICES ASSUME NEW p \in Servers, pc[p] = "exhausted" PROVE FALSE
  BY DEF NeverExhausted
<1>1. IsFiniteSet(Servers) /\ Cardinality(Servers) \in Nat /\ Cardinality(Foreign) \in Nat
  BY EnoughCells, FS_CardinalityType
<1>2. Failures(p) = Tries /\ Tries \in Nat /\ MaxKills \in Nat /\ kills \in Nat /\ kills <= MaxKills
  BY ClusterAssumption DEF Failures, ServerTypes
<1>3. Cardinality(Blocking(p)) + 1 <= Cardinality(Servers) /\ IsFiniteSet(Blocking(p))
  <2>1. Blocking(p) \in SUBSET Servers /\ p \in Servers \ Blocking(p)
    BY DEF Blocking
  <2> QED
    BY <2>1, <1>1, OneMore, FS_Subset
<1>4. Cardinality(Occupied(p)) <= Cardinality(Foreign) /\ IsFiniteSet(Occupied(p))
  <2>1. Occupied(p) \in SUBSET Foreign
    BY DEF Occupied
  <2> QED
    BY <2>1, FS_Subset
<1>5. IsFiniteSet(Ahead(p))
  <2>1. Ahead(p) \in SUBSET lingering
    BY DEF Ahead
  <2> QED
    BY <2>1, FS_Subset DEF LingeringCounted
<1>6. /\ Cardinality(Blocking(p)) \in Nat /\ Cardinality(Occupied(p)) \in Nat
      /\ Cardinality(Ahead(p)) \in Nat
  BY <1>3, <1>4, <1>5, FS_CardinalityType
<1>7. Failures(p) + Cardinality(Ahead(p))
        <= Cardinality(Blocking(p)) + Cardinality(Occupied(p)) + kills
  BY DEF PortsCounted
<1> QED
  BY <1>1, <1>2, <1>3, <1>4, <1>6, <1>7

(* A server never runs out of the ports that main tries (server.c, the     *)
(* loop around ServiceEngine), if there is one for each server, each kill  *)
(* and each port that another program holds; whatever order the servers    *)
(* start, collide, die and start again in.                                 *)
THEOREM PortsNeverRunOut ==
  ASSUME IsFiniteSet(Foreign),
         Tries >= Cardinality(Servers) + MaxKills + Cardinality(Foreign)
  PROVE  Spec => []NeverExhausted
<1>1. Init => ServerTypes /\ LingeringCounted /\ PortsCounted
  <2> SUFFICES ASSUME Init PROVE LingeringCounted /\ PortsCounted
    BY InitTypes
  <2>1. LingeringCounted
    BY FS_EmptySet DEF Init, LingeringCounted
  <2>2. PortsCounted
    BY DEF Init, PortsCounted
  <2> QED
    BY <2>1, <2>2
<1>2. ServerTypes /\ LingeringCounted /\ PortsCounted /\ [Next]_vars
        => ServerTypes' /\ LingeringCounted' /\ PortsCounted'
  BY ServersKeepTypes, KeepsLingering, KeepsPorts
<1>3. ServerTypes /\ LingeringCounted /\ PortsCounted => NeverExhausted
  BY PortsSuffice
<1> QED
  BY <1>1, <1>2, <1>3, PTL DEF Spec
=============================================================================
