--------------------------- MODULE LinkedListProofs ---------------------------
(***************************************************************************)
(* What the operations of linkedlist.c do to the nodes that a walk along   *)
(* the list visits, for lists of any length.                               *)
(***************************************************************************)
EXTENDS LinkedList, SequenceTheorems, FiniteSetTheorems, TLAPS

(***************************************************************************)
(* Induction over numbers, with the claim as a set of numbers.             *)
(***************************************************************************)

LEMMA Least ==
  ASSUME NEW S \in SUBSET Nat, S # {}
  PROVE  \E m \in S : \A k \in S : m <= k
<1> DEFINE R == OpToRel(<, Nat)
<1>1. IsWellFoundedOn(R, Nat)
  BY NatLessThanWellFounded
<1>2. \A a, b \in Nat : a < b => <<a, b>> \in R
  BY DEF OpToRel
<1> HIDE DEF R
<1>3. PICK x \in S : \A y \in S : ~(<<y, x>> \in R)
  BY <1>1, WFMin
<1>4. ASSUME NEW y \in S PROVE x <= y
  <2>1. x \in Nat /\ y \in Nat /\ ~(y < x)
    BY <1>2, <1>3
  <2> QED
    BY <2>1
<1> QED
  BY <1>4

LEMMA Greatest ==
  ASSUME NEW S \in SUBSET Nat, S # {}, NEW n \in Nat, \A k \in S : k <= n
  PROVE  \E m \in S : \A k \in S : k <= m
<1> DEFINE T == {i \in 0 .. n : n - i \in S}
<1>1. T \in SUBSET Nat /\ T # {}
  <2>1. PICK k \in S : k \in Nat /\ k <= n
    OBVIOUS
  <2>2. n - k \in 0 .. n /\ n - (n - k) = k
    BY <2>1
  <2>3. n - k \in T
    BY <2>2
  <2> QED
    BY <2>3
<1>2. PICK t \in T : \A k \in T : t <= k
  BY <1>1, Least
<1>3. ASSUME NEW k \in S PROVE k <= n - t
  <2>1. k \in Nat /\ k <= n
    OBVIOUS
  <2>2. n - k \in 0 .. n /\ n - (n - k) = k
    BY <2>1
  <2>3. t <= n - k /\ t \in 0 .. n
    BY <1>2, <2>2
  <2> QED
    BY <2>1, <2>3
<1> QED
  BY <1>3

(***************************************************************************)
(* Paths: the nodes from p on, along next.                                 *)
(***************************************************************************)

Path(next, p, s) ==
  /\ s \in Seq(Cells)
  /\ IF p = NULL THEN s = <<>> ELSE s # <<>> /\ s[1] = p
  /\ \A i \in 1 .. Len(s) : next[s[i]] = IF i = Len(s) THEN NULL ELSE s[i + 1]

(* Links lead to nodes that were allocated later, of which there are n. *)
Forward(next, n) ==
  /\ n \in Nat
  /\ next \in [Cells -> Cells \cup {NULL}]
  /\ \A i \in Cells : i <= n /\ (next[i] # NULL => i < next[i])

LEMMA PathUnique ==
  ASSUME NEW next, NEW p \in Cells \cup {NULL}, NEW s, NEW t, Path(next, p, s), Path(next, p, t)
  PROVE  s = t
<1> USE DEF Path
<1>1. CASE p = NULL
  BY <1>1
<1>2. CASE p # NULL
  <2>1. /\ Len(s) \in Nat /\ Len(t) \in Nat /\ Len(s) >= 1 /\ Len(t) >= 1
        /\ s[1] = t[1] /\ \A i \in 1 .. Len(s) : s[i] # NULL
        /\ \A i \in 1 .. Len(t) : t[i] # NULL
    BY <1>2, CellsAssumption
  <2> DEFINE S == {i \in Nat : i \in 1 .. Len(s) /\ ~(i \in 1 .. Len(t) /\ s[i] = t[i])}
  <2>2. S = {}
    <3> SUFFICES ASSUME S # {} PROVE FALSE
      OBVIOUS
    <3>1. PICK m \in S : \A k \in S : m <= k
      BY Least
    <3>2. m \in Nat /\ m # 1 /\ m >= 1
      BY <2>1
    <3>3. m - 1 \in Nat /\ m - 1 \in 1 .. Len(s) /\ m - 1 # Len(s) /\ ~(m <= m - 1)
          /\ m - 1 + 1 = m
      BY <2>1, <3>2
    <3>4. m - 1 \notin S
      BY <3>1, <3>3
    <3>5. m - 1 \in 1 .. Len(t) /\ s[m - 1] = t[m - 1]
      BY <3>3, <3>4
    <3>6. next[s[m - 1]] = s[m] /\ s[m] # NULL
      BY <2>1, <3>3
    <3>7. m - 1 # Len(t) /\ next[t[m - 1]] = t[m]
      BY <3>3, <3>5, <3>6
    <3>8. m \in 1 .. Len(t) /\ s[m] = t[m]
      BY <2>1, <3>2, <3>5, <3>6, <3>7
    <3> QED
      BY <3>8
  <2>3. \A i \in 1 .. Len(s) : i \in 1 .. Len(t) /\ s[i] = t[i]
    BY <2>1, <2>2
  <2>4. Len(s) = Len(t)
    <3>1. Len(s) \in 1 .. Len(t) /\ s[Len(s)] = t[Len(s)]
      BY <2>1, <2>3
    <3>2. next[s[Len(s)]] = NULL
      BY <2>1
    <3>3. Len(s) # Len(t) => next[t[Len(s)]] = t[Len(s) + 1] /\ Len(s) + 1 \in 1 .. Len(t)
      BY <2>1, <3>1
    <3> QED
      BY <2>1, <3>1, <3>2, <3>3
  <2> QED
    BY <2>3, <2>4, SeqEqual
<1> QED
  BY <1>1, <1>2

LEMMA PathPrepended ==
  ASSUME NEW next, NEW p \in Cells, NEW s, next[p] \in Cells \cup {NULL}, Path(next, next[p], s)
  PROVE  Path(next, p, <<p>> \o s)
<1> DEFINE t == <<p>> \o s
<1>1. s \in Seq(Cells) /\ <<p>> \in Seq(Cells) /\ Len(<<p>>) = 1 /\ Len(s) \in Nat /\ <<p>>[1] = p
      /\ p # NULL
  BY CellsAssumption DEF Path
<1>2. /\ t \in Seq(Cells) /\ Len(t) = 1 + Len(s) /\ t[1] = p
      /\ \A i \in 1 .. Len(s) : t[i + 1] = s[i]
  <2>1. /\ t \in Seq(Cells) /\ Len(t) = 1 + Len(s)
        /\ \A i \in 1 .. 1 + Len(s) : t[i] = IF i <= 1 THEN <<p>>[i] ELSE s[i - 1]
    BY <1>1, ConcatProperties
  <2>2. \A i \in 1 .. Len(s) : i + 1 \in 1 .. 1 + Len(s) /\ ~(i + 1 <= 1) /\ i + 1 - 1 = i
    BY <1>1
  <2>3. 1 \in 1 .. 1 + Len(s)
    BY <1>1
  <2> QED
    BY <1>1, <2>1, <2>2, <2>3
<1> HIDE DEF t
<1>3. ASSUME NEW i \in 1 .. Len(t)
      PROVE  next[t[i]] = IF i = Len(t) THEN NULL ELSE t[i + 1]
  <2>1. CASE i = 1
    <3>1. CASE s = <<>>
      BY <1>1, <1>2, <2>1, <3>1 DEF Path
    <3>2. CASE s # <<>>
      <4>1. Len(s) >= 1
        BY <1>1, <3>2
      <4>2. s[1] = next[p] /\ t[2] = s[1] /\ i # Len(t)
        BY <1>1, <1>2, <2>1, <3>2, <4>1 DEF Path
      <4> QED
        BY <1>2, <2>1, <4>2
    <3> QED
      BY <3>1, <3>2
  <2>2. CASE i # 1
    <3>1. /\ i - 1 \in 1 .. Len(s) /\ i - 1 + 1 = i /\ (i - 1 = Len(s) <=> i = Len(t))
          /\ (i # Len(t) => i \in 1 .. Len(s))
      BY <1>1, <1>2, <2>2
    <3>2. t[i] = s[i - 1] /\ (i # Len(t) => t[i + 1] = s[i])
      BY <1>2, <3>1
    <3>3. next[s[i - 1]] = IF i - 1 = Len(s) THEN NULL ELSE s[i - 1 + 1]
      BY <3>1 DEF Path
    <3> QED
      BY <3>1, <3>2, <3>3
  <2> QED
    BY <2>1, <2>2
<1>4. t # <<>>
  BY <1>1, <1>2
<1> QED
  BY <1>1, <1>2, <1>3, <1>4 DEF Path, t

(* The last node of which something does not hold. *)
LEMMA Furthest ==
  ASSUME NEW next, NEW n, Forward(next, n), NEW B \in SUBSET Cells, B # {}
  PROVE  \E p \in B : next[p] \in Cells \cup {NULL} /\ next[p] \notin B
<1>1. B \in SUBSET Nat /\ \A k \in B : k <= n
  BY CellsAssumption DEF Forward
<1>2. PICK p \in B : \A k \in B : k <= p
  BY <1>1, Greatest DEF Forward
<1>3. next[p] \in Cells \cup {NULL} /\ (next[p] # NULL => p < next[p] /\ next[p] \in Nat /\ p \in Nat)
  BY <1>1, CellsAssumption DEF Forward
<1>4. next[p] \notin B
  <2>1. next[p] # NULL => ~(next[p] <= p)
    BY <1>3
  <2>2. NULL \notin B
    BY CellsAssumption
  <2> QED
    BY <1>2, <2>1, <2>2
<1> QED
  BY <1>3, <1>4

LEMMA PathEnds ==
  ASSUME NEW next
  PROVE  Path(next, NULL, <<>>)
BY DEF Path

LEMMA PathExists ==
  ASSUME NEW next, NEW n, Forward(next, n)
  PROVE  \A p \in Cells \cup {NULL} : \E s : Path(next, p, s)
<1> DEFINE B == {p \in Cells : ~ \E s : Path(next, p, s)}
<1>1. B = {}
  <2> SUFFICES ASSUME B # {} PROVE FALSE
    OBVIOUS
  <2>1. PICK p \in B : next[p] \in Cells \cup {NULL} /\ next[p] \notin B
    BY Furthest
  <2>2. \E s : Path(next, next[p], s)
    BY <2>1, PathEnds
  <2>3. \E s : Path(next, p, s)
    BY <2>1, <2>2, PathPrepended
  <2> QED
    BY <2>3
<1> QED
  BY <1>1, PathEnds

(* The nodes that Chain lists are the path from the head.                  *)
LEMMA ChainPath ==
  ASSUME NEW l, NEW n, Forward(l.pNext, n), l.pHead \in Cells \cup {NULL}
  PROVE  Path(l.pNext, l.pHead, Chain(l))
<1> DEFINE D == Cells \cup {NULL}
           next == l.pNext
           step(f) == [p \in D |-> IF p = NULL THEN <<>> ELSE <<p>> \o f[next[p]]]
           from == CHOOSE f : f = step(f)
           path == [p \in D |-> CHOOSE s : Path(next, p, s)]
<1>1. \A p \in D : Path(next, p, path[p])
  BY PathExists
<1>2. \A p \in Cells : next[p] \in D
  BY DEF Forward
<1>3. path = step(path)
  <2>1. ASSUME NEW p \in D
        PROVE  path[p] = IF p = NULL THEN <<>> ELSE <<p>> \o path[next[p]]
    <3>1. CASE p = NULL
      BY <1>1, <3>1 DEF Path
    <3>2. CASE p # NULL
      <4>1. Path(next, p, <<p>> \o path[next[p]])
        BY <1>1, <1>2, <3>2, PathPrepended
      <4>2. Path(next, p, path[p])
        BY <1>1
      <4> QED
        BY <3>2, <4>1, <4>2, PathUnique
    <3> QED
      BY <3>1, <3>2
  <2> HIDE DEF D
  <2>2. \A p \in D : path[p] = step(path)[p]
    BY <2>1
  <2> QED
    BY <2>2
<1>4. from = step(from)
  BY <1>3
<1>5. Chain(l) = from[l.pHead]
  BY DEF Chain
<1> DEFINE B == {p \in Cells : ~ Path(next, p, from[p])}
<1>6. \A p \in D : from[p] = IF p = NULL THEN <<>> ELSE <<p>> \o from[next[p]]
  BY <1>4
<1> HIDE DEF from
<1>7. Path(next, NULL, from[NULL])
  BY <1>6, PathEnds
<1>8. B = {}
  <2> SUFFICES ASSUME B # {} PROVE FALSE
    OBVIOUS
  <2>1. PICK p \in B : next[p] \in D /\ next[p] \notin B
    BY Furthest
  <2>2. Path(next, next[p], from[next[p]])
    BY <1>7, <2>1
  <2>3. p \in Cells /\ p # NULL
    BY CellsAssumption
  <2>4. Path(next, p, <<p>> \o from[next[p]])
    BY <2>1, <2>2, <2>3, PathPrepended
  <2>5. from[p] = <<p>> \o from[next[p]]
    BY <1>6, <2>3
  <2> QED
    BY <2>4, <2>5
<1> QED
  BY <1>5, <1>7, <1>8

LEMMA PathNodes ==
  ASSUME NEW next, NEW p, NEW s, Path(next, p, s)
  PROVE  Len(s) \in Nat /\ \A j \in 1 .. Len(s) : s[j] \in Cells /\ s[j] \in Nat /\ s[j] # NULL
<1>1. s \in Seq(Cells)
  BY DEF Path
<1>2. Len(s) \in Nat /\ \A j \in 1 .. Len(s) : s[j] \in Cells
  BY <1>1, LenProperties, ElementOfSeq
<1> QED
  BY <1>2, CellsAssumption

(* A path visits no node twice. *)
LEMMA PathClimbs ==
  ASSUME NEW next, NEW n, Forward(next, n), NEW p \in Cells \cup {NULL}, NEW s, Path(next, p, s)
  PROVE  \A i, j \in 1 .. Len(s) : i < j => s[i] < s[j]
<1> SUFFICES ASSUME NEW i \in 1 .. Len(s),
                    ~ \A j \in 1 .. Len(s) : i < j => s[i] < s[j]
             PROVE  FALSE
  OBVIOUS
<1>1. Len(s) \in Nat /\ \A j \in 1 .. Len(s) : s[j] \in Cells /\ s[j] \in Nat /\ s[j] # NULL
  BY PathNodes
<1> DEFINE S == {j \in Nat : j \in 1 .. Len(s) /\ i < j /\ ~(s[i] < s[j])}
<1>2. S # {} /\ S \in SUBSET Nat
  OBVIOUS
<1>3. PICK m \in S : \A k \in S : m <= k
  BY <1>2, Least
<1>4. m - 1 \in 1 .. Len(s) /\ m - 1 # Len(s) /\ m - 1 + 1 = m /\ ~(m <= m - 1) /\ m - 1 \in Nat
  BY <1>1
<1>5. next[s[m - 1]] = s[m] /\ s[m] # NULL
  BY <1>1, <1>4 DEF Path
<1>6. s[m - 1] < s[m]
  BY <1>1, <1>4, <1>5 DEF Forward
<1>7. i = m - 1 \/ s[i] < s[m - 1]
  <2>1. m - 1 \notin S
    BY <1>3, <1>4
  <2> QED
    BY <1>4, <2>1
<1>8. s[i] \in Nat /\ s[m - 1] \in Nat /\ s[m] \in Nat
  BY <1>1, <1>4
<1> QED
  BY <1>6, <1>7, <1>8

(***************************************************************************)
(* The operations.                                                         *)
(***************************************************************************)

In(s, x) == \E i \in 1 .. Len(s) : s[i] = x

(* AddLNode on a list whose last node is at pTail appends, and on one that *)
(* has lost the node at pTail has no effect on a walk.                     *)
LEMMA AddedChain ==
  ASSUME NEW l, NEW n, NEW p \in Cells,
         Forward(l.pNext, n), Forward(AddLNode(l, p).pNext, n),
         l.pHead \in Cells, l.pTail \in Cells, ~In(Chain(l), p), p # l.pTail
  PROVE  LET s == Chain(l)
         IN  /\ s[Len(s)] = l.pTail => Chain(AddLNode(l, p)) = Append(s, p)
             /\ ~In(s, l.pTail) => Chain(AddLNode(l, p)) = s
<1> DEFINE s == Chain(l)
           next == AddLNode(l, p).pNext
           m == Len(s)
<1>1. Path(l.pNext, l.pHead, s)
  BY ChainPath
<1>2. /\ m \in Nat /\ m >= 1 /\ s[1] = l.pHead /\ l.pHead # NULL /\ s \in Seq(Cells)
      /\ \A i \in 1 .. m : s[i] \in Cells /\ s[i] # p
      /\ \A i, j \in 1 .. m : i < j => s[i] < s[j]
      /\ \A i \in 1 .. m : s[i] \in Nat
      /\ s # <<>> /\ p # NULL
  <2>1. l.pHead # NULL /\ s \in Seq(Cells) /\ s # <<>> /\ s[1] = l.pHead /\ p # NULL
    BY <1>1, CellsAssumption DEF Path
  <2>2. m \in Nat /\ m >= 1 /\ \A i \in 1 .. m : s[i] \in Cells /\ s[i] \in Nat
    BY <1>1, <2>1, PathNodes
  <2> QED
    BY <1>1, <2>1, <2>2, PathClimbs DEF In
<1>3. AddLNode(l, p).pHead = l.pHead
  BY <1>2 DEF AddLNode
<1>4. ASSUME NEW q \in Cells
      PROVE  /\ q = p => next[q] = NULL
             /\ q # p /\ q = l.pTail => next[q] = p
             /\ q # p /\ q # l.pTail => next[q] = l.pNext[q]
  <2>1. next[q] = CASE q = p -> NULL [] q = l.pTail -> p [] OTHER -> l.pNext[q]
    BY DEF AddLNode
  <2> QED
    BY <2>1
<1>5. Path(next, l.pHead, Chain(AddLNode(l, p)))
  BY <1>3, ChainPath
<1>6. \A i \in 1 .. m : l.pNext[s[i]] = IF i = m THEN NULL ELSE s[i + 1]
  BY <1>1 DEF Path
<1>7. ASSUME s[m] = l.pTail PROVE Chain(AddLNode(l, p)) = Append(s, p)
  <2> DEFINE t == Append(s, p)
  <2>1. /\ t \in Seq(Cells) /\ Len(t) = m + 1 /\ t[m + 1] = p
        /\ \A i \in 1 .. m : t[i] = s[i]
    BY <1>2, AppendProperties
  <2> HIDE DEF t, s, next
  <2>2. ASSUME NEW i \in 1 .. m + 1
        PROVE  next[t[i]] = IF i = m + 1 THEN NULL ELSE t[i + 1]
    <3>1. CASE i = m + 1
      BY <1>4, <2>1, <3>1
    <3>2. CASE i = m
      BY <1>2, <1>4, <1>7, <2>1, <3>2
    <3>3. CASE i < m
      <4>1. i \in 1 .. m /\ i + 1 \in 1 .. m /\ i # m /\ m \in 1 .. m
        BY <1>2, <3>3
      <4>2. s[i] # s[m]
        BY <1>2, <3>3, <4>1
      <4>3. next[s[i]] = s[i + 1]
        BY <1>2, <1>4, <1>6, <1>7, <4>1, <4>2
      <4> QED
        BY <1>2, <2>1, <3>3, <4>1, <4>3
    <3> QED
      BY <1>2, <3>1, <3>2, <3>3
  <2>3. t # <<>> /\ t[1] = l.pHead
    BY <1>2, <2>1
  <2>4. Path(next, l.pHead, t)
    BY <1>2, <2>1, <2>2, <2>3 DEF Path
  <2> QED
    BY <1>5, <2>4, PathUnique DEF t
<1>8. ASSUME ~In(s, l.pTail) PROVE Chain(AddLNode(l, p)) = s
  <2>1. \A i \in 1 .. m : next[s[i]] = IF i = m THEN NULL ELSE s[i + 1]
    BY <1>2, <1>4, <1>6, <1>8 DEF In
  <2>2. Path(next, l.pHead, s)
    BY <1>2, <2>1 DEF Path
  <2> QED
    BY <1>5, <2>2, PathUnique
<1> QED
  BY <1>7, <1>8

(* The sequence without its k-th element. *)
Removed(s, k) == [i \in 1 .. Len(s) - 1 |-> IF i < k THEN s[i] ELSE s[i + 1]]

LEMMA RemovedFacts ==
  ASSUME NEW C, NEW s \in Seq(C), NEW k \in 1 .. Len(s)
  PROVE  /\ Removed(s, k) \in Seq(C) /\ Len(Removed(s, k)) = Len(s) - 1
         /\ \A i \in 1 .. Len(s) - 1 : Removed(s, k)[i] = IF i < k THEN s[i] ELSE s[i + 1]
<1>1. Len(s) \in Nat /\ Len(s) - 1 \in Nat
  BY LenProperties
<1>2. \A i \in 1 .. Len(s) - 1 : (IF i < k THEN s[i] ELSE s[i + 1]) \in C
  <2> SUFFICES ASSUME NEW i \in 1 .. Len(s) - 1 PROVE s[i] \in C /\ s[i + 1] \in C
    OBVIOUS
  <2>1. i \in 1 .. Len(s) /\ i + 1 \in 1 .. Len(s)
    BY <1>1
  <2> QED
    BY <2>1, ElementOfSeq
<1>3. Removed(s, k) \in [1 .. Len(s) - 1 -> C]
  BY <1>2 DEF Removed
<1> QED
  BY <1>1, <1>3, IsASeq DEF Removed

(* DelLNode of a node that a walk reaches behind the head. *)
LEMMA DeletedChain ==
  ASSUME NEW l, NEW n, NEW k \in 2 .. Len(Chain(l)),
         Forward(l.pNext, n), Forward(DelLNode(l, Chain(l)[k]).pNext, n), l.pHead \in Cells
  PROVE  LET d == DelLNode(l, Chain(l)[k])
         IN  /\ d.pHead = l.pHead
             /\ Chain(d) = Removed(Chain(l), k)
             /\ d.len = l.len - 1
             /\ d.pTail = IF l.len = 1 THEN NULL ELSE l.pTail
<1> DEFINE s == Chain(l)
           m == Len(s)
           d == DelLNode(l, s[k])
           q == s[k - 1]
           after == [l.pNext EXCEPT ![q] = l.pNext[s[k]]]
<1>1. Path(l.pNext, l.pHead, s)
  BY ChainPath
<1>2. l.pHead # NULL /\ s \in Seq(Cells) /\ s # <<>> /\ s[1] = l.pHead
  BY <1>1, CellsAssumption DEF Path
<1>3. /\ m \in Nat
      /\ \A i \in 1 .. m : s[i] \in Cells /\ s[i] \in Nat /\ s[i] # NULL
      /\ \A i, j \in 1 .. m : i < j => s[i] < s[j]
      /\ k \in 1 .. m /\ k - 1 \in 1 .. m /\ k - 1 + 1 = k /\ k - 1 # m /\ 1 \in 1 .. m /\ 1 < k
      /\ k - 1 < k
  <2>1. m \in Nat /\ \A i \in 1 .. m : s[i] \in Cells /\ s[i] \in Nat /\ s[i] # NULL
    BY <1>1, PathNodes
  <2>2. \A i, j \in 1 .. m : i < j => s[i] < s[j]
    BY <1>1, PathClimbs
  <2> HIDE DEF m
  <2> QED
    BY <2>1, <2>2 DEF m
<1>4. \A i \in 1 .. m : l.pNext[s[i]] = IF i = m THEN NULL ELSE s[i + 1]
  BY <1>1 DEF Path
<1>5. \A i, j \in 1 .. m : s[i] = s[j] => i = j
  <2> SUFFICES ASSUME NEW i \in 1 .. m, NEW j \in 1 .. m, s[i] = s[j], i # j PROVE FALSE
    OBVIOUS
  <2>1. i < j \/ j < i
    BY <1>3
  <2> QED
    BY <1>3, <2>1
<1> HIDE DEF s, m
<1>6. s[k] # NULL /\ s[k] # l.pHead
  BY <1>2, <1>3, <1>5
<1>7. Predecessors(l, s[k]) = {q}
  <2>1. q \in Cells /\ l.pNext[q] = s[k]
    BY <1>3, <1>4
  <2>2. DOMAIN s = 1 .. m
    BY <1>2 DEF m
  <2>3. \A r \in Cells : l.pNext[r] = s[k] /\ (\E i \in DOMAIN s : s[i] = r) => r = q
    <3> SUFFICES ASSUME NEW i \in 1 .. m, l.pNext[s[i]] = s[k] PROVE s[i] = q
      BY <2>2
    <3>1. i # m /\ s[i + 1] = s[k]
      BY <1>3, <1>4
    <3>2. i + 1 \in 1 .. m
      BY <1>3, <3>1
    <3>3. i + 1 = k
      BY <1>3, <1>5, <3>1, <3>2
    <3> QED
      BY <1>3, <3>3
  <2> QED
    BY <1>3, <2>1, <2>2, <2>3 DEF Predecessors, s
<1>8. d = Shorter(l, l.pHead, after)
  <2>1. (CHOOSE r \in {q} : TRUE) = q
    OBVIOUS
  <2> QED
    BY <1>6, <1>7, <2>1 DEF DelLNode
<1>9. /\ d.pHead = l.pHead /\ d.len = l.len - 1 /\ d.pNext = after
      /\ d.pTail = IF l.len = 1 THEN NULL ELSE l.pTail
  BY <1>8 DEF Shorter
<1>10. Path(d.pNext, d.pHead, Chain(d))
  <2>1. Forward(d.pNext, n)
    BY DEF s
  <2> HIDE DEF d
  <2> QED
    BY <1>9, <2>1, ChainPath
<1>11. Path(after, l.pHead, Removed(s, k))
  <2> DEFINE t == Removed(s, k)
  <2>1. /\ t \in Seq(Cells) /\ Len(t) = m - 1
        /\ \A i \in 1 .. m - 1 : t[i] = IF i < k THEN s[i] ELSE s[i + 1]
    BY <1>2, <1>3, RemovedFacts DEF m
  <2> HIDE DEF t, q
  <2>2. t[1] = l.pHead /\ t # <<>>
    <3>1. 1 \in 1 .. m - 1 /\ m - 1 >= 1
      BY <1>3
    <3> QED
      BY <1>2, <1>3, <2>1, <3>1
  <2>3. after[q] = l.pNext[s[k]] /\ \A r \in Cells : r # q => after[r] = l.pNext[r]
    BY <1>3 DEF Forward, q
  <2>4. ASSUME NEW i \in 1 .. m - 1
        PROVE  after[t[i]] = IF i = m - 1 THEN NULL ELSE t[i + 1]
    <3> HIDE DEF after
    <3>1. CASE i < k - 1
      <4>1. /\ i \in 1 .. m /\ i + 1 \in 1 .. m - 1 /\ i + 1 < k /\ i < k /\ i # m - 1 /\ i # m
            /\ i # k - 1
        BY <1>3, <3>1
      <4>2. t[i] = s[i] /\ t[i + 1] = s[i + 1] /\ s[i] # q
        BY <1>3, <1>5, <2>1, <4>1 DEF q
      <4> QED
        BY <1>3, <1>4, <2>3, <4>1, <4>2
    <3>2. CASE i = k - 1
      <4>1. t[i] = q /\ i < k
        BY <1>3, <2>1, <3>2 DEF q
      <4>2. i = m - 1 <=> k = m
        BY <1>3, <3>2
      <4>3. i # m - 1 => k \in 1 .. m - 1 /\ ~(k < k) /\ t[k] = s[k + 1]
        BY <1>3, <2>1, <3>2
      <4> QED
        BY <1>3, <1>4, <2>3, <3>2, <4>1, <4>2, <4>3
    <3>3. CASE i >= k
      <4>1. /\ i + 1 \in 1 .. m /\ ~(i < k) /\ ~(i + 1 < k) /\ (i = m - 1 <=> i + 1 = m)
            /\ i + 1 # k - 1
            /\ (i # m - 1 => i + 1 \in 1 .. m - 1)
        BY <1>3, <3>3
      <4>2. t[i] = s[i + 1] /\ s[i + 1] # q /\ (i # m - 1 => t[i + 1] = s[i + 1 + 1])
        BY <1>3, <1>5, <2>1, <4>1 DEF q
      <4> QED
        BY <1>3, <1>4, <2>3, <4>1, <4>2
    <3> QED
      BY <1>3, <3>1, <3>2, <3>3
  <2>5. Path(after, l.pHead, t)
    BY <1>2, <2>1, <2>2, <2>4 DEF Path
  <2> QED
    BY <2>5 DEF t
<1>12. Chain(d) = Removed(s, k)
  <2> HIDE DEF d, after
  <2>1. Path(after, l.pHead, Chain(d))
    BY <1>9, <1>10
  <2> QED
    BY <1>11, <2>1, PathUnique
<1> QED
  BY <1>9, <1>12 DEF s
==============================================================================
