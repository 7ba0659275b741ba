----------------------------- MODULE LinkedList -----------------------------
(***************************************************************************)
(* The singly linked list of linkedlist.c, with its head, tail and length  *)
(* fields and the pNext fields of the nodes, as operators from one state   *)
(* of the list to the next.  A node is the address malloc returned for it; *)
(* nodes are numbered in the order they were allocated.                    *)
(***************************************************************************)
EXTENDS Naturals, Sequences

CONSTANTS Cells,  \* addresses of list nodes
          NULL

ASSUME CellsAssumption == Cells \subseteq Nat /\ NULL \notin Cells

LinkedLists == [pHead: Cells \cup {NULL}, pTail: Cells \cup {NULL},
                len: Nat, pNext: [Cells -> Cells \cup {NULL}]]

CreateLinkedList == [pHead |-> NULL, pTail |-> NULL, len |-> 0,
                     pNext |-> [p \in Cells |-> NULL]]

(* The nodes that GetLHead and GetNextLNode visit, in their order. *)
Chain(l) ==
  LET from[p \in Cells \cup {NULL}] ==
        IF p = NULL THEN << >> ELSE <<p>> \o from[l.pNext[p]]
  IN  from[l.pHead]

(* A mutant: the node is linked in front of the others.                    *)
AddLNodeFront(l, p) ==
  [pHead |-> p,
   pTail |-> IF l.pTail = NULL THEN p ELSE l.pTail,
   len   |-> l.len + 1,
   pNext |-> [l.pNext EXCEPT ![p] = l.pHead]]

(* A mutant: pNext is not reset, and what is left in the node's memory     *)
(* leads back to the list.                                                 *)
AddLNodeStale(l, p) ==
  [pHead |-> IF l.pHead = NULL THEN p ELSE l.pHead,
   pTail |-> p,
   len   |-> l.len + 1,
   pNext |-> [q \in Cells |-> CASE q = p       -> l.pHead
                                [] q = l.pTail -> p
                                [] OTHER       -> l.pNext[q]]]

(* p is linked behind pTail, which is taken to be the last node. *)
AddLNode(l, p) ==
  [pHead |-> IF l.pHead = NULL THEN p ELSE l.pHead,
   pTail |-> p,
   len   |-> l.len + 1,
   pNext |-> [q \in Cells |-> CASE q = p       -> NULL
                                [] q = l.pTail -> p
                                [] OTHER       -> l.pNext[q]]]

(* What is left of the list when a node is unlinked: pTail is touched only *)
(* when nothing is left.                                                   *)
Shorter(l, head, next) ==
  [pHead |-> head,
   pTail |-> IF l.len = 1 THEN NULL ELSE l.pTail,
   len   |-> l.len - 1,
   pNext |-> next]

(* The nodes of the list whose successor is p. *)
Predecessors(l, p) ==
  {q \in Cells : l.pNext[q] = p /\ \E i \in DOMAIN Chain(l) : Chain(l)[i] = q}

(* A mutant: the length is counted down also if nothing was found.         *)
DelLNodeCounted(l, p) ==
  IF p = NULL THEN [l EXCEPT !.len = IF @ > 1 THEN @ - 1 ELSE @]
  ELSE IF l.pHead = p THEN Shorter(l, l.pNext[p], l.pNext)
  ELSE IF Predecessors(l, p) = {} THEN l
  ELSE LET q == CHOOSE q \in Predecessors(l, p) : TRUE
       IN  Shorter(l, l.pHead, [l.pNext EXCEPT ![q] = l.pNext[p]])

(* Unlinks p; FAILURE, and no change, if it is NULL or not in the list. *)
DelLNode(l, p) ==
  CASE p = NULL                -> l
    [] p # NULL /\ l.pHead = p -> Shorter(l, l.pNext[p], l.pNext)
    [] p # NULL /\ l.pHead # p ->
         IF Predecessors(l, p) = {} THEN l
         ELSE LET q == CHOOSE q \in Predecessors(l, p) : TRUE
              IN  Shorter(l, l.pHead, [l.pNext EXCEPT ![q] = l.pNext[p]])

(* The fields agree: len counts the nodes that can be reached from pHead,  *)
(* and pTail is the last of them.                                          *)
WellFormed(l) ==
  LET chain == Chain(l)
  IN  /\ l.len = Len(chain)
      /\ l.pTail = IF chain = << >> THEN NULL ELSE chain[Len(chain)]
=============================================================================
