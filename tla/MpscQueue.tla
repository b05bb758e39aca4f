----------------------------- MODULE MpscQueue -----------------------------
(***************************************************************************)
(* mpsc_queue_t: a linked list with a lock-free enqueue for several        *)
(* producers and a dequeue for one consumer.  The nodes are addresses,     *)
(* which the allocator gives out again after a delete.  Atomic accesses    *)
(* are in one order, as acquire and release give for this list.            *)
(***************************************************************************)
EXTENDS Naturals, Sequences

CONSTANTS
    Producer,
    Node,           \* the addresses of nodes
    NULL,
    MaxItem         \* bound: items of each producer

ASSUME QueueAssumption == NULL \notin Node /\ MaxItem \in Nat

VARIABLES
    head, tail,
    data, next,     \* the contents of the nodes
    live,           \* the nodes allocated
    pAt, pNode, pPrev,      \* the producers: pc, node, prev_head
    pItem,                  \* how many items they have begun to enqueue
    cAt, cTail, cNext,      \* the consumer: pc, tail, next
    order,          \* history: the items in the order their nodes became head
    taken           \* history: the outputs of dequeue

queueVars == <<head, tail, data, next, live, pAt, pNode, pPrev, pItem,
               cAt, cTail, cNext, order, taken>>

NoItem == <<>>

\* The constructor: one node, without an item.
QueueInit ==
    /\ head \in Node /\ tail = head /\ live = {head}
    /\ data = [n \in Node |-> NoItem] /\ next = [n \in Node |-> NULL]
    /\ pAt = [p \in Producer |-> "idle"] /\ pItem = [p \in Producer |-> 0]
    /\ pNode = [p \in Producer |-> NULL] /\ pPrev = [p \in Producer |-> NULL]
    /\ cAt = "idle" /\ cTail = NULL /\ cNext = NULL
    /\ order = <<>> /\ taken = <<>>

-----------------------------------------------------------------------------
(* enqueue.                                                                *)

Allocate(p) ==
    /\ pAt[p] = "idle" /\ pItem[p] < MaxItem /\ cAt # "destroyed"
    /\ pItem' = [pItem EXCEPT ![p] = @ + 1]
    /\ \E n \in Node \ live :
         /\ live' = live \cup {n}
         /\ data' = [data EXCEPT ![n] = <<p, pItem'[p]>>]
         /\ next' = [next EXCEPT ![n] = NULL]
         /\ pNode' = [pNode EXCEPT ![p] = n]
    /\ pAt' = [pAt EXCEPT ![p] = "exchange"]
    /\ UNCHANGED <<head, tail, pPrev, cAt, cTail, cNext, order, taken>>

Exchange(p) ==
    /\ pAt[p] = "exchange"
    /\ pPrev' = [pPrev EXCEPT ![p] = head]
    /\ head' = pNode[p]
    /\ order' = Append(order, data[pNode[p]])
    /\ pAt' = [pAt EXCEPT ![p] = "link"]
    /\ UNCHANGED <<tail, data, next, live, pNode, pItem, cAt, cTail, cNext, taken>>

Link(p) ==
    /\ pAt[p] = "link"
    /\ next' = [next EXCEPT ![pPrev[p]] = pNode[p]]
    /\ pAt' = [pAt EXCEPT ![p] = "idle"]
    /\ UNCHANGED <<head, tail, data, live, pNode, pPrev, pItem, cAt, cTail,
                   cNext, order, taken>>

-----------------------------------------------------------------------------
(* dequeue.                                                                *)

\* Both loads; the call returns false if there is no next node.
LoadNext ==
    /\ cAt = "idle"
    /\ cTail' = tail /\ cNext' = next[tail]
    /\ cAt' = IF next[tail] = NULL THEN "idle" ELSE "output"
    /\ UNCHANGED <<head, tail, data, next, live, pAt, pNode, pPrev, pItem,
                   order, taken>>

\* The output.  (ItemOfTail is that of the node before.)
ItemOfTail == data[cTail]
ItemOfNext == data[cNext]

Output ==
    /\ cAt = "output"
    /\ taken' = Append(taken, ItemOfNext)
    /\ cAt' = "store"
    /\ UNCHANGED <<head, tail, data, next, live, pAt, pNode, pPrev, pItem,
                   cTail, cNext, order>>

StoreTail ==
    /\ cAt = "store"
    /\ tail' = cNext
    /\ cAt' = "delete"
    /\ UNCHANGED <<head, data, next, live, pAt, pNode, pPrev, pItem, cTail,
                   cNext, order, taken>>

\* (The node that was read is still in use.)
Read == cNext
Unlinked == cTail

DeleteTail ==
    /\ cAt = "delete"
    /\ live' = live \ {Unlinked}
    /\ cAt' = "idle"
    /\ UNCHANGED <<head, tail, data, next, pAt, pNode, pPrev, pItem, cTail,
                   cNext, order, taken>>

\* The destructor, when no producer is in enqueue any more: dequeue has
\* returned false, and the last node is deleted.
Destroy ==
    /\ cAt = "idle" /\ \A p \in Producer : pAt[p] = "idle"
    /\ next[tail] = NULL
    /\ live' = live \ {head}
    /\ cAt' = "destroyed"
    /\ UNCHANGED <<head, tail, data, next, pAt, pNode, pPrev, pItem, cTail,
                   cNext, order, taken>>

QueueNext ==
    \/ \E p \in Producer : Allocate(p) \/ Exchange(p) \/ Link(p)
    \/ LoadNext \/ Output \/ StoreTail \/ DeleteTail \/ Destroy

QueueSpec == QueueInit /\ [][QueueNext]_queueVars

-----------------------------------------------------------------------------
\* Items come out once each, in the order of the exchanges of head, though
\* the links are made later and in any order; and dequeue returns false only
\* when there are none, or when the next is of an enqueue that has not linked
\* it yet.
OutInOrder ==
    /\ Len(taken) <= Len(order)
    /\ \A k \in 1..Len(taken) : taken[k] = order[k]
    /\ cAt = "idle" /\ next[tail] = NULL =>
         \/ taken = order
         \/ \E p \in Producer : pAt[p] = "link" /\ pPrev[p] = tail

\* Nobody uses a node that has been deleted, though producers write to nodes
\* that the consumer is to delete, and every node is deleted in the end.
NodesSafe ==
    /\ cAt # "destroyed" => head \in live /\ tail \in live
    /\ \A p \in Producer :
         /\ pAt[p] # "idle" => pNode[p] \in live
         /\ pAt[p] = "link" => pPrev[p] \in live
    /\ cAt \in {"output", "store", "delete"} => cNext \in live
    /\ cAt = "destroyed" => live = {}
=============================================================================
