-------------------------- MODULE MpscQueue_proofs --------------------------
(***************************************************************************)
(* The lock-free queue is a queue, and frees its nodes.  The invariant is  *)
(* that the nodes form a list, from tail to head in the order of the       *)
(* exchanges, in which some links are still to be made, each by one of the *)
(* producers.                                                              *)
(***************************************************************************)
EXTENDS MpscQueue, Integers, TLAPS

Datum == {NoItem} \cup (Producer \X Nat)

QueueType ==
    /\ head \in Node /\ tail \in Node
    /\ data \in [Node -> Datum] /\ next \in [Node -> Node \cup {NULL}]
    /\ live \subseteq Node
    /\ pAt \in [Producer -> {"idle", "exchange", "link"}]
    /\ pNode \in [Producer -> Node \cup {NULL}] /\ pPrev \in [Producer -> Node \cup {NULL}]
    /\ pItem \in [Producer -> Nat]
    /\ cAt \in {"idle", "output", "store", "delete", "destroyed"}
    /\ order \in Seq(Datum)
    /\ taken \in Seq(Datum)

Prefix ==
    /\ Len(taken) <= Len(order)
    /\ \A k \in 1..Len(taken) : taken[k] = order[k]

\* p is between the exchange and the link that puts n behind m.
Linking(p, m, n) == pAt[p] = "link" /\ pPrev[p] = m /\ pNode[p] = n

\* The nodes from tail to head, in the order of the exchanges.
Nodes(c) ==
    /\ c \in Seq(Node)
    /\ Len(c) >= 1
    /\ c[1] = tail /\ c[Len(c)] = head
    /\ \A i, j \in 1..Len(c) : c[i] = c[j] => i = j
    /\ \A i \in 1..Len(c) : c[i] \in live

Links(c) ==
    /\ next[head] = NULL
    /\ \A i \in 1..Len(c) - 1 :
         \/ next[c[i]] = c[i + 1]
         \/ next[c[i]] = NULL /\ \E p \in Producer : Linking(p, c[i], c[i + 1])

\* Every producer in enqueue has a node of its own, which is in the list from
\* the exchange on.
Producers(c) ==
    /\ \A p \in Producer : pAt[p] = "exchange" =>
         /\ pNode[p] \in live /\ next[pNode[p]] = NULL
         /\ \A i \in 1..Len(c) : c[i] # pNode[p]
    /\ \A p \in Producer : pAt[p] = "link" =>
         \E i \in 1..Len(c) - 1 :
            c[i] = pPrev[p] /\ c[i + 1] = pNode[p] /\ next[c[i]] = NULL
    /\ \A p, q \in Producer :
         pAt[p] # "idle" /\ pAt[q] # "idle" /\ pNode[p] = pNode[q] => p = q

\* The node at the tail was taken, the others were not.
Untaken(c) ==
    /\ \A i \in 2..Len(c) : data[c[i]] = order[Len(order) - Len(c) + i]
    /\ Len(taken) = Len(order) - Len(c) + (IF cAt = "store" THEN 2 ELSE 1)
    /\ Len(c) <= Len(order) + 1

Consumer(c) ==
    /\ cAt \in {"output", "store"} =>
         Len(c) >= 2 /\ cTail = tail /\ cNext = c[2] /\ next[tail] = cNext
    /\ cAt = "delete" =>
         /\ cNext = tail /\ cTail \in live
         /\ \A i \in 1..Len(c) : c[i] # cTail
         /\ \A p \in Producer : pAt[p] = "exchange" => pNode[p] # cTail

\* Nothing else is allocated.
Allocated(c) ==
    \A n \in live :
        \/ \E i \in 1..Len(c) : n = c[i]
        \/ \E p \in Producer : pAt[p] = "exchange" /\ n = pNode[p]
        \/ cAt = "delete" /\ n = cTail

IsList(c) == Nodes(c) /\ Links(c) /\ Producers(c) /\ Untaken(c) /\ Consumer(c) /\ Allocated(c)

QueueInv ==
    /\ QueueType /\ Prefix
    /\ \/ cAt = "destroyed" /\ live = {} /\ \A p \in Producer : pAt[p] = "idle"
       \/ cAt # "destroyed" /\ \E c \in Seq(Node) : IsList(c)

\* The list that a state of the queue has, and what a step may rely on.
ListAt(c) == QueueType /\ Prefix /\ cAt # "destroyed" /\ c \in Seq(Node) /\ IsList(c)

-----------------------------------------------------------------------------
LEMMA QueueInitially == QueueInit => QueueInv
  <1> SUFFICES ASSUME QueueInit PROVE QueueInv
    OBVIOUS
  <1> USE DEF QueueInit
  <1>1. QueueType
    BY QueueAssumption DEF QueueType, Datum
  <1>2. Prefix
    BY DEF Prefix
  <1>3. <<head>> \in Seq(Node) /\ Len(<<head>>) = 1 /\ <<head>>[1] = head
    OBVIOUS
  <1> DEFINE c == <<head>>
  <1> HIDE DEF c
  <1>4. c \in Seq(Node) /\ Len(c) = 1 /\ c[1] = head
    BY <1>3 DEF c
  <1>5. Nodes(c)
    BY <1>4 DEF Nodes
  <1>6. Links(c)
    BY <1>4 DEF Links
  <1>7. Producers(c)
    BY <1>4 DEF Producers
  <1>8. Untaken(c)
    BY <1>4 DEF Untaken
  <1>9. Consumer(c)
    BY <1>4 DEF Consumer
  <1>10. Allocated(c)
    <2> SUFFICES ASSUME NEW n \in live PROVE n = c[1] /\ 1 \in 1..Len(c)
      BY DEF Allocated
    <2> QED BY <1>4
  <1> QED
    BY <1>1, <1>2, <1>4, <1>5, <1>6, <1>7, <1>8, <1>9, <1>10 DEF QueueInv, IsList

\* A new node is in nobody's hands yet.
LEMMA AllocateKeeps ==
  ASSUME NEW c, ListAt(c), NEW p \in Producer, Allocate(p)
  PROVE  QueueType' /\ Prefix' /\ cAt' # "destroyed" /\ IsList(c)'
  <1> USE DEF ListAt, IsList
  <1>0. PICK n \in Node \ live :
          /\ live' = live \cup {n}
          /\ data' = [data EXCEPT ![n] = <<p, pItem'[p]>>]
          /\ next' = [next EXCEPT ![n] = NULL]
          /\ pNode' = [pNode EXCEPT ![p] = n]
    BY DEF Allocate
  <1>1. /\ pAt[p] = "idle" /\ pAt' = [pAt EXCEPT ![p] = "exchange"]
        /\ pItem' = [pItem EXCEPT ![p] = @ + 1]
        /\ cAt' = cAt
        /\ UNCHANGED <<head, tail, pPrev, cTail, cNext, order, taken>>
    BY DEF Allocate
  <1>2. QueueType'
    <2>1. pItem' \in [Producer -> Nat]
      BY <1>1 DEF QueueType
    <2>2. <<p, pItem'[p]>> \in Datum
      BY <2>1 DEF Datum
    <2>3. data' \in [Node -> Datum]
      BY <1>0, <2>2 DEF QueueType
    <2> QED BY <1>0, <1>1, <2>1, <2>3 DEF QueueType
  <1>3. Prefix' /\ cAt' # "destroyed"
    BY <1>1 DEF Prefix
  <1>4. \A i \in 1..Len(c) : c[i] \in live /\ c[i] # n /\ c[i] \in Node
    BY <1>0 DEF Nodes, QueueType
  <1>5. \A i \in 1..Len(c) : next'[c[i]] = next[c[i]] /\ data'[c[i]] = data[c[i]]
    BY <1>0, <1>4 DEF QueueType
  <1>6. \A q \in Producer : q # p => pAt'[q] = pAt[q] /\ pNode'[q] = pNode[q]
    BY <1>0, <1>1 DEF QueueType
  <1>7. pAt'[p] = "exchange" /\ pNode'[p] = n
    BY <1>0, <1>1 DEF QueueType
  <1>8. Nodes(c)'
    BY <1>0, <1>1 DEF Nodes
  <1>9. Links(c)'
    <2>1. head = c[Len(c)] /\ Len(c) \in 1..Len(c)
      BY DEF Nodes
    <2>2. next'[head'] = NULL
      BY <2>1, <1>1, <1>5 DEF Links
    <2>3. ASSUME NEW i \in 1..Len(c) - 1
          PROVE  \/ next'[c[i]] = c[i + 1]
                 \/ next'[c[i]] = NULL /\ \E q \in Producer : Linking(q, c[i], c[i + 1])'
      <3>1. i \in 1..Len(c) /\ i \in 1..Len(c) - 1
        BY DEF Nodes
      <3>2. ASSUME NEW q \in Producer, Linking(q, c[i], c[i + 1])
            PROVE  Linking(q, c[i], c[i + 1])'
        BY <1>1, <1>6, <3>2 DEF Linking
      <3> QED BY <1>5, <3>1, <3>2 DEF Links
    <2> QED BY <2>2, <2>3 DEF Links
  <1>10. Producers(c)'
    <2>1. ASSUME NEW q \in Producer, pAt'[q] = "exchange"
          PROVE  /\ pNode'[q] \in live' /\ next'[pNode'[q]] = NULL
                 /\ \A i \in 1..Len(c) : c[i] # pNode'[q]
      <3>1. CASE q = p
        BY <3>1, <1>0, <1>4, <1>7 DEF QueueType
      <3>2. CASE q # p
        <4>1. pNode[q] \in live /\ next[pNode[q]] = NULL
              /\ \A i \in 1..Len(c) : c[i] # pNode[q]
          BY <3>2, <1>6, <2>1 DEF Producers
        <4> QED BY <4>1, <3>2, <1>0, <1>6 DEF QueueType
      <3> QED BY <3>1, <3>2
    <2>2. ASSUME NEW q \in Producer, pAt'[q] = "link"
          PROVE  \E i \in 1..Len(c) - 1 :
                    c[i] = pPrev'[q] /\ c[i + 1] = pNode'[q] /\ next'[c[i]] = NULL
      <3>1. q # p
        BY <2>2, <1>7
      <3>2. PICK i \in 1..Len(c) - 1 :
                    c[i] = pPrev[q] /\ c[i + 1] = pNode[q] /\ next[c[i]] = NULL
        BY <3>1, <1>6, <2>2 DEF Producers
      <3>3. i \in 1..Len(c)
        BY DEF Nodes
      <3> QED BY <3>1, <3>2, <3>3, <1>1, <1>5, <1>6
    <2>3. ASSUME NEW q \in Producer, pAt[q] # "idle" PROVE pNode[q] \in live
      <3>1. CASE pAt[q] = "exchange"
        BY <3>1 DEF Producers
      <3>2. CASE pAt[q] = "link"
        BY <3>2 DEF Producers, Nodes
      <3> QED BY <2>3, <3>1, <3>2 DEF QueueType
    <2>4. ASSUME NEW q \in Producer, NEW r \in Producer,
                 pAt'[q] # "idle", pAt'[r] # "idle", pNode'[q] = pNode'[r]
          PROVE  q = r
      <3>1. q = p /\ r # p => FALSE
        BY <2>3, <2>4, <1>0, <1>6, <1>7
      <3>2. q # p /\ r = p => FALSE
        BY <2>3, <2>4, <1>0, <1>6, <1>7
      <3>3. q # p /\ r # p => q = r
        BY <2>4, <1>6 DEF Producers
      <3> QED BY <3>1, <3>2, <3>3
    <2> QED BY <2>1, <2>2, <2>4 DEF Producers
  <1>11. Untaken(c)'
    <2>1. \A i \in 2..Len(c) : i \in 1..Len(c)
      BY DEF Nodes
    <2> QED BY <1>1, <1>5, <2>1 DEF Untaken
  <1>12. Consumer(c)'
    <2>1. cAt \in {"output", "store"} => next'[tail] = next[tail]
      BY <1>5 DEF Nodes
    <2>2. cAt = "delete" => cTail # n /\ cTail \in live'
      BY <1>0 DEF Consumer
    <2>3. cAt = "delete" => \A q \in Producer : pAt'[q] = "exchange" => pNode'[q] # cTail
      BY <2>2, <1>6, <1>7 DEF Consumer
    <2> QED BY <1>1, <2>1, <2>2, <2>3 DEF Consumer
  <1>13. Allocated(c)'
    <2> SUFFICES ASSUME NEW m \in live'
                 PROVE  \/ \E i \in 1..Len(c) : m = c[i]
                        \/ \E q \in Producer : pAt'[q] = "exchange" /\ m = pNode'[q]
                        \/ cAt' = "delete" /\ m = cTail'
      BY DEF Allocated
    <2>1. CASE m = n
      BY <2>1, <1>7
    <2>2. CASE m \in live
      <3>1. ASSUME NEW q \in Producer, pAt[q] = "exchange", m = pNode[q]
            PROVE  pAt'[q] = "exchange" /\ m = pNode'[q]
        BY <3>1, <1>1, <1>6
      <3> QED BY <2>2, <3>1, <1>1 DEF Allocated
    <2> QED BY <2>1, <2>2, <1>0
  <1> QED BY <1>2, <1>3, <1>8, <1>9, <1>10, <1>11, <1>12, <1>13

\* The node becomes the last of the list, behind one that has no next yet.
LEMMA ExchangeKeeps ==
  ASSUME NEW c, ListAt(c), NEW p \in Producer, Exchange(p),
         NEW d, d = Append(c, pNode[p])
  PROVE  /\ QueueType' /\ Prefix' /\ cAt' # "destroyed"
         /\ d \in Seq(Node) /\ IsList(d)'
  <1> USE DEF ListAt, IsList
  <1> DEFINE n == pNode[p]
             L == Len(c)
  <1>1. /\ pAt[p] = "exchange" /\ pAt' = [pAt EXCEPT ![p] = "link"]
        /\ pPrev' = [pPrev EXCEPT ![p] = head]
        /\ head' = n /\ order' = Append(order, data[n])
        /\ UNCHANGED <<tail, data, next, live, pNode, pItem, cAt, cTail, cNext, taken>>
    BY DEF Exchange
  <1>2. n \in live /\ n \in Node /\ next[n] = NULL /\ \A i \in 1..Len(c) : c[i] # n
    BY <1>1 DEF Producers, QueueType
  <1>3. /\ L \in Nat /\ L >= 1 /\ c[1] = tail /\ c[L] = head
        /\ \A i, j \in 1..L : c[i] = c[j] => i = j
        /\ \A i \in 1..L : c[i] \in live
    BY DEF Nodes
  <1>4. /\ d \in Seq(Node) /\ Len(d) = L + 1 /\ d[L + 1] = n
        /\ \A i \in 1..L : d[i] = c[i]
    BY <1>2
  <1> HIDE DEF L, n
  <1>5. QueueType'
    <2>1. data[n] \in Datum
      BY <1>2 DEF QueueType
    <2>2. order' \in Seq(Datum)
      BY <1>1, <2>1 DEF QueueType
    <2> QED BY <1>1, <1>2, <2>2 DEF QueueType
  <1>6. /\ Len(order) \in Nat /\ Len(taken) \in Nat /\ Len(order') = Len(order) + 1
        /\ order'[Len(order) + 1] = data[n]
        /\ \A k \in 1..Len(order) : order'[k] = order[k]
    BY <1>1 DEF QueueType
  <1>7. Prefix' /\ cAt' # "destroyed"
    BY <1>1, <1>6 DEF Prefix
  <1>8. pAt'[p] = "link" /\ pPrev'[p] = head /\ pNode'[p] = n
        /\ \A q \in Producer : q # p => pAt'[q] = pAt[q] /\ pPrev'[q] = pPrev[q]
                                        /\ pNode'[q] = pNode[q]
    BY <1>1 DEF QueueType, n
  <1>9. Nodes(d)'
    <2>1. d[1] = tail' /\ d[Len(d)] = head'
      BY <1>1, <1>3, <1>4
    <2>2. \A i, j \in 1..Len(d) : d[i] = d[j] => i = j
      BY <1>2, <1>3, <1>4 DEF L
    <2>3. \A i \in 1..Len(d) : d[i] \in live'
      BY <1>1, <1>2, <1>3, <1>4
    <2> QED BY <1>3, <1>4, <2>1, <2>2, <2>3 DEF Nodes
  <1>10. Links(d)'
    <2>1. ASSUME NEW i \in 1..Len(d) - 1
          PROVE  \/ next'[d[i]] = d[i + 1]
                 \/ next'[d[i]] = NULL /\ \E q \in Producer : Linking(q, d[i], d[i + 1])'
      <3>1. CASE i = L
        <4>1. d[i] = head /\ d[i + 1] = n
          BY <3>1, <1>3, <1>4
        <4>2. next'[head] = NULL
          BY <1>1 DEF Links
        <4> QED BY <4>1, <4>2, <1>8 DEF Linking
      <3>2. CASE i # L
        <4>1. i \in 1..L - 1 /\ i \in 1..L /\ i + 1 \in 1..L
          <5>1. L \in Nat /\ Len(d) = L + 1
            BY <1>3, <1>4
          <5>2. i \in 1..L /\ i # L
            BY <3>2, <5>1
          <5> QED BY <5>1, <5>2
        <4>2. d[i] = c[i] /\ d[i + 1] = c[i + 1]
          BY <4>1, <1>4
        <4>3. \/ next[c[i]] = c[i + 1]
              \/ next[c[i]] = NULL /\ \E q \in Producer : Linking(q, c[i], c[i + 1])
          BY <4>1 DEF Links, L
        <4>4. ASSUME NEW q \in Producer, Linking(q, c[i], c[i + 1])
              PROVE  Linking(q, c[i], c[i + 1])'
          BY <4>4, <1>1, <1>8 DEF Linking
        <4> QED BY <4>2, <4>3, <4>4, <1>1
      <3> QED BY <3>1, <3>2
    <2> QED BY <2>1, <1>1, <1>2 DEF Links
  <1>11. Producers(d)'
    <2>1. ASSUME NEW q \in Producer, pAt'[q] = "exchange"
          PROVE  /\ pNode'[q] \in live' /\ next'[pNode'[q]] = NULL
                 /\ \A i \in 1..Len(d) : d[i] # pNode'[q]
      <3>1. q # p /\ pAt[q] = "exchange" /\ pNode'[q] = pNode[q]
        BY <2>1, <1>8
      <3>2. pNode[q] # n
        BY <3>1, <1>1 DEF Producers, n
      <3>3. pNode[q] \in live /\ next[pNode[q]] = NULL /\ \A i \in 1..L : c[i] # pNode[q]
        BY <3>1 DEF Producers, L
      <3>4. \A i \in 1..Len(d) : d[i] # pNode[q]
        BY <3>2, <3>3, <1>3, <1>4
      <3> QED BY <3>1, <3>3, <3>4, <1>1
    <2>2. ASSUME NEW q \in Producer, pAt'[q] = "link"
          PROVE  \E i \in 1..Len(d) - 1 :
                    d[i] = pPrev'[q] /\ d[i + 1] = pNode'[q] /\ next'[d[i]] = NULL
      <3>1. CASE q = p
        <4>1. L \in 1..Len(d) - 1 /\ d[L] = head /\ d[L + 1] = n /\ next'[head] = NULL
          BY <1>1, <1>3, <1>4 DEF Links
        <4> QED BY <3>1, <4>1, <1>8
      <3>2. CASE q # p
        <4>1. PICK i \in 1..L - 1 :
                    c[i] = pPrev[q] /\ c[i + 1] = pNode[q] /\ next[c[i]] = NULL
          BY <3>2, <1>8, <2>2 DEF Producers, L
        <4>2. i \in 1..Len(d) - 1 /\ i \in 1..L /\ i + 1 \in 1..L
          BY <1>3, <1>4
        <4> QED BY <3>2, <4>1, <4>2, <1>1, <1>4, <1>8
      <3> QED BY <3>1, <3>2
    <2>3. \A q \in Producer : pAt'[q] # "idle" => pAt[q] # "idle" /\ pNode'[q] = pNode[q]
      BY <1>1, <1>8
    <2>4. ASSUME NEW q \in Producer, NEW r \in Producer,
                 pAt'[q] # "idle", pAt'[r] # "idle", pNode'[q] = pNode'[r]
          PROVE  q = r
      BY <2>3, <2>4 DEF Producers
    <2> QED BY <2>1, <2>2, <2>4 DEF Producers
  <1>12. Untaken(d)'
    <2>1. /\ Len(taken) = Len(order) - L + (IF cAt = "store" THEN 2 ELSE 1)
          /\ L <= Len(order) + 1
      BY DEF Untaken, L
    <2>2. ASSUME NEW i \in 2..Len(d)
          PROVE  data'[d[i]] = order'[Len(order') - Len(d) + i]
      <3>1. Len(order') - Len(d) + i = Len(order) - L + i
        BY <1>3, <1>4, <1>6
      <3>2. CASE i = L + 1
        BY <3>1, <3>2, <1>1, <1>3, <1>4, <1>6
      <3>3. CASE i # L + 1
        <4>1. i \in 2..L /\ i \in 1..L
          BY <3>3, <1>3, <1>4
        <4>2. data[c[i]] = order[Len(order) - L + i]
          BY <4>1 DEF Untaken, L
        <4>3. Len(order) - L + i \in 1..Len(order)
          <5>1. L \in Nat /\ Len(order) \in Nat /\ L <= Len(order) + 1
            BY <1>3, <1>6, <2>1
          <5> QED BY <4>1, <5>1
        <4> QED BY <3>1, <4>1, <4>2, <4>3, <1>1, <1>4, <1>6
      <3> QED BY <3>2, <3>3
    <2>3. /\ Len(taken') = Len(order') - Len(d) + (IF cAt' = "store" THEN 2 ELSE 1)
          /\ Len(d) <= Len(order') + 1
      <3>1. Len(order') - Len(d) = Len(order) - L /\ (L <= Len(order) + 1 => Len(d) <= Len(order') + 1)
        BY <1>3, <1>4, <1>6
      <3> QED BY <2>1, <3>1, <1>1
    <2> QED BY <2>2, <2>3 DEF Untaken
  <1>13. Consumer(d)'
    <2>1. cAt \in {"output", "store"} =>
            Len(d) >= 2 /\ d[2] = c[2] /\ cTail = tail /\ cNext = c[2] /\ next[tail] = cNext
      <3>1. cAt \in {"output", "store"} =>
              L >= 2 /\ cTail = tail /\ cNext = c[2] /\ next[tail] = cNext
        BY DEF Consumer, L
      <3> QED BY <3>1, <1>3, <1>4
    <2>2. ASSUME cAt = "delete"
          PROVE  /\ cNext = tail /\ cTail \in live
                 /\ \A i \in 1..Len(d) : d[i] # cTail
                 /\ \A q \in Producer : pAt'[q] = "exchange" => pNode'[q] # cTail
      <3>1. /\ cNext = tail /\ cTail \in live
            /\ \A i \in 1..L : c[i] # cTail
            /\ \A q \in Producer : pAt[q] = "exchange" => pNode[q] # cTail
        BY <2>2 DEF Consumer, L
      <3>2. n # cTail
        BY <3>1, <1>1 DEF n
      <3>3. \A i \in 1..Len(d) : d[i] # cTail
        BY <3>1, <3>2, <1>3, <1>4
      <3> QED BY <3>1, <3>3, <1>8
    <2> QED BY <2>1, <2>2, <1>1 DEF Consumer
  <1>14. Allocated(d)'
    <2> SUFFICES ASSUME NEW m \in live
                 PROVE  \/ \E i \in 1..Len(d) : m = d[i]
                        \/ \E q \in Producer : pAt'[q] = "exchange" /\ m = pNode'[q]
                        \/ cAt' = "delete" /\ m = cTail'
      BY <1>1 DEF Allocated
    <2>1. \/ \E i \in 1..L : m = c[i]
          \/ \E q \in Producer : pAt[q] = "exchange" /\ m = pNode[q]
          \/ cAt = "delete" /\ m = cTail
      BY DEF Allocated, L
    <2>2. ASSUME NEW i \in 1..L, m = c[i] PROVE \E j \in 1..Len(d) : m = d[j]
      <3>1. i \in 1..Len(d) /\ d[i] = c[i]
        BY <1>3, <1>4
      <3> QED BY <3>1, <2>2
    <2>3. ASSUME NEW q \in Producer, pAt[q] = "exchange", m = pNode[q]
          PROVE  \/ \E i \in 1..Len(d) : m = d[i]
                 \/ \E r \in Producer : pAt'[r] = "exchange" /\ m = pNode'[r]
      <3>1. CASE q = p
        <4>1. L + 1 \in 1..Len(d) /\ m = d[L + 1]
          BY <3>1, <2>3, <1>3, <1>4 DEF n
        <4> QED BY <4>1
      <3>2. CASE q # p
        BY <3>2, <2>3, <1>8
      <3> QED BY <3>1, <3>2
    <2> QED BY <2>1, <2>2, <2>3, <1>1
  <1> QED BY <1>4, <1>5, <1>7, <1>9, <1>10, <1>11, <1>12, <1>13, <1>14

\* The link is made where the producer is between two nodes of the list.
LEMMA LinkKeeps ==
  ASSUME NEW c, ListAt(c), NEW p \in Producer, Link(p)
  PROVE  QueueType' /\ Prefix' /\ cAt' # "destroyed" /\ IsList(c)'
  <1> USE DEF ListAt, IsList
  <1>1. /\ pAt[p] = "link" /\ pAt' = [pAt EXCEPT ![p] = "idle"]
        /\ next' = [next EXCEPT ![pPrev[p]] = pNode[p]]
        /\ UNCHANGED <<head, tail, data, live, pNode, pPrev, pItem, cAt, cTail,
                       cNext, order, taken>>
    BY DEF Link
  <1>2. /\ Len(c) \in Nat /\ Len(c) >= 1 /\ c[1] = tail /\ c[Len(c)] = head
        /\ \A i, j \in 1..Len(c) : c[i] = c[j] => i = j
        /\ \A i \in 1..Len(c) : c[i] \in live /\ c[i] \in Node
    BY DEF Nodes, QueueType
  <1>3. PICK k \in 1..Len(c) - 1 :
               c[k] = pPrev[p] /\ c[k + 1] = pNode[p] /\ next[c[k]] = NULL
    BY <1>1 DEF Producers
  <1>4. k \in 1..Len(c) /\ k + 1 \in 1..Len(c) /\ k # Len(c)
    BY <1>2
  <1>5. next'[c[k]] = c[k + 1] /\ \A m \in Node : m # c[k] => next'[m] = next[m]
    BY <1>1, <1>3 DEF QueueType
  <1>6. \A i \in 1..Len(c) : i # k => c[i] # c[k] /\ next'[c[i]] = next[c[i]]
    BY <1>2, <1>4, <1>5
  <1>7. pAt'[p] = "idle" /\ \A q \in Producer : q # p => pAt'[q] = pAt[q]
    BY <1>1 DEF QueueType
  <1>8. QueueType'
    BY <1>1, <1>3, <1>4 DEF QueueType
  <1>9. Prefix' /\ cAt' # "destroyed" /\ Nodes(c)' /\ Untaken(c)'
    BY <1>1 DEF Prefix, Nodes, Untaken
  <1>10. Links(c)'
    <2>1. next'[head] = NULL
      BY <1>2, <1>4, <1>6 DEF Links
    <2>2. ASSUME NEW i \in 1..Len(c) - 1
          PROVE  \/ next'[c[i]] = c[i + 1]
                 \/ next'[c[i]] = NULL /\ \E q \in Producer : Linking(q, c[i], c[i + 1])'
      <3>1. CASE i = k
        BY <3>1, <1>5
      <3>2. CASE i # k
        <4>1. i \in 1..Len(c)
          BY <1>2
        <4>2. next'[c[i]] = next[c[i]] /\ c[i] # c[k]
          BY <3>2, <4>1, <1>6
        <4>3. ASSUME NEW q \in Producer, Linking(q, c[i], c[i + 1])
              PROVE  Linking(q, c[i], c[i + 1])'
          <5>1. q # p
            BY <4>2, <4>3, <1>3 DEF Linking
          <5> QED BY <4>3, <5>1, <1>1, <1>7 DEF Linking
        <4> QED BY <4>2, <4>3 DEF Links
      <3> QED BY <3>1, <3>2
    <2> QED BY <2>1, <2>2, <1>1 DEF Links
  <1>11. Producers(c)'
    <2>1. ASSUME NEW q \in Producer, pAt'[q] = "exchange"
          PROVE  /\ pNode'[q] \in live' /\ next'[pNode'[q]] = NULL
                 /\ \A i \in 1..Len(c) : c[i] # pNode'[q]
      <3>1. q # p /\ pAt[q] = "exchange"
        BY <2>1, <1>7
      <3>2. pNode[q] \in live /\ next[pNode[q]] = NULL
            /\ \A i \in 1..Len(c) : c[i] # pNode[q]
        BY <3>1 DEF Producers
      <3>3. pNode[q] \in Node /\ pNode[q] # c[k]
        BY <3>2, <1>4 DEF QueueType
      <3> QED BY <3>2, <3>3, <1>1, <1>5
    <2>2. ASSUME NEW q \in Producer, pAt'[q] = "link"
          PROVE  \E i \in 1..Len(c) - 1 :
                    c[i] = pPrev'[q] /\ c[i + 1] = pNode'[q] /\ next'[c[i]] = NULL
      <3>1. q # p /\ pAt[q] = "link"
        BY <2>2, <1>7
      <3>2. PICK i \in 1..Len(c) - 1 :
                    c[i] = pPrev[q] /\ c[i + 1] = pNode[q] /\ next[c[i]] = NULL
        BY <3>1 DEF Producers
      <3>3. pNode[q] # pNode[p]
        BY <3>1, <1>1 DEF Producers
      <3>4. i # k
        BY <3>2, <3>3, <1>3
      <3>5. i \in 1..Len(c)
        BY <1>2
      <3> QED BY <3>2, <3>4, <3>5, <1>1, <1>6
    <2>3. \A q, r \in Producer :
            pAt'[q] # "idle" /\ pAt'[r] # "idle" /\ pNode'[q] = pNode'[r] => q = r
      BY <1>1, <1>7 DEF Producers
    <2> QED BY <2>1, <2>2, <2>3 DEF Producers
  <1>12. Consumer(c)'
    <2>1. cAt \in {"output", "store"} =>
            Len(c) >= 2 /\ cTail = tail /\ cNext = c[2] /\ next'[tail] = cNext
      <3>1. ASSUME cAt \in {"output", "store"}
            PROVE  Len(c) >= 2 /\ cTail = tail /\ cNext = c[2] /\ next[tail] = cNext
        BY <3>1 DEF Consumer
      <3>2. ASSUME cAt \in {"output", "store"} PROVE next'[tail] = cNext
        <4>1. 2 \in 1..Len(c) /\ 1 \in 1..Len(c)
          BY <3>1, <3>2, <1>2
        <4>2. CASE k = 1
          BY <3>1, <3>2, <4>2, <1>2, <1>5
        <4>3. CASE k # 1
          BY <3>1, <3>2, <4>1, <4>3, <1>2, <1>6
        <4> QED BY <4>2, <4>3
      <3> QED BY <3>1, <3>2
    <2> QED BY <2>1, <1>1, <1>7 DEF Consumer
  <1>13. Allocated(c)'
    <2>1. \A q \in Producer : pAt[q] = "exchange" => q # p
      BY <1>1
    <2> QED BY <2>1, <1>1, <1>7 DEF Allocated
  <1> QED BY <1>8, <1>9, <1>10, <1>11, <1>12, <1>13

\* The consumer.
LEMMA AtLeastTwo ==
  ASSUME NEW L \in Nat, L >= 1, L # 1
  PROVE  1 \in 1..L - 1 /\ 2 \in 1..L
  OBVIOUS

LEMMA LoadKeeps ==
  ASSUME NEW c, ListAt(c), LoadNext
  PROVE  QueueType' /\ Prefix' /\ cAt' # "destroyed" /\ IsList(c)'
  <1> USE DEF ListAt, IsList
  <1>1. /\ cAt = "idle" /\ cTail' = tail /\ cNext' = next[tail]
        /\ cAt' = IF next[tail] = NULL THEN "idle" ELSE "output"
        /\ UNCHANGED <<head, tail, data, next, live, pAt, pNode, pPrev, pItem,
                       order, taken>>
    BY DEF LoadNext
  <1>2. QueueType' /\ Prefix' /\ cAt' # "destroyed"
    BY <1>1 DEF QueueType, Prefix
  <1>3. Nodes(c)' /\ Links(c)' /\ Producers(c)'
    BY <1>1 DEF Nodes, Links, Producers, Linking
  <1>4. Untaken(c)'
    BY <1>1 DEF Untaken
  <1>5. Consumer(c)'
    <2>1. CASE next[tail] = NULL
      BY <2>1, <1>1 DEF Consumer
    <2>2. CASE next[tail] # NULL
      <3>1. Len(c) \in Nat /\ Len(c) >= 1 /\ c[1] = tail /\ c[Len(c)] = head
        BY DEF Nodes
      <3>2. Len(c) # 1
        BY <2>2, <3>1 DEF Links
      <3>3. 1 \in 1..Len(c) - 1 /\ Len(c) >= 2
        BY <3>1, <3>2
      <3>4. next[tail] = c[2]
        BY <2>2, <3>1, <3>3 DEF Links
      <3> QED BY <2>2, <3>3, <3>4, <1>1 DEF Consumer
    <2> QED BY <2>1, <2>2
  <1>6. Allocated(c)'
    BY <1>1 DEF Allocated
  <1> QED BY <1>2, <1>3, <1>4, <1>5, <1>6

LEMMA OutputKeeps ==
  ASSUME NEW c, ListAt(c), Output
  PROVE  QueueType' /\ Prefix' /\ cAt' # "destroyed" /\ IsList(c)'
  <1> USE DEF ListAt, IsList
  <1>1. /\ cAt = "output" /\ cAt' = "store" /\ taken' = Append(taken, data[cNext])
        /\ UNCHANGED <<head, tail, data, next, live, pAt, pNode, pPrev, pItem,
                       cTail, cNext, order>>
    BY DEF Output, ItemOfNext
  <1>2. Len(c) \in Nat /\ Len(c) >= 2 /\ cNext = c[2] /\ cTail = tail /\ next[tail] = cNext
    BY <1>1 DEF Consumer
  <1>3. 2 \in 2..Len(c) /\ 2 \in 1..Len(c) /\ c[2] \in Node
    BY <1>2
  <1>4. data[c[2]] = order[Len(order) - Len(c) + 2]
        /\ Len(taken) = Len(order) - Len(c) + 1 /\ Len(c) <= Len(order) + 1
    BY <1>1, <1>3 DEF Untaken
  <1>5. data[cNext] \in Datum
    BY <1>2, <1>3 DEF QueueType
  <1>6. /\ taken' \in Seq(Datum) /\ Len(taken') = Len(taken) + 1
        /\ taken'[Len(taken) + 1] = data[cNext]
        /\ \A k \in 1..Len(taken) : taken'[k] = taken[k]
        /\ Len(taken) \in Nat /\ Len(order) \in Nat
    BY <1>1, <1>5 DEF QueueType
  <1>7. QueueType'
    BY <1>1, <1>6 DEF QueueType
  <1>8. Prefix'
    <2>1. Len(taken) + 1 = Len(order) - Len(c) + 2 /\ Len(taken) + 1 <= Len(order)
      BY <1>2, <1>4, <1>6
    <2>2. taken'[Len(taken) + 1] = order[Len(taken) + 1]
      BY <1>2, <1>4, <1>6, <2>1
    <2>3. ASSUME NEW k \in 1..Len(taken') PROVE taken'[k] = order[k]
      <3>1. k = Len(taken) + 1 \/ k \in 1..Len(taken)
        BY <1>6
      <3> QED BY <3>1, <2>2, <1>6 DEF Prefix
    <2> QED BY <2>1, <2>3, <1>1, <1>6 DEF Prefix
  <1>9. Nodes(c)' /\ Links(c)' /\ Producers(c)' /\ cAt' # "destroyed"
    BY <1>1 DEF Nodes, Links, Producers, Linking
  <1>10. Untaken(c)'
    <2>1. Len(taken') = Len(order') - Len(c) + (IF cAt' = "store" THEN 2 ELSE 1)
      <3>1. Len(taken') = Len(order) - Len(c) + 2
        BY <1>2, <1>4, <1>6
      <3> QED BY <3>1, <1>1
    <2> QED BY <2>1, <1>1, <1>4 DEF Untaken
  <1>11. Consumer(c)'
    BY <1>1, <1>2 DEF Consumer
  <1>12. Allocated(c)'
    BY <1>1 DEF Allocated
  <1> QED BY <1>7, <1>8, <1>9, <1>10, <1>11, <1>12

\* The first node leaves the list.  No producer can still be behind it: its
\* link had been made when it was read.
LEMMA StoreKeeps ==
  ASSUME NEW c, ListAt(c), StoreTail,
         NEW d, d = Tail(c)
  PROVE  /\ QueueType' /\ Prefix' /\ cAt' # "destroyed"
         /\ d \in Seq(Node) /\ IsList(d)'
  <1> USE DEF ListAt, IsList
  <1> DEFINE L == Len(c)
  <1>1. /\ cAt = "store" /\ cAt' = "delete" /\ tail' = cNext
        /\ UNCHANGED <<head, data, next, live, pAt, pNode, pPrev, pItem, cTail,
                       cNext, order, taken>>
    BY DEF StoreTail
  <1>2. /\ L \in Nat /\ L >= 2 /\ cNext = c[2] /\ cTail = c[1]
        /\ next[c[1]] = c[2] /\ c[L] = head
    BY <1>1 DEF Consumer, Nodes
  <1>3. /\ \A i, j \in 1..L : c[i] = c[j] => i = j
        /\ \A i \in 1..L : c[i] \in live /\ c[i] \in Node
    BY DEF Nodes
  <1>4. /\ d \in Seq(Node) /\ Len(d) = L - 1
        /\ \A i \in 1..L - 1 : d[i] = c[i + 1] /\ i + 1 \in 1..L
    BY <1>2
  <1> HIDE DEF L
  <1>5. 1 \in 1..L /\ 2 \in 1..L /\ c[2] \in Node /\ c[1] \in Node /\ 1 \in 1..L - 1 /\ d[1] = c[2]
    BY <1>2, <1>3, <1>4
  <1>6. QueueType' /\ Prefix' /\ cAt' # "destroyed"
    BY <1>1, <1>2, <1>5 DEF QueueType, Prefix
  <1>7. Nodes(d)'
    <2>1. d[Len(d)] = head
      <3>1. L - 1 \in 1..L - 1 /\ L - 1 + 1 = L
        BY <1>2
      <3> QED BY <3>1, <1>2, <1>4
    <2>2. \A i, j \in 1..Len(d) : d[i] = d[j] => i = j
      <3> SUFFICES ASSUME NEW i \in 1..L - 1, NEW j \in 1..L - 1, d[i] = d[j] PROVE i = j
        BY <1>4
      <3>1. i + 1 = j + 1
        BY <1>3, <1>4
      <3> QED BY <3>1, <1>2
    <2>3. \A i \in 1..Len(d) : d[i] \in live
      BY <1>3, <1>4
    <2> QED BY <1>1, <1>2, <1>4, <1>5, <2>1, <2>2, <2>3 DEF Nodes
  <1>8. Links(d)'
    <2>1. ASSUME NEW i \in 1..Len(d) - 1
          PROVE  \/ next[d[i]] = d[i + 1]
                 \/ next[d[i]] = NULL /\ \E q \in Producer : Linking(q, d[i], d[i + 1])
      <3>1. i \in 1..L - 1 /\ i + 1 \in 1..L - 1 /\ i + 1 \in 1..Len(c) - 1
        BY <1>2, <1>4 DEF L
      <3>2. d[i] = c[i + 1] /\ d[i + 1] = c[i + 1 + 1]
        BY <3>1, <1>4
      <3>3. \/ next[c[i + 1]] = c[i + 1 + 1]
            \/ next[c[i + 1]] = NULL
               /\ \E q \in Producer : Linking(q, c[i + 1], c[i + 1 + 1])
        BY <3>1 DEF Links
      <3> QED BY <3>2, <3>3
    <2> QED BY <2>1, <1>1 DEF Links, Linking
  <1>9. Producers(d)'
    <2>1. ASSUME NEW q \in Producer, pAt[q] = "exchange"
          PROVE  /\ pNode[q] \in live /\ next[pNode[q]] = NULL
                 /\ \A i \in 1..Len(d) : d[i] # pNode[q]
      <3>1. pNode[q] \in live /\ next[pNode[q]] = NULL
            /\ \A i \in 1..L : c[i] # pNode[q]
        BY <2>1 DEF Producers, L
      <3> QED BY <3>1, <1>4
    <2>2. ASSUME NEW q \in Producer, pAt[q] = "link"
          PROVE  \E i \in 1..Len(d) - 1 :
                    d[i] = pPrev[q] /\ d[i + 1] = pNode[q] /\ next[d[i]] = NULL
      <3>1. PICK i \in 1..L - 1 :
                    c[i] = pPrev[q] /\ c[i + 1] = pNode[q] /\ next[c[i]] = NULL
        BY <2>2 DEF Producers, L
      <3>2. c[2] # NULL
        BY <1>5, QueueAssumption
      <3>3. i # 1
        BY <3>1, <3>2, <1>2
      <3>4. /\ i - 1 \in 1..Len(d) - 1 /\ i - 1 \in 1..L - 1 /\ i \in 1..L - 1
            /\ i - 1 + 1 = i
        BY <3>3, <1>2, <1>4
      <3>5. d[i - 1] = c[i] /\ d[i - 1 + 1] = c[i + 1]
        BY <3>4, <1>4
      <3> QED BY <3>1, <3>4, <3>5
    <2>3. \A q, r \in Producer :
            pAt[q] # "idle" /\ pAt[r] # "idle" /\ pNode[q] = pNode[r] => q = r
      BY DEF Producers
    <2> QED BY <2>1, <2>2, <2>3, <1>1 DEF Producers
  <1>10. Untaken(d)'
    <2>1. Len(taken) = Len(order) - L + 2 /\ L <= Len(order) + 1 /\ Len(order) \in Nat
      BY <1>1 DEF Untaken, L, QueueType
    <2>2. Len(taken) = Len(order) - Len(d) + 1 /\ Len(d) <= Len(order) + 1
      BY <2>1, <1>2, <1>4
    <2>3. ASSUME NEW i \in 2..Len(d)
          PROVE  data[d[i]] = order[Len(order) - Len(d) + i]
      <3>1. i + 1 \in 2..Len(c) /\ i \in 1..L - 1
        BY <1>2, <1>4 DEF L
      <3>2. data[c[i + 1]] = order[Len(order) - L + (i + 1)]
        BY <3>1 DEF Untaken, L
      <3>3. Len(order) - L + (i + 1) = Len(order) - Len(d) + i
        BY <2>1, <1>2, <1>4
      <3> QED BY <3>1, <3>2, <3>3, <1>4
    <2>4. cAt' # "store"
      BY <1>1
    <2> QED BY <2>2, <2>3, <2>4, <1>1 DEF Untaken
  <1>11. Consumer(d)'
    <2>1. \A i \in 1..Len(d) : d[i] # c[1]
      <3> SUFFICES ASSUME NEW i \in 1..L - 1 PROVE c[i + 1] # c[1]
        BY <1>4
      <3>1. i + 1 # 1 /\ i + 1 \in 1..L /\ 1 \in 1..L
        BY <1>2
      <3> QED BY <3>1, <1>3
    <2>2. \A q \in Producer : pAt[q] = "exchange" => pNode[q] # c[1]
      BY <1>5 DEF Producers, L
    <2> QED BY <2>1, <2>2, <1>1, <1>2, <1>3, <1>5 DEF Consumer
  <1>12. Allocated(d)'
    <2> SUFFICES ASSUME NEW m \in live
                 PROVE  \/ \E i \in 1..Len(d) : m = d[i]
                        \/ \E q \in Producer : pAt[q] = "exchange" /\ m = pNode[q]
                        \/ m = cTail
      BY <1>1 DEF Allocated
    <2>1. \/ \E i \in 1..L : m = c[i]
          \/ \E q \in Producer : pAt[q] = "exchange" /\ m = pNode[q]
      BY <1>1 DEF Allocated, L
    <2>2. ASSUME NEW i \in 1..L, m = c[i], i # 1
          PROVE  \E j \in 1..Len(d) : m = d[j]
      <3>1. i - 1 \in 1..L - 1 /\ i - 1 + 1 = i
        BY <2>2, <1>2
      <3>2. i - 1 \in 1..Len(d) /\ d[i - 1] = m
        BY <3>1, <2>2, <1>4
      <3> QED BY <3>2
    <2> QED BY <2>1, <2>2, <1>2
  <1> QED BY <1>4, <1>6, <1>7, <1>8, <1>9, <1>10, <1>11, <1>12

LEMMA DeleteKeeps ==
  ASSUME NEW c, ListAt(c), DeleteTail
  PROVE  QueueType' /\ Prefix' /\ cAt' # "destroyed" /\ IsList(c)'
  <1> USE DEF ListAt, IsList
  <1>1. /\ cAt = "delete" /\ cAt' = "idle" /\ live' = live \ {cTail}
        /\ UNCHANGED <<head, tail, data, next, pAt, pNode, pPrev, pItem, cTail,
                       cNext, order, taken>>
    BY DEF DeleteTail, Unlinked
  <1>2. /\ \A i \in 1..Len(c) : c[i] # cTail
        /\ \A p \in Producer : pAt[p] = "exchange" => pNode[p] # cTail
    BY <1>1 DEF Consumer
  <1>3. QueueType' /\ Prefix' /\ cAt' # "destroyed"
    BY <1>1 DEF QueueType, Prefix
  <1>4. Nodes(c)'
    BY <1>1, <1>2 DEF Nodes
  <1>5. Links(c)' /\ Untaken(c)' /\ Consumer(c)'
    BY <1>1 DEF Links, Linking, Untaken, Consumer
  <1>6. Producers(c)'
    BY <1>1, <1>2 DEF Producers
  <1>7. Allocated(c)'
    BY <1>1 DEF Allocated
  <1> QED BY <1>3, <1>4, <1>5, <1>6, <1>7

\* With no producer in enqueue and no next at the tail the list is one node.
LEMMA DestroyEnds ==
  ASSUME NEW c, ListAt(c), Destroy
  PROVE  QueueInv'
  <1> USE DEF ListAt, IsList
  <1>1. /\ cAt = "idle" /\ cAt' = "destroyed" /\ live' = live \ {head}
        /\ next[tail] = NULL
        /\ \A p \in Producer : pAt[p] = "idle"
        /\ UNCHANGED <<head, tail, data, next, pAt, pNode, pPrev, pItem, cTail,
                       cNext, order, taken>>
    BY DEF Destroy
  <1>2. Len(c) \in Nat /\ Len(c) >= 1 /\ c[1] = tail /\ c[Len(c)] = head
    BY DEF Nodes
  <1>3. Len(c) = 1
    <2> SUFFICES ASSUME Len(c) # 1 PROVE FALSE
      OBVIOUS
    <2>1. 1 \in 1..Len(c) - 1 /\ 2 \in 1..Len(c)
      BY <1>2, AtLeastTwo
    <2>2. c[2] # NULL
      BY <2>1, QueueAssumption
    <2>3. next[tail] # NULL
      BY <1>1, <1>2, <2>1, <2>2 DEF Links, Linking
    <2> QED BY <1>1, <2>3
  <1>4. live' = {}
    <2>1. \A m \in live : \E i \in 1..Len(c) : m = c[i]
      BY <1>1 DEF Allocated
    <2> QED BY <1>1, <1>2, <1>3, <2>1
  <1> QED BY <1>1, <1>4 DEF QueueInv, QueueType, Prefix

LEMMA QueueInductive == QueueInv /\ [QueueNext]_queueVars => QueueInv'
  <1> SUFFICES ASSUME QueueInv, [QueueNext]_queueVars PROVE QueueInv'
    OBVIOUS
  <1>1. CASE UNCHANGED queueVars
    <2>1. QueueType' /\ Prefix'
      BY <1>1 DEF queueVars, QueueInv, QueueType, Prefix
    <2>2. ASSUME NEW c, IsList(c) PROVE IsList(c)'
      <3>1. Nodes(c)' /\ Links(c)'
        BY <1>1, <2>2 DEF queueVars, IsList, Nodes, Links, Linking
      <3>2. Producers(c)'
        BY <1>1, <2>2 DEF queueVars, IsList, Producers
      <3>3. Untaken(c)' /\ Consumer(c)'
        BY <1>1, <2>2 DEF queueVars, IsList, Untaken, Consumer
      <3>4. Allocated(c)'
        BY <1>1, <2>2 DEF queueVars, IsList, Allocated
      <3> QED BY <3>1, <3>2, <3>3, <3>4 DEF IsList
    <2>3. CASE cAt = "destroyed"
      BY <1>1, <2>1, <2>3 DEF queueVars, QueueInv
    <2>4. CASE cAt # "destroyed"
      <3>1. PICK c \in Seq(Node) : IsList(c)
        BY <2>4 DEF QueueInv
      <3>2. IsList(c)' /\ cAt' # "destroyed"
        BY <1>1, <2>2, <2>4, <3>1 DEF queueVars
      <3> QED BY <2>1, <3>2 DEF QueueInv
    <2> QED BY <2>3, <2>4
  <1>2. CASE cAt = "destroyed" /\ QueueNext
    BY <1>2 DEF QueueInv, QueueNext, Allocate, Exchange, Link, LoadNext, Output,
       StoreTail, DeleteTail, Destroy
  <1>3. CASE cAt # "destroyed" /\ QueueNext
    <2>1. PICK c : ListAt(c)
      BY <1>3 DEF QueueInv, ListAt
    <2>2. ASSUME QueueType' /\ Prefix' /\ cAt' # "destroyed",
                 NEW d \in Seq(Node), IsList(d)'
          PROVE  QueueInv'
      BY <2>2 DEF QueueInv
    <2>3. c \in Seq(Node)
      BY <2>1 DEF ListAt
    <2>4. ASSUME NEW p \in Producer, Allocate(p) PROVE QueueInv'
      BY <2>1, <2>2, <2>3, <2>4, AllocateKeeps
    <2>5. ASSUME NEW p \in Producer, Exchange(p) PROVE QueueInv'
      <3>1. PICK d : d = Append(c, pNode[p])
        OBVIOUS
      <3> QED BY <2>1, <2>2, <2>5, <3>1, ExchangeKeeps
    <2>6. ASSUME NEW p \in Producer, Link(p) PROVE QueueInv'
      BY <2>1, <2>2, <2>3, <2>6, LinkKeeps
    <2>7. CASE LoadNext
      BY <2>1, <2>2, <2>3, <2>7, LoadKeeps
    <2>8. CASE Output
      BY <2>1, <2>2, <2>3, <2>8, OutputKeeps
    <2>9. CASE StoreTail
      <3>1. PICK d : d = Tail(c)
        OBVIOUS
      <3> QED BY <2>1, <2>2, <2>9, <3>1, StoreKeeps
    <2>10. CASE DeleteTail
      BY <2>1, <2>2, <2>3, <2>10, DeleteKeeps
    <2>11. CASE Destroy
      BY <2>1, <2>11, DestroyEnds
    <2> QED BY <1>3, <2>4, <2>5, <2>6, <2>7, <2>8, <2>9, <2>10, <2>11 DEF QueueNext
  <1> QED BY <1>1, <1>2, <1>3

\* The queue loses, repeats and reorders nothing, and dequeue fails only when
\* it is empty or its first item is not linked yet, for any number of
\* producers, nodes and items.
THEOREM OutInOrderHolds == QueueSpec => []OutInOrder
  <1>1. QueueInv => OutInOrder
    <2> SUFFICES ASSUME QueueInv PROVE OutInOrder
      OBVIOUS
    <2>1. Prefix
      BY DEF QueueInv
    <2>2. ASSUME cAt = "idle", next[tail] = NULL
          PROVE  taken = order \/ \E p \in Producer : pAt[p] = "link" /\ pPrev[p] = tail
      <3>1. PICK c \in Seq(Node) : IsList(c)
        BY <2>2 DEF QueueInv
      <3>2. Len(c) \in Nat /\ Len(c) >= 1 /\ c[1] = tail
        BY <3>1 DEF IsList, Nodes
      <3>3. CASE Len(c) = 1
        <4>1. Len(taken) = Len(order) - 1 + 1
          BY <2>2, <3>1, <3>3 DEF IsList, Untaken
        <4>2. taken \in Seq(Datum) /\ order \in Seq(Datum) /\ Len(order) \in Nat
          BY DEF QueueInv, QueueType
        <4>3. Len(taken) = Len(order)
          BY <4>1, <4>2
        <4> QED BY <2>1, <4>2, <4>3 DEF Prefix
      <3>4. CASE Len(c) # 1
        <4>1. 1 \in 1..Len(c) - 1 /\ 2 \in 1..Len(c)
          BY <3>2, <3>4, AtLeastTwo
        <4>2. c[2] # NULL
          BY <4>1, QueueAssumption
        <4> QED BY <2>2, <3>1, <3>2, <4>1, <4>2 DEF IsList, Links, Linking
      <3> QED BY <3>3, <3>4
    <2> QED BY <2>1, <2>2 DEF OutInOrder, Prefix
  <1> QED BY <1>1, QueueInitially, QueueInductive, PTL DEF QueueSpec

\* No node is used after it was deleted, and none is left over, although the
\* addresses of deleted nodes are allocated again.
THEOREM NodesSafeHolds == QueueSpec => []NodesSafe
  <1>1. QueueInv => NodesSafe
    <2> SUFFICES ASSUME QueueInv PROVE NodesSafe
      OBVIOUS
    <2>1. CASE cAt = "destroyed"
      BY <2>1 DEF QueueInv, NodesSafe
    <2>2. CASE cAt # "destroyed"
      <3>1. PICK c \in Seq(Node) : IsList(c)
        BY <2>2 DEF QueueInv
      <3>2. Nodes(c) /\ Producers(c) /\ Consumer(c)
        BY <3>1 DEF IsList
      <3>3. Len(c) \in Nat /\ 1 \in 1..Len(c) /\ Len(c) \in 1..Len(c)
        BY <3>2 DEF Nodes
      <3>4. head \in live /\ tail \in live
        BY <3>2, <3>3 DEF Nodes
      <3>5. ASSUME NEW p \in Producer
            PROVE  /\ pAt[p] # "idle" => pNode[p] \in live
                   /\ pAt[p] = "link" => pPrev[p] \in live
        <4>1. CASE pAt[p] = "link"
          <5>1. PICK i \in 1..Len(c) - 1 : c[i] = pPrev[p] /\ c[i + 1] = pNode[p]
            BY <3>2, <4>1 DEF Producers
          <5>2. i \in 1..Len(c) /\ i + 1 \in 1..Len(c)
            BY <3>3
          <5> QED BY <3>2, <5>1, <5>2 DEF Nodes
        <4>2. CASE pAt[p] = "exchange"
          BY <3>2, <4>2 DEF Producers
        <4> QED BY <4>1, <4>2 DEF QueueInv, QueueType
      <3>6. cAt \in {"output", "store", "delete"} => cNext \in live
        <4>1. cAt \in {"output", "store"} => cNext = c[2] /\ Len(c) >= 2
          BY <3>2 DEF Consumer
        <4>2. Len(c) >= 2 => 2 \in 1..Len(c)
          BY <3>3
        <4> QED BY <3>2, <3>4, <4>1, <4>2 DEF Nodes, Consumer
      <3> QED BY <2>2, <3>4, <3>5, <3>6 DEF NodesSafe
    <2> QED BY <2>1, <2>2
  <1> QED BY <1>1, QueueInitially, QueueInductive, PTL DEF QueueSpec
=============================================================================
