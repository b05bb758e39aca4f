------------------------ MODULE CuckooHasher_proofs ------------------------
(***************************************************************************)
(* The receiver's hash table keeps every item, once, where the sender will *)
(* look for it, for any number of items and bins and any hash functions.   *)
(***************************************************************************)
EXTENDS CuckooHasher, SequenceTheorems, TLAPS

\* What the invariants need besides: items not yet taken are nowhere, the
\* stash is full of items until it is resized, and nothing follows that.
Fresh ==
    /\ hand.idx = NoItem => hand = NoCall
    /\ hand.idx < next
    /\ \A b \in Bin : mBins[b].mIdx < next
    /\ \A k \in DOMAIN mStash : mStash[k].mIdx < next
    /\ ~ inserted => \A k \in DOMAIN mStash : ~ IsEmpty(mStash[k])
    /\ inserted => ~ Running /\ next \notin Item

IInv == TypeOK /\ NoneLost /\ NoneTwice /\ AtItsHash /\ Fresh

-----------------------------------------------------------------------------
\* An item in hand is an item, and its bin is a bin.
LEMMA InHand ==
    ASSUME TypeOK, Running, Fresh
    PROVE  /\ hand.idx \in Item /\ hand.hashIdx \in HashIdx
           /\ Addr \in Bin
           /\ mBins[Addr] \in EntryType
  <1>1. hand.idx \in 0..NumItem /\ hand.hashIdx \in HashIdx
    BY DEF TypeOK
  <1>2. hand.idx \in Item
    BY <1>1, CuckooAssumption DEF Running, Fresh, NoItem, Item
  <1>3. Addr \in Bin
    BY <1>1, <1>2 DEF TypeOK, Addr
  <1> QED
    BY <1>1, <1>2, <1>3 DEF TypeOK

\* The entries of the stash are entries.
LEMMA StashEntries ==
    ASSUME TypeOK
    PROVE  /\ DOMAIN mStash = 1..Len(mStash) /\ Len(mStash) \in Nat
           /\ \A k \in DOMAIN mStash : mStash[k] \in EntryType /\ mStash[k].mIdx \in Nat
  <1>1. mStash \in Seq(EntryType)
    BY DEF TypeOK
  <1>2. \A k \in DOMAIN mStash : mStash[k] \in EntryType
    BY <1>1, ElementOfSeq
  <1>3. \A e \in EntryType : e.mIdx \in Nat
    BY CuckooAssumption DEF EntryType
  <1> QED
    BY <1>1, <1>2, <1>3

LEMMA InitIInv == Init => IInv
  <1> SUFFICES ASSUME Init PROVE IInv
    OBVIOUS
  <1>1. TypeOK
    <2>1. [mIdx |-> 0, mHashIdx |-> 0] \in EntryType
      BY CuckooAssumption DEF EntryType, HashIdx
    <2>2. mBins \in [Bin -> EntryType] /\ mStash \in Seq(EntryType)
      BY <2>1 DEF Init, Empty, Entry, NoItem
    <2>3. hand \in [idx : 0..NumItem, hashIdx : HashIdx, numTries : 0..MaxEvict]
      BY CuckooAssumption DEF Init, NoCall, Call, NoItem, HashIdx
    <2>4. next \in 1..NumItem + 1
      BY CuckooAssumption DEF Init
    <2>6. inserted \in BOOLEAN
      BY DEF Init
    <2>5. hash \in [HashIdx -> [Item -> Bin]]
      BY DEF Init
    <2> QED
      BY <2>2, <2>3, <2>4, <2>5, <2>6 DEF TypeOK
  <1>2. NoneLost
    BY DEF Init, NoneLost
  <1>3. NoneTwice
    BY DEF Init, NoneTwice, IsEmpty, Empty, Entry, Running
  <1>4. AtItsHash
    BY DEF Init, AtItsHash, IsEmpty, Empty, Entry
  <1>5. Fresh
    BY DEF Init, Fresh, Empty, Entry, NoItem, NoCall, Call
  <1> QED
    BY <1>1, <1>2, <1>3, <1>4, <1>5 DEF IInv

LEMMA InsertItemKeepsIInv == IInv /\ InsertItem => IInv'
  <1> SUFFICES ASSUME IInv, InsertItem PROVE IInv'
    OBVIOUS
  <1> USE DEF IInv
  <1>1. hand' = [idx |-> next, hashIdx |-> 0, numTries |-> 0] /\ next \in Item
    BY DEF InsertItem, Call
  <1>2. hand.idx = 0 /\ next' = next + 1 /\ next \in Nat
    BY DEF InsertItem, Running, NoCall, Call, NoItem, Item
  <1>3. TypeOK'
    BY <1>1, CuckooAssumption DEF InsertItem, TypeOK, Item, HashIdx, EntryType
  <1>4. NoneLost'
    <2> SUFFICES ASSUME NEW i \in 1..next
                 PROVE (InBins(i) \/ InStash(i) \/ hand.idx = i
                          \/ (inserted /\ \A k \in 1..MaxStash : ~ IsEmpty(mStash[k])))'
      BY <1>2 DEF NoneLost
    <2>1. CASE i = next
      BY <2>1, <1>1
    <2>2. CASE i # next
      <3>1. i \in 1..next - 1 /\ hand.idx # i
        BY <2>2, <1>2
      <3> QED
        BY <3>1 DEF NoneLost, InsertItem, InBins, InStash
    <2> QED
      BY <2>1, <2>2
  <1>5. NoneTwice'
    <2>1. ~ InBins(next) /\ ~ InStash(next)
      BY <1>2 DEF Fresh, InBins, InStash
    <2> QED
      BY <2>1, <1>1 DEF NoneTwice, InsertItem, InBins, InStash
  <1>6. AtItsHash'
    BY DEF AtItsHash, InsertItem
  <1>7. Fresh'
    <2>1. \A n \in Nat : n < next => n < next + 1
      BY <1>2
    <2>2. \A b \in Bin : mBins[b].mIdx \in Nat
      BY CuckooAssumption DEF TypeOK, EntryType
    <2>3. \A k \in DOMAIN mStash : mStash[k].mIdx \in Nat
      BY StashEntries
    <2>4. ~ inserted
      BY DEF Fresh, InsertItem
    <2> QED
      BY <2>1, <2>2, <2>3, <2>4, <1>1, <1>2 DEF Fresh, InsertItem, Item, NoItem
  <1> QED
    BY <1>3, <1>4, <1>5, <1>6, <1>7

LEMMA PlaceKeepsIInv == IInv /\ Place => IInv'
  <1> SUFFICES ASSUME IInv, Place PROVE IInv'
    OBVIOUS
  <1> USE DEF IInv
  <1> DEFINE i == hand.idx  a == Addr
  <1>1. i \in Item /\ hand.hashIdx \in HashIdx /\ a \in Bin
    BY InHand DEF Place
  <1>2. /\ mBins' = [mBins EXCEPT ![a] = [mIdx |-> i, mHashIdx |-> hand.hashIdx]]
        /\ mBins[a].mIdx = 0
        /\ hand' = [idx |-> 0, hashIdx |-> 0, numTries |-> 0]
        /\ mStash' = mStash /\ next' = next /\ hash' = hash /\ inserted' = inserted
        /\ ~ inserted
    BY DEF Place, Entry, NoCall, Call, NoItem, IsEmpty, Fresh
  <1>3. DOMAIN mBins = Bin
    BY DEF TypeOK
  <1>4. TypeOK'
    BY <1>1, <1>2, CuckooAssumption DEF TypeOK, EntryType, Item, HashIdx
  <1>5. \A b \in Bin : b # a => mBins'[b] = mBins[b]
    BY <1>2, <1>3
  <1>6. mBins'[a].mIdx = i /\ mBins'[a].mHashIdx = hand.hashIdx
    BY <1>1, <1>2, <1>3
  <1>7. NoneLost'
    <2> SUFFICES ASSUME NEW n \in 1..next - 1
                 PROVE (InBins(n) \/ InStash(n))'
      BY <1>2 DEF NoneLost
    <2>1. CASE n = i
      BY <2>1, <1>1, <1>6 DEF InBins
    <2>2. CASE n # i /\ InBins(n)
      BY <2>2, <1>2, <1>5 DEF InBins
    <2>3. CASE n # i /\ InStash(n)
      BY <2>3, <1>2 DEF InStash
    <2> QED
      BY <2>1, <2>2, <2>3, <1>2 DEF NoneLost
  <1>8. NoneTwice'
    <2>1. ~ InBins(i) /\ ~ InStash(i)
      BY DEF NoneTwice, Place
    <2>2. \A b, c \in Bin : mBins'[b].mIdx = mBins'[c].mIdx => b = c \/ mBins'[b].mIdx = 0
      BY <2>1, <1>5, <1>6 DEF NoneTwice, InBins, IsEmpty, NoItem
    <2>3. \A b \in Bin, k \in DOMAIN mStash :
              mBins'[b].mIdx = mStash[k].mIdx => mBins'[b].mIdx = 0
      BY <2>1, <1>5, <1>6 DEF NoneTwice, InStash, IsEmpty, NoItem
    <2>4. ~ Running'
      BY <1>2 DEF Running, NoCall, Call, NoItem
    <2> QED
      BY <2>2, <2>3, <2>4, <1>2 DEF NoneTwice, IsEmpty, NoItem
  <1>9. AtItsHash'
    BY <1>2, <1>5, <1>6 DEF AtItsHash, IsEmpty, Addr
  <1>10. Fresh'
    <2>1. hand.idx < next /\ 0 < next
      BY <1>1 DEF Fresh, TypeOK, Item
    <2>2. \A b \in Bin : mBins'[b].mIdx < next
      BY <2>1, <1>5, <1>6 DEF Fresh
    <2>3. hand' = NoCall /\ ~ Running'
      BY <1>2 DEF NoCall, Call, NoItem, Running
    <2> QED
      BY <2>1, <2>2, <2>3, <1>2 DEF Fresh, NoItem
  <1> QED
    BY <1>4, <1>7, <1>8, <1>9, <1>10

LEMMA EvictKeepsIInv == IInv /\ Evict => IInv'
  <1> SUFFICES ASSUME IInv, Evict PROVE IInv'
    OBVIOUS
  <1> USE DEF IInv
  <1> DEFINE i == hand.idx  a == Addr  j == mBins[a].mIdx
  <1>1. /\ i \in Item /\ hand.hashIdx \in HashIdx /\ a \in Bin
        /\ mBins[a] \in EntryType
    BY InHand DEF Evict
  <1>2. /\ mBins' = [mBins EXCEPT ![a] = [mIdx |-> i, mHashIdx |-> hand.hashIdx]]
        /\ j # 0
        /\ hand' = [idx |-> j, hashIdx |-> (mBins[a].mHashIdx + 1) % 3,
                    numTries |-> hand.numTries + 1]
        /\ mStash' = mStash /\ next' = next /\ hash' = hash /\ inserted' = inserted
        /\ ~ inserted
    BY DEF Evict, Taken, Evicted, Entry, Call, NoItem, IsEmpty, Fresh
  <1>3. DOMAIN mBins = Bin
    BY DEF TypeOK
  <1>4. TypeOK'
    <2>1. (mBins[a].mHashIdx + 1) % 3 \in HashIdx
      BY <1>1 DEF EntryType, HashIdx
    <2>2. hand.numTries + 1 \in 0..MaxEvict
      BY CuckooAssumption DEF TypeOK, Evict
    <2>3. j \in 0..NumItem
      BY <1>1 DEF EntryType
    <2>4. mBins' \in [Bin -> EntryType]
      BY <1>1, <1>2, CuckooAssumption DEF TypeOK, EntryType, Item
    <2> QED
      BY <1>2, <2>1, <2>2, <2>3, <2>4 DEF TypeOK
  <1>5. \A b \in Bin : b # a => mBins'[b] = mBins[b]
    BY <1>2, <1>3
  <1>6. mBins'[a].mIdx = i /\ mBins'[a].mHashIdx = hand.hashIdx
    BY <1>1, <1>2, <1>3
  <1>7. NoneLost'
    <2> SUFFICES ASSUME NEW n \in 1..next - 1
                 PROVE (InBins(n) \/ InStash(n) \/ hand.idx = n)'
      BY <1>2 DEF NoneLost
    <2>1. CASE n = i
      BY <2>1, <1>1, <1>6 DEF InBins
    <2>2. CASE n = j
      BY <2>2, <1>2
    <2>3. CASE n # i /\ n # j /\ InBins(n)
      BY <2>3, <1>2, <1>5 DEF InBins
    <2>4. CASE n # i /\ InStash(n)
      BY <2>4, <1>2 DEF InStash
    <2> QED
      BY <2>1, <2>2, <2>3, <2>4, <1>2 DEF NoneLost
  <1>8. NoneTwice'
    <2>1. ~ InBins(i) /\ ~ InStash(i)
      BY DEF NoneTwice, Evict
    <2>2. \A b, c \in Bin : mBins'[b].mIdx = mBins'[c].mIdx => b = c \/ mBins'[b].mIdx = 0
      BY <2>1, <1>5, <1>6 DEF NoneTwice, InBins, IsEmpty, NoItem
    <2>3. \A b \in Bin, k \in DOMAIN mStash :
              mBins'[b].mIdx = mStash[k].mIdx => mBins'[b].mIdx = 0
      BY <2>1, <1>5, <1>6 DEF NoneTwice, InStash, IsEmpty, NoItem
    <2>4. \A b \in Bin : mBins'[b].mIdx # j
      <3> SUFFICES ASSUME NEW b \in Bin, mBins'[b].mIdx = j PROVE FALSE
        OBVIOUS
      <3>1. CASE b = a
        BY <3>1, <1>1, <1>6, <2>1 DEF InBins
      <3>2. CASE b # a
        BY <3>2, <1>1, <1>2, <1>5 DEF NoneTwice, IsEmpty, NoItem
      <3> QED
        BY <3>1, <3>2
    <2>5. \A k \in DOMAIN mStash : mStash[k].mIdx # j
      BY <1>1, <1>2 DEF NoneTwice, IsEmpty, NoItem
    <2> QED
      BY <2>2, <2>3, <2>4, <2>5, <1>2 DEF NoneTwice, IsEmpty, NoItem, InBins, InStash
  <1>9. AtItsHash'
    BY <1>2, <1>5, <1>6 DEF AtItsHash, IsEmpty, Addr
  <1>10. Fresh'
    BY <1>1, <1>2, <1>5, <1>6 DEF Fresh, NoItem
  <1> QED
    BY <1>4, <1>7, <1>8, <1>9, <1>10

LEMMA PutInStashKeepsIInv == IInv /\ PutInStash => IInv'
  <1> SUFFICES ASSUME IInv, PutInStash PROVE IInv'
    OBVIOUS
  <1> USE DEF IInv
  <1> DEFINE i == hand.idx  e == [mIdx |-> i, mHashIdx |-> hand.hashIdx]
  <1>1. i \in Item /\ hand.hashIdx \in HashIdx
    BY InHand DEF PutInStash
  <1>2. /\ mStash' = Append(mStash, e)
        /\ hand' = [idx |-> 0, hashIdx |-> 0, numTries |-> 0]
        /\ mBins' = mBins /\ next' = next /\ hash' = hash /\ inserted' = inserted
        /\ ~ inserted
    BY DEF PutInStash, Entry, NoCall, Call, NoItem, Fresh
  <1>3. e \in EntryType /\ e.mIdx = i
    BY <1>1 DEF EntryType, Item
  <1>4. TypeOK'
    BY <1>2, <1>3, CuckooAssumption DEF TypeOK, HashIdx
  <1>5. /\ DOMAIN mStash' = 1..Len(mStash) + 1 /\ DOMAIN mStash = 1..Len(mStash)
        /\ \A k \in DOMAIN mStash : mStash'[k] = mStash[k]
        /\ mStash'[Len(mStash) + 1] = e
        /\ Len(mStash) \in Nat
    BY <1>2, <1>3 DEF TypeOK
  <1>6. NoneLost'
    <2> SUFFICES ASSUME NEW n \in 1..next - 1
                 PROVE (InBins(n) \/ InStash(n))'
      BY <1>2 DEF NoneLost
    <2>1. CASE n = i
      BY <2>1, <1>5, <1>3 DEF InStash
    <2>2. CASE InBins(n)
      BY <2>2, <1>2 DEF InBins
    <2>3. CASE InStash(n)
      BY <2>3, <1>5 DEF InStash
    <2> QED
      BY <2>1, <2>2, <2>3, <1>2 DEF NoneLost
  <1>7. NoneTwice'
    <2>1. ~ InBins(i) /\ ~ InStash(i)
      BY DEF NoneTwice, PutInStash
    <2>2. \A k \in DOMAIN mStash' : k \in DOMAIN mStash \/ k = Len(mStash) + 1
      BY <1>5
    <2>3. \A k, m \in DOMAIN mStash' :
              mStash'[k].mIdx = mStash'[m].mIdx => k = m \/ mStash'[k].mIdx = 0
      BY <2>1, <2>2, <1>3, <1>5 DEF NoneTwice, InStash, IsEmpty, NoItem
    <2>4. \A b \in Bin, k \in DOMAIN mStash' :
              mBins[b].mIdx = mStash'[k].mIdx => mBins[b].mIdx = 0
      BY <2>1, <2>2, <1>3, <1>5 DEF NoneTwice, InBins, IsEmpty, NoItem
    <2>5. ~ Running'
      BY <1>2 DEF Running, NoCall, Call, NoItem
    <2> QED
      BY <2>3, <2>4, <2>5, <1>2 DEF NoneTwice, IsEmpty, NoItem
  <1>8. AtItsHash'
    BY <1>2 DEF AtItsHash
  <1>9. Fresh'
    <2>1. \A k \in DOMAIN mStash' : mStash'[k].mIdx < next /\ mStash'[k].mIdx # 0
      BY <1>1, <1>2, <1>3, <1>5 DEF Fresh, IsEmpty, NoItem, Item
    <2>2. 0 < next
      BY DEF TypeOK
    <2>3. hand' = NoCall /\ ~ Running'
      BY <1>2 DEF NoCall, Call, NoItem, Running
    <2>4. \A b \in Bin : mBins'[b].mIdx < next
      BY <1>2 DEF Fresh
    <2> QED
      BY <2>1, <2>2, <2>3, <2>4, <1>2 DEF Fresh, NoItem, IsEmpty
  <1> QED
    BY <1>4, <1>6, <1>7, <1>8, <1>9

LEMMA ResizeStashKeepsIInv == IInv /\ ResizeStash => IInv'
  <1> SUFFICES ASSUME IInv, ResizeStash PROVE IInv'
    OBVIOUS
  <1> USE DEF IInv
  <1>1. /\ mStash' = [k \in 1..MaxStash |-> IF k <= Len(mStash) THEN mStash[k]
                                             ELSE [mIdx |-> 0, mHashIdx |-> 0]]
        /\ inserted' = TRUE /\ ~ inserted /\ ~ Running /\ next \notin Item
        /\ UNCHANGED <<hash, mBins, next, hand>>
    BY DEF ResizeStash, Resized, Empty, Entry, NoItem
  <1>2. hand.idx = 0
    BY <1>1 DEF Running, NoCall, Call, NoItem
  <1>3. DOMAIN mStash = 1..Len(mStash) /\ Len(mStash) \in Nat
    BY DEF TypeOK
  <1>4. /\ DOMAIN mStash' = 1..MaxStash
        /\ \A k \in 1..MaxStash :
              \/ k \in DOMAIN mStash /\ mStash'[k] = mStash[k]
              \/ k \notin DOMAIN mStash /\ mStash'[k].mIdx = 0
    BY <1>1, <1>3
  <1>5. TypeOK'
    <2>1. \A k \in 1..MaxStash : mStash'[k] \in EntryType
      <3>1. [mIdx |-> 0, mHashIdx |-> 0] \in EntryType
        BY CuckooAssumption DEF EntryType, HashIdx
      <3> QED
        BY <3>1, <1>1, <1>3, StashEntries
    <2>2. mStash' \in [1..MaxStash -> EntryType]
      BY <2>1, <1>1
    <2>3. mStash' \in Seq(EntryType)
      BY <2>2, CuckooAssumption
    <2> QED
      BY <2>3, <1>1 DEF TypeOK
  <1>6. NoneLost'
    <2> SUFFICES ASSUME NEW n \in 1..next - 1, ~ InBins(n), ~ InStash(n)'
                 PROVE \A k \in 1..MaxStash : mStash'[k].mIdx # 0
      BY <1>1 DEF NoneLost, InBins, IsEmpty, NoItem
    <2>1. PICK m \in DOMAIN mStash : mStash[m].mIdx = n
      BY <1>1, <1>2 DEF NoneLost, InStash
    <2>2. m > MaxStash
      BY <2>1, <1>3, <1>4, CuckooAssumption DEF InStash
    <2>3. 1..MaxStash \subseteq DOMAIN mStash
      BY <2>2, <1>3, CuckooAssumption
    <2> QED
      BY <2>3, <1>1, <1>4 DEF Fresh, IsEmpty, NoItem
  <1>7. NoneTwice'
    <2>1. \A k, m \in DOMAIN mStash' :
              mStash'[k].mIdx = mStash'[m].mIdx => k = m \/ mStash'[k].mIdx = 0
      BY <1>4 DEF NoneTwice, IsEmpty, NoItem
    <2>2. \A b \in Bin, k \in DOMAIN mStash' :
              mBins[b].mIdx = mStash'[k].mIdx => mBins[b].mIdx = 0
      BY <1>4 DEF NoneTwice, IsEmpty, NoItem
    <2> QED
      BY <2>1, <2>2, <1>1 DEF NoneTwice, IsEmpty, NoItem, Running
  <1>8. AtItsHash'
    BY <1>1 DEF AtItsHash
  <1>9. Fresh'
    BY <1>1, <1>4 DEF Fresh, Running, TypeOK
  <1> QED
    BY <1>5, <1>6, <1>7, <1>8, <1>9

LEMMA NextKeepsIInv == IInv /\ [Next]_vars => IInv'
  <1> SUFFICES ASSUME IInv, [Next]_vars PROVE IInv'
    OBVIOUS
  <1>1. CASE UNCHANGED vars
    BY <1>1 DEF vars, IInv, TypeOK, NoneLost, NoneTwice, AtItsHash, Fresh,
                InBins, InStash, Running
  <1> QED
    BY <1>1, InsertItemKeepsIInv, PlaceKeepsIInv, EvictKeepsIInv,
       PutInStashKeepsIInv, ResizeStashKeepsIInv DEF Next

THEOREM Invariance == Spec => []IInv
  BY InitIInv, NextKeepsIInv, PTL DEF Spec

\* Type correctness: in particular an insertion evicts at most MaxEvict items.
THEOREM TypeCorrect == Spec => []TypeOK
  BY Invariance, PTL DEF IInv

\* No item that insertItems has taken is lost, unless the stash is full.
THEOREM NoneLostHolds == Spec => []NoneLost
  BY Invariance, PTL DEF IInv

\* No item is in two places.
THEOREM NoneTwiceHolds == Spec => []NoneTwice
  BY Invariance, PTL DEF IInv

\* Every item is in the bin that its function names.
THEOREM AtItsHashHolds == Spec => []AtItsHash
  BY Invariance, PTL DEF IInv
=============================================================================
