---------------------------- MODULE CuckooHasher ----------------------------
(***************************************************************************)
(* The receiver's hash table (PSI/CuckooHasher.cpp): every item goes to    *)
(* one of the bins its three hash functions name, pushing out what was     *)
(* there, and to the stash when an insertion has pushed out too many.      *)
(*                                                                         *)
(* An item is its index among the inputs, from 1.  hash[h][i] is the bin   *)
(* that hash function h names for it: the AES hash modulo mBinCount.       *)
(* insertItem calls itself as its last statement, so a call is its         *)
(* arguments, the item in hand.                                            *)
(***************************************************************************)
EXTENDS Naturals, Sequences

CONSTANTS
    NumItem,        \* the number of inputs
    NumBin,         \* mBinCount
    MaxEvict,       \* mCuckooSize, the most evictions of one insertion
    MaxStash        \* mMaxStashSize

ASSUME CuckooAssumption ==
    NumItem \in Nat /\ NumBin \in Nat \ {0} /\ MaxEvict \in Nat /\ MaxStash \in Nat

Item == 1..NumItem
Bin == 0..NumBin - 1
HashIdx == 0..2

VARIABLES
    hash,           \* hash[h][i]: see above
    mBins, mStash,  \* an item and the function that brought it here, or none
    next,           \* the loop variable of insertItems
    hand,           \* the arguments of the running insertItem
    inserted        \* insertItems has returned

vars == <<hash, mBins, mStash, next, hand, inserted>>

-----------------------------------------------------------------------------
\* Bin(): no item, u64(-1).
NoItem == 0
Entry(i, h) == [mIdx |-> i, mHashIdx |-> h]
Empty == Entry(NoItem, 0)
IsEmpty(e) == e.mIdx = NoItem

Call(i, h, n) == [idx |-> i, hashIdx |-> h, numTries |-> n]
NoCall == Call(NoItem, 0, 0)

Running == hand # NoCall
Addr == hash[hand.hashIdx][hand.idx]

Init ==
    /\ hash \in [HashIdx -> [Item -> Bin]]
    /\ mBins = [b \in Bin |-> Empty]
    /\ mStash = <<>>
    /\ next = 1
    /\ hand = NoCall
    /\ inserted = FALSE

\* insertItems takes the next input.
InsertItem ==
    /\ ~ Running /\ next \in Item
    /\ hand' = Call(next, 0, 0)
    /\ next' = next + 1
    /\ UNCHANGED <<hash, mBins, mStash, inserted>>

\* The bin is empty.
Place ==
    /\ Running /\ IsEmpty(mBins[Addr])
    /\ mBins' = [mBins EXCEPT ![Addr] = Entry(hand.idx, hand.hashIdx)]
    /\ hand' = NoCall
    /\ UNCHANGED <<hash, mStash, next, inserted>>

\* What the item in hand leaves in the bin it takes.  (StaleIdx keeps the
\* function that brought the former item.)
StaleIdx(e) == Entry(hand.idx, e.mHashIdx)
Taken(e) == Entry(hand.idx, hand.hashIdx)

\* The call for the item pushed out: its next function.  (Uncounted does not
\* count the eviction, Dropped takes the item in hand again, NoWrap goes
\* beyond the third function.)
Uncounted(e) == Call(e.mIdx, (e.mHashIdx + 1) % 3, hand.numTries)
NoWrap(e) == Call(e.mIdx, e.mHashIdx + 1, hand.numTries + 1)
Dropped(e) == Call(hand.idx, (e.mHashIdx + 1) % 3, hand.numTries + 1)
Evicted(e) == Call(e.mIdx, (e.mHashIdx + 1) % 3, hand.numTries + 1)

Evict ==
    /\ Running /\ ~ IsEmpty(mBins[Addr])
    /\ hand.numTries < MaxEvict
    /\ mBins' = [mBins EXCEPT ![Addr] = Taken(@)]
    /\ hand' = Evicted(mBins[Addr])
    /\ UNCHANGED <<hash, mStash, next, inserted>>

PutInStash ==
    /\ Running /\ ~ IsEmpty(mBins[Addr])
    /\ hand.numTries >= MaxEvict
    /\ mStash' = Append(mStash, Entry(hand.idx, hand.hashIdx))
    /\ hand' = NoCall
    /\ UNCHANGED <<hash, mBins, next, inserted>>

\* vector::resize: cut off, or filled with empty entries.  (KeepsNone starts
\* from an empty vector, Uncut does not resize.)
KeepsNone(stash) == [k \in 1..MaxStash |-> Empty]
Uncut(stash) == stash
Resized(stash) ==
    [k \in 1..MaxStash |-> IF k <= Len(stash) THEN stash[k] ELSE Empty]

\* The end of insertItems.
ResizeStash ==
    /\ ~ Running /\ next \notin Item /\ ~ inserted
    /\ mStash' = Resized(mStash)
    /\ inserted' = TRUE
    /\ UNCHANGED <<hash, mBins, next, hand>>

Next == InsertItem \/ Place \/ Evict \/ PutInStash \/ ResizeStash

Spec == Init /\ [][Next]_vars

\* insertItems runs to its end: it waits for nothing.
FairSpec == Spec /\ WF_vars(Next)

-----------------------------------------------------------------------------
(* Properties.                                                             *)

EntryType == [mIdx : 0..NumItem, mHashIdx : HashIdx]

TypeOK ==
    /\ hash \in [HashIdx -> [Item -> Bin]]
    /\ mBins \in [Bin -> EntryType]
    /\ mStash \in Seq(EntryType)
    /\ next \in 1..NumItem + 1
    /\ hand \in [idx : 0..NumItem, hashIdx : HashIdx, numTries : 0..MaxEvict]
    /\ inserted \in BOOLEAN

InBins(i) == \E b \in Bin : mBins[b].mIdx = i
InStash(i) == \E k \in DOMAIN mStash : mStash[k].mIdx = i

\* Evictions lose no item: until the stash is cut, what insertItems has taken
\* is in a bin, in the stash or in hand, and afterwards only an item for
\* which the stash had no room is missing.
NoneLost ==
    \A i \in 1..next - 1 :
        \/ InBins(i) \/ InStash(i) \/ hand.idx = i
        \/ inserted /\ \A k \in 1..MaxStash : ~ IsEmpty(mStash[k])

\* Evictions duplicate no item: no two places hold the same one.  (A second
\* place would use up an OT and put the item in the intersection twice.)
NoneTwice ==
    /\ \A b, c \in Bin : mBins[b].mIdx = mBins[c].mIdx => b = c \/ IsEmpty(mBins[b])
    /\ \A k, m \in DOMAIN mStash : mStash[k].mIdx = mStash[m].mIdx => k = m \/ IsEmpty(mStash[k])
    /\ \A b \in Bin, k \in DOMAIN mStash : mBins[b].mIdx = mStash[k].mIdx => IsEmpty(mBins[b])
    /\ Running => ~ InBins(hand.idx) /\ ~ InStash(hand.idx)

\* An item is in the bin that the function stored with it names: the sender
\* looks for it there, under that function.
AtItsHash ==
    \A b \in Bin : ~ IsEmpty(mBins[b]) => hash[mBins[b].mHashIdx][mBins[b].mIdx] = b

\* The evictions come to an end: insertItems returns.
InsertReturns == <>inserted
=============================================================================
