---------------------------- MODULE SimpleHasher ----------------------------
(***************************************************************************)
(* The sender's hash table (PSI/SimpleHasher.cpp): every item goes to all  *)
(* the bins its three hash functions name.  A bin is a row of a matrix of  *)
(* fixed width, of which mBinSizes entries are in use; access beyond the   *)
(* width throws.                                                           *)
(*                                                                         *)
(* Items and hash are as in CuckooHasher; both parties name bins alike.    *)
(***************************************************************************)
EXTENDS Naturals, Sequences

CONSTANTS
    NumItem,        \* the number of inputs
    NumBin,         \* mBinCount
    MaxBin          \* mMaxBinSize, the width of a row

Item == 1..NumItem
Bin == 0..NumBin - 1
HashIdx == 0..2

VARIABLES
    hash,
    mBins,          \* mBins[b]: the entries in use of row b
    item, fn,       \* the loop variables of insertItems
    status          \* "inserting", "inserted", or "thrown"

vars == <<hash, mBins, item, fn, status>>

Entry(i, h) == [mIdx |-> i, mHashIdx |-> h]

Init ==
    /\ hash \in [HashIdx -> [Item -> Bin]]
    /\ mBins = [b \in Bin |-> <<>>]
    /\ item = 1 /\ fn = 0
    /\ status = "inserting"

\* The column is less than the width of the matrix.
Fits(n) == n < MaxBin

\* The last hash function.  (OneLess forgets it.)
OneLess == 1
LastFn == 2

Insert ==
    /\ status = "inserting" /\ item \in Item
    /\ Fits(Len(mBins[hash[fn][item]]))
    /\ mBins' = [mBins EXCEPT ![hash[fn][item]] = Append(@, Entry(item, fn))]
    /\ \/ fn < LastFn /\ fn' = fn + 1 /\ UNCHANGED item
       \/ fn = LastFn /\ fn' = 0 /\ item' = item + 1
    /\ UNCHANGED <<hash, status>>

Overflow ==
    /\ status = "inserting" /\ item \in Item
    /\ ~ Fits(Len(mBins[hash[fn][item]]))
    /\ status' = "thrown"
    /\ UNCHANGED <<hash, mBins, item, fn>>

Return ==
    /\ status = "inserting" /\ item \notin Item
    /\ status' = "inserted"
    /\ UNCHANGED <<hash, mBins, item, fn>>

Next == Insert \/ Overflow \/ Return

Spec == Init /\ [][Next]_vars
=============================================================================
