--------------------------- MODULE BopPsi_proofs ----------------------------
(***************************************************************************)
(* The online phase finds the common items and nothing else, for inputs,   *)
(* tables, batches and stashes of any size.  Messages, masks and results   *)
(* are described by the position, a bin or a place of the stash, that they *)
(* are for.                                                                *)
(***************************************************************************)
EXTENDS BopPsi, Integers, FiniteSetTheorems, SequenceTheorems, TLAPS

C == INSTANCE CuckooHasher_proofs WITH
    NumItem <- RecvSize, MaxEvict <- RecvSize,
    hash <- [h \in HashIdx |-> [i \in 1..RecvSize |-> addr[h][rInputs[i]]]],
    mBins <- rBins, mStash <- rStash, next <- rNext, hand <- rHand,
    inserted <- rInserted

RecvEntry == [mIdx : 0..RecvSize, mHashIdx : HashIdx]
SendEntry == [mIdx : Slot, mHashIdx : HashIdx]
Mask == {Unset} \cup (HashIdx \X Block) \cup {StashMask(a) : a \in Block}

\* What the receiver's table has at a position, and the correction for it.
EntryAt(p) == IF p < NumBin THEN rBins[p] ELSE rStash[p - NumBin + 1]
CorrAt(p) == CorrectionOf(EntryAt(p), p)

Inputs == addr \in HashFns /\ rInputs \in RecvSets /\ sInputs \in SendSets

Tables == C!IInv /\ (rInserted => Len(rStash) = MaxStash)

\* The sender's table has an entry for every item and function up to the
\* running insertion, once, in its bin.
Earlier(j, h, item, fn) == j < item \/ (j = item /\ h < fn)
Before(j, h) == Earlier(j, h, sItem, sFn)

SimpleInv ==
    /\ sBins \in [Bin -> Seq(SendEntry)]
    /\ sItem \in 1..SendSize + 1 /\ sFn \in HashIdx
    /\ sStatus \in {"inserting", "inserted", "thrown"}
    /\ sStatus = "inserted" => sItem = SendSize + 1
    /\ \A b \in Bin : \A k \in 1..Len(sBins[b]) :
         /\ addr[sBins[b][k].mHashIdx][sInputs[sBins[b][k].mIdx]] = b
         /\ Before(sBins[b][k].mIdx, sBins[b][k].mHashIdx)
    /\ \A b \in Bin : \A k, m \in 1..Len(sBins[b]) : sBins[b][k] = sBins[b][m] => k = m
    /\ \A j \in Slot, h \in HashIdx : Before(j, h) =>
         \E k \in 1..Len(sBins[addr[h][sInputs[j]]]) :
            sBins[addr[h][sInputs[j]]][k] = [mIdx |-> j, mHashIdx |-> h]

-----------------------------------------------------------------------------
\* The positions for which the receiver has sent, and the sender received, the
\* corrections.
rPos ==
    IF rPhase = "bins" THEN rStep
    ELSE IF rPhase \in {"buckets", "stash"} THEN NumBin ELSE NumBin + MaxStash
sPos ==
    IF sPhase = "bins" THEN sStep + Len(theirCorrOT)
    ELSE IF sPhase \in {"masks", "stash"} THEN NumBin ELSE NumBin + MaxStash

ReceiverAt ==
    /\ rPhase \in {"bins", "buckets", "stash", "stashMasks", "done"}
    /\ rStep \in Nat
    /\ rPhase = "bins" => rStep < NumBin
    /\ rPhase = "buckets" => rStep \in HashIdx
    /\ rPhase = "stash" => rStep = 0
    /\ rPhase = "stashMasks" => rStep < MaxStash
    /\ ~ rInserted => rPhase = "bins" /\ rStep = 0

SenderAt ==
    /\ sPhase \in {"bins", "masks", "stash", "stashMasks", "done"}
    /\ sStep \in Nat
    /\ theirCorrOT \in Seq(Block)
    /\ sPhase = "bins" => sStep < NumBin /\ sStep + Len(theirCorrOT) <= NumBin
    /\ sPhase \in {"masks", "stash", "done"} => theirCorrOT = <<>>
    /\ sPhase = "stashMasks" => sStep < MaxStash /\ Len(theirCorrOT) = MaxStash - sStep
    /\ ~ rInserted \/ sStatus # "inserted" =>
         sPhase = "bins" /\ sStep = 0 /\ theirCorrOT = <<>>

\* The position of the first correction the sender has at hand.
sNext == IF sPhase = "bins" THEN sStep ELSE NumBin + sStep
AtHand == \A k \in 1..Len(theirCorrOT) : theirCorrOT[k] = CorrAt(sNext + k - 1)

\* The corrections under way; st says where each message begins.
Width(p) == IF p < NumBin THEN BatchSize(p) ELSE MaxStash
CorrMsg(p) == [k \in 1..Width(p) |-> CorrAt(p + k - 1)]

ToSender(st) ==
    /\ st[1] = sPos /\ st[Len(toSender) + 1] = rPos
    /\ \A j \in 1..Len(toSender) :
         /\ st[j] <= NumBin /\ st[j + 1] = st[j] + Width(st[j])
         /\ toSender[j] = CorrMsg(st[j])

Corrections ==
    /\ toSender \in Seq(Seq(Block))
    /\ ~ rInserted => toSender = <<>>
    /\ \E st \in [1..Len(toSender) + 1 -> 0..NumBin + MaxStash] : ToSender(st)

-----------------------------------------------------------------------------
\* The masks of the sender.  pos[h][j] is the place, before the permutation, of
\* the mask of item j under function h.
MaskOf(h, j) ==
    BinMask(h, Encoded(sInputs[j], addr[h][sInputs[j]], CorrAt(addr[h][sInputs[j]])))
sDone == IF sPhase = "bins" THEN sStep ELSE NumBin
Masked(h) == {j \in Slot : addr[h][sInputs[j]] < sDone}

MasksAt(pos, h) ==
    /\ idxPermuteDone[h] = Cardinality(Masked(h))
    /\ \A j \in Masked(h) :
         /\ pos[h][j] <= idxPermuteDone[h]
         /\ myMaskBuff[h][Permute[h][pos[h][j]]] = MaskOf(h, j)
    /\ \A j, k \in Masked(h) : pos[h][j] = pos[h][k] => j = k

Masks ==
    /\ idxPermuteDone = [h \in HashIdx |-> idxPermuteDone[h]]
    /\ myMaskBuff \in [HashIdx -> [Slot -> Mask]]
    /\ \E pos \in [HashIdx -> [Slot -> Slot]] : \A h \in HashIdx : MasksAt(pos, h)

\* The messages of masks, and how many the sender has sent and the receiver
\* received.
StashOutFor(s, corr) ==
    [slot \in Slot |->
        StashMask(Encoded(sInputs[CHOOSE m \in Slot : StashPermute[s][m] = slot],
                          NumBin + s, corr))]
StashOut(s) == StashOutFor(s, CorrAt(NumBin + s))
OutMsg(n) == IF n < 3 THEN myMaskBuff[n] ELSE StashOut(n - 3)

sOut ==
    IF sPhase \in {"bins", "masks"} THEN 0
    ELSE IF sPhase = "stash" THEN 3
    ELSE IF sPhase = "stashMasks" THEN 3 + sStep ELSE 3 + MaxStash
rIn ==
    IF rPhase = "bins" THEN 0
    ELSE IF rPhase = "buckets" THEN rStep
    ELSE IF rPhase = "stash" THEN 3
    ELSE IF rPhase = "stashMasks" THEN 3 + rStep ELSE 3 + MaxStash

ToReceiver ==
    /\ toReceiver \in Seq([Slot -> Mask])
    /\ rIn + Len(toReceiver) = sOut
    /\ \A k \in 1..Len(toReceiver) : toReceiver[k] = OutMsg(rIn + k - 1)

-----------------------------------------------------------------------------
\* The receiver's own masks, for the bins whose corrections have been sent.
rSent == IF rPhase = "bins" THEN rStep ELSE NumBin
LocalAt(h, i) ==
    \/ localMasks[h][i] = NoMask /\ \A b \in Bin : b < rSent => rBins[b] # Cuckoo!Entry(i, h)
    \/ \E b \in Bin : b < rSent /\ rBins[b] = Cuckoo!Entry(i, h)
                      /\ localMasks[h][i] = BinMask(h, T0[b])
Local == \A h \in HashIdx, i \in RecvItem : LocalAt(h, i)

\* The positions whose masks the receiver has compared with the sender's.
Looked(p) ==
    \/ p < NumBin /\ rPhase = "buckets" /\ EntryAt(p).mHashIdx < rStep
    \/ p < NumBin /\ rPhase \in {"stash", "stashMasks", "done"}
    \/ p >= NumBin /\ rPhase = "stashMasks" /\ p < NumBin + rStep
    \/ p >= NumBin /\ rPhase = "done"

Common(i) == \E k \in Slot : sInputs[k] = rInputs[i]
Seen(i) == \E p \in Ot : Looked(p) /\ EntryAt(p).mIdx = i
Result ==
    mIntersection = [i \in RecvItem |-> IF Common(i) /\ Seen(i) THEN 1 ELSE 0]

IInv ==
    /\ Inputs /\ Tables /\ SimpleInv
    /\ ReceiverAt /\ SenderAt /\ AtHand /\ Corrections
    /\ Masks /\ ToReceiver
    /\ Local /\ Result

-----------------------------------------------------------------------------
(* Blocks.                                                                 *)

LEMMA Sizes ==
  /\ RecvSize \in Nat /\ SendSize \in Nat \ {0} /\ NumBin \in Nat \ {0}
  /\ MaxStash \in Nat \ {0} /\ StepSize \in Nat \ {0}
BY SizeAssumption

LEMMA EncodedIsBlock ==
  ASSUME NEW v \in Value, NEW w \in Value, NEW a \in Ot, NEW c \in Block
  PROVE  /\ Correction(w, a) \in Block /\ Dummy[a] \in Block
         /\ Encoded(v, a, c) \in Block /\ T0[a] \in Block
BY BlockAssumption DEF Correction, Encoded, Q, Xor, And, Block

\* The sender's mask for an item from the correction for an item.
LEMMA EncodedOf ==
  ASSUME NEW v \in Value, NEW w \in Value, NEW a \in Ot
  PROVE  Encoded(v, a, Correction(w, a)) = Xor(T0[a], And(Xor(Code[v], Code[w]), Choice))
<1> DEFINE t == T0[a]
           u == T1[a]
           e == Code[v]
           f == Code[w]
<1>1. Xor(Xor(t, And(Xor(t, u), Choice)), And(Xor(Xor(Xor(f, t), u), e), Choice))
        = Xor(t, And(Xor(e, f), Choice))
  BY DEF Xor, And
<1> QED
  BY <1>1 DEF Encoded, Correction, Q

\* It is the receiver's mask if the items are the same, and else differs from
\* it in the bits that are sent.
LEMMA EncodedSame ==
  ASSUME NEW v \in Value, NEW w \in Value, NEW a \in Ot
  PROVE  Prefix(Encoded(v, a, Correction(w, a))) = Prefix(T0[a]) <=> v = w
<1>1. CASE v = w
  <2>1. Xor(T0[a], And(Xor(Code[v], Code[w]), Choice)) = T0[a]
    BY <1>1 DEF Xor, And
  <2> QED
    BY <1>1, <2>1, EncodedOf
<1>2. CASE v # w
  <2>1. PICK x \in CodeBit : x \in And(Xor(Code[v], Code[w]), Choice)
    BY <1>2, CodeAssumption
  <2>2. x \in Prefix(Xor(T0[a], And(Xor(Code[v], Code[w]), Choice))) <=> x \notin Prefix(T0[a])
    BY <2>1 DEF Xor, Prefix
  <2> QED
    BY <1>2, <2>2, EncodedOf
<1> QED
  BY <1>1, <1>2

LEMMA MasksAreMasks ==
  ASSUME NEW h \in HashIdx, NEW a \in Block
  PROVE  /\ BinMask(h, a) \in Mask /\ StashMask(a) \in Mask
         /\ BinMask(h, a) # Unset /\ BinMask(h, a) # NoMask
<1>1. Prefix(a) \in Block
  BY DEF Prefix, Block
<1>2. BinMask(h, a) \in Mask
  BY <1>1 DEF BinMask, Mask
<1>3. StashMask(a) \in Mask
  BY DEF Mask
<1>4. <<h, Prefix(a)>> # <<>>
  OBVIOUS
<1> QED
  BY <1>2, <1>3, <1>4 DEF BinMask, Unset, NoMask

LEMMA MasksDiffer ==
  ASSUME NEW h, NEW g, NEW a, NEW b
  PROVE  /\ BinMask(h, a) = BinMask(g, b) <=> h = g /\ Prefix(a) = Prefix(b)
         /\ StashMask(a) = StashMask(b) <=> Prefix(a) = Prefix(b)
<1>1. <<h, Prefix(a)>> = <<g, Prefix(b)>> <=> h = g /\ Prefix(a) = Prefix(b)
  OBVIOUS
<1>2. <<Prefix(a)>> = <<Prefix(b)>> <=> Prefix(a) = Prefix(b)
  OBVIOUS
<1> QED
  BY <1>1, <1>2 DEF BinMask, StashMask

-----------------------------------------------------------------------------
(* Permutations.                                                           *)

LEMMA SlotCount == IsFiniteSet(Slot) /\ Cardinality(Slot) = SendSize
BY Sizes, FS_Interval DEF Slot

LEMMA PermutesOnto ==
  ASSUME NEW f, Permutes(f), NEW s \in Slot
  PROVE  \E k \in Slot : f[k] = s
<1>1. f \in Injection(Slot, Slot)
  BY DEF Permutes, Injection, IsInjective
<1>2. f \in Surjection(Slot, Slot)
  BY <1>1, SlotCount, FS_Injection
<1> QED
  BY <1>2 DEF Surjection

\* A message of masks in which, of all items, only those with value v have the
\* mask m has it as often as there are such items: once or never.
MaskedOnlyFor(msg, m, inputs, v) ==
    /\ DOMAIN msg = Slot /\ inputs \in SendSets
    /\ \E f : Permutes(f) /\ \A j \in Slot : msg[f[j]] = m <=> inputs[j] = v
Has(inputs, v) == \E j \in Slot : inputs[j] = v

LEMMA CountIsOne ==
  ASSUME NEW msg, NEW m, NEW inputs, NEW v, MaskedOnlyFor(msg, m, inputs, v)
  PROVE  Count(m, msg) = IF Has(inputs, v) THEN 1 ELSE 0
<1>0. /\ DOMAIN msg = Slot /\ inputs \in SendSets
      /\ \E f : Permutes(f) /\ \A j \in Slot : msg[f[j]] = m <=> inputs[j] = v
  BY DEF MaskedOnlyFor
<1> PICK f : Permutes(f) /\ \A j \in Slot : msg[f[j]] = m <=> inputs[j] = v
  BY <1>0
<1> DEFINE S == {k \in Slot : msg[k] = m}
<1>1. Count(m, msg) = Cardinality(S)
  BY <1>0 DEF Count
<1>2. CASE \E j \in Slot : inputs[j] = v
  <2>1. PICK j \in Slot : inputs[j] = v
    BY <1>2
  <2>2. \A k \in Slot : inputs[k] = v => k = j
    <3>1. inputs \in [Slot -> Value] /\ Distinct(inputs)
      BY <1>0, InputAssumption
    <3> QED
      BY <2>1, <3>1 DEF Distinct
  <2>3. f[j] \in Slot
    BY DEF Permutes
  <2>4. ASSUME NEW k \in S PROVE k = f[j]
    <3>1. PICK i \in Slot : f[i] = k
      BY PermutesOnto
    <3> QED
      BY <3>1, <2>2
  <2>5. S = {f[j]}
    BY <2>1, <2>3, <2>4
  <2>6. Cardinality({f[j]}) = 1
    BY FS_Singleton
  <2> QED
    BY <1>1, <1>2, <2>5, <2>6 DEF Has
<1>3. CASE ~ \E j \in Slot : inputs[j] = v
  <2>1. ASSUME NEW k \in S PROVE FALSE
    <3>1. PICK i \in Slot : f[i] = k
      BY PermutesOnto
    <3> QED
      BY <3>1, <1>3
  <2>2. S = {}
    BY <2>1
  <2> QED
    BY <1>1, <1>3, <2>2, FS_EmptySet DEF Has
<1> QED
  BY <1>2, <1>3

-----------------------------------------------------------------------------
(* The receiver's table.                                                   *)

\* A position has at most one item, an item at most one position, and what is
\* in a bin was put there by the function stored with it.
Placed ==
    /\ \A p \in Ot : EntryAt(p) \in RecvEntry
    /\ \A p, q \in Ot : EntryAt(p).mIdx = EntryAt(q).mIdx => p = q \/ EntryAt(p).mIdx = 0
    /\ \A b \in Bin : rBins[b].mIdx # 0 =>
         addr[rBins[b].mHashIdx][rInputs[rBins[b].mIdx]] = b

LEMMA OtSplit ==
  /\ \A b \in Bin : b \in Ot /\ b < NumBin /\ EntryAt(b) = rBins[b]
  /\ \A k \in 1..MaxStash : NumBin + k - 1 \in Ot /\ EntryAt(NumBin + k - 1) = rStash[k]
  /\ \A p \in Ot : \/ p \in Bin /\ EntryAt(p) = rBins[p]
                   \/ p >= NumBin /\ p - NumBin + 1 \in 1..MaxStash
                      /\ EntryAt(p) = rStash[p - NumBin + 1]
<1>1. \A b \in Bin : b \in Ot /\ b < NumBin
  BY Sizes DEF Bin, Ot
<1>2. \A k \in 1..MaxStash :
         NumBin + k - 1 \in Ot /\ ~ (NumBin + k - 1 < NumBin) /\ (NumBin + k - 1) - NumBin + 1 = k
  BY Sizes DEF Ot
<1>3. \A p \in Ot : (p < NumBin /\ p \in Bin)
                    \/ (~ (p < NumBin) /\ p >= NumBin /\ p - NumBin + 1 \in 1..MaxStash)
  BY Sizes DEF Bin, Ot
<1> QED
  BY <1>1, <1>2, <1>3 DEF EntryAt

LEMMA TablePlaced ==
  ASSUME Tables, rInserted
  PROVE  Placed
<1>1. C!TypeOK /\ C!NoneTwice /\ C!AtItsHash
  BY DEF Tables, C!IInv
<1>2. rBins \in [Bin -> RecvEntry] /\ rStash \in Seq(RecvEntry)
  BY <1>1 DEF C!TypeOK, C!EntryType, RecvEntry, C!HashIdx, HashIdx, C!Bin, Bin
<1>3. Len(rStash) = MaxStash /\ DOMAIN rStash = 1..MaxStash
  BY <1>2 DEF Tables
<1>4. \A p \in Ot : EntryAt(p) \in RecvEntry
  <2>1. \A k \in 1..MaxStash : rStash[k] \in RecvEntry
    BY <1>2, <1>3, ElementOfSeq
  <2> QED
    BY <1>2, <2>1, OtSplit
<1>5. /\ \A b, c \in Bin : rBins[b].mIdx = rBins[c].mIdx => b = c \/ rBins[b].mIdx = 0
      /\ \A k, m \in 1..MaxStash : rStash[k].mIdx = rStash[m].mIdx => k = m \/ rStash[k].mIdx = 0
      /\ \A b \in Bin, k \in 1..MaxStash : rBins[b].mIdx = rStash[k].mIdx => rBins[b].mIdx = 0
  BY <1>1, <1>3 DEF C!NoneTwice, C!IsEmpty, C!NoItem, C!Bin, Bin
<1>6. ASSUME NEW p \in Ot, NEW q \in Ot, EntryAt(p).mIdx = EntryAt(q).mIdx
      PROVE  p = q \/ EntryAt(p).mIdx = 0
  <2>1. CASE p \in Bin /\ q \in Bin
    BY <1>5, <1>6, <2>1, OtSplit
  <2>2. CASE p \in Bin /\ q >= NumBin /\ q - NumBin + 1 \in 1..MaxStash
             /\ EntryAt(q) = rStash[q - NumBin + 1]
    BY <1>5, <1>6, <2>2, OtSplit
  <2>3. CASE q \in Bin /\ p >= NumBin /\ p - NumBin + 1 \in 1..MaxStash
             /\ EntryAt(p) = rStash[p - NumBin + 1]
    BY <1>5, <1>6, <2>3, OtSplit
  <2>4. CASE /\ q >= NumBin /\ q - NumBin + 1 \in 1..MaxStash
                /\ EntryAt(q) = rStash[q - NumBin + 1]
             /\ p >= NumBin /\ p - NumBin + 1 \in 1..MaxStash
                /\ EntryAt(p) = rStash[p - NumBin + 1]
    <3>1. p - NumBin + 1 = q - NumBin + 1 => p = q
      BY Sizes DEF Ot
    <3> QED
      BY <1>5, <1>6, <2>4, <3>1
  <2> QED
    BY <2>1, <2>2, <2>3, <2>4, OtSplit
<1>7. \A b \in Bin : rBins[b].mIdx # 0 =>
         addr[rBins[b].mHashIdx][rInputs[rBins[b].mIdx]] = b
  <2> SUFFICES ASSUME NEW b \in Bin, rBins[b].mIdx # 0
               PROVE  addr[rBins[b].mHashIdx][rInputs[rBins[b].mIdx]] = b
    OBVIOUS
  <2>1. rBins[b].mIdx \in 1..RecvSize /\ rBins[b].mHashIdx \in HashIdx
    BY <1>2, Sizes DEF RecvEntry
  <2>2. [h \in HashIdx |-> [i \in 1..RecvSize |-> addr[h][rInputs[i]]]]
             [rBins[b].mHashIdx][rBins[b].mIdx] = b
    BY <1>1 DEF C!AtItsHash, C!IsEmpty, C!NoItem, C!Bin, Bin
  <2> QED
    BY <2>1, <2>2
<1> QED
  BY <1>4, <1>6, <1>7 DEF Placed

\* The table changes until it is complete.
LEMMA HashStep ==
  ASSUME Tables, RHash
  PROVE  Tables' /\ ~ rInserted
<1>1. C!CuckooAssumption
  BY SizeAssumption DEF C!CuckooAssumption
<1>2. Cuckoo!Next
  BY DEF RHash
<1>3. C!Next
  <2>1. Cuckoo!InsertItem => C!InsertItem
    BY DEF Cuckoo!InsertItem, C!InsertItem, Cuckoo!Running, C!Running, Cuckoo!NoCall, C!NoCall,
           Cuckoo!Call, C!Call, Cuckoo!NoItem, C!NoItem, Cuckoo!Item, C!Item
  <2>2. Cuckoo!Place => C!Place
    BY DEF Cuckoo!Place, C!Place, Cuckoo!Running, C!Running, Cuckoo!NoCall, C!NoCall,
           Cuckoo!Call, C!Call, Cuckoo!NoItem, C!NoItem, Cuckoo!IsEmpty, C!IsEmpty,
           Cuckoo!Addr, C!Addr, Cuckoo!Entry, C!Entry
  <2>3. Cuckoo!Evict => C!Evict
    BY DEF Cuckoo!Evict, C!Evict, Cuckoo!Running, C!Running, Cuckoo!NoCall, C!NoCall,
           Cuckoo!Call, C!Call, Cuckoo!NoItem, C!NoItem, Cuckoo!IsEmpty, C!IsEmpty,
           Cuckoo!Addr, C!Addr, Cuckoo!Entry, C!Entry, Cuckoo!Taken, C!Taken,
           Cuckoo!Evicted, C!Evicted
  <2>4. Cuckoo!PutInStash => C!PutInStash
    BY DEF Cuckoo!PutInStash, C!PutInStash, Cuckoo!Running, C!Running, Cuckoo!NoCall, C!NoCall,
           Cuckoo!Call, C!Call, Cuckoo!NoItem, C!NoItem, Cuckoo!IsEmpty, C!IsEmpty,
           Cuckoo!Addr, C!Addr, Cuckoo!Entry, C!Entry
  <2>5. Cuckoo!ResizeStash => C!ResizeStash
    BY DEF Cuckoo!ResizeStash, C!ResizeStash, Cuckoo!Running, C!Running, Cuckoo!NoCall, C!NoCall,
           Cuckoo!Call, C!Call, Cuckoo!NoItem, C!NoItem, Cuckoo!Item, C!Item,
           Cuckoo!Resized, C!Resized, Cuckoo!Empty, C!Empty, Cuckoo!Entry, C!Entry
  <2> QED
    BY <1>2, <2>1, <2>2, <2>3, <2>4, <2>5 DEF Cuckoo!Next, C!Next
<1>4. C!IInv'
  BY <1>1, <1>3, C!NextKeepsIInv DEF Tables
<1>5. ~ rInserted
  <2>1. rInserted => ~ C!Running /\ rNext \notin C!Item
    BY DEF Tables, C!IInv, C!Fresh
  <2> QED
    BY <1>3, <2>1 DEF C!Next, C!InsertItem, C!Place, C!Evict, C!PutInStash, C!ResizeStash
<1>6. rInserted' => Len(rStash') = MaxStash
  <2>1. rInserted' => C!ResizeStash
    BY <1>3, <1>5 DEF C!Next, C!InsertItem, C!Place, C!Evict, C!PutInStash
  <2>2. C!ResizeStash => Len(rStash') = MaxStash
    BY Sizes DEF C!ResizeStash, C!Resized
  <2> QED
    BY <2>1, <2>2
<1> QED
  BY <1>4, <1>5, <1>6 DEF Tables

-----------------------------------------------------------------------------
(* Corrections and masks.                                                  *)

LEMMA InputTypes ==
  ASSUME Inputs
  PROVE  /\ addr \in [HashIdx -> [Value -> Bin]]
         /\ rInputs \in [RecvItem -> Value] /\ sInputs \in [Slot -> Value]
         /\ \A h \in HashIdx, j \in Slot :
              addr[h][sInputs[j]] \in Bin /\ addr[h][sInputs[j]] \in Ot
<1>1. /\ addr \in [HashIdx -> [Value -> Bin]]
      /\ rInputs \in [RecvItem -> Value] /\ sInputs \in [Slot -> Value]
  BY InputAssumption DEF Inputs
<1>2. \A h \in HashIdx, j \in Slot : addr[h][sInputs[j]] \in Bin
  BY <1>1
<1> QED
  BY <1>1, <1>2, OtSplit

LEMMA CorrTypes ==
  ASSUME Inputs, Placed, NEW p \in Ot
  PROVE  /\ CorrAt(p) \in Block
         /\ EntryAt(p).mIdx = 0 => CorrAt(p) = Dummy[p]
         /\ EntryAt(p).mIdx # 0 =>
              /\ EntryAt(p).mIdx \in RecvItem /\ EntryAt(p).mHashIdx \in HashIdx
              /\ rInputs[EntryAt(p).mIdx] \in Value
              /\ CorrAt(p) = Correction(rInputs[EntryAt(p).mIdx], p)
<1>1. EntryAt(p).mIdx \in 0..RecvSize /\ EntryAt(p).mHashIdx \in HashIdx
  BY DEF Placed, RecvEntry
<1>2. CASE EntryAt(p).mIdx = 0
  <2>1. CorrAt(p) = Dummy[p]
    BY <1>2 DEF CorrAt, CorrectionOf, Cuckoo!IsEmpty, Cuckoo!NoItem
  <2>2. Dummy[p] \in Block
    BY BlockAssumption
  <2> QED
    BY <1>2, <2>1, <2>2
<1>3. CASE EntryAt(p).mIdx # 0
  <2>1. EntryAt(p).mIdx \in RecvItem
    BY <1>1, <1>3, Sizes DEF RecvItem
  <2>2. rInputs[EntryAt(p).mIdx] \in Value
    BY <2>1, InputTypes
  <2>3. CorrAt(p) = Correction(rInputs[EntryAt(p).mIdx], p)
    BY <1>3 DEF CorrAt, CorrectionOf, Cuckoo!IsEmpty, Cuckoo!NoItem
  <2>4. Correction(rInputs[EntryAt(p).mIdx], p) \in Block
    BY <2>2, BlockAssumption DEF Correction, Xor, Block
  <2> QED
    BY <1>1, <1>3, <2>1, <2>2, <2>3, <2>4
<1> QED
  BY <1>2, <1>3

\* The sender's mask for v at position a is the receiver's for position b only
\* if they are the same position and b holds the item v.
LEMMA MasksMeet ==
  ASSUME Inputs, Placed, NEW v \in Value, NEW a \in Ot, NEW b \in Ot, EntryAt(b).mIdx # 0
  PROVE  Prefix(Encoded(v, a, CorrAt(a))) = Prefix(T0[b])
           <=> a = b /\ v = rInputs[EntryAt(b).mIdx]
<1>1. CASE a = b
  BY <1>1, CorrTypes, EncodedSame
<1>2. CASE a # b /\ EntryAt(a).mIdx = 0
  BY <1>2, CorrTypes, DummyAssumption
<1>3. CASE a # b /\ EntryAt(a).mIdx # 0
  BY <1>3, CorrTypes, SeparateAssumption
<1> QED
  BY <1>1, <1>2, <1>3

LEMMA MasksTyped ==
  ASSUME Inputs, Placed, NEW h \in HashIdx, NEW j \in Slot, NEW s \in Stash
  PROVE  /\ MaskOf(h, j) \in Mask /\ MaskOf(h, j) # Unset
         /\ StashOut(s) \in [Slot -> Mask]
<1>1. /\ sInputs[j] \in Value /\ addr[h][sInputs[j]] \in Ot
  BY InputTypes
<1>2. CorrAt(addr[h][sInputs[j]]) \in Block
  BY <1>1, CorrTypes
<1>3. Encoded(sInputs[j], addr[h][sInputs[j]], CorrAt(addr[h][sInputs[j]])) \in Block
  BY <1>1, <1>2, EncodedIsBlock
<1>4. NumBin + s \in Ot
  BY Sizes DEF Ot, Stash
<1>5. \A k \in Slot : Encoded(sInputs[k], NumBin + s, CorrAt(NumBin + s)) \in Block
  BY <1>4, InputTypes, CorrTypes, EncodedIsBlock
<1>6. \A slot \in Slot : (CHOOSE m \in Slot : StashPermute[s][m] = slot) \in Slot
  BY PermuteAssumption, PermutesOnto
<1>7. StashOut(s) \in [Slot -> Mask]
  BY <1>5, <1>6, MasksAreMasks DEF StashOut, StashOutFor, HashIdx
<1> QED
  BY <1>3, <1>7, MasksAreMasks DEF MaskOf

-----------------------------------------------------------------------------
(* The sender's table.                                                     *)

LEMMA SimpleStep ==
  ASSUME Inputs, SimpleInv, SHash
  PROVE  SimpleInv' /\ sStatus = "inserting"
<1>1. Simple!Next /\ UNCHANGED <<addr, sInputs>>
  BY DEF SHash, inputVars
<1>2. CASE Simple!Insert
  <2> DEFINE b == addr[sFn][sInputs[sItem]]
             e == [mIdx |-> sItem, mHashIdx |-> sFn]
             n == Len(sBins[b])
  <2>1. /\ sItem \in Slot /\ sFn \in HashIdx /\ sStatus = "inserting"
    BY <1>2 DEF Simple!Insert, Simple!Item, Slot, SimpleInv
  <2>2. b \in Bin /\ e \in SendEntry /\ sBins[b] \in Seq(SendEntry) /\ n \in Nat
    BY <2>1, InputTypes, LenProperties DEF SimpleInv, SendEntry
  <2>3. [h \in HashIdx |-> [i \in 1..SendSize |-> addr[h][sInputs[i]]]][sFn][sItem] = b
    BY <2>1 DEF Slot
  <2>4. sBins' = [sBins EXCEPT ![b] = Append(sBins[b], e)]
    BY <1>2, <2>3 DEF Simple!Insert, Simple!Entry
  <2>5. /\ sStatus' = sStatus
        /\ \/ sFn < 2 /\ sFn' = sFn + 1 /\ sItem' = sItem
           \/ sFn = 2 /\ sFn' = 0 /\ sItem' = sItem + 1
    BY <1>2 DEF Simple!Insert, Simple!LastFn
  <2>6. sItem' \in 1..SendSize + 1 /\ sFn' \in HashIdx
    BY <2>1, <2>5, Sizes DEF HashIdx, Slot
  <2>7. /\ \A j \in Slot, h \in HashIdx :
             Earlier(j, h, sItem', sFn') <=> Before(j, h) \/ (j = sItem /\ h = sFn)
        /\ ~ Before(sItem, sFn)
    BY <2>1, <2>5, Sizes DEF HashIdx, Slot, Before, Earlier
  <2>8. /\ sBins' \in [Bin -> Seq(SendEntry)]
        /\ \A c \in Bin : c # b => sBins'[c] = sBins[c]
        /\ Len(sBins'[b]) = n + 1 /\ sBins'[b][n + 1] = e
        /\ \A k \in 1..n : sBins'[b][k] = sBins[b][k]
    <3>1. sBins \in [Bin -> Seq(SendEntry)]
      BY DEF SimpleInv
    <3>2. Append(sBins[b], e) \in Seq(SendEntry) /\ Len(Append(sBins[b], e)) = n + 1
          /\ Append(sBins[b], e)[n + 1] = e
          /\ \A k \in 1..n : Append(sBins[b], e)[k] = sBins[b][k]
      BY <2>2
    <3>3. sBins'[b] = Append(sBins[b], e)
      BY <2>2, <2>4, <3>1
    <3> HIDE DEF b, e, n
    <3> QED
      BY <2>2, <2>4, <3>1, <3>2, <3>3
  <2> HIDE DEF b, e, n
  <2>9. \A c \in Bin : \A k \in 1..Len(sBins'[c]) :
          \/ k \in 1..Len(sBins[c]) /\ sBins'[c][k] = sBins[c][k]
          \/ c = b /\ k = n + 1 /\ sBins'[c][k] = e
    <3> SUFFICES ASSUME NEW c \in Bin, NEW k \in 1..Len(sBins'[c])
                 PROVE \/ k \in 1..Len(sBins[c]) /\ sBins'[c][k] = sBins[c][k]
                       \/ c = b /\ k = n + 1 /\ sBins'[c][k] = e
      OBVIOUS
    <3>1. CASE c # b
      BY <2>8, <3>1
    <3>2. CASE c = b
      <4>1. k \in 1..n \/ k = n + 1
        BY <2>2, <2>8, <3>2
      <4> QED
        BY <2>8, <3>2, <4>1 DEF n
    <3> QED
      BY <3>1, <3>2
  <2>10. \A c \in Bin : \A k \in 1..Len(sBins[c]) : sBins[c][k] # e /\ sBins[c][k] \in SendEntry
    <3> SUFFICES ASSUME NEW c \in Bin, NEW k \in 1..Len(sBins[c])
                 PROVE  sBins[c][k] # e /\ sBins[c][k] \in SendEntry
      OBVIOUS
    <3>1. Before(sBins[c][k].mIdx, sBins[c][k].mHashIdx)
      BY DEF SimpleInv
    <3>2. sBins[c][k] \in SendEntry
      BY ElementOfSeq DEF SimpleInv
    <3> QED
      BY <2>7, <3>1, <3>2 DEF e
  <2>11. \A c \in Bin : \A k \in 1..Len(sBins'[c]) :
           /\ addr[sBins'[c][k].mHashIdx][sInputs[sBins'[c][k].mIdx]] = c
           /\ Earlier(sBins'[c][k].mIdx, sBins'[c][k].mHashIdx, sItem', sFn')
    <3> SUFFICES ASSUME NEW c \in Bin, NEW k \in 1..Len(sBins'[c])
                 PROVE  /\ addr[sBins'[c][k].mHashIdx][sInputs[sBins'[c][k].mIdx]] = c
                        /\ Earlier(sBins'[c][k].mIdx, sBins'[c][k].mHashIdx, sItem', sFn')
      OBVIOUS
    <3>1. CASE k \in 1..Len(sBins[c]) /\ sBins'[c][k] = sBins[c][k]
      <4>1. sBins[c][k].mIdx \in Slot /\ sBins[c][k].mHashIdx \in HashIdx
        BY <2>10, <3>1 DEF SendEntry
      <4>2. /\ addr[sBins[c][k].mHashIdx][sInputs[sBins[c][k].mIdx]] = c
            /\ Before(sBins[c][k].mIdx, sBins[c][k].mHashIdx)
        BY <3>1 DEF SimpleInv
      <4>4. \A j \in Slot, h \in HashIdx : Before(j, h) => Earlier(j, h, sItem', sFn')
        BY <2>7
      <4> QED
        BY <3>1, <4>1, <4>2, <4>4
    <3>2. CASE c = b /\ sBins'[c][k] = e
      BY <2>1, <2>7, <3>2 DEF b, e
    <3> QED
      BY <2>9, <3>1, <3>2
  <2>12. \A c \in Bin : \A k, m \in 1..Len(sBins'[c]) : sBins'[c][k] = sBins'[c][m] => k = m
    <3>1. \A c \in Bin : \A k, m \in 1..Len(sBins[c]) : sBins[c][k] = sBins[c][m] => k = m
      BY DEF SimpleInv
    <3> QED
      BY <2>9, <2>10, <3>1
  <2>13. ASSUME NEW j \in Slot, NEW h \in HashIdx, Earlier(j, h, sItem', sFn')
         PROVE  \E k \in 1..Len(sBins'[addr[h][sInputs[j]]]) :
                  sBins'[addr[h][sInputs[j]]][k] = [mIdx |-> j, mHashIdx |-> h]
    <3>1. CASE j = sItem /\ h = sFn
      <4>1. n + 1 \in 1..Len(sBins'[b])
        BY <2>2, <2>8
      <4> QED
        BY <2>8, <3>1, <4>1 DEF b, e
    <3>2. CASE Before(j, h)
      <4> DEFINE c == addr[h][sInputs[j]]
      <4>1. c \in Bin
        BY InputTypes
      <4>2. PICK k \in 1..Len(sBins[c]) : sBins[c][k] = [mIdx |-> j, mHashIdx |-> h]
        BY <3>2 DEF SimpleInv
      <4> HIDE DEF c
      <4>3. k \in 1..Len(sBins'[c]) /\ sBins'[c][k] = sBins[c][k]
        <5>1. CASE c # b
          BY <2>8, <4>1, <5>1
        <5>2. CASE c = b
          BY <2>2, <2>8, <4>2, <5>2 DEF n
        <5> QED
          BY <5>1, <5>2
      <4> QED
        BY <4>2, <4>3 DEF c
    <3> QED
      BY <2>7, <2>13, <3>1, <3>2
  <2>14. sStatus' = "inserting"
    BY <2>1, <2>5
  <2> QED
    BY <1>1, <2>1, <2>6, <2>8, <2>11, <2>12, <2>13, <2>14 DEF SimpleInv, Before
<1>3. CASE Simple!Overflow
  <2>1. /\ sStatus = "inserting" /\ sStatus' = "thrown"
        /\ UNCHANGED <<sBins, sItem, sFn>>
    BY <1>3 DEF Simple!Overflow
  <2> QED
    BY <1>1, <2>1 DEF SimpleInv, Before
<1>4. CASE Simple!Return
  <2>1. /\ sStatus = "inserting" /\ sStatus' = "inserted"
        /\ UNCHANGED <<sBins, sItem, sFn>> /\ sItem \notin 1..SendSize
    BY <1>4 DEF Simple!Return, Simple!Item
  <2>2. sItem = SendSize + 1
    BY <2>1, Sizes DEF SimpleInv
  <2> QED
    BY <1>1, <2>1, <2>2 DEF SimpleInv, Before
<1> QED
  BY <1>1, <1>2, <1>3, <1>4 DEF Simple!Next

-----------------------------------------------------------------------------
(* The masks of one bin.                                                   *)

\* The items that function h names bin b for.
Here(h, b) == {j \in Slot : addr[h][sInputs[j]] = b}

\* Counting along a sequence the entries under a function gives each of them
\* its own number, up to the number of all.
LEMMA UnderCounts ==
  ASSUME NEW h, NEW entries, NEW n \in Nat
  PROVE  /\ IsFiniteSet(Under(h, entries, n)) /\ Cardinality(Under(h, entries, n)) \in Nat
         /\ \A k \in Under(h, entries, n) :
              Cardinality(Under(h, entries, k)) \in 1..Cardinality(Under(h, entries, n))
         /\ \A k, m \in Under(h, entries, n) :
              Cardinality(Under(h, entries, k)) = Cardinality(Under(h, entries, m)) => k = m
<1> DEFINE U(k) == Under(h, entries, k)
<1>1. \A k \in Nat : IsFiniteSet(U(k)) /\ Cardinality(U(k)) \in Nat
  <2> SUFFICES ASSUME NEW k \in Nat PROVE IsFiniteSet(U(k)) /\ Cardinality(U(k)) \in Nat
    OBVIOUS
  <2>1. IsFiniteSet(1..k)
    BY FS_Interval
  <2>2. U(k) \in SUBSET (1..k)
    BY DEF Under
  <2> QED
    BY <2>1, <2>2, FS_Subset, FS_CardinalityType
<1>2. ASSUME NEW k \in U(n), NEW m \in U(n), k < m
      PROVE  Cardinality(U(k)) < Cardinality(U(m))
  <2>1. k \in 1..n /\ m \in 1..n /\ entries[m].mHashIdx = h
    BY DEF Under
  <2>2. U(k) \in SUBSET U(m) /\ m \in U(m) /\ m \notin U(k)
    BY <1>2, <2>1 DEF Under
  <2>3. Cardinality(U(k)) <= Cardinality(U(m)) /\ Cardinality(U(m)) # Cardinality(U(k))
    BY <1>1, <2>1, <2>2, FS_Subset
  <2> QED
    BY <1>1, <2>1, <2>3
<1>3. ASSUME NEW k \in U(n)
      PROVE  Cardinality(U(k)) \in 1..Cardinality(U(n))
  <2>1. k \in 1..n /\ entries[k].mHashIdx = h
    BY DEF Under
  <2>2. U(k) \in SUBSET U(n) /\ k \in U(k)
    BY <2>1 DEF Under
  <2>3. Cardinality(U(k)) <= Cardinality(U(n))
    BY <1>1, <2>2, FS_Subset
  <2>4. Cardinality(U(k)) # 0
    BY <1>1, <2>1, <2>2, FS_EmptySet
  <2> QED
    BY <1>1, <2>1, <2>3, <2>4
<1>4. \A k \in U(n) : k \in Nat /\ Cardinality(U(k)) \in Nat
  BY <1>1 DEF Under
<1>5. \A k, m \in U(n) : Cardinality(U(k)) = Cardinality(U(m)) => k = m
  <2> SUFFICES ASSUME NEW k \in U(n), NEW m \in U(n), Cardinality(U(k)) = Cardinality(U(m))
               PROVE  k = m
    OBVIOUS
  <2>1. ~ (k < m) /\ ~ (m < k)
    BY <1>2, <1>4
  <2> QED
    BY <1>4, <2>1
<1> QED
  BY <1>1, <1>3, <1>5

\* A full table of the sender has in every bin the items that belong there.
LEMMA BinHolds ==
  ASSUME Inputs, SimpleInv, sStatus = "inserted", NEW b \in Bin, NEW h \in HashIdx
  PROVE  LET U == Under(h, sBins[b], Len(sBins[b]))
         IN  /\ Len(sBins[b]) \in Nat
             /\ \A k \in U : sBins[b][k].mIdx \in Here(h, b) /\ sBins[b][k].mHashIdx = h
             /\ \A j \in Here(h, b) : \E k \in U : sBins[b][k].mIdx = j
             /\ \A k, m \in U : sBins[b][k].mIdx = sBins[b][m].mIdx => k = m
             /\ IsFiniteSet(Here(h, b)) /\ Cardinality(Here(h, b)) = Cardinality(U)
<1> DEFINE n == Len(sBins[b])
           U == Under(h, sBins[b], n)
<1>1. sBins[b] \in Seq(SendEntry) /\ n \in Nat
  BY LenProperties DEF SimpleInv
<1>2. \A k \in U : k \in 1..n /\ sBins[b][k] \in SendEntry /\ sBins[b][k].mHashIdx = h
  BY <1>1, ElementOfSeq DEF Under
<1>3. \A k \in U : sBins[b][k].mIdx \in Here(h, b)
  BY <1>2 DEF SimpleInv, SendEntry, Here
<1>4. ASSUME NEW j \in Here(h, b) PROVE \E k \in U : sBins[b][k].mIdx = j
  <2>1. j \in Slot /\ addr[h][sInputs[j]] = b
    BY DEF Here
  <2>2. Before(j, h)
    BY <2>1, Sizes DEF SimpleInv, Before, Earlier, Slot
  <2>3. PICK k \in 1..n : sBins[b][k] = [mIdx |-> j, mHashIdx |-> h]
    BY <2>1, <2>2 DEF SimpleInv
  <2> QED
    BY <2>3 DEF Under
<1>5. ASSUME NEW k \in U, NEW m \in U, sBins[b][k].mIdx = sBins[b][m].mIdx PROVE k = m
  <2>1. sBins[b][k] = sBins[b][m]
    BY <1>2, <1>5 DEF SendEntry
  <2> QED
    BY <1>2, <2>1 DEF SimpleInv
<1>6. PICK f : f = [k \in U |-> sBins[b][k].mIdx]
  OBVIOUS
<1>7. f \in Bijection(U, Here(h, b))
  <2>1. f \in [U -> Here(h, b)]
    BY <1>3, <1>6
  <2>2. \A k, m \in U : f[k] = f[m] => k = m
    BY <1>5, <1>6
  <2>3. \A j \in Here(h, b) : \E k \in U : f[k] = j
    BY <1>4, <1>6
  <2> QED
    BY <2>1, <2>2, <2>3 DEF Bijection, Injection, Surjection, IsInjective
<1>8. IsFiniteSet(Here(h, b)) /\ Cardinality(Here(h, b)) = Cardinality(U)
  BY <1>1, <1>7, UnderCounts, FS_Bijection DEF ExistsBijection
<1> QED
  BY <1>1, <1>2, <1>3, <1>4, <1>5, <1>8

\* The items of bins before b, and those of bin b.
LEMMA MaskedGrows ==
  ASSUME Inputs, NEW h \in HashIdx, NEW b \in Bin
  PROVE  LET before == {j \in Slot : addr[h][sInputs[j]] < b}
             upto == {j \in Slot : addr[h][sInputs[j]] < b + 1}
         IN  /\ upto = before \cup Here(h, b) /\ before \cap Here(h, b) = {}
             /\ Cardinality(before) \in Nat /\ Cardinality(Here(h, b)) \in Nat
             /\ Cardinality(upto) = Cardinality(before) + Cardinality(Here(h, b))
             /\ Cardinality(upto) <= SendSize
<1> DEFINE before == {j \in Slot : addr[h][sInputs[j]] < b}
           upto == {j \in Slot : addr[h][sInputs[j]] < b + 1}
<1>1. \A j \in Slot : addr[h][sInputs[j]] \in Nat
  BY InputTypes, Sizes DEF Bin
<1>2. b \in Nat
  BY Sizes DEF Bin
<1>3. upto = before \cup Here(h, b) /\ before \cap Here(h, b) = {}
  BY <1>1, <1>2 DEF Here
<1>4. before \in SUBSET Slot /\ Here(h, b) \in SUBSET Slot /\ upto \in SUBSET Slot
  BY DEF Here
<1>5. /\ IsFiniteSet(before) /\ IsFiniteSet(Here(h, b))
      /\ Cardinality(upto) <= Cardinality(Slot)
  BY <1>4, SlotCount, FS_Subset
<1>6. /\ Cardinality(before) \in Nat /\ Cardinality(Here(h, b)) \in Nat
      /\ Cardinality(before \cup Here(h, b))
           = Cardinality(before) + Cardinality(Here(h, b)) - Cardinality(before \cap Here(h, b))
  BY <1>5, FS_CardinalityType, FS_Union
<1>7. Cardinality(before \cap Here(h, b)) = 0
  BY <1>3, FS_EmptySet
<1>8. Cardinality(upto) = Cardinality(before) + Cardinality(Here(h, b))
  <2> HIDE DEF before, upto
  <2> QED
    BY <1>3, <1>6, <1>7
<1> QED
  BY <1>3, <1>5, <1>6, <1>8, SlotCount

LEMMA MaskBinStep ==
  ASSUME Inputs, SimpleInv, sStatus = "inserted", Placed, Masks,
         sPhase = "bins", sStep \in Bin, Head(theirCorrOT) = CorrAt(sStep), MaskBin
  PROVE  Masks'
<1> DEFINE entries == sBins[sStep]
           n == Len(entries)
           U(h) == Under(h, entries, n)
           at(h, k) == idxPermuteDone[h] + Cardinality(Under(h, entries, k))
           of(h, j) == CHOOSE k \in U(h) : entries[k].mIdx = j
<1>1. PICK pos \in [HashIdx -> [Slot -> Slot]] : \A h \in HashIdx : MasksAt(pos, h)
  BY DEF Masks
<1>2. PICK q : q = [h \in HashIdx |-> [j \in Slot |->
                     IF addr[h][sInputs[j]] = sStep THEN at(h, of(h, j)) ELSE pos[h][j]]]
  OBVIOUS
<1>3. /\ sStep \in Nat /\ NumBin \in Nat
      /\ UNCHANGED <<addr, sInputs, rInputs, rBins, rStash>> /\ sStep' = sStep + 1
      /\ sPhase' = IF sStep + 1 < NumBin THEN sPhase ELSE "masks"
  BY Sizes DEF MaskBin, inputVars, rHashVars, Bin
<1>4. sDone = sStep /\ sDone' = sStep + 1
  BY <1>3 DEF sDone, Bin
<1>5. \A h \in HashIdx : Masked(h) = {j \in Slot : addr[h][sInputs[j]] < sStep}
                         /\ Masked(h)' = {j \in Slot : addr[h][sInputs[j]] < sStep + 1}
  BY <1>3, <1>4 DEF Masked
<1>6. \A h \in HashIdx, j \in Slot : MaskOf(h, j)' = MaskOf(h, j)
  BY <1>3 DEF MaskOf, CorrAt, CorrectionOf, EntryAt, Cuckoo!IsEmpty, Cuckoo!NoItem
<1>7. /\ idxPermuteDone' = [h \in HashIdx |-> idxPermuteDone[h] + Cardinality(U(h))]
      /\ myMaskBuff' = [h \in HashIdx |-> [slot \in Slot |->
           IF \E k \in U(h) : Permute[h][at(h, k)] = slot
           THEN LET k == CHOOSE k \in U(h) : Permute[h][at(h, k)] = slot
                IN BinMask(entries[k].mHashIdx,
                           Encoded(sInputs[entries[k].mIdx], sStep, CorrAt(sStep)))
           ELSE myMaskBuff[h][slot]]]
  BY DEF MaskBin, SlotOf
<1>8. ASSUME NEW h \in HashIdx
      PROVE  /\ \A k \in U(h) : at(h, k) \in Slot /\ at(h, k) > idxPermuteDone[h]
                                /\ at(h, k) <= idxPermuteDone'[h]
             /\ \A k, m \in U(h) : at(h, k) = at(h, m) => k = m
             /\ \A j \in Here(h, sStep) : of(h, j) \in U(h) /\ entries[of(h, j)].mIdx = j
             /\ \A k \in U(h) : entries[k].mIdx \in Here(h, sStep) /\ entries[k].mHashIdx = h
             /\ idxPermuteDone[h] \in Nat
             /\ idxPermuteDone'[h] = Cardinality(Masked(h)')
             /\ Masked(h)' = Masked(h) \cup Here(h, sStep) /\ Masked(h) \cap Here(h, sStep) = {}
  <2>1. /\ n \in Nat
        /\ \A k \in U(h) : entries[k].mIdx \in Here(h, sStep) /\ entries[k].mHashIdx = h
        /\ \A j \in Here(h, sStep) : \E k \in U(h) : entries[k].mIdx = j
        /\ Cardinality(Here(h, sStep)) = Cardinality(U(h))
    BY BinHolds
  <2>2. \A k \in U(h) : Cardinality(Under(h, entries, k)) \in 1..Cardinality(U(h))
    BY <2>1, UnderCounts
  <2>3. \A k, m \in U(h) :
          Cardinality(Under(h, entries, k)) = Cardinality(Under(h, entries, m)) => k = m
    BY <2>1, UnderCounts
  <2>4. idxPermuteDone[h] = Cardinality(Masked(h))
    BY <1>1 DEF MasksAt
  <2>5. /\ Masked(h)' = Masked(h) \cup Here(h, sStep) /\ Masked(h) \cap Here(h, sStep) = {}
        /\ Cardinality(Masked(h)) \in Nat /\ Cardinality(Here(h, sStep)) \in Nat
        /\ Cardinality(Masked(h)') = Cardinality(Masked(h)) + Cardinality(Here(h, sStep))
        /\ Cardinality(Masked(h)') <= SendSize
    BY <1>5, MaskedGrows
  <2>6. idxPermuteDone'[h] = idxPermuteDone[h] + Cardinality(U(h))
    BY <1>7
  <2>7. \A j \in Here(h, sStep) : of(h, j) \in U(h) /\ entries[of(h, j)].mIdx = j
    BY <2>1
  <2>8. \A x \in 1..Cardinality(U(h)) :
          idxPermuteDone[h] + x \in Slot /\ idxPermuteDone[h] + x > idxPermuteDone[h]
          /\ idxPermuteDone[h] + x <= idxPermuteDone'[h]
    <3> DEFINE c == Cardinality(U(h))
               d == idxPermuteDone[h]
               e == idxPermuteDone'[h]
    <3>1. d \in Nat /\ c \in Nat /\ e = d + c /\ e <= SendSize
      BY <1>7, <2>1, <2>4, <2>5, <2>6
    <3> HIDE DEF c, d, e
    <3>2. \A x \in 1..c : d + x \in 1..SendSize /\ d + x > d /\ d + x <= e
      BY <3>1, Sizes
    <3> QED
      BY <3>2 DEF c, d, e, Slot
  <2>9. idxPermuteDone[h] \in Nat
    BY <2>4, <2>5
  <2>10. \A k, m \in U(h) : at(h, k) = at(h, m) => k = m
    <3> SUFFICES ASSUME NEW k \in U(h), NEW m \in U(h), at(h, k) = at(h, m) PROVE k = m
      OBVIOUS
    <3>1. Cardinality(Under(h, entries, k)) = Cardinality(Under(h, entries, m))
      BY <2>2, <2>9
    <3> QED
      BY <2>3, <3>1
  <2> QED
    BY <2>1, <2>2, <2>4, <2>5, <2>6, <2>7, <2>8, <2>9, <2>10
<1> HIDE DEF entries, n, U, at, of
<1>9. ASSUME NEW h \in HashIdx, NEW k \in U(h)
      PROVE  myMaskBuff'[h][Permute[h][at(h, k)]] = MaskOf(h, entries[k].mIdx)
  <2>1. Permutes(Permute[h])
    BY PermuteAssumption
  <2>2. Permute[h][at(h, k)] \in Slot
    BY <1>8, <2>1 DEF Permutes
  <2>3. \A m \in U(h) : Permute[h][at(h, m)] = Permute[h][at(h, k)] => m = k
    BY <1>8, <2>1 DEF Permutes
  <2>4. (CHOOSE m \in U(h) : Permute[h][at(h, m)] = Permute[h][at(h, k)]) = k
    BY <2>3
  <2>5. myMaskBuff'[h][Permute[h][at(h, k)]]
          = BinMask(entries[k].mHashIdx,
                    Encoded(sInputs[entries[k].mIdx], sStep, CorrAt(sStep)))
    BY <1>7, <2>2, <2>4
  <2>6. entries[k].mHashIdx = h /\ addr[h][sInputs[entries[k].mIdx]] = sStep
    BY <1>8 DEF Here
  <2> QED
    BY <2>5, <2>6 DEF MaskOf
<1>10. ASSUME NEW h \in HashIdx, NEW j \in Masked(h)
       PROVE  myMaskBuff'[h][Permute[h][pos[h][j]]] = MaskOf(h, j)
  <2>1. Permutes(Permute[h])
    BY PermuteAssumption
  <2>2. j \in Slot /\ pos[h][j] \in Slot /\ pos[h][j] <= idxPermuteDone[h]
        /\ myMaskBuff[h][Permute[h][pos[h][j]]] = MaskOf(h, j)
    <3>1. j \in Slot
      BY DEF Masked
    <3> QED
      BY <1>1, <3>1 DEF MasksAt
  <2>3. \A k \in U(h) : at(h, k) # pos[h][j]
    <3> SUFFICES ASSUME NEW k \in U(h) PROVE at(h, k) # pos[h][j]
      OBVIOUS
    <3>1. at(h, k) \in Nat /\ pos[h][j] \in Nat
      BY <1>8, <2>2 DEF Slot
    <3> QED
      BY <1>8, <2>2, <3>1
  <2>4. \A k \in U(h) : Permute[h][at(h, k)] # Permute[h][pos[h][j]]
    BY <1>8, <2>1, <2>2, <2>3 DEF Permutes
  <2>5. Permute[h][pos[h][j]] \in Slot
    BY <2>1, <2>2 DEF Permutes
  <2> QED
    BY <1>7, <2>2, <2>4, <2>5
<1>11. q \in [HashIdx -> [Slot -> Slot]]
  <2>1. \A h \in HashIdx, j \in Slot : addr[h][sInputs[j]] = sStep => at(h, of(h, j)) \in Slot
    BY <1>8 DEF Here
  <2> QED
    BY <1>1, <1>2, <2>1
<1>12. ASSUME NEW h \in HashIdx
       PROVE  /\ \A j \in Here(h, sStep) : q[h][j] = at(h, of(h, j))
              /\ \A j \in Masked(h) : q[h][j] = pos[h][j] /\ pos[h][j] <= idxPermuteDone[h]
  <2>1. \A j \in Here(h, sStep) : j \in Slot /\ addr[h][sInputs[j]] = sStep
    BY DEF Here
  <2>2. \A j \in Masked(h) : j \in Slot /\ addr[h][sInputs[j]] # sStep
    BY <1>8 DEF Here, Masked
  <2>3. \A j \in Masked(h) : pos[h][j] <= idxPermuteDone[h]
    BY <1>1 DEF MasksAt
  <2> QED
    BY <1>2, <2>1, <2>2, <2>3
<1>13. ASSUME NEW h \in HashIdx PROVE MasksAt(q, h)'
  <2>1. idxPermuteDone'[h] = Cardinality(Masked(h)')
    BY <1>8
  <2>2. ASSUME NEW j \in Masked(h)'
        PROVE  /\ q[h][j] <= idxPermuteDone'[h]
               /\ myMaskBuff'[h][Permute[h][q[h][j]]] = MaskOf(h, j)'
    <3>1. CASE j \in Here(h, sStep)
      <4>1. of(h, j) \in U(h) /\ entries[of(h, j)].mIdx = j
        BY <1>8, <3>1
      <4>2. at(h, of(h, j)) <= idxPermuteDone'[h]
        BY <1>8, <4>1
      <4>3. myMaskBuff'[h][Permute[h][at(h, of(h, j))]] = MaskOf(h, j)
        BY <1>9, <4>1
      <4>4. MaskOf(h, j)' = MaskOf(h, j)
        BY <1>6, <3>1 DEF Here
      <4> QED
        BY <1>12, <3>1, <4>2, <4>3, <4>4
    <3>2. CASE j \in Masked(h)
      <4>1. pos[h][j] <= idxPermuteDone[h] /\ pos[h][j] \in Nat
        <5>1. j \in Slot
          BY <3>2 DEF Masked
        <5>2. pos[h][j] \in Slot
          BY <1>1, <5>1
        <5> QED
          BY <1>12, <3>2, <5>2 DEF Slot
      <4>2. idxPermuteDone[h] <= idxPermuteDone'[h] /\ idxPermuteDone[h] \in Nat
            /\ idxPermuteDone'[h] \in Nat
        <5>1. idxPermuteDone'[h] = idxPermuteDone[h] + Cardinality(U(h))
          BY <1>7
        <5>2. Cardinality(U(h)) \in Nat /\ idxPermuteDone[h] \in Nat
          BY <1>8, BinHolds, UnderCounts DEF U, entries, n
        <5> QED
          BY <5>1, <5>2
      <4>3. MaskOf(h, j)' = MaskOf(h, j)
        BY <1>6, <3>2 DEF Masked
      <4>4. q[h][j] <= idxPermuteDone'[h]
        BY <1>12, <3>2, <4>1, <4>2
      <4> QED
        BY <1>10, <1>12, <3>2, <4>3, <4>4
    <3> QED
      BY <1>8, <2>2, <3>1, <3>2
  <2>3. ASSUME NEW j \in Masked(h)', NEW k \in Masked(h)', q[h][j] = q[h][k]
        PROVE  j = k
    <3>1. CASE j \in Here(h, sStep) /\ k \in Here(h, sStep)
      BY <1>8, <1>12, <2>3, <3>1
    <3>2. CASE j \in Masked(h) /\ k \in Masked(h)
      BY <1>1, <1>12, <2>3, <3>2 DEF MasksAt
    <3>3. ASSUME NEW a \in Here(h, sStep), NEW b \in Masked(h) PROVE q[h][a] # q[h][b]
      <4>1. at(h, of(h, a)) \in Nat /\ at(h, of(h, a)) > idxPermuteDone[h]
            /\ idxPermuteDone[h] \in Nat
        BY <1>8 DEF Slot
      <4>2. pos[h][b] \in Nat /\ pos[h][b] <= idxPermuteDone[h]
        <5>1. b \in Slot
          BY DEF Masked
        <5>2. pos[h][b] \in Slot
          BY <1>1, <5>1
        <5> QED
          BY <1>12, <5>2 DEF Slot
      <4> QED
        BY <1>12, <4>1, <4>2
    <3> QED
      BY <1>8, <2>3, <3>1, <3>2, <3>3
  <2> QED
    BY <2>1, <2>2, <2>3 DEF MasksAt
<1>14. myMaskBuff' \in [HashIdx -> [Slot -> Mask]]
  <2>1. ASSUME NEW h \in HashIdx, NEW slot \in Slot PROVE myMaskBuff'[h][slot] \in Mask
    <3>1. CASE \E k \in U(h) : Permute[h][at(h, k)] = slot
      <4>1. PICK k \in U(h) : Permute[h][at(h, k)] = slot
        BY <3>1
      <4>2. entries[k].mIdx \in Slot
        BY <1>8 DEF Here
      <4>3. 0 \in Stash
        BY Sizes DEF Stash
      <4> QED
        BY <1>9, <4>1, <4>2, <4>3, MasksTyped
    <3>2. CASE ~ \E k \in U(h) : Permute[h][at(h, k)] = slot
      <4>1. myMaskBuff[h][slot] \in Mask
        BY DEF Masks
      <4> QED
        BY <1>7, <3>2, <4>1
    <3> QED
      BY <3>1, <3>2
  <2>2. \A h \in HashIdx : DOMAIN myMaskBuff' = HashIdx /\ myMaskBuff'[h] = [slot \in Slot |-> myMaskBuff'[h][slot]]
    BY <1>7
  <2> QED
    BY <1>7, <2>1, <2>2
<1>15. idxPermuteDone' = [h \in HashIdx |-> idxPermuteDone'[h]]
  BY <1>7
<1> QED
  BY <1>11, <1>13, <1>14, <1>15 DEF Masks

-----------------------------------------------------------------------------
(* Complete messages of masks.                                             *)

LEMMA AllMasked ==
  ASSUME Inputs, Masks, sPhase # "bins", NEW h \in HashIdx
  PROVE  /\ idxPermuteDone[h] = SendSize
         /\ \E f : Permutes(f) /\ \A j \in Slot : myMaskBuff[h][f[j]] = MaskOf(h, j)
<1>1. PICK pos \in [HashIdx -> [Slot -> Slot]] : \A g \in HashIdx : MasksAt(pos, g)
  BY DEF Masks
<1>2. Masked(h) = Slot
  <2>1. \A j \in Slot : addr[h][sInputs[j]] < NumBin
    BY InputTypes, Sizes DEF Bin
  <2> QED
    BY <2>1 DEF Masked, sDone
<1>3. idxPermuteDone[h] = SendSize
  BY <1>1, <1>2, SlotCount DEF MasksAt
<1>4. PICK f : f = [j \in Slot |-> Permute[h][pos[h][j]]]
  OBVIOUS
<1>5. Permutes(Permute[h])
  BY PermuteAssumption
<1>6. \A j \in Slot : pos[h][j] \in Slot /\ f[j] = Permute[h][pos[h][j]]
  BY <1>1, <1>4
<1>7. \A j, k \in Slot : pos[h][j] = pos[h][k] => j = k
  BY <1>1, <1>2 DEF MasksAt
<1>8. Permutes(f)
  BY <1>4, <1>5, <1>6, <1>7 DEF Permutes
<1>9. \A j \in Slot : myMaskBuff[h][f[j]] = MaskOf(h, j)
  BY <1>1, <1>2, <1>6 DEF MasksAt
<1> QED
  BY <1>3, <1>8, <1>9

\* The receiver finds its mask for a bin, or a place of the stash, among those
\* of the sender once or never.
LEMMA BinCounted ==
  ASSUME Inputs, Placed, Masks, sPhase # "bins", NEW b \in Bin, rBins[b].mIdx # 0
  PROVE  Count(BinMask(rBins[b].mHashIdx, T0[b]), myMaskBuff[rBins[b].mHashIdx])
           = IF Common(rBins[b].mIdx) THEN 1 ELSE 0
<1> DEFINE h == rBins[b].mHashIdx
           w == rInputs[rBins[b].mIdx]
           m == BinMask(h, T0[b])
<1>1. b \in Ot /\ EntryAt(b) = rBins[b]
  BY OtSplit
<1>2. h \in HashIdx /\ w \in Value /\ addr[h][w] = b
  BY <1>1, CorrTypes DEF Placed
<1>3. PICK f : Permutes(f) /\ \A j \in Slot : myMaskBuff[h][f[j]] = MaskOf(h, j)
  BY <1>2, AllMasked
<1>4. ASSUME NEW j \in Slot PROVE MaskOf(h, j) = m <=> sInputs[j] = w
  <2>1. sInputs[j] \in Value /\ addr[h][sInputs[j]] \in Ot
    BY <1>2, InputTypes
  <2>2. MaskOf(h, j) = m <=>
          Prefix(Encoded(sInputs[j], addr[h][sInputs[j]], CorrAt(addr[h][sInputs[j]])))
            = Prefix(T0[b])
    BY MasksDiffer DEF MaskOf
  <2>3. MaskOf(h, j) = m <=> addr[h][sInputs[j]] = b /\ sInputs[j] = w
    BY <1>1, <2>1, <2>2, MasksMeet
  <2> QED
    BY <1>2, <2>3
<1>5. DOMAIN myMaskBuff[h] = Slot
  BY <1>2 DEF Masks
<1>6. sInputs \in SendSets
  BY DEF Inputs
<1> HIDE DEF h, w, m
<1>7. \A j \in Slot : myMaskBuff[h][f[j]] = m <=> sInputs[j] = w
  BY <1>3, <1>4
<1>8. MaskedOnlyFor(myMaskBuff[h], m, sInputs, w)
  BY <1>3, <1>5, <1>6, <1>7 DEF MaskedOnlyFor
<1>9. Count(m, myMaskBuff[h]) = IF Has(sInputs, w) THEN 1 ELSE 0
  BY <1>8, CountIsOne
<1> QED
  BY <1>9 DEF h, w, m, Common, Has

LEMMA StashCounted ==
  ASSUME Inputs, Placed, NEW s \in Stash, EntryAt(NumBin + s).mIdx # 0
  PROVE  Count(StashMask(T0[NumBin + s]), StashOut(s))
           = IF Common(EntryAt(NumBin + s).mIdx) THEN 1 ELSE 0
<1> DEFINE p == NumBin + s
           w == rInputs[EntryAt(p).mIdx]
           m == StashMask(T0[p])
           f == StashPermute[s]
<1>1. p \in Ot
  BY Sizes DEF Ot, Stash
<1>2. w \in Value
  BY <1>1, CorrTypes
<1>3. Permutes(f)
  BY PermuteAssumption
<1>4. ASSUME NEW j \in Slot PROVE StashOut(s)[f[j]] = m <=> sInputs[j] = w
  <2>1. f[j] \in Slot /\ \A k \in Slot : f[k] = f[j] => k = j
    BY <1>3 DEF Permutes
  <2>2. (CHOOSE k \in Slot : f[k] = f[j]) = j
    BY <2>1
  <2>3. StashOut(s)[f[j]] = StashMask(Encoded(sInputs[j], p, CorrAt(p)))
    BY <2>1, <2>2 DEF StashOut, StashOutFor
  <2>4. sInputs[j] \in Value
    BY InputTypes
  <2> QED
    BY <1>1, <2>3, <2>4, MasksDiffer, MasksMeet
<1>5. DOMAIN StashOut(s) = Slot
  BY DEF StashOut, StashOutFor
<1>6. sInputs \in SendSets
  BY DEF Inputs
<1> HIDE DEF p, w, m, f
<1>8. MaskedOnlyFor(StashOut(s), m, sInputs, w)
  BY <1>3, <1>4, <1>5, <1>6 DEF MaskedOnlyFor
<1>9. Count(m, StashOut(s)) = IF Has(sInputs, w) THEN 1 ELSE 0
  BY <1>8, CountIsOne
<1> QED
  BY <1>9 DEF p, w, m, Common, Has

-----------------------------------------------------------------------------
(* What a step leaves alone.                                               *)

Frozen == UNCHANGED <<inputVars, rHashVars, sHashVars>>

LEMMA FrozenKeeps ==
  ASSUME Inputs, Tables, SimpleInv, Frozen
  PROVE  /\ Inputs' /\ Tables' /\ SimpleInv'
         /\ UNCHANGED <<addr, rInputs, sInputs, rBins, rStash, rInserted, sStatus>>
<1>1. UNCHANGED <<addr, rInputs, sInputs, rBins, rStash, rNext, rHand, rInserted,
                  sBins, sItem, sFn, sStatus>>
  BY DEF Frozen, inputVars, rHashVars, sHashVars
<1>2. C!CuckooAssumption
  BY SizeAssumption DEF C!CuckooAssumption
<1>3. UNCHANGED C!vars
  BY <1>1 DEF C!vars
<1>4. C!IInv'
  BY <1>2, <1>3, C!NextKeepsIInv DEF Tables
<1>5. Tables'
  BY <1>1, <1>4 DEF Tables
<1>6. SimpleInv'
  BY <1>1 DEF SimpleInv, Before
<1>7. Inputs'
  BY <1>1 DEF Inputs
<1> QED
  BY <1>1, <1>5, <1>6, <1>7

LEMMA SameAt ==
  ASSUME UNCHANGED <<addr, rInputs, sInputs, rBins, rStash>>
  PROVE  /\ \A p : EntryAt(p)' = EntryAt(p) /\ CorrAt(p)' = CorrAt(p)
         /\ \A p : CorrMsg(p)' = CorrMsg(p)
         /\ \A h, j : MaskOf(h, j)' = MaskOf(h, j)
         /\ \A s : StashOut(s)' = StashOut(s)
         /\ \A i : Common(i)' = Common(i)
<1>1. \A p : EntryAt(p)' = EntryAt(p)
  BY DEF EntryAt
<1>2. \A p : CorrAt(p)' = CorrAt(p)
  BY DEF CorrAt, CorrectionOf, EntryAt, Cuckoo!IsEmpty, Cuckoo!NoItem
<1>3. \A p : CorrMsg(p)' = CorrMsg(p)
  BY <1>2 DEF CorrMsg
<1>4. \A h, j : MaskOf(h, j)' = MaskOf(h, j)
  BY <1>2 DEF MaskOf
<1>5. \A s : StashOut(s)' = StashOut(s)
  BY <1>2 DEF StashOut, StashOutFor
<1>6. \A i : Common(i)' = Common(i)
  BY DEF Common
<1> QED
  BY <1>1, <1>2, <1>3, <1>4, <1>5, <1>6

LEMMA MasksFrame ==
  ASSUME Masks, UNCHANGED <<addr, rInputs, sInputs, rBins, rStash, myMaskBuff, idxPermuteDone>>,
         sDone' = sDone
  PROVE  Masks'
<1>1. PICK pos \in [HashIdx -> [Slot -> Slot]] : \A h \in HashIdx : MasksAt(pos, h)
  BY DEF Masks
<1>2. \A h \in HashIdx : Masked(h)' = Masked(h)
  BY DEF Masked
<1>3. \A h \in HashIdx : MasksAt(pos, h)'
  BY <1>1, <1>2, SameAt DEF MasksAt
<1> QED
  BY <1>1, <1>3 DEF Masks

LEMMA LocalFrame ==
  ASSUME Local, UNCHANGED <<rBins, localMasks>>, rSent' = rSent
  PROVE  Local'
BY DEF Local, LocalAt, Cuckoo!Entry

\* What has been looked at stays; only RecvMasks and RecvStashMasks add to it.
LEMMA ResultFrame ==
  ASSUME Result, UNCHANGED <<addr, rInputs, sInputs, rBins, rStash, mIntersection>>,
         \A p \in Ot : Looked(p)' <=> Looked(p)
  PROVE  Result'
<1>1. \A i \in RecvItem : (Common(i)' <=> Common(i)) /\ (Seen(i)' <=> Seen(i))
  BY SameAt DEF Seen
<1> QED
  BY <1>1 DEF Result

-----------------------------------------------------------------------------
(* The channel.                                                            *)

LEMMA HeadTail ==
  ASSUME NEW S, NEW q \in Seq(S), q # <<>>
  PROVE  /\ Head(q) = q[1] /\ Head(q) \in S /\ Len(q) \in Nat \ {0}
         /\ Tail(q) \in Seq(S) /\ Len(Tail(q)) = Len(q) - 1
         /\ \A k \in 1..Len(q) - 1 : Tail(q)[k] = q[k + 1]
<1>1. Len(q) \in Nat \ {0}
  BY EmptySeq
<1>2. Head(q) = q[1]
  OBVIOUS
<1> QED
  BY <1>1, <1>2, HeadTailProperties

LEMMA Appended ==
  ASSUME NEW S, NEW q \in Seq(S), NEW e \in S
  PROVE  /\ Append(q, e) \in Seq(S) /\ Len(Append(q, e)) = Len(q) + 1 /\ Len(q) \in Nat
         /\ Append(q, e)[Len(q) + 1] = e
         /\ \A k \in 1..Len(q) : Append(q, e)[k] = q[k]
OBVIOUS

LEMMA CountedSeq ==
  ASSUME NEW S, NEW n \in Nat, NEW f \in [1..n -> S]
  PROVE  f \in Seq(S) /\ Len(f) = n
OBVIOUS

LEMMA Widths ==
  ASSUME NEW p \in Nat, p <= NumBin
  PROVE  /\ Width(p) \in Nat \ {0}
         /\ p < NumBin => /\ Width(p) = BatchSize(p) /\ p + Width(p) <= NumBin
                          /\ p + Width(p) = NumBin \/ Width(p) = StepSize
         /\ p = NumBin => Width(p) = MaxStash /\ p + Width(p) = NumBin + MaxStash
BY Sizes DEF Width, BatchSize

LEMMA CorrMsgTyped ==
  ASSUME Inputs, Placed, NEW p \in Nat, p <= NumBin
  PROVE  /\ CorrMsg(p) \in Seq(Block) /\ Len(CorrMsg(p)) = Width(p)
         /\ \A k \in 1..Width(p) : CorrMsg(p)[k] = CorrAt(p + k - 1)
<1>1. Width(p) \in Nat /\ p + Width(p) <= NumBin + MaxStash
  BY Widths, Sizes
<1>2. \A k \in 1..Width(p) : p + k - 1 \in Ot
  BY <1>1, Sizes DEF Ot
<1>3. CorrMsg(p) \in [1..Width(p) -> Block]
  BY <1>2, CorrTypes DEF CorrMsg
<1> QED
  BY <1>1, <1>3, CountedSeq DEF CorrMsg

LEMMA Positions ==
  ASSUME ReceiverAt, SenderAt
  PROVE  /\ rPos \in 0..NumBin + MaxStash /\ sPos \in 0..NumBin + MaxStash
         /\ rIn \in Nat /\ sOut \in Nat
<1>1. Len(theirCorrOT) \in Nat
  BY DEF SenderAt
<1>2. rPos \in 0..NumBin + MaxStash /\ rIn \in Nat
  BY Sizes DEF ReceiverAt, rPos, rIn, HashIdx
<1>3. sPos \in 0..NumBin + MaxStash /\ sOut \in Nat
  BY <1>1, Sizes DEF SenderAt, sPos, sOut
<1> QED
  BY <1>2, <1>3

\* The sender takes the corrections for the position it has come to.
LEMMA FirstCorrections ==
  ASSUME Inputs, Tables, Corrections, toSender # <<>>
  PROVE  /\ rInserted /\ Placed
         /\ sPos \in Nat /\ sPos <= NumBin
         /\ Head(toSender) = CorrMsg(sPos)
<1>1. PICK st \in [1..Len(toSender) + 1 -> 0..NumBin + MaxStash] : ToSender(st)
  BY DEF Corrections
<1>2. Head(toSender) = toSender[1] /\ Len(toSender) \in Nat \ {0}
  BY HeadTail DEF Corrections
<1>3. 1 \in 1..Len(toSender)
  BY <1>2
<1>4. st[1] = sPos /\ st[1] <= NumBin /\ toSender[1] = CorrMsg(st[1])
  BY <1>1, <1>3 DEF ToSender
<1>5. st[1] \in Nat
  BY <1>1, <1>2
<1>6. rInserted
  BY DEF Corrections
<1> QED
  BY <1>2, <1>4, <1>5, <1>6, TablePlaced

LEMMA TakeCorrections ==
  ASSUME Corrections, toSender # <<>>, toSender' = Tail(toSender),
         UNCHANGED <<addr, rInputs, sInputs, rBins, rStash, rInserted>>,
         rPos' = rPos, sPos' = sPos + Width(sPos)
  PROVE  Corrections'
<1>1. PICK st \in [1..Len(toSender) + 1 -> 0..NumBin + MaxStash] : ToSender(st)
  BY DEF Corrections
<1> DEFINE n == Len(toSender)
<1>2. /\ n \in Nat \ {0} /\ toSender' \in Seq(Seq(Block)) /\ Len(toSender') = n - 1
      /\ \A k \in 1..n - 1 : toSender'[k] = toSender[k + 1]
  BY HeadTail DEF Corrections
<1>3. PICK ts : ts = [k \in 1..n |-> st[k + 1]]
  OBVIOUS
<1>4. ts \in [1..Len(toSender') + 1 -> 0..NumBin + MaxStash]
  <2>1. \A k \in 1..n : st[k + 1] \in 0..NumBin + MaxStash
    <3>1. \A k \in 1..n + 1 : st[k] \in 0..NumBin + MaxStash
      BY <1>1
    <3>2. \A k \in 1..n : k + 1 \in 1..n + 1
      BY <1>2
    <3> QED
      BY <3>1, <3>2
  <2>2. Len(toSender') + 1 = n
    BY <1>2
  <2> QED
    BY <1>3, <2>1, <2>2
<1>5. st[1] = sPos /\ st[n + 1] = rPos
      /\ \A j \in 1..n : st[j] <= NumBin /\ st[j + 1] = st[j] + Width(st[j])
                         /\ toSender[j] = CorrMsg(st[j])
  BY <1>1 DEF ToSender
<1> HIDE DEF n
<1>6. ts[1] = sPos' /\ ts[Len(toSender') + 1] = rPos'
  <2>1. ts[1] = st[2] /\ ts[n] = st[n + 1] /\ st[2] = st[1] + Width(st[1])
    <3>1. 1 \in 1..n /\ n \in 1..n /\ 1 + 1 = 2
      BY <1>2
    <3> QED
      BY <1>3, <1>5, <3>1
  <2>2. Len(toSender') + 1 = n
    BY <1>2
  <2> QED
    BY <1>5, <2>1, <2>2
<1>7. ASSUME NEW j \in 1..Len(toSender')
      PROVE  ts[j] <= NumBin /\ ts[j + 1] = ts[j] + Width(ts[j])
             /\ toSender'[j] = CorrMsg(ts[j])'
  <2>1. j \in 1..n /\ j + 1 \in 1..n /\ j \in 1..n - 1
    BY <1>2
  <2>2. ts[j] = st[j + 1] /\ ts[j + 1] = st[(j + 1) + 1] /\ toSender'[j] = toSender[j + 1]
    BY <1>2, <1>3, <2>1
  <2>3. CorrMsg(ts[j])' = CorrMsg(ts[j])
    BY SameAt
  <2> QED
    BY <1>5, <2>1, <2>2, <2>3
<1>8. ToSender(ts)'
  BY <1>6, <1>7 DEF ToSender, Width, BatchSize
<1>9. rInserted
  BY DEF Corrections
<1> QED
  BY <1>2, <1>4, <1>8, <1>9 DEF Corrections

LEMMA PutCorrections ==
  ASSUME Corrections, Inputs, Tables, rInserted, ReceiverAt, rPos <= NumBin,
         toSender' = Append(toSender, CorrMsg(rPos)),
         UNCHANGED <<addr, rInputs, sInputs, rBins, rStash, rInserted>>,
         rPos' = rPos + Width(rPos), sPos' = sPos
  PROVE  Corrections'
<1>1. PICK st \in [1..Len(toSender) + 1 -> 0..NumBin + MaxStash] : ToSender(st)
  BY DEF Corrections
<1> DEFINE n == Len(toSender)
<1>2. rPos \in Nat
  BY Sizes DEF ReceiverAt, rPos
<1>3. CorrMsg(rPos) \in Seq(Block) /\ rPos' \in 0..NumBin + MaxStash
  <2>1. CorrMsg(rPos) \in Seq(Block)
    BY <1>2, TablePlaced, CorrMsgTyped
  <2>2. PICK p \in Nat : p = rPos
    BY <1>2
  <2>3. p + Width(p) \in 0..NumBin + MaxStash
    BY <2>2, Widths, Sizes
  <2> QED
    BY <2>1, <2>2, <2>3
<1>4. /\ n \in Nat /\ toSender' \in Seq(Seq(Block)) /\ Len(toSender') = n + 1
      /\ toSender'[n + 1] = CorrMsg(rPos)
      /\ \A k \in 1..n : toSender'[k] = toSender[k]
  BY <1>3, Appended DEF Corrections
<1>5. PICK ts : ts = [k \in 1..n + 2 |-> IF k <= n + 1 THEN st[k] ELSE rPos']
  OBVIOUS
<1>6. st[1] = sPos /\ st[n + 1] = rPos
      /\ \A j \in 1..n : st[j] <= NumBin /\ st[j + 1] = st[j] + Width(st[j])
                         /\ toSender[j] = CorrMsg(st[j])
  BY <1>1 DEF ToSender
<1>7. \A k \in 1..n + 1 : st[k] \in 0..NumBin + MaxStash
  BY <1>1
<1> HIDE DEF n
<1>8. (\A k \in 1..n + 1 : ts[k] = st[k]) /\ ts[n + 2] = rPos'
  BY <1>4, <1>5
<1>9. ts \in [1..Len(toSender') + 1 -> 0..NumBin + MaxStash]
  <2>1. Len(toSender') + 1 = n + 2
    BY <1>4
  <2>2. \A k \in 1..n + 2 : ts[k] \in 0..NumBin + MaxStash
    BY <1>3, <1>4, <1>5, <1>7
  <2> QED
    BY <1>5, <2>1, <2>2
<1>10. ts[1] = sPos' /\ ts[Len(toSender') + 1] = rPos'
  <2>1. Len(toSender') + 1 = n + 2 /\ 1 \in 1..n + 1
    BY <1>4
  <2> QED
    BY <1>6, <1>8, <2>1
<1>11. ASSUME NEW j \in 1..Len(toSender')
       PROVE  ts[j] <= NumBin /\ ts[j + 1] = ts[j] + Width(ts[j])
              /\ toSender'[j] = CorrMsg(ts[j])'
  <2>1. CorrMsg(ts[j])' = CorrMsg(ts[j])
    BY SameAt
  <2>2. CASE j \in 1..n
    <3>1. j \in 1..n + 1 /\ j + 1 \in 1..n + 1
      BY <1>4, <2>2
    <3> QED
      BY <1>4, <1>6, <1>8, <2>1, <2>2, <3>1
  <2>3. CASE j = n + 1
    <3>1. n + 1 \in 1..n + 1 /\ (n + 1) + 1 = n + 2
      BY <1>4
    <3>2. ts[j] = rPos /\ ts[j + 1] = rPos'
      BY <1>6, <1>8, <2>3, <3>1
    <3> QED
      BY <1>4, <2>1, <2>3, <3>2
  <2> QED
    BY <1>4, <2>2, <2>3
<1>12. ToSender(ts)'
  BY <1>10, <1>11 DEF ToSender, Width, BatchSize
<1> QED
  BY <1>4, <1>9, <1>12 DEF Corrections

LEMMA CorrectionsFrame ==
  ASSUME Corrections, UNCHANGED <<addr, rInputs, sInputs, rBins, rStash, rInserted, toSender>>,
         rPos' = rPos, sPos' = sPos
  PROVE  Corrections'
<1>1. PICK st \in [1..Len(toSender) + 1 -> 0..NumBin + MaxStash] : ToSender(st)
  BY DEF Corrections
<1>2. ToSender(st)'
  BY <1>1, SameAt DEF ToSender, Width, BatchSize
<1> QED
  BY <1>1, <1>2 DEF Corrections

LEMMA SameOut ==
  ASSUME UNCHANGED <<addr, rInputs, sInputs, rBins, rStash, myMaskBuff>>
  PROVE  \A n : OutMsg(n)' = OutMsg(n)
BY SameAt DEF OutMsg

\* The receiver takes the message of masks it has come to.
LEMMA FirstMasks ==
  ASSUME ToReceiver, ReceiverAt, SenderAt, toReceiver # <<>>
  PROVE  /\ Head(toReceiver) = OutMsg(rIn) /\ rIn < sOut
         /\ Head(toReceiver) \in [Slot -> Mask] /\ Len(Head(toReceiver)) = SendSize
         /\ rInserted /\ sPhase # "bins"
<1>1. Len(toReceiver) \in Nat \ {0} /\ Head(toReceiver) = toReceiver[1]
      /\ Head(toReceiver) \in [Slot -> Mask]
  BY HeadTail DEF ToReceiver
<1>2. rIn \in Nat /\ sOut \in Nat
  BY Positions
<1>3. toReceiver[1] = OutMsg(rIn + 1 - 1)
  BY <1>1 DEF ToReceiver
<1>4. rIn + 1 - 1 = rIn /\ rIn < sOut
  BY <1>1, <1>2 DEF ToReceiver
<1>5. Len(Head(toReceiver)) = SendSize
  BY <1>1, Sizes, CountedSeq DEF Slot
<1>6. sPhase \notin {"bins", "masks"}
  BY <1>2, <1>4 DEF sOut
<1>7. rInserted
  BY <1>6 DEF SenderAt
<1> QED
  BY <1>1, <1>3, <1>4, <1>5, <1>6, <1>7

LEMMA TakeMasks ==
  ASSUME ToReceiver, ReceiverAt, SenderAt, toReceiver # <<>>, toReceiver' = Tail(toReceiver),
         UNCHANGED <<addr, rInputs, sInputs, rBins, rStash, myMaskBuff>>,
         rIn' = rIn + 1, sOut' = sOut
  PROVE  ToReceiver'
<1> DEFINE n == Len(toReceiver)
<1>1. /\ n \in Nat \ {0} /\ toReceiver' \in Seq([Slot -> Mask]) /\ Len(toReceiver') = n - 1
      /\ \A k \in 1..n - 1 : toReceiver'[k] = toReceiver[k + 1]
  BY HeadTail DEF ToReceiver
<1>2. rIn \in Nat /\ rIn + n = sOut
  BY Positions DEF ToReceiver
<1>3. rIn' + Len(toReceiver') = sOut'
  BY <1>1, <1>2
<1>4. ASSUME NEW k \in 1..Len(toReceiver') PROVE toReceiver'[k] = OutMsg(rIn + k - 1)'
  <2>1. k \in 1..n - 1 /\ k + 1 \in 1..n
    BY <1>1
  <2>2. PICK m : m = rIn + (k + 1) - 1
    OBVIOUS
  <2>3. toReceiver[k + 1] = OutMsg(m)
    BY <2>1, <2>2 DEF ToReceiver
  <2>4. (rIn + k - 1)' = m
    BY <1>2, <2>1, <2>2
  <2>5. OutMsg(m)' = OutMsg(m)
    BY SameOut
  <2>6. OutMsg(rIn + k - 1)' = OutMsg(m)'
    BY <2>4 DEF OutMsg
  <2> QED
    BY <1>1, <2>1, <2>3, <2>5, <2>6
<1> QED
  BY <1>1, <1>3, <1>4 DEF ToReceiver

LEMMA ToReceiverFrame ==
  ASSUME ToReceiver, UNCHANGED <<addr, rInputs, sInputs, rBins, rStash, myMaskBuff, toReceiver>>,
         rIn' = rIn, sOut' = sOut
  PROVE  ToReceiver'
<1>1. \A n : OutMsg(n)' = OutMsg(n)
  BY SameOut
<1> QED
  BY <1>1 DEF ToReceiver

\* Before the sender sends masks there are none under way.
LEMMA NoMasksYet ==
  ASSUME ToReceiver, ReceiverAt, SenderAt, sPhase \in {"bins", "masks"}
  PROVE  toReceiver = <<>> /\ rIn = 0
<1>1. Len(toReceiver) \in Nat /\ rIn \in Nat /\ rIn + Len(toReceiver) = 0
  BY Positions DEF ToReceiver, sOut
<1>2. Len(toReceiver) = 0 /\ rIn = 0
  BY <1>1
<1> QED
  BY <1>2, EmptySeq DEF ToReceiver

\* The receiver adds what it finds for the positions P.
LEMMA ResultGrows ==
  ASSUME Result, Placed, NEW P \in SUBSET Ot,
         UNCHANGED <<addr, rInputs, sInputs, rBins, rStash>>,
         \A p \in P : ~ Looked(p),
         \A p \in Ot : Looked(p)' <=> Looked(p) \/ p \in P,
         NEW d, mIntersection' = [i \in RecvItem |-> mIntersection[i] + d[i]],
         \A i \in RecvItem :
            d[i] = IF Common(i) /\ \E p \in P : EntryAt(p).mIdx = i THEN 1 ELSE 0
  PROVE  Result'
<1>1. ASSUME NEW i \in RecvItem
      PROVE  /\ Common(i)' = Common(i)
             /\ Seen(i)' <=> Seen(i) \/ \E p \in P : EntryAt(p).mIdx = i
             /\ Seen(i) => ~ \E p \in P : EntryAt(p).mIdx = i
  <2>1. Common(i)' = Common(i) /\ \A p : EntryAt(p)' = EntryAt(p)
    BY SameAt
  <2>2. Seen(i)' <=> Seen(i) \/ \E p \in P : EntryAt(p).mIdx = i
    BY <2>1 DEF Seen
  <2>3. ASSUME NEW p \in P, EntryAt(p).mIdx = i, NEW q \in Ot, Looked(q), EntryAt(q).mIdx = i
        PROVE  FALSE
    <3>1. i # 0
      BY Sizes DEF RecvItem
    <3>2. p = q
      BY <2>3, <3>1 DEF Placed
    <3> QED
      BY <2>3, <3>2
  <2> QED
    BY <2>1, <2>2, <2>3 DEF Seen
<1>2. ASSUME NEW i \in RecvItem
      PROVE  mIntersection[i] + d[i] = IF Common(i)' /\ Seen(i)' THEN 1 ELSE 0
  <2>1. mIntersection[i] = IF Common(i) /\ Seen(i) THEN 1 ELSE 0
    BY DEF Result
  <2>2. CASE Common(i) /\ Seen(i)
    <3>1. d[i] = 0 /\ mIntersection[i] = 1
      BY <1>1, <2>1, <2>2
    <3> QED
      BY <1>1, <2>2, <3>1
  <2>3. CASE Common(i) /\ ~ Seen(i) /\ \E p \in P : EntryAt(p).mIdx = i
    <3>1. d[i] = 1 /\ mIntersection[i] = 0
      BY <2>1, <2>3
    <3> QED
      BY <1>1, <2>3, <3>1
  <2>4. CASE ~ Common(i) \/ (~ Seen(i) /\ ~ \E p \in P : EntryAt(p).mIdx = i)
    <3>1. d[i] = 0 /\ mIntersection[i] = 0
      BY <2>1, <2>4
    <3> QED
      BY <1>1, <2>4, <3>1
  <2> QED
    BY <2>2, <2>3, <2>4
<1>3. mIntersection' = [i \in RecvItem |-> IF Common(i)' /\ Seen(i)' THEN 1 ELSE 0]
  BY <1>2
<1> QED
  BY <1>3 DEF Result

-----------------------------------------------------------------------------
(* The actions: the tables.                                                *)

\* Nothing has been sent before both tables are complete, and nothing looked at.
LEMMA RHashKeepsIInv == IInv /\ RHash => IInv'
<1> SUFFICES ASSUME IInv, RHash PROVE IInv'
  OBVIOUS
<1> USE DEF IInv
<1>1. Tables' /\ ~ rInserted
  BY HashStep
<1>2. UNCHANGED <<inputVars, sHashVars, rVars, sVars, chlVars>>
  BY DEF RHash
<1>3. UNCHANGED <<addr, rInputs, sInputs, sBins, sItem, sFn, sStatus, rPhase, rStep, localMasks,
                  mIntersection, sPhase, sStep, theirCorrOT, myMaskBuff, idxPermuteDone,
                  toSender, toReceiver>>
  BY <1>2 DEF inputVars, sHashVars, rVars, sVars, chlVars
<1>4. /\ rPhase = "bins" /\ rStep = 0
      /\ sPhase = "bins" /\ sStep = 0 /\ theirCorrOT = <<>> /\ toSender = <<>>
  BY <1>1 DEF ReceiverAt, SenderAt, Corrections
<1>5. Inputs'
  BY <1>3 DEF Inputs
<1>6. SimpleInv'
  BY <1>3 DEF SimpleInv, Before
<1>7. ReceiverAt' /\ SenderAt'
  BY <1>3, <1>4 DEF ReceiverAt, SenderAt
<1>8. AtHand'
  BY <1>3, <1>4 DEF AtHand
<1>9. Corrections'
  <2>1. PICK st \in [1..Len(toSender) + 1 -> 0..NumBin + MaxStash] : ToSender(st)
    BY DEF Corrections
  <2>2. Len(toSender) = 0
    BY <1>4
  <2>3. ToSender(st)'
    BY <1>3, <2>1, <2>2 DEF ToSender, sPos, rPos
  <2> QED
    BY <1>3, <1>4, <2>1, <2>3 DEF Corrections
<1>10. Masks'
  <2>1. PICK pos \in [HashIdx -> [Slot -> Slot]] : \A h \in HashIdx : MasksAt(pos, h)
    BY DEF Masks
  <2>2. \A h \in HashIdx : Masked(h)' = {} /\ Masked(h) = {}
    <3>1. sDone = 0 /\ sDone' = 0
      BY <1>3, <1>4 DEF sDone
    <3>2. \A h \in HashIdx, j \in Slot : ~ (addr[h][sInputs[j]] < 0)
      BY InputTypes, Sizes DEF Bin
    <3> QED
      BY <1>3, <3>1, <3>2 DEF Masked
  <2>3. \A h \in HashIdx : MasksAt(pos, h)'
    BY <1>3, <2>1, <2>2 DEF MasksAt
  <2> QED
    BY <1>3, <2>1, <2>3 DEF Masks
<1>11. ToReceiver'
  <2>1. toReceiver = <<>> /\ Len(toReceiver) = 0
    BY <1>4, NoMasksYet
  <2> QED
    BY <1>3, <2>1 DEF ToReceiver, rIn, sOut
<1>12. \A b \in Bin : ~ (b < 0)
  BY Sizes DEF Bin
<1>13. Local'
  BY <1>3, <1>4, <1>12 DEF Local, LocalAt, rSent
<1>14. Result'
  <2>1. \A p : ~ Looked(p) /\ ~ Looked(p)'
    BY <1>3, <1>4 DEF Looked
  <2>2. \A i \in RecvItem : ~ Seen(i) /\ ~ Seen(i)'
    BY <2>1 DEF Seen
  <2> QED
    BY <1>3, <2>2 DEF Result
<1> QED
  BY <1>1, <1>5, <1>6, <1>7, <1>8, <1>9, <1>10, <1>11, <1>13, <1>14

LEMMA SHashKeepsIInv == IInv /\ SHash => IInv'
<1> SUFFICES ASSUME IInv, SHash PROVE IInv'
  OBVIOUS
<1> USE DEF IInv
<1>1. SimpleInv' /\ sStatus = "inserting"
  BY SimpleStep
<1>2. UNCHANGED <<inputVars, rHashVars, rVars, sVars, chlVars>>
  BY DEF SHash
<1>3. UNCHANGED <<addr, rInputs, sInputs, rBins, rStash, rNext, rHand, rInserted, rPhase, rStep,
                  localMasks, mIntersection, sPhase, sStep, theirCorrOT, myMaskBuff,
                  idxPermuteDone, toSender, toReceiver>>
  BY <1>2 DEF inputVars, rHashVars, rVars, sVars, chlVars
<1>4. Inputs'
  BY <1>3 DEF Inputs
<1>5. Tables'
  <2>1. C!CuckooAssumption
    BY SizeAssumption DEF C!CuckooAssumption
  <2>2. UNCHANGED C!vars
    BY <1>3 DEF C!vars
  <2>3. C!IInv'
    BY <2>1, <2>2, C!NextKeepsIInv DEF Tables
  <2> QED
    BY <1>3, <2>3 DEF Tables
<1>6. sPhase = "bins" /\ sStep = 0 /\ theirCorrOT = <<>>
  BY <1>1 DEF SenderAt
<1>7. ReceiverAt' /\ SenderAt'
  BY <1>3, <1>6 DEF ReceiverAt, SenderAt
<1>8. AtHand'
  BY <1>3, <1>6 DEF AtHand
<1>9. Corrections' /\ Masks' /\ ToReceiver'
  BY <1>3, CorrectionsFrame, MasksFrame, ToReceiverFrame DEF rPos, sPos, sDone, rIn, sOut
<1>10. Local' /\ Result'
  <2>1. \A p \in Ot : Looked(p)' <=> Looked(p)
    BY <1>3, SameAt DEF Looked
  <2> QED
    BY <1>3, <2>1, LocalFrame, ResultFrame DEF rSent
<1> QED
  BY <1>1, <1>4, <1>5, <1>7, <1>8, <1>9, <1>10

-----------------------------------------------------------------------------
(* The receiver's actions.                                                 *)

\* What no action of the receiver's protocol touches.
LEMMA ReceiverFrame ==
  ASSUME IInv, Frozen, UNCHANGED sVars
  PROVE  /\ Inputs' /\ Tables' /\ SimpleInv' /\ SenderAt' /\ AtHand' /\ Masks'
         /\ UNCHANGED <<addr, rInputs, sInputs, rBins, rStash, rInserted, myMaskBuff>>
         /\ sPos' = sPos /\ sOut' = sOut
<1> USE DEF IInv
<1>1. /\ Inputs' /\ Tables' /\ SimpleInv'
      /\ UNCHANGED <<addr, rInputs, sInputs, rBins, rStash, rInserted, sStatus>>
  BY FrozenKeeps
<1>2. UNCHANGED <<sPhase, sStep, theirCorrOT, myMaskBuff, idxPermuteDone>>
  BY DEF sVars
<1>3. SenderAt'
  BY <1>1, <1>2 DEF SenderAt
<1>4. AtHand'
  <2>1. \A p : CorrAt(p)' = CorrAt(p)
    BY <1>1, SameAt
  <2> QED
    BY <1>2, <2>1 DEF AtHand, sNext
<1>5. Masks'
  BY <1>1, <1>2, MasksFrame DEF sDone
<1>6. sPos' = sPos /\ sOut' = sOut
  BY <1>2 DEF sPos, sOut
<1> QED
  BY <1>1, <1>2, <1>3, <1>4, <1>5, <1>6

LEMMA SendCorrectionsKeepsIInv == IInv /\ SendCorrections => IInv'
<1> SUFFICES ASSUME IInv, SendCorrections PROVE IInv'
  OBVIOUS
<1> USE DEF IInv
<1> DEFINE n == BatchSize(rStep)
<1>1. /\ rInserted /\ rPhase = "bins"
      /\ toSender' = Append(toSender,
           [k \in 1..n |-> CorrectionOf(rBins[rStep + k - 1], rStep + k - 1)])
      /\ localMasks' = [h \in HashIdx |-> [i \in RecvItem |->
           IF \E b \in rStep..rStep + n - 1 : rBins[b] = Cuckoo!Entry(i, h)
           THEN BinMask(h, T0[CHOOSE b \in rStep..rStep + n - 1 : rBins[b] = Cuckoo!Entry(i, h)])
           ELSE localMasks[h][i]]]
      /\ \/ rStep + n < NumBin /\ rStep' = rStep + n /\ rPhase' = rPhase
         \/ rStep + n >= NumBin /\ rStep' = 0 /\ rPhase' = "buckets"
  BY DEF SendCorrections
<1>2. Frozen /\ UNCHANGED <<mIntersection, sVars, toReceiver>>
  BY DEF SendCorrections, Frozen
<1>3. /\ Inputs' /\ Tables' /\ SimpleInv' /\ SenderAt' /\ AtHand' /\ Masks'
      /\ UNCHANGED <<addr, rInputs, sInputs, rBins, rStash, rInserted, myMaskBuff>>
      /\ sPos' = sPos /\ sOut' = sOut
  BY <1>2, ReceiverFrame
<1>4. /\ rStep \in Nat /\ rStep < NumBin /\ n \in Nat \ {0} /\ rStep + n <= NumBin
      /\ rPos = rStep /\ Width(rPos) = n
  BY <1>1, Sizes DEF ReceiverAt, rPos, Width, BatchSize
<1> HIDE DEF n
<1>5. ReceiverAt'
  BY <1>1, <1>3, <1>4, Sizes DEF ReceiverAt, HashIdx
<1>6. rPos' = rPos + Width(rPos) /\ rSent' = rStep + n /\ rSent = rStep
  BY <1>1, <1>4, Sizes DEF rPos, rSent
<1>7. CorrMsg(rPos) = [k \in 1..n |-> CorrectionOf(rBins[rStep + k - 1], rStep + k - 1)]
  <2>1. \A k \in 1..n : rStep + k - 1 < NumBin
    BY <1>4, Sizes
  <2> QED
    BY <1>4, <2>1 DEF CorrMsg, CorrAt, EntryAt
<1>8. Corrections'
  <2>1. rPos <= NumBin
    BY <1>4, Sizes
  <2>2. toSender' = Append(toSender, CorrMsg(rPos))
    BY <1>1, <1>7 DEF n
  <2> QED
    BY <1>1, <1>3, <1>6, <2>1, <2>2, PutCorrections
<1>9. ToReceiver'
  <2>1. rIn = 0 /\ rIn' = 0
    BY <1>1 DEF rIn
  <2> QED
    BY <1>2, <1>3, <2>1, ToReceiverFrame
<1>10. Local'
  <2>1. \A b \in Bin : b \in Nat /\ b < NumBin
    BY Sizes DEF Bin
  <2>2. \A b \in rStep..rStep + n - 1 : b \in Bin /\ b < rStep + n
    BY <1>4, Sizes DEF Bin
  <2>3. ASSUME NEW h \in HashIdx, NEW i \in RecvItem PROVE LocalAt(h, i)'
    <3>1. LocalAt(h, i)
      BY DEF Local
    <3>2. CASE \E b \in rStep..rStep + n - 1 : rBins[b] = Cuckoo!Entry(i, h)
      <4>1. PICK b \in rStep..rStep + n - 1 : /\ rBins[b] = Cuckoo!Entry(i, h)
                                              /\ localMasks'[h][i] = BinMask(h, T0[b])
        BY <1>1, <3>2
      <4>2. b \in Bin /\ b < rSent'
        BY <1>6, <2>2
      <4> QED
        BY <1>3, <4>1, <4>2 DEF LocalAt, Cuckoo!Entry
    <3>3. CASE ~ \E b \in rStep..rStep + n - 1 : rBins[b] = Cuckoo!Entry(i, h)
      <4>1. localMasks'[h][i] = localMasks[h][i]
        BY <1>1, <3>3
      <4>2. \A b \in Bin : b < rStep + n => b < rStep \/ b \in rStep..rStep + n - 1
        BY <1>4, <2>1
      <4>3. \A b \in Bin : b < rStep => b < rStep + n
        BY <1>4, <2>1
      <4> QED
        BY <1>3, <1>6, <3>1, <3>3, <4>1, <4>2, <4>3 DEF LocalAt, Cuckoo!Entry
    <3> QED
      BY <3>2, <3>3
  <2> QED
    BY <2>3 DEF Local
<1>11. Result'
  <2>1. \A p \in Ot : ~ Looked(p)
    BY <1>1 DEF Looked
  <2>2. \A p \in Ot : ~ Looked(p)'
    <3> SUFFICES ASSUME NEW p \in Ot PROVE ~ Looked(p)'
      OBVIOUS
    <3>1. EntryAt(p)' = EntryAt(p) /\ EntryAt(p).mHashIdx \in HashIdx
      BY <1>1, <1>3, SameAt, TablePlaced DEF Placed, RecvEntry
    <3> QED
      BY <1>1, <1>4, <3>1 DEF Looked, HashIdx
  <2> QED
    BY <1>2, <1>3, <2>1, <2>2, ResultFrame
<1> QED
  BY <1>3, <1>5, <1>8, <1>9, <1>10, <1>11

LEMMA RecvMasksKeepsIInv == IInv /\ RecvMasks => IInv'
<1> SUFFICES ASSUME IInv, RecvMasks PROVE IInv'
  OBVIOUS
<1> USE DEF IInv
<1>1. rPhase = "buckets" /\ toReceiver # <<>> /\ toReceiver' = Tail(toReceiver)
  BY DEF RecvMasks
<1>2. Frozen /\ UNCHANGED <<localMasks, sVars, toSender>>
  BY DEF RecvMasks, Frozen
<1>3. /\ Inputs' /\ Tables' /\ SimpleInv' /\ SenderAt' /\ AtHand' /\ Masks'
      /\ UNCHANGED <<addr, rInputs, sInputs, rBins, rStash, rInserted, myMaskBuff>>
      /\ sPos' = sPos /\ sOut' = sOut
  BY <1>2, ReceiverFrame
<1>4. /\ Head(toReceiver) = OutMsg(rIn) /\ Len(Head(toReceiver)) = SendSize
      /\ rInserted /\ sPhase # "bins"
  BY <1>1, FirstMasks
<1>5. rStep \in HashIdx /\ rIn = rStep
  BY <1>1 DEF ReceiverAt, rIn
<1>6. Head(toReceiver) = myMaskBuff[rStep]
  BY <1>4, <1>5 DEF OutMsg, HashIdx
<1> DEFINE d == [i \in RecvItem |-> IF localMasks[rStep][i] = NoMask THEN 0
                                    ELSE Count(localMasks[rStep][i], myMaskBuff[rStep])]
<1>7. /\ mIntersection' = [i \in RecvItem |-> mIntersection[i] + d[i]]
      /\ \/ rStep < 2 /\ rStep' = rStep + 1 /\ rPhase' = rPhase
         \/ rStep = 2 /\ rStep' = 0 /\ rPhase' = "stash"
  BY <1>4, <1>6 DEF RecvMasks
<1>8. Placed
  BY <1>4, TablePlaced
<1>9. ReceiverAt'
  BY <1>1, <1>3, <1>4, <1>5, <1>7 DEF ReceiverAt, HashIdx
<1>10. rPos' = rPos /\ rIn' = rIn + 1 /\ rSent' = rSent
  BY <1>1, <1>5, <1>7 DEF rPos, rIn, rSent, HashIdx
<1>11. Corrections'
  BY <1>2, <1>3, <1>10, CorrectionsFrame
<1>12. ToReceiver'
  BY <1>1, <1>3, <1>10, TakeMasks
<1>13. Local'
  BY <1>2, <1>3, <1>10, LocalFrame
<1>14. Result'
  <2> DEFINE P == {p \in Bin : rBins[p].mHashIdx = rStep}
  <2>1. P \in SUBSET Ot /\ \A p \in P : p < NumBin /\ EntryAt(p) = rBins[p]
    BY OtSplit
  <2>2. \A p \in P : ~ Looked(p)
    BY <1>1, <1>5, <2>1 DEF Looked, HashIdx
  <2>3. ASSUME NEW p \in Ot PROVE Looked(p)' <=> Looked(p) \/ p \in P
    <3>1. EntryAt(p)' = EntryAt(p) /\ EntryAt(p).mHashIdx \in HashIdx
      BY <1>3, <1>8, SameAt DEF Placed, RecvEntry
    <3>2. CASE p < NumBin
      <4>1. p \in Bin /\ EntryAt(p) = rBins[p]
        BY <3>2, OtSplit, Sizes DEF Ot, Bin
      <4>2. Looked(p) <=> EntryAt(p).mHashIdx < rStep
        BY <1>1, <3>2 DEF Looked
      <4>3. Looked(p)' <=> EntryAt(p).mHashIdx < rStep + 1
        BY <1>1, <1>5, <1>7, <3>1, <3>2 DEF Looked, HashIdx
      <4>4. EntryAt(p).mHashIdx < rStep + 1
              <=> EntryAt(p).mHashIdx < rStep \/ EntryAt(p).mHashIdx = rStep
        BY <1>5, <3>1 DEF HashIdx
      <4> QED
        BY <4>1, <4>2, <4>3, <4>4
    <3>3. CASE ~ (p < NumBin)
      <4>1. ~ Looked(p) /\ ~ Looked(p)'
        BY <1>1, <1>7, <3>3 DEF Looked
      <4> QED
        BY <2>1, <3>3, <4>1
    <3> QED
      BY <3>2, <3>3
  <2>4. ASSUME NEW i \in RecvItem
        PROVE  d[i] = IF Common(i) /\ \E p \in P : EntryAt(p).mIdx = i THEN 1 ELSE 0
    <3>1. LocalAt(rStep, i)
      BY <1>5 DEF Local
    <3>2. \A b \in Bin : b < rSent
      BY <1>1, Sizes DEF rSent, Bin
    <3>3. CASE localMasks[rStep][i] = NoMask
      <4>1. \A b \in Bin : rBins[b] # Cuckoo!Entry(i, rStep)
        <5>1. \A b \in Bin : T0[b] \in Block
          BY OtSplit, BlockAssumption
        <5>2. \A b \in Bin : BinMask(rStep, T0[b]) # NoMask
          BY <1>5, <5>1, MasksAreMasks
        <5> QED
          BY <3>1, <3>2, <3>3, <5>2 DEF LocalAt
      <4>2. ASSUME NEW p \in P, EntryAt(p).mIdx = i PROVE FALSE
        <5>1. rBins[p].mIdx = i /\ rBins[p].mHashIdx = rStep /\ rBins[p] \in RecvEntry
          BY <1>8, <2>1, <4>2 DEF Placed
        <5>2. rBins[p] = [mIdx |-> i, mHashIdx |-> rStep]
          BY <5>1 DEF RecvEntry
        <5> QED
          BY <4>1, <5>2 DEF Cuckoo!Entry
      <4> QED
        BY <3>3, <4>2
    <3>4. CASE localMasks[rStep][i] # NoMask
      <4>1. PICK b \in Bin : /\ rBins[b] = Cuckoo!Entry(i, rStep)
                             /\ localMasks[rStep][i] = BinMask(rStep, T0[b])
        BY <3>1, <3>4 DEF LocalAt
      <4>2. rBins[b].mIdx = i /\ rBins[b].mHashIdx = rStep /\ i # 0
        BY <4>1, Sizes DEF Cuckoo!Entry, RecvItem
      <4>3. Count(localMasks[rStep][i], myMaskBuff[rStep]) = IF Common(i) THEN 1 ELSE 0
        BY <1>4, <1>8, <4>1, <4>2, BinCounted
      <4>4. b \in P /\ EntryAt(b).mIdx = i
        BY <2>1, <4>2
      <4> QED
        BY <3>4, <4>3, <4>4
    <3> QED
      BY <3>3, <3>4
  <2> HIDE DEF P, d
  <2> QED
    BY <1>3, <1>7, <1>8, <2>1, <2>2, <2>3, <2>4, ResultGrows
<1> QED
  BY <1>3, <1>9, <1>11, <1>12, <1>13, <1>14

LEMMA SendStashKeepsIInv == IInv /\ SendStash => IInv'
<1> SUFFICES ASSUME IInv, SendStash PROVE IInv'
  OBVIOUS
<1> USE DEF IInv
<1>1. /\ rPhase = "stash" /\ rPhase' = "stashMasks" /\ rStep' = rStep
      /\ toSender' = Append(toSender,
            [k \in 1..Len(rStash) |-> CorrectionOf(rStash[k], NumBin + k - 1)])
  BY DEF SendStash
<1>2. Frozen /\ UNCHANGED <<localMasks, mIntersection, sVars, toReceiver>>
  BY DEF SendStash, Frozen
<1>3. /\ Inputs' /\ Tables' /\ SimpleInv' /\ SenderAt' /\ AtHand' /\ Masks'
      /\ UNCHANGED <<addr, rInputs, sInputs, rBins, rStash, rInserted, myMaskBuff>>
      /\ sPos' = sPos /\ sOut' = sOut
  BY <1>2, ReceiverFrame
<1>4. rInserted /\ rStep = 0
  BY <1>1 DEF ReceiverAt
<1>5. rPos = NumBin /\ rPos' = NumBin + MaxStash /\ Width(NumBin) = MaxStash
      /\ rIn' = rIn /\ rSent' = rSent
  BY <1>1, <1>4, Sizes DEF rPos, rIn, rSent, Width
<1>6. ReceiverAt'
  BY <1>1, <1>3, <1>4, Sizes DEF ReceiverAt
<1>7. CorrMsg(rPos) = [k \in 1..Len(rStash) |-> CorrectionOf(rStash[k], NumBin + k - 1)]
  <2>1. Len(rStash) = MaxStash
    BY <1>4 DEF Tables
  <2>2. \A k \in 1..MaxStash : CorrAt(NumBin + k - 1) = CorrectionOf(rStash[k], NumBin + k - 1)
    BY OtSplit DEF CorrAt
  <2> QED
    BY <1>5, <2>1, <2>2 DEF CorrMsg
<1>8. Corrections'
  <2>1. rPos <= NumBin
    BY <1>5, Sizes
  <2>2. rPos' = rPos + Width(rPos)
    BY <1>5
  <2> QED
    BY <1>1, <1>3, <1>4, <1>7, <2>1, <2>2, PutCorrections
<1>9. ToReceiver' /\ Local'
  BY <1>2, <1>3, <1>5, ToReceiverFrame, LocalFrame
<1>10. Result'
  <2>1. \A p \in Ot : Looked(p)' <=> Looked(p)
    <3> SUFFICES ASSUME NEW p \in Ot PROVE Looked(p)' <=> Looked(p)
      OBVIOUS
    <3>1. Looked(p) <=> p < NumBin
      BY <1>1 DEF Looked
    <3>2. Looked(p)' <=> p < NumBin \/ (p >= NumBin /\ p < NumBin + 0)
      BY <1>1, <1>4 DEF Looked
    <3> QED
      BY <3>1, <3>2, Sizes DEF Ot
  <2> QED
    BY <1>2, <1>3, <2>1, ResultFrame
<1> QED
  BY <1>3, <1>6, <1>8, <1>9, <1>10

LEMMA RecvStashMasksKeepsIInv == IInv /\ RecvStashMasks => IInv'
<1> SUFFICES ASSUME IInv, RecvStashMasks PROVE IInv'
  OBVIOUS
<1> USE DEF IInv
<1>1. rPhase = "stashMasks" /\ toReceiver # <<>> /\ toReceiver' = Tail(toReceiver)
  BY DEF RecvStashMasks
<1>2. Frozen /\ UNCHANGED <<localMasks, sVars, toSender>>
  BY DEF RecvStashMasks, Frozen
<1>3. /\ Inputs' /\ Tables' /\ SimpleInv' /\ SenderAt' /\ AtHand' /\ Masks'
      /\ UNCHANGED <<addr, rInputs, sInputs, rBins, rStash, rInserted, myMaskBuff>>
      /\ sPos' = sPos /\ sOut' = sOut
  BY <1>2, ReceiverFrame
<1>4. /\ Head(toReceiver) = OutMsg(rIn) /\ Len(Head(toReceiver)) = SendSize
      /\ rInserted
  BY <1>1, FirstMasks
<1>5. rStep \in Stash /\ rStep \in Nat /\ rIn = 3 + rStep /\ rStep < MaxStash
  BY <1>1, Sizes DEF ReceiverAt, rIn, Stash
<1>6. Head(toReceiver) = StashOut(rStep)
  <2>1. ~ (3 + rStep < 3) /\ (3 + rStep) - 3 = rStep
    BY <1>5
  <2> QED
    BY <1>4, <1>5, <2>1 DEF OutMsg
<1> DEFINE at == NumBin + rStep
<1>7. at \in Ot /\ at >= NumBin /\ EntryAt(at) = rStash[rStep + 1]
  <2>1. rStep + 1 \in 1..MaxStash /\ NumBin + (rStep + 1) - 1 = at
    BY <1>5, Sizes
  <2>2. at >= NumBin
    BY <1>5, Sizes
  <2> QED
    BY <2>1, <2>2, OtSplit
<1> DEFINE d == [i \in RecvItem |-> IF EntryAt(at).mIdx # i THEN 0
                                    ELSE Count(StashMask(T0[at]), StashOut(rStep))]
<1>8. /\ mIntersection' = [i \in RecvItem |-> mIntersection[i] + d[i]]
      /\ rStep' = rStep + 1
      /\ rPhase' = IF rStep + 1 < MaxStash THEN rPhase ELSE "done"
  BY <1>4, <1>6, <1>7 DEF RecvStashMasks
<1>9. Placed
  BY <1>4, TablePlaced
<1>10. ReceiverAt'
  BY <1>1, <1>3, <1>4, <1>5, <1>8 DEF ReceiverAt
<1>11. rPos' = rPos /\ rIn' = rIn + 1 /\ rSent' = rSent
  BY <1>1, <1>5, <1>8, Sizes DEF rPos, rIn, rSent
<1>12. Corrections'
  BY <1>2, <1>3, <1>11, CorrectionsFrame
<1>13. ToReceiver'
  BY <1>1, <1>3, <1>11, TakeMasks
<1>14. Local'
  BY <1>2, <1>3, <1>11, LocalFrame
<1>15. Result'
  <2> DEFINE P == {at}
  <2>1. P \in SUBSET Ot
    BY <1>7
  <2>2. \A p \in P : ~ Looked(p)
    BY <1>1, <1>5, <1>7, Sizes DEF Looked
  <2>3. ASSUME NEW p \in Ot PROVE Looked(p)' <=> Looked(p) \/ p \in P
    <3>1. p \in Nat /\ p < NumBin + MaxStash
      BY Sizes DEF Ot
    <3>2. Looked(p) <=> p < NumBin \/ (p >= NumBin /\ p < NumBin + rStep)
      BY <1>1 DEF Looked
    <3>3. CASE rStep + 1 < MaxStash
      <4>1. Looked(p)' <=> p < NumBin \/ (p >= NumBin /\ p < NumBin + (rStep + 1))
        BY <1>1, <1>8, <3>3 DEF Looked
      <4> QED
        BY <1>5, <3>1, <3>2, <4>1, Sizes
    <3>4. CASE ~ (rStep + 1 < MaxStash)
      <4>1. Looked(p)' <=> p < NumBin \/ p >= NumBin
        BY <1>1, <1>8, <3>4 DEF Looked
      <4> QED
        BY <1>5, <3>1, <3>2, <3>4, <4>1, Sizes
    <3> QED
      BY <3>3, <3>4
  <2>4. ASSUME NEW i \in RecvItem
        PROVE  d[i] = IF Common(i) /\ \E p \in P : EntryAt(p).mIdx = i THEN 1 ELSE 0
    <3>1. CASE EntryAt(at).mIdx = i
      <4>1. i # 0
        BY Sizes DEF RecvItem
      <4>2. Count(StashMask(T0[at]), StashOut(rStep)) = IF Common(i) THEN 1 ELSE 0
        BY <1>5, <1>9, <3>1, <4>1, StashCounted
      <4> QED
        BY <3>1, <4>2
    <3>2. CASE EntryAt(at).mIdx # i
      BY <3>2
    <3> QED
      BY <3>1, <3>2
  <2> HIDE DEF P, d
  <2> QED
    BY <1>3, <1>8, <1>9, <2>1, <2>2, <2>3, <2>4, ResultGrows
<1> QED
  BY <1>3, <1>10, <1>12, <1>13, <1>14, <1>15

-----------------------------------------------------------------------------
(* The sender's actions.                                                   *)

\* What no action of the sender's protocol touches.
LEMMA SenderFrame ==
  ASSUME IInv, Frozen, UNCHANGED rVars
  PROVE  /\ Inputs' /\ Tables' /\ SimpleInv' /\ ReceiverAt' /\ Local' /\ Result'
         /\ UNCHANGED <<addr, rInputs, sInputs, rBins, rStash, rInserted, sStatus>>
         /\ rPos' = rPos /\ rIn' = rIn
         /\ \A p : CorrAt(p)' = CorrAt(p)
<1> USE DEF IInv
<1>1. /\ Inputs' /\ Tables' /\ SimpleInv'
      /\ UNCHANGED <<addr, rInputs, sInputs, rBins, rStash, rInserted, sStatus>>
  BY FrozenKeeps
<1>2. UNCHANGED <<rPhase, rStep, localMasks, mIntersection>>
  BY DEF rVars
<1>3. ReceiverAt'
  BY <1>1, <1>2 DEF ReceiverAt
<1>4. rPos' = rPos /\ rIn' = rIn /\ rSent' = rSent
  BY <1>2 DEF rPos, rIn, rSent
<1>5. Local'
  BY <1>1, <1>2, <1>4, LocalFrame
<1>6. \A p \in Ot : Looked(p)' <=> Looked(p)
  BY <1>1, <1>2, SameAt DEF Looked
<1>7. Result'
  BY <1>1, <1>2, <1>6, ResultFrame
<1>8. \A p : CorrAt(p)' = CorrAt(p)
  BY <1>1, SameAt
<1> QED
  BY <1>1, <1>3, <1>4, <1>5, <1>7, <1>8

LEMMA RecvCorrectionsKeepsIInv == IInv /\ RecvCorrections => IInv'
<1> SUFFICES ASSUME IInv, RecvCorrections PROVE IInv'
  OBVIOUS
<1> USE DEF IInv
<1>1. /\ sStatus = "inserted" /\ sPhase = "bins" /\ theirCorrOT = <<>> /\ toSender # <<>>
      /\ toSender' = Tail(toSender)
  BY DEF RecvCorrections
<1>2. Frozen /\ UNCHANGED <<rVars, sStep, myMaskBuff, idxPermuteDone, toReceiver>>
  BY DEF RecvCorrections, Frozen
<1>3. /\ Inputs' /\ Tables' /\ SimpleInv' /\ ReceiverAt' /\ Local' /\ Result'
      /\ UNCHANGED <<addr, rInputs, sInputs, rBins, rStash, rInserted, sStatus>>
      /\ rPos' = rPos /\ rIn' = rIn /\ \A p : CorrAt(p)' = CorrAt(p)
  BY <1>2, SenderFrame
<1>4. /\ rInserted /\ Placed /\ Head(toSender) = CorrMsg(sPos)
  BY <1>1, FirstCorrections
<1>5. sStep \in Nat /\ sStep < NumBin /\ sPos = sStep
  BY <1>1, EmptySeq DEF SenderAt, sPos
<1>6. /\ Width(sStep) = BatchSize(sStep) /\ Width(sStep) \in Nat /\ sStep + Width(sStep) <= NumBin
      /\ CorrMsg(sStep) \in Seq(Block) /\ Len(CorrMsg(sStep)) = Width(sStep)
      /\ \A k \in 1..Width(sStep) : CorrMsg(sStep)[k] = CorrAt(sStep + k - 1)
  BY <1>4, <1>5, Widths, CorrMsgTyped, Sizes
<1>7. theirCorrOT' = CorrMsg(sStep) /\ sPhase' = sPhase
  BY <1>4, <1>5, <1>6 DEF RecvCorrections
<1>8. SenderAt'
  BY <1>1, <1>2, <1>3, <1>4, <1>5, <1>6, <1>7 DEF SenderAt
<1>9. AtHand'
  BY <1>1, <1>2, <1>3, <1>6, <1>7 DEF AtHand, sNext
<1>10. sPos' = sPos + Width(sPos) /\ sDone' = sDone /\ sOut' = sOut
  BY <1>1, <1>2, <1>5, <1>6, <1>7 DEF sPos, sDone, sOut
<1>11. Corrections'
  BY <1>1, <1>3, <1>10, TakeCorrections
<1>12. Masks' /\ ToReceiver'
  BY <1>2, <1>3, <1>10, MasksFrame, ToReceiverFrame
<1> QED
  BY <1>3, <1>8, <1>9, <1>11, <1>12

LEMMA MaskBinKeepsIInv == IInv /\ MaskBin => IInv'
<1> SUFFICES ASSUME IInv, MaskBin PROVE IInv'
  OBVIOUS
<1> USE DEF IInv
<1>1. /\ sPhase = "bins" /\ theirCorrOT # <<>> /\ theirCorrOT' = Tail(theirCorrOT)
      /\ sStep' = sStep + 1 /\ sPhase' = IF sStep + 1 < NumBin THEN sPhase ELSE "masks"
  BY DEF MaskBin
<1>2. Frozen /\ UNCHANGED <<rVars, toSender, toReceiver>>
  BY DEF MaskBin, Frozen, chlVars
<1>3. /\ Inputs' /\ Tables' /\ SimpleInv' /\ ReceiverAt' /\ Local' /\ Result'
      /\ UNCHANGED <<addr, rInputs, sInputs, rBins, rStash, rInserted, sStatus>>
      /\ rPos' = rPos /\ rIn' = rIn /\ \A p : CorrAt(p)' = CorrAt(p)
  BY <1>2, SenderFrame
<1>4. sStatus = "inserted" /\ rInserted /\ Placed
  BY <1>1, TablePlaced DEF SenderAt
<1> DEFINE n == Len(theirCorrOT)
<1>5. /\ theirCorrOT \in Seq(Block) /\ sStep \in Nat /\ sStep < NumBin /\ sStep + n <= NumBin
  BY <1>1 DEF SenderAt
<1>6. /\ n \in Nat \ {0} /\ Head(theirCorrOT) = theirCorrOT[1]
      /\ theirCorrOT' \in Seq(Block) /\ Len(theirCorrOT') = n - 1
      /\ \A k \in 1..n - 1 : theirCorrOT'[k] = theirCorrOT[k + 1]
  BY <1>1, <1>5, HeadTail
<1>7. \A k \in 1..n : theirCorrOT[k] = CorrAt(sStep + k - 1)
  BY <1>1 DEF AtHand, sNext
<1> HIDE DEF n
<1>8. Head(theirCorrOT) = CorrAt(sStep) /\ sStep \in Bin
  <2>1. 1 \in 1..n /\ sStep + 1 - 1 = sStep /\ sStep \in Bin
    BY <1>5, <1>6, Sizes DEF Bin
  <2> QED
    BY <1>6, <1>7, <2>1
<1>9. Masks'
  BY <1>1, <1>4, <1>8, MaskBinStep
<1>10. sStep + 1 < NumBin \/ (sStep + 1 = NumBin /\ n = 1)
  BY <1>5, <1>6, Sizes
<1>11. SenderAt'
  <2>1. Len(theirCorrOT') = 0 => theirCorrOT' = <<>>
    BY <1>6, EmptySeq
  <2>2. sStep + 1 < NumBin => (sStep + 1) + (n - 1) <= NumBin
    BY <1>5, <1>6
  <2> QED
    BY <1>1, <1>3, <1>4, <1>5, <1>6, <1>10, <2>1, <2>2 DEF SenderAt
<1>12. AtHand'
  <2>1. ASSUME NEW k \in 1..Len(theirCorrOT') PROVE theirCorrOT'[k] = CorrAt(sStep + k)
    <3>1. k \in 1..n - 1 /\ k + 1 \in 1..n /\ sStep + (k + 1) - 1 = sStep + k
      BY <1>5, <1>6
    <3> QED
      BY <1>6, <1>7, <3>1
  <2>2. CASE sStep + 1 < NumBin
    <3>1. sNext' = sStep + 1
      BY <1>1, <2>2 DEF sNext
    <3>2. \A k \in 1..Len(theirCorrOT') : (sStep + 1) + k - 1 = sStep + k
      BY <1>5, <1>6
    <3>3. \A k \in 1..Len(theirCorrOT') : theirCorrOT'[k] = CorrAt((sStep + 1) + k - 1)
      BY <2>1, <3>2
    <3> QED
      BY <1>3, <3>1, <3>3 DEF AtHand, CorrAt, CorrectionOf, EntryAt, Cuckoo!IsEmpty, Cuckoo!NoItem
  <2>3. CASE sStep + 1 = NumBin /\ n = 1
    <3>1. Len(theirCorrOT') = 0
      BY <1>6, <2>3
    <3> QED
      BY <3>1 DEF AtHand
  <2> QED
    BY <1>10, <2>2, <2>3
<1>13. sPos' = sPos
  <2>1. sPos = sStep + n
    BY <1>1 DEF sPos, n
  <2>2. CASE sStep + 1 < NumBin
    <3>1. sPos' = (sStep + 1) + (n - 1)
      BY <1>1, <1>6, <2>2 DEF sPos
    <3> QED
      BY <1>5, <1>6, <2>1, <3>1
  <2>3. CASE sStep + 1 = NumBin /\ n = 1
    <3>1. sPos' = NumBin
      BY <1>1, <1>5, <2>3 DEF sPos
    <3> QED
      BY <2>1, <2>3, <3>1
  <2> QED
    BY <1>10, <2>2, <2>3
<1>14. Corrections'
  BY <1>2, <1>3, <1>13, CorrectionsFrame
<1>15. ToReceiver'
  <2>1. toReceiver = <<>> /\ rIn = 0 /\ Len(toReceiver) = 0
    BY <1>1, NoMasksYet, EmptySeq
  <2>2. sOut' = 0
    BY <1>1 DEF sOut
  <2> QED
    BY <1>2, <1>3, <2>1, <2>2 DEF ToReceiver
<1> QED
  BY <1>3, <1>9, <1>11, <1>12, <1>14, <1>15

LEMMA SendMasksKeepsIInv == IInv /\ SendMasks => IInv'
<1> SUFFICES ASSUME IInv, SendMasks PROVE IInv'
  OBVIOUS
<1> USE DEF IInv
<1>1. /\ sPhase = "masks" /\ sPhase' = "stash"
      /\ toReceiver' = toReceiver \o [h \in 1..3 |-> myMaskBuff[h - 1]]
  BY DEF SendMasks
<1>2. Frozen /\ UNCHANGED <<rVars, sStep, theirCorrOT, myMaskBuff, idxPermuteDone, toSender>>
  BY DEF SendMasks, Frozen
<1>3. /\ Inputs' /\ Tables' /\ SimpleInv' /\ ReceiverAt' /\ Local' /\ Result'
      /\ UNCHANGED <<addr, rInputs, sInputs, rBins, rStash, rInserted, sStatus>>
      /\ rPos' = rPos /\ rIn' = rIn /\ \A p : CorrAt(p)' = CorrAt(p)
  BY <1>2, SenderFrame
<1>4. theirCorrOT = <<>> /\ Len(theirCorrOT) = 0
  BY <1>1, EmptySeq DEF SenderAt
<1>5. SenderAt'
  BY <1>1, <1>2, <1>3, <1>4 DEF SenderAt
<1>6. AtHand'
  BY <1>2, <1>4 DEF AtHand
<1>7. sPos' = sPos /\ sDone' = sDone
  BY <1>1 DEF sPos, sDone
<1>8. Corrections' /\ Masks'
  BY <1>2, <1>3, <1>7, CorrectionsFrame, MasksFrame
<1>9. ToReceiver'
  <2>1. toReceiver = <<>> /\ rIn = 0
    BY <1>1, NoMasksYet
  <2>2. PICK masks : masks = [h \in 1..3 |-> myMaskBuff[h - 1]]
    OBVIOUS
  <2>3. \A h \in 1..3 : h - 1 \in HashIdx /\ h - 1 < 3
    BY DEF HashIdx
  <2>4. masks \in [1..3 -> [Slot -> Mask]]
    BY <2>2, <2>3 DEF Masks
  <2>5. masks \in Seq([Slot -> Mask]) /\ Len(masks) = 3
    BY <2>4, CountedSeq
  <2>6. toReceiver' = masks
    BY <1>1, <2>1, <2>2, <2>5, ConcatEmptySeq
  <2>7. rIn' = 0 /\ sOut' = 3
    BY <1>1, <1>3, <2>1 DEF sOut
  <2>8. ASSUME NEW k \in 1..3 PROVE masks[k] = OutMsg(rIn + k - 1)'
    <3>1. rIn' + k - 1 = k - 1 /\ k - 1 < 3
      BY <2>7
    <3> QED
      BY <1>2, <2>2, <3>1 DEF OutMsg
  <2>9. rIn' + Len(toReceiver') = sOut'
    BY <2>5, <2>6, <2>7
  <2>10. \A k \in 1..Len(toReceiver') : toReceiver'[k] = OutMsg(rIn + k - 1)'
    BY <2>5, <2>6, <2>8
  <2> QED
    BY <2>5, <2>6, <2>9, <2>10 DEF ToReceiver
<1> QED
  BY <1>3, <1>5, <1>6, <1>8, <1>9

LEMMA RecvStashKeepsIInv == IInv /\ RecvStash => IInv'
<1> SUFFICES ASSUME IInv, RecvStash PROVE IInv'
  OBVIOUS
<1> USE DEF IInv
<1>1. /\ sPhase = "stash" /\ toSender # <<>> /\ toSender' = Tail(toSender) /\ sStep' = 0
  BY DEF RecvStash
<1>2. Frozen /\ UNCHANGED <<rVars, myMaskBuff, idxPermuteDone, toReceiver>>
  BY DEF RecvStash, Frozen
<1>3. /\ Inputs' /\ Tables' /\ SimpleInv' /\ ReceiverAt' /\ Local' /\ Result'
      /\ UNCHANGED <<addr, rInputs, sInputs, rBins, rStash, rInserted, sStatus>>
      /\ rPos' = rPos /\ rIn' = rIn /\ \A p : CorrAt(p)' = CorrAt(p)
  BY <1>2, SenderFrame
<1>4. /\ rInserted /\ Placed /\ Head(toSender) = CorrMsg(sPos) /\ sPos = NumBin
      /\ sStatus = "inserted"
  BY <1>1, FirstCorrections DEF sPos, SenderAt
<1>5. /\ Width(NumBin) = MaxStash
      /\ CorrMsg(NumBin) \in Seq(Block) /\ Len(CorrMsg(NumBin)) = MaxStash
      /\ \A k \in 1..MaxStash : CorrMsg(NumBin)[k] = CorrAt(NumBin + k - 1)
  <2>1. NumBin \in Nat /\ NumBin <= NumBin
    BY Sizes
  <2>2. Width(NumBin) = MaxStash
    BY <2>1, Widths
  <2> QED
    BY <1>4, <2>1, <2>2, CorrMsgTyped
<1>6. theirCorrOT' = CorrMsg(NumBin) /\ sPhase' = "stashMasks"
  BY <1>4, <1>5 DEF RecvStash
<1>7. SenderAt'
  BY <1>1, <1>3, <1>4, <1>5, <1>6, Sizes DEF SenderAt
<1>8. AtHand'
  <2>1. sNext' = NumBin + 0
    BY <1>1, <1>6 DEF sNext
  <2>2. \A k \in 1..MaxStash : (NumBin + 0) + k - 1 = NumBin + k - 1
    BY Sizes
  <2>3. \A k \in 1..Len(theirCorrOT') : theirCorrOT'[k] = CorrAt((NumBin + 0) + k - 1)
    BY <1>5, <1>6, <2>2
  <2> QED
    BY <1>3, <2>1, <2>3 DEF AtHand, CorrAt, CorrectionOf, EntryAt, Cuckoo!IsEmpty, Cuckoo!NoItem
<1>9. sPos' = sPos + Width(sPos) /\ sDone' = sDone /\ sOut' = sOut
  BY <1>1, <1>4, <1>5, <1>6, Sizes DEF sPos, sDone, sOut
<1>10. Corrections'
  BY <1>1, <1>3, <1>9, TakeCorrections
<1>11. Masks' /\ ToReceiver'
  BY <1>2, <1>3, <1>9, MasksFrame, ToReceiverFrame
<1> QED
  BY <1>3, <1>7, <1>8, <1>10, <1>11

LEMMA SendStashMasksKeepsIInv == IInv /\ SendStashMasks => IInv'
<1> SUFFICES ASSUME IInv, SendStashMasks PROVE IInv'
  OBVIOUS
<1> USE DEF IInv
<1> DEFINE n == Len(theirCorrOT)
<1>1. /\ sPhase = "stashMasks" /\ theirCorrOT' = Tail(theirCorrOT) /\ sStep' = sStep + 1
      /\ sPhase' = IF sStep + 1 < MaxStash THEN sPhase ELSE "done"
  BY DEF SendStashMasks
<1>2. Frozen /\ UNCHANGED <<rVars, myMaskBuff, idxPermuteDone, toSender>>
  BY DEF SendStashMasks, Frozen
<1>3. /\ Inputs' /\ Tables' /\ SimpleInv' /\ ReceiverAt' /\ Local' /\ Result'
      /\ UNCHANGED <<addr, rInputs, sInputs, rBins, rStash, rInserted, sStatus>>
      /\ rPos' = rPos /\ rIn' = rIn /\ \A p : CorrAt(p)' = CorrAt(p)
  BY <1>2, SenderFrame
<1>4. /\ theirCorrOT \in Seq(Block) /\ sStep \in Nat /\ sStep < MaxStash /\ n = MaxStash - sStep
      /\ rInserted /\ sStatus = "inserted"
  BY <1>1 DEF SenderAt
<1>5. n \in Nat \ {0} /\ theirCorrOT # <<>>
  BY <1>4, Sizes, EmptySeq
<1>6. /\ Head(theirCorrOT) = theirCorrOT[1]
      /\ theirCorrOT' \in Seq(Block) /\ Len(theirCorrOT') = n - 1
      /\ \A k \in 1..n - 1 : theirCorrOT'[k] = theirCorrOT[k + 1]
  BY <1>1, <1>4, <1>5, HeadTail
<1>7. \A k \in 1..n : theirCorrOT[k] = CorrAt((NumBin + sStep) + k - 1)
  BY <1>1 DEF AtHand, sNext
<1> HIDE DEF n
<1>8. Head(theirCorrOT) = CorrAt(NumBin + sStep)
  <2>1. 1 \in 1..n /\ (NumBin + sStep) + 1 - 1 = NumBin + sStep
    BY <1>4, <1>5, Sizes
  <2> QED
    BY <1>6, <1>7, <2>1
<1>9. toReceiver' = Append(toReceiver, StashOut(sStep))
  <2>1. toReceiver' = Append(toReceiver, StashOutFor(sStep, Head(theirCorrOT)))
    BY DEF SendStashMasks, StashOutFor
  <2> QED
    BY <1>8, <2>1 DEF StashOut
<1>10. SenderAt'
  <2>1. Len(theirCorrOT') = 0 => theirCorrOT' = <<>>
    BY <1>6, EmptySeq
  <2>2. n - 1 = MaxStash - (sStep + 1) /\ (~ (sStep + 1 < MaxStash) => n - 1 = 0)
    BY <1>4, Sizes
  <2> QED
    BY <1>1, <1>3, <1>4, <1>6, <2>1, <2>2 DEF SenderAt
<1>11. AtHand'
  <2>1. ASSUME NEW k \in 1..Len(theirCorrOT')
        PROVE  theirCorrOT'[k] = CorrAt((NumBin + (sStep + 1)) + k - 1)
    <3>1. k \in 1..n - 1 /\ k + 1 \in 1..n
      BY <1>5, <1>6
    <3>2. (NumBin + sStep) + (k + 1) - 1 = (NumBin + (sStep + 1)) + k - 1
      BY <1>4, Sizes
    <3> QED
      BY <1>6, <1>7, <3>1, <3>2
  <2>2. sNext' = NumBin + (sStep + 1)
    BY <1>1 DEF sNext
  <2> QED
    BY <1>3, <2>1, <2>2 DEF AtHand, CorrAt, CorrectionOf, EntryAt, Cuckoo!IsEmpty, Cuckoo!NoItem
<1>12. sPos' = sPos /\ sDone' = sDone /\ sOut = 3 + sStep /\ sOut' = sOut + 1
  BY <1>1, <1>4, Sizes DEF sPos, sDone, sOut
<1>13. Corrections' /\ Masks'
  BY <1>2, <1>3, <1>12, CorrectionsFrame, MasksFrame
<1>14. ToReceiver'
  <2> DEFINE m == Len(toReceiver)
  <2>1. StashOut(sStep) \in [Slot -> Mask]
    <3>1. 0 \in HashIdx /\ 1 \in Slot /\ sStep \in Stash
      BY <1>4, Sizes DEF HashIdx, Slot, Stash
    <3> QED
      BY <1>4, <3>1, TablePlaced, MasksTyped
  <2>2. /\ m \in Nat /\ toReceiver' \in Seq([Slot -> Mask]) /\ Len(toReceiver') = m + 1
        /\ toReceiver'[m + 1] = StashOut(sStep)
        /\ \A k \in 1..m : toReceiver'[k] = toReceiver[k]
    BY <1>9, <2>1, Appended DEF ToReceiver
  <2>3. rIn \in Nat /\ rIn + m = sOut /\ \A k \in 1..m : toReceiver[k] = OutMsg(rIn + k - 1)
    BY Positions DEF ToReceiver
  <2> HIDE DEF m
  <2>4. rIn' + Len(toReceiver') = sOut'
    BY <1>3, <1>12, <2>2, <2>3
  <2>5. UNCHANGED <<addr, rInputs, sInputs, rBins, rStash, myMaskBuff>>
    BY <1>2, <1>3
  <2>6. ASSUME NEW k \in 1..m + 1 PROVE toReceiver'[k] = OutMsg(rIn + k - 1)'
    <3>1. PICK e : e = rIn + k - 1
      OBVIOUS
    <3>2. (rIn + k - 1)' = e
      BY <1>3, <3>1
    <3>3. OutMsg(rIn + k - 1)' = OutMsg(e)
      BY <2>5, <3>2, SameOut DEF OutMsg
    <3>4. CASE k \in 1..m
      BY <2>2, <2>3, <3>1, <3>3, <3>4
    <3>5. CASE k = m + 1
      <4>1. e = 3 + sStep
        BY <1>4, <1>12, <2>2, <2>3, <3>1, <3>5
      <4>2. ~ (e < 3) /\ e - 3 = sStep
        BY <1>4, <4>1
      <4>3. OutMsg(e) = StashOut(sStep)
        BY <4>2 DEF OutMsg
      <4> QED
        BY <2>2, <3>3, <3>5, <4>3
    <3> QED
      BY <2>2, <3>4, <3>5
  <2> QED
    BY <2>2, <2>4, <2>6 DEF ToReceiver
<1> QED
  BY <1>3, <1>10, <1>11, <1>13, <1>14

-----------------------------------------------------------------------------
(* The invariant.                                                          *)

LEMMA InitIInv == Init => IInv
<1> SUFFICES ASSUME Init PROVE IInv
  OBVIOUS
<1> USE DEF Init
<1>1. Inputs
  BY DEF Inputs
<1>2. Tables
  <2>1. C!CuckooAssumption
    BY SizeAssumption DEF C!CuckooAssumption
  <2>2. \A h \in HashIdx, i \in 1..RecvSize : addr[h][rInputs[i]] \in Bin
    BY <1>1, InputTypes DEF RecvItem
  <2>3. [h \in HashIdx |-> [i \in 1..RecvSize |-> addr[h][rInputs[i]]]]
          \in [HashIdx -> [1..RecvSize -> Bin]]
    BY <2>2
  <2>4. C!Init
    BY <2>3 DEF C!Init, C!HashIdx, HashIdx, C!Item, C!Bin, Bin, C!Empty, Cuckoo!Empty,
       C!Entry, Cuckoo!Entry, C!NoItem, Cuckoo!NoItem, C!NoCall, Cuckoo!NoCall,
       C!Call, Cuckoo!Call
  <2>5. C!IInv
    BY <2>1, <2>4, C!InitIInv
  <2> QED
    BY <2>5 DEF Tables
<1>3. SimpleInv
  <2>1. sItem \in 1..SendSize + 1 /\ sFn \in HashIdx
    BY Sizes DEF HashIdx
  <2>2. sBins \in [Bin -> Seq(SendEntry)] /\ \A b \in Bin : 1..Len(sBins[b]) = {}
    OBVIOUS
  <2>3. \A j \in Slot, h \in HashIdx : ~ Before(j, h)
    BY DEF Before, Earlier, Slot, HashIdx
  <2> QED
    BY <2>1, <2>2, <2>3 DEF SimpleInv
<1>4. ReceiverAt /\ SenderAt
  BY Sizes DEF ReceiverAt, SenderAt
<1>5. AtHand
  BY DEF AtHand
<1>6. Corrections
  <2>1. PICK st : st = [k \in 1..Len(toSender) + 1 |-> 0]
    OBVIOUS
  <2>2. Len(toSender) = 0 /\ Len(theirCorrOT) = 0
    OBVIOUS
  <2>3. st[1] = 0 /\ st[Len(toSender) + 1] = 0
    BY <2>1, <2>2
  <2>4. rPos = 0 /\ sPos = 0
    BY <2>2 DEF rPos, sPos
  <2>5. ToSender(st)
    BY <2>2, <2>3, <2>4 DEF ToSender
  <2>6. st \in [1..Len(toSender) + 1 -> 0..NumBin + MaxStash]
    BY <2>1, Sizes
  <2>7. toSender \in Seq(Seq(Block))
    OBVIOUS
  <2> QED
    BY <2>5, <2>6, <2>7 DEF Corrections
<1>7. Masks
  <2>1. PICK pos : pos = [h \in HashIdx |-> [j \in Slot |-> 1]]
    OBVIOUS
  <2>2. pos \in [HashIdx -> [Slot -> Slot]]
    BY <2>1, Sizes DEF Slot
  <2>3. \A h \in HashIdx : Masked(h) = {}
    <3>1. \A h \in HashIdx, j \in Slot : ~ (addr[h][sInputs[j]] < 0)
      BY <1>1, InputTypes, Sizes DEF Bin
    <3> QED
      BY <3>1 DEF Masked, sDone
  <2>4. Cardinality({}) = 0
    BY FS_EmptySet
  <2>5. \A h \in HashIdx : MasksAt(pos, h)
    BY <2>3, <2>4 DEF MasksAt
  <2>6. idxPermuteDone = [h \in HashIdx |-> idxPermuteDone[h]]
    OBVIOUS
  <2>7. myMaskBuff \in [HashIdx -> [Slot -> Mask]]
    BY DEF Mask
  <2> QED
    BY <2>2, <2>5, <2>6, <2>7 DEF Masks
<1>8. ToReceiver
  BY DEF ToReceiver, rIn, sOut
<1>9. Local
  <2>1. \A b \in Bin : ~ (b < 0)
    BY Sizes DEF Bin
  <2> QED
    BY <2>1 DEF Local, LocalAt, rSent
<1>10. Result
  <2>1. \A p : ~ Looked(p)
    BY DEF Looked
  <2> QED
    BY <2>1 DEF Result, Seen
<1> QED
  BY <1>1, <1>2, <1>3, <1>4, <1>5, <1>6, <1>7, <1>8, <1>9, <1>10 DEF IInv

LEMMA StutterKeepsIInv == IInv /\ UNCHANGED vars => IInv'
<1> SUFFICES ASSUME IInv, UNCHANGED vars PROVE IInv'
  OBVIOUS
<1> USE DEF IInv
<1>1. Frozen /\ UNCHANGED <<rVars, sVars, toSender, toReceiver>>
  BY DEF vars, Frozen, chlVars
<1>2. UNCHANGED <<sPhase, sStep, theirCorrOT, myMaskBuff, idxPermuteDone>>
  BY <1>1 DEF sVars
<1>3. /\ Inputs' /\ Tables' /\ SimpleInv' /\ SenderAt' /\ AtHand' /\ Masks'
      /\ UNCHANGED <<addr, rInputs, sInputs, rBins, rStash, rInserted, myMaskBuff>>
      /\ sPos' = sPos /\ sOut' = sOut
  BY <1>1, ReceiverFrame
<1>4. ReceiverAt' /\ Local' /\ Result' /\ rPos' = rPos /\ rIn' = rIn
  BY <1>1, SenderFrame
<1>5. Corrections' /\ ToReceiver'
  BY <1>1, <1>3, <1>4, CorrectionsFrame, ToReceiverFrame
<1> QED
  BY <1>3, <1>4, <1>5

LEMMA NextKeepsIInv == IInv /\ [Next]_vars => IInv'
<1> SUFFICES ASSUME IInv, [Next]_vars PROVE IInv'
  OBVIOUS
<1>1. CASE Receiver
  BY <1>1, RHashKeepsIInv, SendCorrectionsKeepsIInv, RecvMasksKeepsIInv,
     SendStashKeepsIInv, RecvStashMasksKeepsIInv DEF Receiver
<1>2. CASE Sender
  BY <1>2, SHashKeepsIInv, RecvCorrectionsKeepsIInv, MaskBinKeepsIInv,
     SendMasksKeepsIInv, RecvStashKeepsIInv, SendStashMasksKeepsIInv DEF Sender
<1> QED
  BY <1>1, <1>2, StutterKeepsIInv DEF Next

\* What the two parties do keeps the tables, the messages under way, the masks
\* and the result in step.
THEOREM Invariance == Spec => []IInv
BY InitIInv, NextKeepsIInv, PTL DEF Spec

-----------------------------------------------------------------------------
(* What follows from it.                                                   *)

LEMMA TypesFollow == IInv => TypeOK
<1> SUFFICES ASSUME IInv PROVE TypeOK
  OBVIOUS
<1> USE DEF IInv
<1>1. Cuckoo!TypeOK
  <2>1. C!TypeOK
    BY DEF Tables, C!IInv
  <2> QED
    BY <2>1 DEF C!TypeOK, Cuckoo!TypeOK, C!HashIdx, Cuckoo!HashIdx, C!Item, Cuckoo!Item,
       C!Bin, Cuckoo!Bin, C!EntryType, Cuckoo!EntryType
<1>2. mIntersection \in [RecvItem -> Nat]
  BY DEF Result
<1>3. idxPermuteDone \in [HashIdx -> 0..SendSize]
  <2>1. \A h \in HashIdx : idxPermuteDone[h] = Cardinality(Masked(h))
    BY DEF Masks, MasksAt
  <2>2. \A h \in HashIdx : Cardinality(Masked(h)) \in 0..SendSize
    <3> SUFFICES ASSUME NEW h \in HashIdx PROVE Cardinality(Masked(h)) \in 0..SendSize
      OBVIOUS
    <3>1. Masked(h) \subseteq Slot
      BY DEF Masked
    <3>2. IsFiniteSet(Masked(h)) /\ Cardinality(Masked(h)) <= SendSize
      BY <3>1, SlotCount, FS_Subset
    <3>3. Cardinality(Masked(h)) \in Nat
      BY <3>2, FS_CardinalityType
    <3> QED
      BY <3>2, <3>3, Sizes
  <2> QED
    BY <2>1, <2>2 DEF Masks
<1>4. sBins \in [Bin -> Seq([mIdx : Slot, mHashIdx : HashIdx])]
  BY DEF SimpleInv, SendEntry
<1> QED
  BY <1>1, <1>2, <1>3, <1>4
     DEF TypeOK, Inputs, SimpleInv, ReceiverAt, SenderAt, Corrections

LEMMA OnlyCommonFollows == IInv => OnlyCommon
BY DEF IInv, Result, OnlyCommon, Common

LEMMA AllCommonFollows == IInv => AllCommon
<1> SUFFICES ASSUME IInv, rPhase = "done", NEW i \in RecvItem, Common(i),
                    mIntersection[i] # 1
             PROVE  /\ ~ Cuckoo!InBins(i) /\ ~ Cuckoo!InStash(i)
                    /\ \A k \in DOMAIN rStash : ~ Cuckoo!IsEmpty(rStash[k])
  BY DEF AllCommon, Common
<1> USE DEF IInv
<1>1. rInserted /\ Tables
  BY DEF ReceiverAt
<1>2. ~ Seen(i)
  BY DEF Result
<1>3. \A p \in Ot : EntryAt(p).mIdx # i
  <2>1. \A p \in Ot : Looked(p)
    BY Sizes DEF Looked, Ot
  <2> QED
    BY <1>2, <2>1 DEF Seen
<1>4. DOMAIN rStash = 1..MaxStash
  BY <1>1 DEF Tables, C!IInv, C!TypeOK
<1>5. ~ Cuckoo!InBins(i) /\ ~ C!InBins(i)
  BY <1>3, OtSplit DEF Cuckoo!InBins, C!InBins, Cuckoo!Bin, C!Bin, Bin
<1>6. ~ Cuckoo!InStash(i) /\ ~ C!InStash(i)
  BY <1>3, <1>4, OtSplit DEF Cuckoo!InStash, C!InStash
<1>7. C!NoneLost /\ C!Fresh /\ C!TypeOK
  BY <1>1 DEF Tables, C!IInv
<1>8. rHand = C!NoCall /\ rNext \notin C!Item
  BY <1>1, <1>7 DEF C!Fresh, C!Running
<1>9. i \in 1..rNext - 1 /\ i # 0
  BY <1>7, <1>8, Sizes DEF C!TypeOK, C!Item, RecvItem
<1>10. rHand.idx = 0
  BY <1>8 DEF C!NoCall, C!Call, C!NoItem
<1>11. \A k \in 1..MaxStash : ~ C!IsEmpty(rStash[k])
  BY <1>5, <1>6, <1>7, <1>9, <1>10 DEF C!NoneLost
<1> QED
  BY <1>4, <1>5, <1>6, <1>11 DEF C!IsEmpty, Cuckoo!IsEmpty, C!NoItem, Cuckoo!NoItem

LEMMA SlotsFilledFollows == IInv => SlotsFilled
<1> SUFFICES ASSUME IInv, sPhase \notin {"bins", "failed"}, NEW h \in HashIdx
             PROVE  idxPermuteDone[h] = SendSize /\ \A k \in Slot : myMaskBuff[h][k] # Unset
  BY DEF SlotsFilled
<1> USE DEF IInv
<1>1. rInserted /\ Placed
  BY TablePlaced DEF SenderAt
<1>2. /\ idxPermuteDone[h] = SendSize
      /\ \E f : Permutes(f) /\ \A j \in Slot : myMaskBuff[h][f[j]] = MaskOf(h, j)
  BY AllMasked
<1>3. PICK f : Permutes(f) /\ \A j \in Slot : myMaskBuff[h][f[j]] = MaskOf(h, j)
  BY <1>2
<1>4. 0 \in Stash
  BY Sizes DEF Stash
<1>5. \A j \in Slot : MaskOf(h, j) # Unset
  BY <1>1, <1>4, MasksTyped
<1>6. \A k \in Slot : \E j \in Slot : f[j] = k
  BY <1>3, PermutesOnto
<1>7. \A k \in Slot : myMaskBuff[h][k] # Unset
  BY <1>3, <1>5, <1>6
<1> QED
  BY <1>2, <1>7

LEMMA LockstepFollows == IInv => Lockstep
BY DEF IInv, ReceiverAt, SenderAt, Lockstep

\* Type correctness: every message of corrections is a sequence of blocks, and
\* the sender never counts more masks of a function than it has items.
THEOREM TypeCorrect == Spec => []TypeOK
BY Invariance, TypesFollow, PTL

\* The receiver learns of no item that only it has, and lists none twice: the
\* codes keep apart items and positions, the table has an item once.
THEOREM OnlyCommonHolds == Spec => []OnlyCommon
BY Invariance, OnlyCommonFollows, PTL

\* At the end the receiver has every common item for which its stash had room.
THEOREM AllCommonHolds == Spec => []AllCommon
BY Invariance, AllCommonFollows, PTL

\* When the sender sends its masks every slot has been written: the entries of
\* all bins under a function are as many as the items, and go to distinct slots.
THEOREM SlotsFilledHolds == Spec => []SlotsFilled
BY Invariance, SlotsFilledFollows, PTL

\* Neither party ever meets a message of another size than it expects, wherever
\* the bins are divided into batches: no party throws.
THEOREM LockstepHolds == Spec => []Lockstep
BY Invariance, LockstepFollows, PTL
=============================================================================
