------------------------------- MODULE BopPsi -------------------------------
(***************************************************************************)
(* The online phase of the set intersection: sendInput of BopPsiReceiver   *)
(* and of BopPsiSender, with their hash tables, over one channel.          *)
(*                                                                         *)
(* A block is the set of its bits that are 1, so ^ is the symmetric        *)
(* difference and & the intersection.  SHA1 is a function without          *)
(* collisions, written as the tuple of its inputs.  init has left the two  *)
(* parties with the OT messages T0, T1 and with Choice and Q.              *)
(* The channel is the FIFO channel of FifoChannel, open throughout.        *)
(***************************************************************************)
EXTENDS Naturals, Sequences, FiniteSets

CONSTANTS
    Value,              \* the items
    RecvSize, SendSize, \* mRecverSize and mSenderSize
    RecvSets, SendSets, \* the inputs considered, sequences of distinct items
    HashFns,            \* the hash functions considered
    NumBin,             \* mBinCount
    MaxStash,           \* mNumStash
    MaxBin,             \* mMaxBinSize
    StepSize,           \* bins per message of corrections
    Bit,                \* the bits of a blockBop
    CodeBit,            \* those in the first codeWordSize bytes
    Code,               \* Code[v]: the four AES hashes of v
    T0, T1,             \* the receiver's OT messages mSSOtMessages
    Choice,             \* the sender's mSSOtChoice
    Dummy,              \* what is sent for bins without an item
    Permute,            \* Permute[h][k]: where the k-th mask of function h goes
    StashPermute        \* StashPermute[s][k]: the same for a stash position

HashIdx == 0..2
Bin == 0..NumBin - 1
Stash == 0..MaxStash - 1
Ot == 0..NumBin + MaxStash - 1
Slot == 1..SendSize
RecvItem == 1..RecvSize
Block == SUBSET Bit

Xor(a, b) == (a \ b) \cup (b \ a)
And(a, b) == a \cap b
Prefix(a) == a \cap CodeBit

ASSUME SizeAssumption ==
    /\ RecvSize \in Nat \ {0} /\ SendSize \in Nat \ {0} /\ NumBin \in Nat \ {0}
    /\ MaxStash \in Nat \ {0} /\ MaxBin \in Nat /\ StepSize \in Nat \ {0}

Distinct(seq) == \A i, j \in DOMAIN seq : seq[i] = seq[j] => i = j

ASSUME InputAssumption ==
    /\ HashFns \subseteq [HashIdx -> [Value -> Bin]]
    /\ RecvSets \subseteq {seq \in [RecvItem -> Value] : Distinct(seq)}
    /\ SendSets \subseteq {seq \in [Slot -> Value] : Distinct(seq)}

ASSUME BlockAssumption ==
    /\ CodeBit \in Block /\ Choice \in Block
    /\ Code \in [Value -> Block]
    /\ T0 \in [Ot -> Block] /\ T1 \in [Ot -> Block] /\ Dummy \in [Ot -> Block]

\* std::shuffle permutes.
Permutes(f) == f \in [Slot -> Slot] /\ \A k, m \in Slot : f[k] = f[m] => k = m
ASSUME PermuteAssumption ==
    /\ \A h \in HashIdx : Permutes(Permute[h])
    /\ \A s \in Stash : Permutes(StashPermute[s])

\* What SSOtExtSender::Extend gives the sender.
Q(ot) == Xor(T0[ot], And(Xor(T0[ot], T1[ot]), Choice))

\* What the receiver sends for an item in position ot.
Correction(v, ot) == Xor(Xor(Code[v], T0[ot]), T1[ot])

\* What the sender computes for an item from a correction.
Encoded(v, ot, corr) == Xor(Q(ot), And(Xor(corr, Code[v]), Choice))

\* The codes of two items differ in a bit that the sender has chosen, and
\* random OT messages are as different as codes: each fails with a
\* probability that statSecParam bounds.
ASSUME CodeAssumption ==
    \A v, w \in Value : v # w => And(Xor(Code[v], Code[w]), Choice) \cap CodeBit # {}
ASSUME SeparateAssumption ==
    \A v, w \in Value : \A a, b \in Ot : a # b =>
        /\ Prefix(Encoded(v, a, Correction(w, a))) # Prefix(T0[b])
        /\ Prefix(T0[a]) # Prefix(T0[b])
ASSUME DummyAssumption ==
    \A v \in Value : \A a, b \in Ot : Prefix(Encoded(v, a, Dummy[a])) # Prefix(T0[b])

-----------------------------------------------------------------------------
VARIABLES
    addr,               \* addr[h][v]: the bin function h names for item v
    rInputs, sInputs,   \* the inputs of the two parties, without duplicates
    rBins, rStash, rNext, rHand, rInserted,     \* the receiver's CuckooHasher
    sBins, sItem, sFn, sStatus,                 \* the sender's SimpleHasher
    rPhase, rStep,      \* where the receiver is, and its loop variable
    localMasks,         \* localMasks[h]: masks of the receiver's items, by item
    mIntersection,      \* mIntersection[i]: how often item i is in it
    sPhase, sStep,
    theirCorrOT,        \* the batch of corrections the sender works on
    myMaskBuff,         \* myMaskBuff[h][slot]: the masks computed so far
    idxPermuteDone,     \* idxPermuteDone[h]: how many
    toSender, toReceiver    \* the channel

inputVars == <<addr, rInputs, sInputs>>
rHashVars == <<rBins, rStash, rNext, rHand, rInserted>>
sHashVars == <<sBins, sItem, sFn, sStatus>>
rVars     == <<rPhase, rStep, localMasks, mIntersection>>
sVars     == <<sPhase, sStep, theirCorrOT, myMaskBuff, idxPermuteDone>>
chlVars   == <<toSender, toReceiver>>
vars == <<inputVars, rHashVars, sHashVars, rVars, sVars, chlVars>>

Cuckoo == INSTANCE CuckooHasher WITH
    NumItem <- RecvSize, MaxEvict <- RecvSize,
    hash <- [h \in HashIdx |-> [i \in 1..RecvSize |-> addr[h][rInputs[i]]]],
    mBins <- rBins, mStash <- rStash, next <- rNext, hand <- rHand,
    inserted <- rInserted

Simple == INSTANCE SimpleHasher WITH
    NumItem <- SendSize,
    hash <- [h \in HashIdx |-> [i \in 1..SendSize |-> addr[h][sInputs[i]]]],
    mBins <- sBins, item <- sItem, fn <- sFn, status <- sStatus

Unset == <<>>
NoMask == <<>>

Init ==
    /\ addr \in HashFns /\ rInputs \in RecvSets /\ sInputs \in SendSets
    /\ rBins = [b \in Bin |-> Cuckoo!Empty]
    /\ rStash = <<>> /\ rNext = 1 /\ rHand = Cuckoo!NoCall /\ rInserted = FALSE
    /\ sBins = [b \in Bin |-> <<>>]
    /\ sItem = 1 /\ sFn = 0 /\ sStatus = "inserting"
    /\ rPhase = "bins" /\ rStep = 0
    /\ localMasks = [h \in HashIdx |-> [i \in RecvItem |-> NoMask]]
    /\ mIntersection = [i \in RecvItem |-> 0]
    /\ sPhase = "bins" /\ sStep = 0
    /\ theirCorrOT = <<>>
    /\ myMaskBuff = [h \in HashIdx |-> [k \in Slot |-> Unset]]
    /\ idxPermuteDone = [h \in HashIdx |-> 0]
    /\ toSender = <<>> /\ toReceiver = <<>>

-----------------------------------------------------------------------------
(* Both parties.                                                           *)

\* The number of bins in the batch that begins with bin b; the last may be
\* short.
BatchSize(b) == IF NumBin - b < StepSize THEN NumBin - b ELSE StepSize

\* The masks of bins begin with the hash function, those of the stash do not.
BinMask(h, block) == <<h, Prefix(block)>>
StashMask(block) == <<Prefix(block)>>

-----------------------------------------------------------------------------
(* The receiver.                                                           *)

RHash ==
    /\ UNCHANGED <<inputVars, sHashVars, rVars, sVars, chlVars>>
    /\ Cuckoo!Next

\* The corrections of one batch, and the receiver's own masks.  (No two masks
\* of the receiver are equal, so emplace always inserts.)
CorrectionOf(entry, ot) ==
    IF Cuckoo!IsEmpty(entry) THEN Dummy[ot]
    ELSE Correction(rInputs[entry.mIdx], ot)

SendCorrections ==
    /\ rInserted /\ rPhase = "bins"
    /\ LET n == BatchSize(rStep)
           batch == rStep..rStep + n - 1
       IN /\ toSender' = Append(toSender,
                [k \in 1..n |-> CorrectionOf(rBins[rStep + k - 1], rStep + k - 1)])
          /\ localMasks' = [h \in HashIdx |-> [i \in RecvItem |->
                IF \E b \in batch : rBins[b] = Cuckoo!Entry(i, h)
                THEN BinMask(h, T0[CHOOSE b \in batch : rBins[b] = Cuckoo!Entry(i, h)])
                ELSE localMasks[h][i]]]
          /\ \/ rStep + n < NumBin /\ rStep' = rStep + n /\ UNCHANGED rPhase
             \/ rStep + n >= NumBin /\ rStep' = 0 /\ rPhase' = "buckets"
    /\ UNCHANGED <<inputVars, rHashVars, sHashVars, mIntersection, sVars, toReceiver>>

\* How often a mask is among those received.
Count(mask, masks) == Cardinality({k \in DOMAIN masks : masks[k] = mask})

\* A message of the wrong size.
ReceiverThrows ==
    /\ rPhase' = "failed"
    /\ UNCHANGED <<rStep, mIntersection>>

\* The masks of hash function rStep.
RecvMasks ==
    /\ rPhase = "buckets" /\ toReceiver # <<>>
    /\ LET masks == Head(toReceiver) IN
         \/ Len(masks) # SendSize /\ ReceiverThrows
         \/ /\ Len(masks) = SendSize
            /\ mIntersection' = [i \in RecvItem |-> mIntersection[i] +
                 IF localMasks[rStep][i] = NoMask THEN 0
                 ELSE Count(localMasks[rStep][i], masks)]
            /\ \/ rStep < 2 /\ rStep' = rStep + 1 /\ UNCHANGED rPhase
               \/ rStep = 2 /\ rStep' = 0 /\ rPhase' = "stash"
    /\ toReceiver' = Tail(toReceiver)
    /\ UNCHANGED <<inputVars, rHashVars, sHashVars, localMasks, sVars, toSender>>

SendStash ==
    /\ rPhase = "stash"
    /\ toSender' = Append(toSender,
            [k \in 1..Len(rStash) |-> CorrectionOf(rStash[k], NumBin + k - 1)])
    /\ rPhase' = "stashMasks"
    /\ UNCHANGED <<inputVars, rHashVars, sHashVars, rStep, localMasks,
                   mIntersection, sVars, toReceiver>>

\* The masks of stash position rStep; nothing is looked at if it is empty.
RecvStashMasks ==
    /\ rPhase = "stashMasks" /\ toReceiver # <<>>
    /\ LET masks == Head(toReceiver)
           entry == rStash[rStep + 1]
       IN \/ ~ Cuckoo!IsEmpty(entry) /\ Len(masks) # SendSize /\ ReceiverThrows
          \/ /\ Cuckoo!IsEmpty(entry) \/ Len(masks) = SendSize
             /\ mIntersection' = [i \in RecvItem |-> mIntersection[i] +
                  IF entry.mIdx # i THEN 0
                  ELSE Count(StashMask(T0[NumBin + rStep]), masks)]
             /\ rStep' = rStep + 1
             /\ rPhase' = IF rStep + 1 < MaxStash THEN rPhase ELSE "done"
    /\ toReceiver' = Tail(toReceiver)
    /\ UNCHANGED <<inputVars, rHashVars, sHashVars, localMasks, sVars, toSender>>

-----------------------------------------------------------------------------
(* The sender.                                                             *)

SHash ==
    /\ UNCHANGED <<inputVars, rHashVars, rVars, sVars, chlVars>>
    /\ Simple!Next

SenderThrows ==
    /\ sPhase' = "failed"
    /\ UNCHANGED theirCorrOT

RecvCorrections ==
    /\ sStatus = "inserted" /\ sPhase = "bins" /\ theirCorrOT = <<>>
    /\ toSender # <<>>
    /\ \/ Len(Head(toSender)) # BatchSize(sStep) /\ SenderThrows
       \/ /\ Len(Head(toSender)) = BatchSize(sStep)
          /\ theirCorrOT' = Head(toSender)
          /\ UNCHANGED sPhase
    /\ toSender' = Tail(toSender)
    /\ UNCHANGED <<inputVars, rHashVars, sHashVars, rVars, sStep, myMaskBuff,
                   idxPermuteDone, toReceiver>>

\* The entries of a bin that come under function h, and the slot of the k-th
\* of them.  (Overwrites begins anew with every bin.)
Under(h, entries, n) == {k \in 1..n : entries[k].mHashIdx = h}
Overwrites(h, entries, k) == Permute[h][Cardinality(Under(h, entries, k))]
SlotOf(h, entries, k) ==
    Permute[h][idxPermuteDone[h] + Cardinality(Under(h, entries, k))]

\* The masks of the items in bin sStep.
MaskBin ==
    /\ sPhase = "bins" /\ theirCorrOT # <<>>
    /\ LET entries == sBins[sStep]
           corr == Head(theirCorrOT)
           MaskFor(k) == BinMask(entries[k].mHashIdx,
                                 Encoded(sInputs[entries[k].mIdx], sStep, corr))
       IN /\ myMaskBuff' = [h \in HashIdx |-> [slot \in Slot |->
                IF \E k \in Under(h, entries, Len(entries)) : SlotOf(h, entries, k) = slot
                THEN MaskFor(CHOOSE k \in Under(h, entries, Len(entries)) :
                                SlotOf(h, entries, k) = slot)
                ELSE myMaskBuff[h][slot]]]
          /\ idxPermuteDone' = [h \in HashIdx |->
                idxPermuteDone[h] + Cardinality(Under(h, entries, Len(entries)))]
    /\ theirCorrOT' = Tail(theirCorrOT)
    /\ sStep' = sStep + 1
    /\ sPhase' = IF sStep + 1 < NumBin THEN sPhase ELSE "masks"
    /\ UNCHANGED <<inputVars, rHashVars, sHashVars, rVars, chlVars>>

\* One message for every hash function.
SendMasks ==
    /\ sPhase = "masks"
    /\ toReceiver' = toReceiver \o [h \in 1..3 |-> myMaskBuff[h - 1]]
    /\ sPhase' = "stash"
    /\ UNCHANGED <<inputVars, rHashVars, sHashVars, rVars, sStep, theirCorrOT,
                   myMaskBuff, idxPermuteDone, toSender>>

RecvStash ==
    /\ sPhase = "stash" /\ toSender # <<>>
    /\ \/ Len(Head(toSender)) # MaxStash /\ SenderThrows
       \/ /\ Len(Head(toSender)) = MaxStash
          /\ theirCorrOT' = Head(toSender)
          /\ sPhase' = "stashMasks"
    /\ toSender' = Tail(toSender)
    /\ sStep' = 0
    /\ UNCHANGED <<inputVars, rHashVars, sHashVars, rVars, myMaskBuff,
                   idxPermuteDone, toReceiver>>

\* Masks of all items for stash position sStep, in permuted slots.
SendStashMasks ==
    /\ sPhase = "stashMasks"
    /\ toReceiver' = Append(toReceiver, [slot \in Slot |->
            LET k == CHOOSE m \in Slot : StashPermute[sStep][m] = slot
            IN StashMask(Encoded(sInputs[k], NumBin + sStep, Head(theirCorrOT)))])
    /\ theirCorrOT' = Tail(theirCorrOT)
    /\ sStep' = sStep + 1
    /\ sPhase' = IF sStep + 1 < MaxStash THEN sPhase ELSE "done"
    /\ UNCHANGED <<inputVars, rHashVars, sHashVars, rVars, myMaskBuff,
                   idxPermuteDone, toSender>>

-----------------------------------------------------------------------------
Receiver ==
    RHash \/ SendCorrections \/ RecvMasks \/ SendStash \/ RecvStashMasks

Sender ==
    SHash \/ RecvCorrections \/ MaskBin \/ SendMasks \/ RecvStash \/ SendStashMasks

Next == Receiver \/ Sender

Spec == Init /\ [][Next]_vars

\* Each party is one thread that waits for nothing but messages.
FairSpec == Spec /\ WF_vars(Receiver) /\ WF_vars(Sender)

-----------------------------------------------------------------------------
(* Properties.                                                             *)

TypeOK ==
    /\ addr \in HashFns /\ rInputs \in RecvSets /\ sInputs \in SendSets
    /\ Cuckoo!TypeOK
    /\ sBins \in [Bin -> Seq([mIdx : Slot, mHashIdx : HashIdx])]
    /\ sItem \in 1..SendSize + 1 /\ sFn \in HashIdx
    /\ sStatus \in {"inserting", "inserted", "thrown"}
    /\ rPhase \in {"bins", "buckets", "stash", "stashMasks", "done", "failed"}
    /\ rStep \in Nat /\ sStep \in Nat
    /\ mIntersection \in [RecvItem -> Nat]
    /\ sPhase \in {"bins", "masks", "stash", "stashMasks", "done", "failed"}
    /\ theirCorrOT \in Seq(Block)
    /\ idxPermuteDone \in [HashIdx -> 0..SendSize]
    /\ toSender \in Seq(Seq(Block))

\* The receiver learns only items that the sender has, and lists none twice.
OnlyCommon ==
    \A i \in RecvItem :
        /\ mIntersection[i] <= 1
        /\ mIntersection[i] = 1 => \E k \in Slot : sInputs[k] = rInputs[i]

\* At the end the receiver has every item that the sender has too, but for
\* those that the stash had no room for.
AllCommon ==
    rPhase = "done" =>
        \A i \in RecvItem :
            (\E k \in Slot : sInputs[k] = rInputs[i])
                => \/ mIntersection[i] = 1
                   \/ /\ ~ Cuckoo!InBins(i) /\ ~ Cuckoo!InStash(i)
                      /\ \A k \in DOMAIN rStash : ~ Cuckoo!IsEmpty(rStash[k])

\* Every slot of the three messages of masks has been written, once, when they
\* are sent (the commented-out check of BopPsiSender::sendInput).
SlotsFilled ==
    sPhase \notin {"bins", "failed"} =>
        \A h \in HashIdx :
            /\ idxPermuteDone[h] = SendSize
            /\ \A k \in Slot : myMaskBuff[h][k] # Unset

\* The two parties agree on which message is next: neither meets a message of
\* another size than it expects.
Lockstep == rPhase # "failed" /\ sPhase # "failed"

\* The protocol ends with the receiver's result, unless a bin of the sender
\* overflowed.
PsiEnds == <>((rPhase = "done" /\ sPhase = "done") \/ sStatus = "thrown")
=============================================================================
