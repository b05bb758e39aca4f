-------------------------------- MODULE Prng --------------------------------
(***************************************************************************)
(* PRNG: AES in counter mode, in a buffer that is refilled when it has     *)
(* been used up.  A byte is the tuple of the seed, the counter and the     *)
(* byte's place in the block that make it.                                 *)
(***************************************************************************)
EXTENDS Naturals, Sequences

CONSTANTS
    Gen,            \* the generators
    Seed,
    BlockBytes,     \* sizeof(block)
    BuffBlocks,     \* DEFAULT_BUFF_SIZE
    Lengths,        \* the lengths asked for
    MaxBytes,       \* bound: bytes asked for from a generator
    Garbage         \* what mBlockIdx may be before it is set

Capacity == BlockBytes * BuffBlocks

ASSUME PrngAssumption ==
    /\ BlockBytes \in Nat \ {0} /\ BuffBlocks \in Nat \ {0}
    /\ Lengths \subseteq Nat /\ MaxBytes \in Nat /\ Garbage \subseteq Nat

VARIABLES
    origin,         \* "none", "SetSeed" or "seeded", by the constructor
    mSeed, mBlockIdx, mBuffer, mBytesIdx,
    length,         \* what get_u8s still has to deliver
    out             \* history: the bytes delivered since the generator was seeded

prngVars == <<origin, mSeed, mBlockIdx, mBuffer, mBytesIdx, length, out>>

PrngInit ==
    /\ origin = [g \in Gen |-> "none"]
    /\ mSeed \in [Gen -> Seed]
    /\ mBlockIdx = [g \in Gen |-> 0] /\ mBytesIdx = [g \in Gen |-> 0]
    /\ mBuffer = [g \in Gen |-> <<>>]
    /\ length = [g \in Gen |-> 0] /\ out = [g \in Gen |-> <<>>]

KeyByte(seed, n, b) == <<seed, n, b>>

\* The buffer filled with the blocks number idx, idx + 1 and so on.
Filled(seed, idx) ==
    [k \in 1..Capacity |->
        KeyByte(seed, idx + (k - 1) \div BlockBytes, (k - 1) % BlockBytes)]

\* (NotReset is a counter that goes on.)
NotReset(g) == mBlockIdx[g]
FirstBlock(g) == 0

\* The generator is seeded and its buffer filled from block idx on.
Start(g, how, seed, idx) ==
    /\ origin' = [origin EXCEPT ![g] = how]
    /\ mSeed' = [mSeed EXCEPT ![g] = seed]
    /\ mBuffer' = [mBuffer EXCEPT ![g] = Filled(seed, idx)]
    /\ mBlockIdx' = [mBlockIdx EXCEPT ![g] = idx + BuffBlocks]
    /\ mBytesIdx' = [mBytesIdx EXCEPT ![g] = 0]
    /\ out' = [out EXCEPT ![g] = <<>>]
    /\ UNCHANGED length

\* At any time between two requests, too.
SetSeed(g) ==
    /\ length[g] = 0
    /\ \E seed \in Seed : Start(g, "SetSeed", seed, FirstBlock(g))

\* The constructor that takes a seed leaves mBlockIdx as the memory was.
Construct(g) ==
    /\ origin[g] = "none"
    /\ \E seed \in Seed, idx \in Garbage : Start(g, "seeded", seed, idx)

\* A call of get_u8s, get_block and the like.
GetU8s(g) ==
    /\ origin[g] # "none" /\ length[g] = 0
    /\ \E n \in Lengths :
         /\ Len(out[g]) + n <= MaxBytes
         /\ length' = [length EXCEPT ![g] = n]
    /\ UNCHANGED <<origin, mSeed, mBlockIdx, mBuffer, mBytesIdx, out>>

Lesser(a, b) == IF a < b THEN a ELSE b

\* One turn of its loop.
CopyBytes(g) ==
    /\ length[g] > 0
    /\ LET step == Lesser(length[g], Capacity - mBytesIdx[g])
           at == mBytesIdx[g] + step
       IN /\ out' = [out EXCEPT ![g] = @ \o SubSeq(mBuffer[g], mBytesIdx[g] + 1, at)]
          /\ length' = [length EXCEPT ![g] = @ - step]
          /\ \/ /\ at < Capacity
                /\ mBytesIdx' = [mBytesIdx EXCEPT ![g] = at]
                /\ UNCHANGED <<mBuffer, mBlockIdx>>
             \/ /\ at = Capacity
                /\ mBytesIdx' = [mBytesIdx EXCEPT ![g] = 0]
                /\ mBuffer' = [mBuffer EXCEPT ![g] = Filled(mSeed[g], mBlockIdx[g])]
                /\ mBlockIdx' = [mBlockIdx EXCEPT ![g] = @ + BuffBlocks]
    /\ UNCHANGED <<origin, mSeed>>

PrngNext == \E g \in Gen : SetSeed(g) \/ Construct(g) \/ GetU8s(g) \/ CopyBytes(g)

PrngSpec == PrngInit /\ [][PrngNext]_prngVars

-----------------------------------------------------------------------------
\* After SetSeed the bytes are those of the blocks 0, 1, 2 and so on, whatever
\* the lengths they were asked for in and wherever the buffer was refilled:
\* the function Prg that the OT layers rely on.
StreamKept ==
    \A g \in Gen : origin[g] = "SetSeed" =>
        \A k \in 1..Len(out[g]) :
            out[g][k] = KeyByte(mSeed[g], (k - 1) \div BlockBytes, (k - 1) % BlockBytes)

\* Generators that the constructor made from the same seed deliver the same
\* bytes, as the two parties of main.cpp need to have common items.
SameSeedSameStream ==
    \A g, h \in Gen :
        origin[g] = "seeded" /\ origin[h] = "seeded" /\ mSeed[g] = mSeed[h] =>
            \A k \in 1..Lesser(Len(out[g]), Len(out[h])) : out[g][k] = out[h][k]
=============================================================================
