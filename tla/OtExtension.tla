---------------------------- MODULE OtExtension ----------------------------
(***************************************************************************)
(* What the two oblivious transfer extensions compute: IKNP, which makes   *)
(* the base transfers of SSOT, and SSOT itself.  A block is the set of its *)
(* Width bits that are 1, a matrix of Width blocks its sequence of columns *)
(* or, transposed, of rows.                                                *)
(***************************************************************************)
EXTENDS Naturals

CONSTANTS
    Width,          \* BASE_OT_COUNT, the bits of a block
    NumBlk,         \* the blocks of a code word
    Prg(_, _)       \* Prg(seed, n): the n-th block after PRNG::SetSeed(seed)

Bit == 0..Width - 1
Blk == 0..NumBlk - 1
Block == SUBSET Bit

SymDiff(a, b) == (a \ b) \cup (b \ a)

\* (Columns leaves the transposition out.)
Columns(m) == [r \in Bit |-> m[r]]
Transpose(m) == [r \in Bit |-> {c \in Bit : r \in m[c]}]

ShaRow(row) == <<row>>

-----------------------------------------------------------------------------
(* IknpOtExtReceiver4k and IknpOtExtSender4k, block b.  The receiver has a *)
(* pair of keys for every column, the sender one of each, by delta.        *)

IknpT0(keys, b) == [c \in Bit |-> Prg(keys[c][1], b)]
IknpT1(keys, b) == [c \in Bit |-> Prg(keys[c][2], b)]

\* What the receiver sends, x being its 128 choices.
IknpU(keys, b, x) ==
    [c \in Bit |-> SymDiff(IknpT1(keys, b)[c], SymDiff(IknpT0(keys, b)[c], x))]

IknpRecvMessages(keys, b) ==
    [r \in Bit |-> ShaRow(Transpose(IknpT0(keys, b))[r])]

IknpQ(key, delta, b, u) ==
    [c \in Bit |-> IF c \in delta THEN SymDiff(Prg(key[c], b), u[c]) ELSE Prg(key[c], b)]

IknpSendMessages(key, delta, b, u) ==
    [r \in Bit |-> LET q == Transpose(IknpQ(key, delta, b, u))[r]
                   IN <<ShaRow(q), ShaRow(SymDiff(q, delta))>>]

-----------------------------------------------------------------------------
(* SSOtExtSender and SSOtExtReceiver.  key[blk][c] seeds column c of block *)
(* blk.  Messages are made Width at a time, from one block of every PRG.   *)

\* How many blocks an Extend for size messages takes from every PRG.
Rounds(size) == (size + Width - 1) \div Width

\* Message number i of an Extend, of a party whose PRGs have given used
\* blocks each.
SsotMessage(key, used, i) ==
    [blk \in Blk |->
        Transpose([c \in Bit |-> Prg(key[blk][c], used + i \div Width)])[i % Width]]
=============================================================================
