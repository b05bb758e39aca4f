--------------------------- MODULE Common_proofs ----------------------------
(***************************************************************************)
(* A generator delivers the stream of its seed, for buffers of any size    *)
(* and requests of any lengths; the search for a bin width returns the     *)
(* least that is enough, for any average and any threshold.                *)
(***************************************************************************)
EXTENDS Prng, BinSize, Integers, TLAPS

-----------------------------------------------------------------------------
(* The generator.                                                          *)

Byte == Seed \X Nat \X Nat

\* The generator's state between two turns of its loops; whence is the number
\* of blocks before the one its buffer begins with.
Whence(g) == mBlockIdx[g] - BuffBlocks

PrngType ==
    /\ origin \in [Gen -> {"none", "SetSeed", "seeded"}]
    /\ mSeed \in [Gen -> Seed]
    /\ mBlockIdx \in [Gen -> Nat] /\ mBytesIdx \in [Gen -> Nat]
    /\ mBuffer \in [Gen -> Seq(Byte)]
    /\ length \in [Gen -> Nat]
    /\ out \in [Gen -> Seq(Byte)]

Buffered(g) ==
    /\ mBytesIdx[g] < Capacity
    /\ IF origin[g] = "none" THEN length[g] = 0
       ELSE Whence(g) \in Nat /\ mBuffer[g] = Filled(mSeed[g], Whence(g))

Delivered(g) ==
    origin[g] = "SetSeed" =>
        /\ Len(out[g]) = Whence(g) * BlockBytes + mBytesIdx[g]
        /\ \A k \in 1..Len(out[g]) :
             out[g][k] = KeyByte(mSeed[g], (k - 1) \div BlockBytes, (k - 1) % BlockBytes)

PrngInv == PrngType /\ \A g \in Gen : Buffered(g) /\ Delivered(g)

-----------------------------------------------------------------------------
\* Quotient and remainder.
LEMMA DivModUnique ==
    ASSUME NEW d \in Nat \ {0}, NEW x \in Nat, NEW q \in Nat, NEW r \in 0..d - 1, x = q * d + r
    PROVE  x \div d = q /\ x % d = r
OBVIOUS

LEMMA DivModOf ==
    ASSUME NEW d \in Nat \ {0}, NEW x \in Nat
    PROVE  /\ x \div d \in Nat /\ x % d \in 0..d - 1
           /\ x = (x \div d) * d + (x % d)
OBVIOUS

LEMMA DivModAdd ==
    ASSUME NEW d \in Nat \ {0}, NEW x \in Nat, NEW n \in Nat
    PROVE  (n * d + x) \div d = n + (x \div d) /\ (n * d + x) % d = x % d
<1> DEFINE q == x \div d
           r == x % d
<1>1. q \in Nat /\ r \in 0..d - 1 /\ x = q * d + r
  BY DivModOf
<1> HIDE DEF q, r
<1>2. n * d + x = (n + q) * d + r
  BY <1>1
<1>3. n + q \in Nat /\ n * d + x \in Nat
  BY <1>1
<1>4. (n * d + x) \div d = n + q /\ (n * d + x) % d = r
  BY <1>1, <1>2, <1>3, DivModUnique
<1> QED BY <1>4 DEF q, r

LEMMA CapacityNat == Capacity \in Nat \ {0} /\ Capacity = BuffBlocks * BlockBytes
BY PrngAssumption DEF Capacity

\* The k-th byte of a buffer that begins with block idx is byte number
\* idx * BlockBytes + k - 1 of the stream.
LEMMA FilledBytes ==
    ASSUME NEW seed \in Seed, NEW idx \in Nat
    PROVE  /\ Filled(seed, idx) \in Seq(Byte)
           /\ Len(Filled(seed, idx)) = Capacity
           /\ \A k \in 1..Capacity :
                Filled(seed, idx)[k] =
                    KeyByte(seed, (idx * BlockBytes + (k - 1)) \div BlockBytes,
                            (idx * BlockBytes + (k - 1)) % BlockBytes)
<1> USE CapacityNat, PrngAssumption
<1>1. ASSUME NEW k \in 1..Capacity
      PROVE  /\ (k - 1) \div BlockBytes \in Nat /\ (k - 1) % BlockBytes \in Nat
             /\ (idx * BlockBytes + (k - 1)) \div BlockBytes = idx + ((k - 1) \div BlockBytes)
             /\ (idx * BlockBytes + (k - 1)) % BlockBytes = (k - 1) % BlockBytes
  <2>1. k - 1 \in Nat
    OBVIOUS
  <2>2. (k - 1) \div BlockBytes \in Nat /\ (k - 1) % BlockBytes \in 0..BlockBytes - 1
    BY <2>1, DivModOf
  <2>3. (k - 1) % BlockBytes \in Nat
    BY <2>2
  <2> QED BY <2>1, <2>2, <2>3, DivModAdd
<1>2. \A k \in 1..Capacity :
        KeyByte(seed, idx + (k - 1) \div BlockBytes, (k - 1) % BlockBytes) \in Byte
  <2> SUFFICES ASSUME NEW k \in 1..Capacity
               PROVE  KeyByte(seed, idx + (k - 1) \div BlockBytes, (k - 1) % BlockBytes) \in Byte
    OBVIOUS
  <2> DEFINE q == (k - 1) \div BlockBytes
             r == (k - 1) % BlockBytes
  <2>1. q \in Nat /\ r \in Nat
    BY <1>1
  <2> HIDE DEF q, r
  <2>2. KeyByte(seed, idx + q, r) \in Byte
    BY <2>1 DEF KeyByte, Byte
  <2> QED BY <2>2 DEF q, r
<1>3. /\ Filled(seed, idx) \in Seq(Byte)
      /\ Len(Filled(seed, idx)) = Capacity
      /\ \A k \in 1..Capacity : Filled(seed, idx)[k] =
             KeyByte(seed, idx + (k - 1) \div BlockBytes, (k - 1) % BlockBytes)
  <2> DEFINE F(k) == KeyByte(seed, idx + (k - 1) \div BlockBytes, (k - 1) % BlockBytes)
  <2>1. \A k \in 1..Capacity : F(k) \in Byte
    BY <1>2
  <2>2. Filled(seed, idx) = [k \in 1..Capacity |-> F(k)]
    BY DEF Filled
  <2> HIDE DEF F
  <2>3. /\ Filled(seed, idx) \in Seq(Byte)
        /\ Len(Filled(seed, idx)) = Capacity
        /\ \A k \in 1..Capacity : Filled(seed, idx)[k] = F(k)
    BY <2>1, <2>2
  <2> QED BY <2>3 DEF F
<1> QED BY <1>1, <1>3, Zenon

-----------------------------------------------------------------------------
LEMMA PrngInitially == PrngInit => PrngInv
<1> SUFFICES ASSUME PrngInit PROVE PrngInv
  OBVIOUS
<1> USE CapacityNat
<1>1. PrngType
  BY DEF PrngInit, PrngType
<1>2. ASSUME NEW g \in Gen PROVE Buffered(g) /\ Delivered(g)
  BY DEF PrngInit, Buffered, Delivered
<1> QED BY <1>1, <1>2 DEF PrngInv

\* Seeding a generator leaves the others alone.
LEMMA StartKeeps ==
    ASSUME PrngInv, NEW g \in Gen, NEW seed \in Seed, NEW idx \in Nat,
           NEW how \in {"SetSeed", "seeded"}, how = "SetSeed" => idx = 0,
           Start(g, how, seed, idx)
    PROVE  PrngInv'
<1> USE CapacityNat, PrngAssumption, FilledBytes
<1>1. PrngType'
  <2>1. idx + BuffBlocks \in Nat /\ Filled(seed, idx) \in Seq(Byte)
    OBVIOUS
  <2> QED BY <2>1 DEF PrngInv, PrngType, Start
<1>2. Buffered(g)' /\ Delivered(g)'
  <2>1. /\ origin'[g] = how /\ mSeed'[g] = seed /\ mBuffer'[g] = Filled(seed, idx)
        /\ mBlockIdx'[g] = idx + BuffBlocks /\ mBytesIdx'[g] = 0 /\ out'[g] = <<>>
    BY DEF PrngInv, PrngType, Start
  <2>2. mBlockIdx'[g] - BuffBlocks = idx
    BY <2>1
  <2>3. Buffered(g)'
    BY <2>1, <2>2 DEF Buffered, Whence
  <2>4. Delivered(g)'
    BY <2>1, <2>2 DEF Delivered, Whence
  <2> QED BY <2>3, <2>4
<1>3. ASSUME NEW h \in Gen, h # g PROVE Buffered(h)' /\ Delivered(h)'
  <2>1. /\ origin'[h] = origin[h] /\ mSeed'[h] = mSeed[h] /\ mBuffer'[h] = mBuffer[h]
        /\ mBlockIdx'[h] = mBlockIdx[h] /\ mBytesIdx'[h] = mBytesIdx[h]
        /\ out'[h] = out[h] /\ length'[h] = length[h]
    BY <1>3 DEF PrngInv, PrngType, Start
  <2>2. Buffered(h) /\ Delivered(h)
    BY DEF PrngInv
  <2>3. Buffered(h)'
    BY <2>1, <2>2 DEF Buffered, Whence
  <2>4. Delivered(h)'
    BY <2>1, <2>2 DEF Delivered, Whence
  <2> QED BY <2>3, <2>4
<1> QED BY <1>1, <1>2, <1>3 DEF PrngInv

LEMMA GetU8sKeeps ==
    ASSUME PrngInv, NEW g \in Gen, GetU8s(g)
    PROVE  PrngInv'
<1>1. PrngType'
  BY PrngAssumption DEF PrngInv, PrngType, GetU8s
<1>2. ASSUME NEW h \in Gen PROVE Buffered(h)' /\ Delivered(h)'
  <2>1. Buffered(h) /\ Delivered(h)
    BY DEF PrngInv
  <2>2. origin[h] = "none" => length'[h] = length[h]
    BY DEF GetU8s, PrngInv, PrngType
  <2>3. Buffered(h)'
    BY <2>1, <2>2 DEF Buffered, Whence, GetU8s
  <2>4. Delivered(h)'
    BY <2>1 DEF Delivered, Whence, GetU8s
  <2> QED BY <2>3, <2>4
<1> QED BY <1>1, <1>2 DEF PrngInv

\* What a copy from the buffer to the output is made of.
LEMMA SubSeqFacts ==
    ASSUME NEW S, NEW s \in Seq(S), NEW a \in Nat, NEW b \in Nat, a <= b, b <= Len(s)
    PROVE  /\ SubSeq(s, a + 1, b) \in Seq(S)
           /\ Len(SubSeq(s, a + 1, b)) = b - a
           /\ \A j \in 1..b - a : SubSeq(s, a + 1, b)[j] = s[a + j]
OBVIOUS

LEMMA ConcatFacts ==
    ASSUME NEW S, NEW s \in Seq(S), NEW t \in Seq(S)
    PROVE  /\ Len(s \o t) = Len(s) + Len(t)
           /\ \A i \in 1..Len(s) : (s \o t)[i] = s[i]
           /\ \A j \in 1..Len(t) : (s \o t)[Len(s) + j] = t[j]
OBVIOUS

\* The bytes of a turn are the next ones of the stream, also when it is the
\* last of the buffer and a new one is filled.
LEMMA CopyBytesKeeps ==
    ASSUME PrngInv, NEW g \in Gen, CopyBytes(g)
    PROVE  PrngInv'
<1>0. Capacity \in Nat \ {0} /\ BlockBytes \in Nat \ {0} /\ BuffBlocks \in Nat \ {0}
  BY CapacityNat, PrngAssumption
<1> DEFINE given == Lesser(length[g], Capacity - mBytesIdx[g])
           at == mBytesIdx[g] + given
           piece == SubSeq(mBuffer[g], mBytesIdx[g] + 1, at)
           W == Whence(g)
<1>1. Buffered(g) /\ Delivered(g) /\ length[g] > 0 /\ mBytesIdx[g] \in Nat
  BY DEF PrngInv, PrngType, CopyBytes
<1>2. origin[g] # "none" /\ W \in Nat /\ mBuffer[g] = Filled(mSeed[g], W)
  BY <1>1 DEF Buffered
<1>3. /\ mBytesIdx[g] \in Nat /\ mBytesIdx[g] < Capacity /\ length[g] \in Nat
      /\ out[g] \in Seq(Byte) /\ mSeed[g] \in Seed /\ mBlockIdx[g] \in Nat
  BY <1>1 DEF Buffered, PrngInv, PrngType
<1>4. /\ given \in Nat \ {0} /\ given <= length[g]
      /\ at \in Nat /\ at <= Capacity /\ at = mBytesIdx[g] + given
  <2>1. Capacity - mBytesIdx[g] \in Nat \ {0}
    BY <1>0, <1>3
  <2> QED BY <1>0, <2>1, <1>1, <1>3 DEF Lesser
<1>5. /\ out'[g] = out[g] \o piece /\ length'[g] = length[g] - given
      /\ origin' = origin /\ mSeed' = mSeed
  BY DEF CopyBytes, PrngInv, PrngType
<1>6. \/ /\ at < Capacity /\ mBytesIdx'[g] = at
         /\ mBuffer' = mBuffer /\ mBlockIdx' = mBlockIdx
      \/ /\ at = Capacity /\ mBytesIdx'[g] = 0
         /\ mBuffer'[g] = Filled(mSeed[g], mBlockIdx[g])
         /\ mBlockIdx'[g] = mBlockIdx[g] + BuffBlocks
  BY DEF CopyBytes, PrngInv, PrngType
<1>f. /\ Filled(mSeed[g], W) \in Seq(Byte) /\ Filled(mSeed[g], mBlockIdx[g]) \in Seq(Byte)
      /\ Len(Filled(mSeed[g], W)) = Capacity
      /\ \A k \in 1..Capacity : Filled(mSeed[g], W)[k] =
            KeyByte(mSeed[g], (W * BlockBytes + (k - 1)) \div BlockBytes,
                              (W * BlockBytes + (k - 1)) % BlockBytes)
  BY <1>2, <1>3, FilledBytes
<1> HIDE DEF given, at
<1>7. /\ piece \in Seq(Byte) /\ Len(piece) = given
      /\ \A j \in 1..given : piece[j] = Filled(mSeed[g], W)[mBytesIdx[g] + j]
  <2>1. /\ piece \in Seq(Byte) /\ Len(piece) = at - mBytesIdx[g]
        /\ \A j \in 1..at - mBytesIdx[g] : piece[j] = mBuffer[g][mBytesIdx[g] + j]
    <3>1. mBytesIdx[g] <= at
      BY <1>3, <1>4
    <3>2. mBuffer[g] \in Seq(Byte) /\ Len(mBuffer[g]) = Capacity
      BY <1>2, <1>f, Zenon
    <3>3. at <= Len(mBuffer[g]) /\ at \in Nat /\ mBytesIdx[g] \in Nat
      BY <1>3, <1>4, <3>2
    <3> QED BY <3>1, <3>2, <3>3, SubSeqFacts, Zenon
  <2>2. at - mBytesIdx[g] = given
    BY <1>3, <1>4
  <2> QED BY <2>1, <2>2, <1>2, Zenon
<1>8. PrngType'
  <2>1. /\ out' = [out EXCEPT ![g] = @ \o piece]
        /\ length' = [length EXCEPT ![g] = @ - given]
    BY DEF CopyBytes, given, at
  <2>2. out' \in [Gen -> Seq(Byte)]
    BY <2>1, <1>3, <1>7 DEF PrngInv, PrngType
  <2>3. length' \in [Gen -> Nat]
    <3>1. length \in [Gen -> Nat] /\ length[g] - given \in Nat
      BY <1>3, <1>4 DEF PrngInv, PrngType
    <3> QED BY <2>1, <3>1
  <2>4. mBytesIdx' \in [Gen -> Nat]
    <3>1. \/ mBytesIdx' = [mBytesIdx EXCEPT ![g] = at]
          \/ mBytesIdx' = [mBytesIdx EXCEPT ![g] = 0]
      BY Zenon DEF CopyBytes, given, at
    <3>2. mBytesIdx \in [Gen -> Nat] /\ at \in Nat /\ 0 \in Nat
      BY <1>4 DEF PrngInv, PrngType
    <3> QED BY <3>1, <3>2
  <2>5. mBuffer' \in [Gen -> Seq(Byte)]
    BY <1>f DEF CopyBytes, PrngInv, PrngType
  <2>6. mBlockIdx' \in [Gen -> Nat]
    <3>1. \/ mBlockIdx' = mBlockIdx
          \/ mBlockIdx' = [mBlockIdx EXCEPT ![g] = mBlockIdx[g] + BuffBlocks]
      BY Zenon DEF CopyBytes
    <3>2. mBlockIdx \in [Gen -> Nat] /\ mBlockIdx[g] + BuffBlocks \in Nat
      BY <1>0, <1>3 DEF PrngInv, PrngType
    <3> QED BY <3>1, <3>2
  <2> QED BY <2>2, <2>3, <2>4, <2>5, <2>6, <1>5 DEF PrngInv, PrngType
<1> HIDE DEF piece, W
<1>9. W = mBlockIdx[g] - BuffBlocks
  BY DEF W, Whence
<1>w. W \in Nat
  BY <1>2 DEF W
<1>10. Buffered(g)'
  <2>1. CASE at < Capacity
    <3>1. mBytesIdx'[g] = at /\ mBuffer'[g] = mBuffer[g] /\ mBlockIdx'[g] = mBlockIdx[g]
      BY <1>0, <1>6, <2>1, <1>4
    <3> QED BY <3>1, <2>1, <1>2, <1>5, <1>0 DEF Buffered, Whence, W
  <2>2. CASE at = Capacity
    <3>1. /\ mBytesIdx'[g] = 0 /\ mBuffer'[g] = Filled(mSeed[g], mBlockIdx[g])
          /\ mBlockIdx'[g] = mBlockIdx[g] + BuffBlocks
      BY <1>0, <1>6, <2>2, <1>4
    <3>2. mBlockIdx'[g] - BuffBlocks = mBlockIdx[g]
      BY <1>0, <3>1, <1>3
    <3> QED BY <3>1, <3>2, <1>2, <1>3, <1>5, <1>0 DEF Buffered, Whence
  <2> QED BY <2>1, <2>2, <1>4, <1>0
<1>11. Delivered(g)'
  <2> SUFFICES ASSUME origin[g] = "SetSeed" PROVE Delivered(g)'
    BY <1>5 DEF Delivered
  <2> DEFINE wb == W * BlockBytes
  <2>1. /\ Len(out[g]) = wb + mBytesIdx[g]
        /\ \A k \in 1..Len(out[g]) :
             out[g][k] = KeyByte(mSeed[g], (k - 1) \div BlockBytes, (k - 1) % BlockBytes)
    BY <1>1, Zenon DEF Delivered, W
  <2>2. wb \in Nat
    BY <1>0, <1>w
  <2>3. (mBlockIdx'[g] - BuffBlocks) * BlockBytes + mBytesIdx'[g] = wb + at
    <3>1. CASE at < Capacity
      <4>1. mBlockIdx'[g] - BuffBlocks = W /\ mBytesIdx'[g] = at
        BY <3>1, <1>0, <1>4, <1>6, <1>9
      <4> QED BY <4>1
    <3>2. CASE at = Capacity
      <4>1. mBytesIdx'[g] = 0 /\ mBlockIdx'[g] - BuffBlocks = W + BuffBlocks
        BY <3>2, <1>0, <1>3, <1>4, <1>6, <1>9
      <4>2. (W + BuffBlocks) * BlockBytes = wb + Capacity
        BY <1>0, <1>w, CapacityNat
      <4>3. (W + BuffBlocks) * BlockBytes + 0 = wb + at
        <5> HIDE DEF wb
        <5> QED BY <4>2, <3>2, <2>2, <1>4
      <4> QED BY <4>1, <4>3
    <3> QED BY <3>1, <3>2, <1>0, <1>4
  <2> HIDE DEF wb
  <2>l. out[g] \in Seq(Byte) /\ Len(out[g]) \in Nat
    BY <1>3
  <2>4. Len(out'[g]) = wb + at
    <3>1. Len(out'[g]) = Len(out[g]) + given
      <4>1. piece \in Seq(Byte) /\ Len(piece) = given
        BY <1>7, Zenon
      <4> QED BY <2>l, <1>5, <4>1, ConcatFacts, Zenon
    <3>2. Len(out[g]) = wb + mBytesIdx[g]
      BY <2>1
    <3> QED BY <3>1, <3>2, <1>3, <1>4, <2>2
  <2>5. ASSUME NEW k \in 1..Len(out'[g])
        PROVE  out'[g][k] = KeyByte(mSeed[g], (k - 1) \div BlockBytes, (k - 1) % BlockBytes)
    <3>k. k \in 1..wb + at
      BY <2>4
    <3>o. Len(out[g]) = wb + mBytesIdx[g]
      BY <2>1
    <3>p. piece \in Seq(Byte) /\ Len(piece) = given
      BY <1>7
    <3>1. CASE k <= Len(out[g])
      <4>1. k \in 1..Len(out[g])
        BY <3>1, <3>k, <2>l
      <4>2. out'[g][k] = out[g][k]
        BY <4>1, <2>l, <1>5, <3>p
      <4> QED BY <4>1, <4>2, <2>1, Zenon
    <3>2. CASE k > Len(out[g])
      <4> DEFINE j == k - Len(out[g])
                 m == mBytesIdx[g] + j
      <4>0. /\ k - Len(out[g]) \in 1..given /\ k = Len(out[g]) + (k - Len(out[g]))
            /\ mBytesIdx[g] + (k - Len(out[g])) \in 1..Capacity
            /\ wb + ((mBytesIdx[g] + (k - Len(out[g]))) - 1) = k - 1
        <5> DEFINE L == Len(out[g])
                   mb == mBytesIdx[g]
                   cap == Capacity
        <5>1. mb \in Nat /\ at \in Nat /\ given \in Nat /\ cap \in Nat
          BY <1>0, <1>3, <1>4
        <5>2. L \in Nat /\ L = wb + mb /\ k > L
          BY <3>2, <3>o, <2>l
        <5>3. at = mb + given /\ at <= cap
          BY <1>4
        <5> HIDE DEF L, mb, cap
        <5>4. /\ k - L \in 1..given /\ k = L + (k - L)
              /\ mb + (k - L) \in 1..cap
              /\ wb + ((mb + (k - L)) - 1) = k - 1
          BY <5>1, <5>2, <5>3, <3>k, <2>2
        <5> QED BY <5>4 DEF L, mb, cap
      <4>1. j \in 1..given /\ k = Len(out[g]) + j
        BY <4>0, Zenon
      <4>2. out'[g][k] = piece[j]
        <5> HIDE DEF j
        <5>1. (out[g] \o piece)[Len(out[g]) + j] = piece[j]
          <6>1. j \in 1..Len(piece)
            BY <4>1, <3>p, Zenon
          <6>2. \A i \in 1..Len(piece) : (out[g] \o piece)[Len(out[g]) + i] = piece[i]
            BY <2>l, <3>p, ConcatFacts
          <6> QED BY <6>1, <6>2, Zenon
        <5>2. out'[g] = out[g] \o piece
          BY <1>5
        <5> QED BY <4>1, <5>1, <5>2, Zenon
      <4>3. m \in 1..Capacity /\ wb + (m - 1) = k - 1
        BY <4>0, Zenon
      <4>4. out'[g][k] = Filled(mSeed[g], W)[m]
        BY <4>1, <4>2, <1>7, Zenon
      <4> HIDE DEF m
      <4>5. Filled(mSeed[g], W)[m] =
               KeyByte(mSeed[g], (wb + (m - 1)) \div BlockBytes, (wb + (m - 1)) % BlockBytes)
        BY <4>3, <1>f, Zenon DEF wb
      <4> QED BY <4>3, <4>4, <4>5, Zenon
    <3> QED BY <3>1, <3>2, <3>k, <2>l
  <2>6. Len(out'[g]) = Whence(g)' * BlockBytes + mBytesIdx'[g]
    BY <2>3, <2>4, Zenon DEF Whence
  <2> QED BY <2>5, <2>6, <1>5, Zenon DEF Delivered
<1>12. ASSUME NEW h \in Gen, h # g PROVE Buffered(h)' /\ Delivered(h)'
  <2>1. /\ origin'[h] = origin[h] /\ mSeed'[h] = mSeed[h] /\ mBuffer'[h] = mBuffer[h]
        /\ mBlockIdx'[h] = mBlockIdx[h] /\ mBytesIdx'[h] = mBytesIdx[h]
        /\ out'[h] = out[h] /\ length'[h] = length[h]
    BY <1>12 DEF PrngInv, PrngType, CopyBytes
  <2>2. Buffered(h) /\ Delivered(h)
    BY DEF PrngInv
  <2>3. Buffered(h)'
    BY <2>1, <2>2 DEF Buffered, Whence
  <2>4. Delivered(h)'
    BY <2>1, <2>2, Zenon DEF Delivered, Whence
  <2> QED BY <2>3, <2>4
<1> QED BY <1>8, <1>10, <1>11, <1>12 DEF PrngInv

LEMMA PrngInductive == PrngInv /\ [PrngNext]_prngVars => PrngInv'
<1> SUFFICES ASSUME PrngInv, [PrngNext]_prngVars PROVE PrngInv'
  OBVIOUS
<1>1. ASSUME NEW g \in Gen, SetSeed(g) PROVE PrngInv'
  <2>1. PICK seed \in Seed : Start(g, "SetSeed", seed, 0)
    BY <1>1 DEF SetSeed, FirstBlock
  <2> QED BY <2>1, StartKeeps
<1>2. ASSUME NEW g \in Gen, Construct(g) PROVE PrngInv'
  <2>1. PICK seed \in Seed, idx \in Garbage : Start(g, "seeded", seed, idx)
    BY <1>2 DEF Construct
  <2>2. idx \in Nat
    BY PrngAssumption
  <2> QED BY <2>1, <2>2, StartKeeps
<1>3. CASE UNCHANGED prngVars
  BY <1>3 DEF prngVars, PrngInv, PrngType, Buffered, Delivered, Whence
<1> QED BY <1>1, <1>2, <1>3, GetU8sKeeps, CopyBytesKeeps DEF PrngNext

\* A generator seeded by SetSeed delivers the stream of its seed, for blocks
\* and buffers of any size and requests of any lengths.
THEOREM StreamKeptHolds == PrngSpec => []StreamKept
<1>1. PrngInv => StreamKept
  BY DEF PrngInv, Delivered, StreamKept
<1> QED BY <1>1, PrngInitially, PrngInductive, PTL DEF PrngSpec

-----------------------------------------------------------------------------
(* The width of bins.                                                      *)

\* The powers of two, without recursion: the least set with 1 and doubles.
Doubles(S) == 1 \in S /\ \A m \in S : 2 * m \in S
Steps == {n \in Nat : \A S \in SUBSET Nat : Doubles(S) => n \in S}

\* Steps is closed under doubling, and, but for 1, under halving.
LEMMA StepsDouble == Doubles(Steps) /\ 0 \notin Steps
<1>1. Doubles(Steps)
  BY DEF Steps, Doubles
<1>2. Doubles(Nat \ {0})
  BY DEF Doubles
<1>3. 0 \notin Steps
  BY <1>2 DEF Steps
<1> QED BY <1>1, <1>3

LEMMA StepsHalve ==
    ASSUME NEW n \in Steps, n # 1
    PROVE  /\ n > 1
           /\ Halved(n) \in Steps
           /\ n = 2 * Halved(n)
<1> DEFINE S == {1} \cup {k \in Nat : \E m \in Steps : k = 2 * m}
<1>1. Doubles(S)
  <2>1. ASSUME NEW k \in S PROVE 2 * k \in S
    <3>1. k \in Nat /\ 2 * k \in Nat
      BY DEF Steps
    <3>2. k \in Steps
      BY StepsDouble DEF Doubles
    <3> QED BY <3>1, <3>2
  <2> QED BY <2>1 DEF Doubles
<1>2. S \in SUBSET Nat
  OBVIOUS
<1>3. n \in S
  BY <1>1, <1>2 DEF Steps
<1>4. PICK m \in Steps : n = 2 * m
  BY <1>3
<1>5. m \in Nat /\ m # 0
  BY StepsDouble DEF Steps
<1>6. n > 1 /\ Halved(n) = m
  BY <1>4, <1>5 DEF Halved
<1> QED BY <1>4, <1>6

\* B - step is known not to be enough, or never tried, whenever B is enough,
\* and B + step is known to be enough once the steps are being halved and B is
\* not.
BinInv ==
    /\ start \in Nat \ {0} /\ threshold \in Nat
    /\ B \in Nat /\ step \in Steps /\ B >= step
    /\ doubling \in BOOLEAN /\ enough \in BOOLEAN /\ returned \in BOOLEAN
    /\ enough => /\ B >= threshold
                 /\ B - step < threshold \/ B - step = start
    /\ ~ enough /\ doubling => B < threshold \/ B = start
    /\ ~ enough /\ ~ doubling => B < threshold /\ B + step >= threshold
    /\ returned => enough /\ step = 1

LEMMA BinInitially == BinInit => BinInv
<1>1. 1 \in Steps
  BY StepsDouble DEF Doubles
<1>2. SUFFICES ASSUME BinInit PROVE BinInv
  OBVIOUS
<1>3. /\ start \in Nat \ {0} /\ threshold \in Nat /\ B = start /\ step = 1
      /\ B >= step
  BY <1>2, BinAssumption DEF BinInit
<1>4. doubling = TRUE /\ enough = FALSE /\ returned = FALSE
  BY <1>2 DEF BinInit
<1> QED BY <1>1, <1>3, <1>4 DEF BinInv

LEMMA BinInductive == BinInv /\ [BinNext]_binVars => BinInv'
<1> SUFFICES ASSUME BinInv, [BinNext]_binVars PROVE BinInv'
  OBVIOUS
<1> USE DEF BinInv
<1>0. step \in Nat \ {0} /\ 2 * step \in Steps
  BY StepsDouble DEF Steps, Doubles
<1>h. step # 1 => Halved(step) \in Steps /\ step = 2 * Halved(step)
  BY StepsHalve
<1>t. Steps \subseteq Nat \ {0}
  BY StepsDouble DEF Steps
<1>1. CASE Widen /\ doubling
  <2>1. /\ step' = 2 * step /\ B' = B + step' /\ B' \in Nat /\ step' \in Steps
        /\ start' = start /\ threshold' = threshold
    BY <1>1, <1>0 DEF Widen
  <2>2. (enough' <=> B' >= threshold) /\ ~ enough /\ ~ returned'
    BY <1>1 DEF Widen
  <2>3. enough' \in BOOLEAN /\ doubling' = TRUE /\ returned' \in BOOLEAN
    BY <1>1 DEF Widen
  <2>4. B < threshold \/ B = start
    BY <1>1, <2>2
  <2> QED BY <2>1, <2>2, <2>3, <2>4, <1>0
<1>2. CASE Widen /\ ~ doubling
  <2>1. /\ step' = Halved(step) /\ B' = B + step'
        /\ start' = start /\ threshold' = threshold
    BY <1>2 DEF Widen
  <2>2. (enough' <=> B' >= threshold) /\ ~ enough /\ ~ returned'
    BY <1>2 DEF Widen
  <2>3. enough' \in BOOLEAN /\ doubling' = FALSE /\ returned' \in BOOLEAN
    BY <1>2 DEF Widen
  <2>4. B < threshold /\ B + step >= threshold
    BY <1>2, <2>2
  <2>5. /\ step' \in Steps /\ step' \in Nat \ {0}
        /\ (step = 1 /\ step' = 1) \/ step = 2 * step'
    BY <2>1, <1>h, <1>t, <1>0 DEF Halved
  <2>6. /\ B' \in Nat /\ B' >= step'
        /\ enough' => B' - step' < threshold'
        /\ ~ enough' => B' < threshold' /\ B' + step' >= threshold'
    BY <2>1, <2>2, <2>4, <2>5
  <2> QED BY <2>1, <2>2, <2>3, <2>5, <2>6
<1>4. CASE Narrow
  <2>1. /\ step' = Halved(step) /\ B' = B - step'
        /\ start' = start /\ threshold' = threshold
    BY <1>4 DEF Narrow
  <2>2. (enough' <=> B' >= threshold) /\ enough /\ ~ returned' /\ step > 1
    BY <1>4 DEF Narrow, Searching
  <2>3. enough' \in BOOLEAN /\ doubling' = FALSE /\ returned' \in BOOLEAN
    BY <1>4 DEF Narrow
  <2>4. step' \in Steps /\ step = 2 * step' /\ step' \in Nat \ {0}
    <3>1. step # 1
      BY <2>2, <1>0
    <3> QED BY <2>1, <3>1, <1>h, <1>t
  <2>5. /\ B >= threshold
        /\ B - step < threshold \/ B - step = start
    <3>1. enough
      BY <2>2
    <3> QED BY <3>1
  <2>6. /\ B' - step' = B - step
        /\ B' \in Nat /\ B' >= step'
        /\ ~ enough' => B' < threshold' /\ B' + step' >= threshold'
    BY <2>1, <2>2, <2>4, <2>5
  <2> QED BY <2>1, <2>2, <2>3, <2>4, <2>5, <2>6
<1>5. CASE BinReturn
  BY <1>5, <1>0 DEF BinReturn, Searching
<1>6. CASE UNCHANGED binVars
  BY <1>6 DEF binVars
<1> QED BY <1>1, <1>2, <1>4, <1>5, <1>6 DEF BinNext, Widen

\* The width that get_bin_size returns, for any average and any threshold: it
\* is enough and no greater than needed.
THEOREM BinFitsHolds == BinSpec => []BinFits
<1>1. BinInv => BinFits
  BY DEF BinInv, BinFits
<1> QED BY <1>1, BinInitially, BinInductive, PTL DEF BinSpec
=============================================================================
