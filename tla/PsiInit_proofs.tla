--------------------------- MODULE PsiInit_proofs ---------------------------
(***************************************************************************)
(* What the parties of an oblivious transfer extension hold, for blocks of *)
(* any width and any generator, when their keys are related as the base    *)
(* transfers leave them; and that the threads of the receiver of the base  *)
(* transfers leave no hole in what it sends, for any number of threads,    *)
(* transfers and calls of init.                                            *)
(***************************************************************************)
EXTENDS PsiInit, FiniteSetTheorems, SequenceTheorems, TLAPS

-----------------------------------------------------------------------------
(* The extensions.                                                         *)

\* The column c of the sender's matrix, when it has the key of the pair that
\* delta chooses: the receiver's column, with the choices where delta has c.
LEMMA IknpColumn ==
  ASSUME NEW keys, NEW key, NEW delta \in Block, NEW x \in Block, NEW b,
         \A c \in Bit : key[c] = keys[c][IF c \in delta THEN 2 ELSE 1],
         NEW c \in Bit
  PROVE  IknpQ(key, delta, b, IknpU(keys, b, x))[c] =
           IF c \in delta THEN SymDiff(IknpT0(keys, b)[c], x) ELSE IknpT0(keys, b)[c]
  <1> DEFINE t0 == Prg(keys[c][1], b)
             t1 == Prg(keys[c][2], b)
  <1>1. SymDiff(t1, SymDiff(t1, SymDiff(t0, x))) = SymDiff(t0, x)
    BY DEF SymDiff
  <1>2. IknpU(keys, b, x)[c] = SymDiff(t1, SymDiff(t0, x))
    BY DEF IknpU, IknpT0, IknpT1
  <1>3. IknpT0(keys, b)[c] = t0
    BY DEF IknpT0
  <1> HIDE DEF t0, t1
  <1>4. CASE c \in delta
    <2>1. Prg(key[c], b) = t1
      BY <1>4 DEF t1
    <2> QED BY <1>1, <1>2, <1>3, <1>4, <2>1 DEF IknpQ
  <1>5. CASE c \notin delta
    <2>1. Prg(key[c], b) = t0
      BY <1>5 DEF t0
    <2> QED BY <1>3, <1>5, <2>1 DEF IknpQ
  <1> QED BY <1>4, <1>5

\* The receiver of IKNP has, of every pair of the sender's, the message that
\* its choice selects: that is why every pair passes check in BaseSSOT.
THEOREM IknpAgree ==
  ASSUME NEW keys, NEW key, NEW delta \in Block, NEW x \in Block, NEW b,
         \A c \in Bit : key[c] = keys[c][IF c \in delta THEN 2 ELSE 1],
         NEW r \in Bit
  PROVE  IknpRecvMessages(keys, b)[r] =
           IknpSendMessages(key, delta, b, IknpU(keys, b, x))[r][IF r \in x THEN 2 ELSE 1]
  <1> DEFINE t0 == IknpT0(keys, b)
             q == IknpQ(key, delta, b, IknpU(keys, b, x))
  <1>1. \A c \in Bit : q[c] = IF c \in delta THEN SymDiff(t0[c], x) ELSE t0[c]
    BY IknpColumn
  <1>2. /\ Transpose(q)[r] = {c \in Bit : r \in q[c]}
        /\ Transpose(t0)[r] = {c \in Bit : r \in t0[c]}
    BY DEF Transpose
  <1>3. /\ IknpRecvMessages(keys, b)[r] = ShaRow(Transpose(t0)[r])
        /\ IknpSendMessages(key, delta, b, IknpU(keys, b, x))[r] =
             <<ShaRow(Transpose(q)[r]), ShaRow(SymDiff(Transpose(q)[r], delta))>>
    BY DEF IknpRecvMessages, IknpSendMessages
  <1> HIDE DEF t0, q
  <1>4. CASE r \in x
    <2>1. \A c \in Bit :
             IF c \in delta THEN r \in q[c] <=> r \notin t0[c] ELSE r \in q[c] <=> r \in t0[c]
      BY <1>1, <1>4 DEF SymDiff
    <2>2. SymDiff(Transpose(q)[r], delta) = Transpose(t0)[r]
      BY <1>2, <2>1 DEF SymDiff, Block
    <2> QED BY <1>3, <1>4, <2>2
  <1>5. CASE r \notin x
    <2>1. \A c \in Bit : r \in q[c] <=> r \in t0[c]
      BY <1>1, <1>5 DEF SymDiff
    <2>2. Transpose(q)[r] = Transpose(t0)[r]
      BY <1>2, <2>1
    <2> QED BY <1>3, <1>5, <2>2
  <1> QED BY <1>4, <1>5

\* A message of the SSOT sender is, bit by bit, that one of the receiver's two
\* which the sender's choice selects, whatever the blocks used before it.
THEOREM SsotRelate ==
  ASSUME NEW key, NEW keys, NEW used, NEW i, NEW choice,
         \A blk \in Blk : choice[blk] \in Block,
         \A blk \in Blk, c \in Bit :
            key[blk][c] = keys[blk][c][IF c \in choice[blk] THEN 2 ELSE 1],
         i % Width \in Bit,
         NEW blk \in Blk
  PROVE  LET t0 == SsotMessage([b \in Blk |-> [c \in Bit |-> keys[b][c][1]]], used, i)[blk]
             t1 == SsotMessage([b \in Blk |-> [c \in Bit |-> keys[b][c][2]]], used, i)[blk]
         IN  SsotMessage(key, used, i)[blk] =
               SymDiff(t0, SymDiff(t0, t1) \cap choice[blk])
  <1> DEFINE P(K) == [c \in Bit |-> Prg(K[blk][c], used + i \div Width)]
             K0 == [b \in Blk |-> [c \in Bit |-> keys[b][c][1]]]
             K1 == [b \in Blk |-> [c \in Bit |-> keys[b][c][2]]]
             t0 == SsotMessage(K0, used, i)[blk]
             t1 == SsotMessage(K1, used, i)[blk]
             r == i % Width
  <1>1. ASSUME NEW K PROVE SsotMessage(K, used, i)[blk] = {c \in Bit : r \in P(K)[c]}
    BY DEF SsotMessage, Transpose
  <1>2. \A c \in Bit : P(key)[c] = IF c \in choice[blk] THEN P(K1)[c] ELSE P(K0)[c]
    OBVIOUS
  <1> HIDE DEF P, K0, K1, r
  <1>3. /\ t0 = {c \in Bit : r \in P(K0)[c]} /\ t1 = {c \in Bit : r \in P(K1)[c]}
        /\ SsotMessage(key, used, i)[blk] = {c \in Bit : r \in P(key)[c]}
    BY <1>1
  <1> HIDE DEF t0, t1
  <1>4. \A c \in Bit : r \in P(key)[c] <=>
                         IF c \in choice[blk] THEN r \in P(K1)[c] ELSE r \in P(K0)[c]
    BY <1>2
  <1>5. SsotMessage(key, used, i)[blk] = SymDiff(t0, SymDiff(t0, t1) \cap choice[blk])
    BY <1>3, <1>4 DEF SymDiff
  <1> QED BY <1>5 DEF t0, t1, K0, K1

-----------------------------------------------------------------------------
(* The threads of NaorPinkas::Receiver: what each has written, and what    *)
(* the countdown tells.                                                    *)

Part(t) == First(t)..End(t) - 1
Left == {t \in Thread : rAt[t] = "pk0"}
HasWritten(t, i) == rAt[t] \in {"promise", "hash"} \/ (rAt[t] = "pk0" /\ i < rIdx[t])

Latch ==
    /\ rAt \in [Thread -> {"idle", "pk0", "promise", "hash"}]
    /\ rIdx \in [Thread -> Int]
    /\ rMain = "idle" => \A t \in Thread : rAt[t] = "idle"
    /\ rMain # "idle" =>
         /\ \A t \in Thread : rAt[t] # "idle"
         /\ remainingPK0s = Cardinality(Left)
         /\ rnd \in [Ot -> Exp]
    /\ PK0Prom \/ rMain \in {"joining", "done"} => rMain # "idle" /\ Left = {}
    /\ \A t \in Thread : rAt[t] = "promise" => Left = {}
    /\ \A t \in Thread : rAt[t] = "pk0" => rIdx[t] \in First(t)..End(t)
    /\ sendBuff = [i \in Ot |-> sendBuff[i]]
    /\ \A t \in Thread : \A i \in Part(t) : HasWritten(t, i) => sendBuff[i] \in Elem
    /\ cBuff # Unset => cBuff[2] \in Elem

\* The messages under way.
GoodS(m) == m.kind = "PK0" => \A i \in Ot : m.body[i] \in Elem
GoodR(m) == m.kind = "C" => m.body[2] \in Elem
UnderWay ==
    /\ \E S : toS \in Seq(S) /\ \A m \in S : GoodS(m)
    /\ \E S : toR \in Seq(S) /\ \A m \in S : GoodR(m)

BaseInv == Latch /\ UnderWay

-----------------------------------------------------------------------------
(* Threads share the transfers among them without a gap.                   *)

LEMMA Quotient ==
  ASSUME NEW a \in Nat, NEW b \in Nat \ {0}
  PROVE  a \div b \in Nat /\ b * (a \div b) <= a /\ a < b * (a \div b) + b
OBVIOUS

LEMMA Scaled ==
  ASSUME NEW a \in Nat, NEW b \in Nat, NEW c \in Nat
  PROVE  /\ a <= b => c * a <= c * b
         /\ a * b \in Nat /\ c * (a + 1) = c * a + c
OBVIOUS

LEMMA PartBounds ==
  ASSUME NEW t \in Thread
  PROVE  /\ First(t) \in Nat /\ End(t) \in Nat
         /\ First(t) <= End(t) /\ End(t) <= NumOt
<1> DEFINE n == NumOt
           m == NumThread
           a == First(t)
           e == End(t)
<1>1. n \in Nat \ {0} /\ m \in Nat \ {0} /\ t \in Nat /\ t + 1 \in Nat /\ t + 1 <= m
  BY CountAssumption DEF Thread
<1>2. t * n \in Nat /\ (t + 1) * n \in Nat /\ (t + 1) * n = t * n + n /\ (t + 1) * n <= m * n
  BY <1>1
<1>3. /\ a \in Nat /\ m * a <= t * n
      /\ e \in Nat /\ m * e <= (t + 1) * n /\ (t + 1) * n < m * e + m
  BY <1>1, <1>2, Quotient DEF First, End
<1> HIDE DEF n, m, a, e
<1>4. a <= e
  <2>1. m * a < m * (e + 1)
    BY <1>1, <1>2, <1>3
  <2> QED
    BY <1>1, <1>3, <2>1, Scaled
<1>5. e <= n
  <2>1. m * e <= m * n
    BY <1>1, <1>2, <1>3
  <2>2. ~ (n + 1 <= e)
    <3>1. n + 1 <= e => m * (n + 1) <= m * e
      BY <1>1, <1>3, Scaled
    <3>2. m * (n + 1) = m * n + m /\ m * n \in Nat
      BY <1>1, Scaled
    <3>3. m * e \in Nat
      BY <1>1, <1>3, Scaled
    <3> QED
      BY <1>1, <2>1, <3>1, <3>2, <3>3
  <2> QED
    BY <1>1, <1>3, <2>2
<1> QED
  BY <1>3, <1>4, <1>5 DEF a, e, n

LEMMA PartsCover ==
  ASSUME NEW i \in Ot
  PROVE  \E t \in Thread : i \in Part(t)
<1> DEFINE n == NumOt
           m == NumThread
           x == m * i + m - 1
           t == x \div n
           a == First(t)
           e == End(t)
<1>1. n \in Nat \ {0} /\ m \in Nat \ {0} /\ i \in Nat /\ i + 1 <= n
  BY CountAssumption DEF Ot
<1>2. x \in Nat /\ m * i \in Nat
  BY <1>1, Scaled
<1>3. t \in Nat /\ n * t <= x /\ x < n * t + n /\ n * t \in Nat
  BY <1>1, <1>2, Quotient, Scaled
<1>4. t * n = n * t /\ (t + 1) * n = n * t + n /\ t * n \in Nat /\ (t + 1) * n \in Nat
  BY <1>1, <1>3
<1>5. /\ a \in Nat /\ m * a <= n * t
      /\ e \in Nat /\ n * t + n < m * e + m
  BY <1>1, <1>4, Quotient DEF First, End
<1>6. x = m * i + m - 1
  OBVIOUS
<1> HIDE DEF n, m, x, t, a, e
<1>7. t < m
  <2>1. m * (i + 1) = m * i + m /\ m * (i + 1) <= m * n
    BY <1>1, Scaled
  <2>2. n * t < n * m
    BY <1>1, <1>2, <1>3, <1>6, <2>1
  <2>3. m <= t => n * m <= n * t
    BY <1>1, <1>3, Scaled
  <2> QED
    BY <1>1, <1>3, <2>2, <2>3
<1>8. a <= i
  <2>1. i + 1 <= a => m * (i + 1) <= m * a
    BY <1>1, <1>5, Scaled
  <2>2. m * (i + 1) = m * i + m
    BY <1>1, Scaled
  <2>3. m * a \in Nat
    BY <1>1, <1>5, Scaled
  <2> QED
    BY <1>1, <1>2, <1>3, <1>5, <1>6, <2>1, <2>2, <2>3
<1>9. i < e
  <2>1. e <= i => m * e <= m * i
    BY <1>1, <1>5, Scaled
  <2>2. m * e \in Nat
    BY <1>1, <1>5, Scaled
  <2> QED
    BY <1>1, <1>2, <1>3, <1>5, <1>6, <2>1, <2>2
<1>10. t \in Thread
  BY <1>1, <1>3, <1>7 DEF Thread, m
<1>11. i \in Part(t)
  BY <1>1, <1>5, <1>8, <1>9 DEF Part, a, e
<1> QED
  BY <1>10, <1>11

\* When no thread is left before the countdown the buffer is complete.
LEMMA BufferComplete ==
  ASSUME Latch, rMain # "idle", Left = {}
  PROVE  \A i \in Ot : sendBuff[i] \in Elem
<1> SUFFICES ASSUME NEW i \in Ot PROVE sendBuff[i] \in Elem
  OBVIOUS
<1>1. PICK t \in Thread : i \in Part(t)
  BY PartsCover
<1>2. rAt[t] \in {"promise", "hash"}
  BY DEF Latch, Left
<1> QED
  BY <1>1, <1>2 DEF Latch, HasWritten

-----------------------------------------------------------------------------
(* The channel: what is appended, and what is left of a queue.             *)

LEMMA SeqGrows ==
  ASSUME NEW S, NEW T, NEW q \in Seq(S)
  PROVE  q \in Seq(S \cup T)
<1>1. Len(q) \in Nat /\ \A k \in 1..Len(q) : q[k] \in S \cup T
  BY ElementOfSeq, LenProperties
<1>2. q = [k \in 1..Len(q) |-> q[k]]
  BY LenProperties
<1> QED
  BY <1>1, <1>2

LEMMA Joined ==
  ASSUME NEW S, NEW T, NEW q \in Seq(S), NEW n \in Nat, NEW f \in [1..n -> T]
  PROVE  q \o f \in Seq(S \cup T)
<1>1. q \in Seq(S \cup T)
  BY SeqGrows
<1>2. f \in Seq(S \cup T)
  OBVIOUS
<1> QED
  BY <1>1, <1>2, ConcatProperties

LEMMA Extended ==
  ASSUME NEW S, NEW q \in Seq(S), NEW e
  PROVE  Append(q, e) \in Seq(S \cup {e})
BY SeqGrows, AppendProperties

LEMMA Shortened ==
  ASSUME NEW S, NEW q \in Seq(S), q # <<>>
  PROVE  Tail(q) \in Seq(S) /\ Head(q) \in S
BY HeadTailProperties

LEMMA LeastMember ==
  ASSUME NEW S, S \subseteq Nat, S # {}
  PROVE  \E m \in S : \A k \in S : m <= k
<1>1. PICK m \in S : \A k \in S : ~ (<<k, m>> \in OpToRel(<, Nat))
  BY NatLessThanWellFounded, WFMin
<1>2. \A k \in S : ~ (k < m)
  BY <1>1 DEF OpToRel
<1> QED
  BY <1>2

\* Writing a seed changes only a message that is a seed.
LEMMA SeedWritten ==
  ASSUME NEW S, NEW q \in Seq(S), \E k \in DOMAIN q : IsPosted(q[k]),
         NEW alive, NEW seed, NEW r \in Written(q, alive, seed)
  PROVE  \E e : e.kind = "seed" /\ r \in Seq(S \cup {e})
<1>1. DOMAIN q = 1..Len(q) /\ Len(q) \in Nat /\ \A k \in 1..Len(q) : q[k] \in S
  BY LenProperties, ElementOfSeq
<1> DEFINE P == {k \in DOMAIN q : IsPosted(q[k])}
           IsFirst(j) == IsPosted(q[j]) /\ \A i \in 1..j - 1 : ~ IsPosted(q[i])
<1>2. \E j \in DOMAIN q : IsFirst(j)
  <2>1. PICK j \in P : \A k \in P : j <= k
    <3>1. P \subseteq Nat /\ P # {}
      BY <1>1
    <3> QED
      BY <3>1, LeastMember
  <2>2. \A i \in 1..j - 1 : i \in DOMAIN q /\ ~ (j <= i)
    BY <1>1, <2>1
  <2> QED
    BY <2>1, <2>2
<1>3. PICK j : j = CHOOSE x \in DOMAIN q : IsFirst(x)
  OBVIOUS
<1>4. j \in DOMAIN q /\ IsPosted(q[j])
  BY <1>2, <1>3
<1>5. PICK b : r = [q EXCEPT ![j].body = <<b>>]
  BY <1>3 DEF Written
<1>6. PICK e : e = [q[j] EXCEPT !.body = <<b>>]
  OBVIOUS
<1>7. r = [q EXCEPT ![j] = e]
  BY <1>4, <1>5, <1>6
<1>8. e.kind = "seed"
  BY <1>4, <1>6 DEF IsPosted
<1>9. r \in Seq(S \cup {e})
  BY <1>1, <1>4, <1>7
<1> QED
  BY <1>8, <1>9

\* The two directions together: what each step may append.
LEMMA ToSAppended ==
  ASSUME UnderWay, NEW e, GoodS(e)
  PROVE  \E S : Append(toS, e) \in Seq(S) /\ \A m \in S : GoodS(m)
<1>1. PICK S : toS \in Seq(S) /\ \A m \in S : GoodS(m)
  BY DEF UnderWay
<1>2. Append(toS, e) \in Seq(S \cup {e})
  BY <1>1, Extended
<1>3. \A m \in S \cup {e} : GoodS(m)
  BY <1>1
<1> QED
  BY <1>2, <1>3

LEMMA ToRAppended ==
  ASSUME UnderWay, NEW e, GoodR(e)
  PROVE  \E S : Append(toR, e) \in Seq(S) /\ \A m \in S : GoodR(m)
<1>1. PICK S : toR \in Seq(S) /\ \A m \in S : GoodR(m)
  BY DEF UnderWay
<1>2. Append(toR, e) \in Seq(S \cup {e})
  BY <1>1, Extended
<1>3. \A m \in S \cup {e} : GoodR(m)
  BY <1>1
<1> QED
  BY <1>2, <1>3

LEMMA ToSTaken ==
  ASSUME UnderWay, Arrived(toS)
  PROVE  \E S : Tail(toS) \in Seq(S) /\ \A m \in S : GoodS(m)
<1>1. PICK S : toS \in Seq(S) /\ \A m \in S : GoodS(m)
  BY DEF UnderWay
<1> QED
  BY <1>1, Shortened DEF Arrived

LEMMA ToRTaken ==
  ASSUME UnderWay, Arrived(toR)
  PROVE  /\ \E S : Tail(toR) \in Seq(S) /\ \A m \in S : GoodR(m)
         /\ GoodR(Head(toR))
<1>1. PICK S : toR \in Seq(S) /\ \A m \in S : GoodR(m)
  BY DEF UnderWay
<1> QED
  BY <1>1, Shortened DEF Arrived

-----------------------------------------------------------------------------
(* The steps.                                                              *)

LEMMA LatchFrame ==
  ASSUME Latch, UNCHANGED rBaseVars
  PROVE  Latch'
<1>1. UNCHANGED <<rMain, rnd, cBuff, sendBuff, remainingPK0s, PK0Prom, rAt, rIdx>>
  BY DEF rBaseVars
<1>2. Left' = Left
  BY <1>1 DEF Left
<1>3. \A t, i : HasWritten(t, i)' <=> HasWritten(t, i)
  BY <1>1 DEF HasWritten
<1> QED
  BY <1>1, <1>2, <1>3 DEF Latch

LEMMA UnderWayFrame ==
  ASSUME UnderWay, UNCHANGED <<toR, toS>>
  PROVE  UnderWay'
BY DEF UnderWay

LEMMA WritePK0Keeps ==
  ASSUME BaseInv, NEW t \in Thread, WritePK0(t)
  PROVE  BaseInv'
<1> USE DEF BaseInv
<1>1. /\ rAt[t] = "pk0" /\ cBuff # Unset /\ rIdx[t] < End(t)
      /\ sendBuff' = [sendBuff EXCEPT ![rIdx[t]] = PK0(t, rIdx[t])]
      /\ rIdx' = [rIdx EXCEPT ![t] = @ + 1]
      /\ UNCHANGED <<rMain, rnd, cBuff, remainingPK0s, PK0Prom, rAt, toR, toS>>
  BY DEF WritePK0
<1> DEFINE i == rIdx[t]
<1>2. i \in First(t)..End(t) - 1 /\ First(t) \in Nat /\ End(t) \in Nat /\ End(t) <= NumOt /\ i + 1 \in First(t)..End(t)
  BY <1>1, PartBounds DEF Latch
<1>3. i \in Ot /\ i - First(t) \in Ot
  BY <1>2, CountAssumption DEF Ot
<1>4. rnd \in [Ot -> Exp]
  BY <1>1 DEF Latch
<1>5. PK0(t, i) \in Elem
  <2>1. PK(t, i) \in Exp /\ cBuff[2] \in Elem
    BY <1>1, <1>3, <1>4 DEF PK, Latch
  <2>2. Pow(Gen, PK(t, i)) \in Elem
    BY <2>1, GroupAssumption
  <2> QED
    BY <2>1, <2>2, GroupAssumption DEF PK0
<1>6. Left' = Left
  BY <1>1 DEF Left
<1>7. /\ sendBuff'[i] \in Elem /\ DOMAIN sendBuff' = Ot
      /\ \A j \in Ot \ {i} : sendBuff'[j] = sendBuff[j]
      /\ sendBuff' = [j \in Ot |-> sendBuff'[j]]
  BY <1>1, <1>3, <1>5 DEF Latch
<1>8. /\ rIdx' \in [Thread -> Int] /\ rIdx'[t] = i + 1
      /\ \A s \in Thread \ {t} : rIdx'[s] = rIdx[s]
  BY <1>1, <1>2 DEF Latch
<1>9. ASSUME NEW s \in Thread, NEW j \in Part(s), HasWritten(s, j)' PROVE sendBuff'[j] \in Elem
  <2>1. j \in Ot
    BY PartBounds, CountAssumption DEF Part, Ot
  <2>2. CASE j = i
    BY <1>7, <2>2
  <2>3. CASE j # i /\ s = t
    <3>1. j < i
      BY <1>1, <1>2, <1>8, <1>9, <2>3 DEF HasWritten, Part
    <3>2. HasWritten(s, j)
      BY <1>1, <2>3, <3>1 DEF HasWritten
    <3> QED
      BY <1>7, <2>1, <2>3, <3>2 DEF Latch
  <2>4. CASE j # i /\ s # t
    <3>1. HasWritten(s, j)
      BY <1>1, <1>8, <1>9, <2>4 DEF HasWritten
    <3> QED
      BY <1>7, <2>1, <2>4, <3>1 DEF Latch
  <2> QED
    BY <2>2, <2>3, <2>4
<1>10. \A s \in Thread : rAt'[s] = "pk0" => rIdx'[s] \in First(s)..End(s)
  BY <1>1, <1>2, <1>8 DEF Latch
<1>11. \A s \in Thread : \A j \in Part(s) : HasWritten(s, j)' => sendBuff'[j] \in Elem
  BY <1>9
<1> HIDE DEF i
<1>12. Latch'
  BY <1>1, <1>6, <1>7, <1>8, <1>10, <1>11 DEF Latch
<1> QED
  BY <1>1, <1>12, UnderWayFrame

LEMMA CountdownKeeps ==
  ASSUME BaseInv, NEW t \in Thread, Countdown(t)
  PROVE  BaseInv'
<1> USE DEF BaseInv
<1>1. /\ rAt[t] = "pk0" /\ rIdx[t] = End(t)
      /\ remainingPK0s' = remainingPK0s - 1
      /\ rAt' = [rAt EXCEPT ![t] = IF Reports(remainingPK0s') THEN "promise" ELSE "hash"]
      /\ rIdx' = [rIdx EXCEPT ![t] = First(t)]
      /\ UNCHANGED <<rMain, rnd, cBuff, sendBuff, PK0Prom, toR, toS>>
  BY DEF Countdown
<1>2. rMain # "idle" /\ t \in Left
  BY <1>1 DEF Latch, Left
<1>3. /\ rAt' \in [Thread -> {"idle", "pk0", "promise", "hash"}]
      /\ rAt'[t] \in {"promise", "hash"}
      /\ \A s \in Thread \ {t} : rAt'[s] = rAt[s]
      /\ rAt'[t] = "promise" <=> remainingPK0s' = 0
  BY <1>1 DEF Latch, Reports
<1>4. Left' = Left \ {t}
  BY <1>1, <1>3 DEF Left
<1>5. IsFiniteSet(Left)
  <2>1. IsFiniteSet(Thread)
    BY CountAssumption, FS_Interval DEF Thread
  <2>2. Left \subseteq Thread
    BY DEF Left
  <2> QED
    BY <2>1, <2>2, FS_Subset
<1>6. /\ Cardinality(Left') = Cardinality(Left) - 1 /\ Cardinality(Left') \in Nat
      /\ IsFiniteSet(Left')
  BY <1>2, <1>4, <1>5, FS_RemoveElement, FS_CardinalityType
<1>7. remainingPK0s' = Cardinality(Left')
  BY <1>1, <1>2, <1>6 DEF Latch
<1>8. rAt'[t] = "promise" => Left' = {}
  BY <1>3, <1>6, <1>7, FS_EmptySet
<1>9. Left # {}
  BY <1>2
<1>10. \A s \in Thread : rAt'[s] = "promise" => Left' = {}
  BY <1>3, <1>8, <1>9 DEF Latch
<1>11. ~ (PK0Prom \/ rMain \in {"joining", "done"})
  BY <1>9 DEF Latch
<1>12. /\ rIdx' \in [Thread -> Int]
       /\ \A s \in Thread \ {t} : rIdx'[s] = rIdx[s]
  BY <1>1, PartBounds DEF Latch
<1>13. ASSUME NEW s \in Thread, NEW j \in Part(s), HasWritten(s, j)' PROVE HasWritten(s, j)
  <2>1. CASE s = t
    BY <1>1, <1>13, <2>1, PartBounds DEF HasWritten, Part
  <2>2. CASE s # t
    BY <1>3, <1>12, <1>13, <2>2 DEF HasWritten
  <2> QED
    BY <2>1, <2>2
<1>14. \A s \in Thread : \A j \in Part(s) : HasWritten(s, j)' => sendBuff'[j] \in Elem
  BY <1>1, <1>13 DEF Latch
<1>15. \A s \in Thread : rAt'[s] = "pk0" => rIdx'[s] \in First(s)..End(s)
  BY <1>3, <1>12 DEF Latch
<1>16. /\ \A s \in Thread : rAt'[s] # "idle"
       /\ rnd' \in [Ot -> Exp] /\ rMain' # "idle"
  BY <1>1, <1>2, <1>3 DEF Latch
<1>17. sendBuff' = [j \in Ot |-> sendBuff'[j]] /\ (cBuff' # Unset => cBuff'[2] \in Elem)
  BY <1>1 DEF Latch
<1>18. Latch'
  BY <1>1, <1>3, <1>7, <1>10, <1>11, <1>12, <1>14, <1>15, <1>16, <1>17 DEF Latch
<1> QED
  BY <1>1, <1>18, UnderWayFrame

LEMMA SetPromiseKeeps ==
  ASSUME BaseInv, NEW t \in Thread, SetPromise(t)
  PROVE  BaseInv'
<1> USE DEF BaseInv
<1>1. /\ rAt[t] = "promise" /\ PK0Prom' = TRUE
      /\ rAt' = [rAt EXCEPT ![t] = "hash"]
      /\ UNCHANGED <<rMain, rnd, cBuff, sendBuff, remainingPK0s, rIdx, toR, toS>>
  BY DEF SetPromise
<1>2. Left = {} /\ rMain # "idle"
  BY <1>1 DEF Latch
<1>3. /\ rAt' \in [Thread -> {"idle", "pk0", "promise", "hash"}] /\ rAt'[t] = "hash"
      /\ \A s \in Thread \ {t} : rAt'[s] = rAt[s]
  BY <1>1 DEF Latch
<1>4. Left' = {} /\ Left' = Left
  BY <1>2, <1>3 DEF Left
<1>5. \A s \in Thread : \A j \in Part(s) : HasWritten(s, j)' => HasWritten(s, j)
  BY <1>1, <1>3 DEF HasWritten
<1>6. \A s \in Thread : rAt'[s] # "idle" /\ (rAt'[s] = "pk0" => rAt[s] = "pk0")
  BY <1>2, <1>3 DEF Latch
<1>7. \A s \in Thread : \A j \in Part(s) : HasWritten(s, j)' => sendBuff'[j] \in Elem
  BY <1>1, <1>5 DEF Latch
<1>8. Latch'
  BY <1>1, <1>2, <1>3, <1>4, <1>6, <1>7 DEF Latch
<1> QED
  BY <1>1, <1>8, UnderWayFrame

LEMMA HashMessageKeeps ==
  ASSUME BaseInv, NEW t \in Thread, HashMessage(t)
  PROVE  BaseInv'
<1> USE DEF BaseInv
<1>1. /\ rAt[t] = "hash" /\ rIdx' = [rIdx EXCEPT ![t] = @ + 1]
      /\ UNCHANGED <<rMain, rnd, cBuff, sendBuff, remainingPK0s, PK0Prom, rAt, toR, toS>>
  BY DEF HashMessage
<1>2. /\ rIdx' \in [Thread -> Int]
      /\ \A s \in Thread : rAt[s] = "pk0" => rIdx'[s] = rIdx[s]
  BY <1>1 DEF Latch
<1>3. Left' = Left
  BY <1>1 DEF Left
<1>4. \A s \in Thread : \A j \in Part(s) : HasWritten(s, j)' <=> HasWritten(s, j)
  BY <1>1, <1>2 DEF HasWritten
<1>5. \A s \in Thread : \A j \in Part(s) : HasWritten(s, j)' => sendBuff'[j] \in Elem
  BY <1>1, <1>4 DEF Latch
<1>6. Latch'
  BY <1>1, <1>2, <1>3, <1>5 DEF Latch
<1> QED
  BY <1>1, <1>6, UnderWayFrame

LEMMA RecvCKeeps ==
  ASSUME BaseInv, RecvC
  PROVE  BaseInv'
<1> USE DEF BaseInv
<1>1. /\ rMain = "started" /\ Arrived(toR) /\ toR' = Tail(toR)
      /\ UNCHANGED <<rnd, sendBuff, remainingPK0s, PK0Prom, rAt, rIdx, toS>>
      /\ \/ Head(toR).kind = "C" /\ cBuff' = Head(toR).body /\ rMain' = rMain
         \/ rMain' = "failed" /\ cBuff' = cBuff
  BY DEF RecvC
<1>2. cBuff' # Unset => cBuff'[2] \in Elem
  BY <1>1, ToRTaken DEF Latch, GoodR
<1>3. Left' = Left /\ \A t, i : HasWritten(t, i)' <=> HasWritten(t, i)
  BY <1>1 DEF Left, HasWritten
<1>4. rMain' \notin {"idle", "joining", "done"}
  BY <1>1
<1>5. Latch'
  BY <1>1, <1>2, <1>3, <1>4 DEF Latch
<1>6. UnderWay'
  BY <1>1, ToRTaken DEF UnderWay
<1> QED
  BY <1>5, <1>6

\* The buffer goes out when the promise has been set, and is complete then.
LEMMA SendPK0sKeeps ==
  ASSUME BaseInv, SendPK0s
  PROVE  BaseInv'
<1> USE DEF BaseInv
<1>1. /\ rMain = "started" /\ PK0Prom /\ rMain' = "joining"
      /\ toS' = Append(toS, Message("PK0", sendBuff))
      /\ UNCHANGED <<rnd, cBuff, sendBuff, remainingPK0s, PK0Prom, rAt, rIdx, toR>>
  BY DEF SendPK0s
<1>2. \A i \in Ot : sendBuff[i] \in Elem
  BY <1>1, BufferComplete DEF Latch
<1>3. GoodS(Message("PK0", sendBuff))
  BY <1>2 DEF GoodS, Message
<1>4. UnderWay'
  BY <1>1, <1>3, ToSAppended DEF UnderWay
<1>5. Left' = Left /\ \A t, i : HasWritten(t, i)' <=> HasWritten(t, i)
  BY <1>1 DEF Left, HasWritten
<1>6. Latch'
  BY <1>1, <1>5 DEF Latch
<1> QED
  BY <1>4, <1>6

LEMMA RJoinKeeps ==
  ASSUME BaseInv, RJoin
  PROVE  BaseInv'
<1> USE DEF BaseInv
<1>1. /\ rMain = "joining" /\ rMain' = "done"
      /\ UNCHANGED <<rnd, cBuff, sendBuff, remainingPK0s, PK0Prom, rAt, rIdx, toR, toS>>
  BY DEF RJoin
<1>2. Left' = Left /\ \A t, i : HasWritten(t, i)' <=> HasWritten(t, i)
  BY <1>1 DEF Left, HasWritten
<1>3. Latch'
  BY <1>1, <1>2 DEF Latch
<1> QED
  BY <1>1, <1>3, UnderWayFrame

\* A call starts all over.
LEMMA RBaseKeeps ==
  ASSUME BaseInv, RBase
  PROVE  BaseInv'
<1> USE DEF BaseInv
<1>1. PICK delta : CallReceiver(delta)
  BY DEF RBase
<1>2. /\ rMain' = "started" /\ rnd' \in RndSeqs
      /\ cBuff' = Unset /\ sendBuff' = [i \in Ot |-> Unset]
      /\ remainingPK0s' = NumThread /\ PK0Prom' = FALSE
      /\ rAt' = [t \in Thread |-> "pk0"]
      /\ rIdx' = [t \in Thread |-> First(t)]
  BY <1>1 DEF CallReceiver
<1>3. UNCHANGED <<toR, toS>>
  BY DEF RBase
<1>4. Left' = Thread
  BY <1>2 DEF Left
<1>5. remainingPK0s' = Cardinality(Thread)
  BY <1>2, CountAssumption, FS_Interval DEF Thread
<1>6. rnd' \in [Ot -> Exp]
  BY <1>2, RandomAssumption
<1>7. \A t \in Thread : \A i \in Part(t) : ~ HasWritten(t, i)'
  BY <1>2, PartBounds DEF HasWritten, Part
<1>8. /\ rIdx' \in [Thread -> Int]
      /\ \A t \in Thread : rIdx'[t] \in First(t)..End(t)
  BY <1>2, PartBounds
<1>9. /\ rAt' \in [Thread -> {"idle", "pk0", "promise", "hash"}]
      /\ \A t \in Thread : rAt'[t] = "pk0"
  BY <1>2
<1>10. sendBuff' = [i \in Ot |-> sendBuff'[i]]
  BY <1>2
<1>11. Latch'
  BY <1>2, <1>4, <1>5, <1>6, <1>7, <1>8, <1>9, <1>10 DEF Latch
<1> QED
  BY <1>3, <1>11, UnderWayFrame

\* The steps that send.
LEMMA SendsKeep ==
  ASSUME BaseInv, RBegin \/ RCheck \/ SBegin \/ SBase \/ SIknp
  PROVE  BaseInv'
<1> USE DEF BaseInv
<1>1. CASE RBegin
  <2>1. /\ UNCHANGED <<rBaseVars, toR>> /\ toS' = Append(toS, Posted(rInit))
    BY <1>1 DEF RBegin
  <2>2. GoodS(Posted(rInit))
    BY DEF GoodS, Posted
  <2> QED
    BY <2>1, <2>2, ToSAppended, LatchFrame DEF UnderWay
<1>2. CASE RCheck
  <2>1. UNCHANGED <<rBaseVars, toR>>
    BY <1>2 DEF RCheck
  <2>2. PICK n : n = NumBlk * Width
    OBVIOUS
  <2>3. n \in Nat
    BY <2>2, InitAssumption, WidthAssumption, CountAssumption
  <2>4. \/ toS' = toS
        \/ \E At : toS' = toS \o [k \in 1..n |-> Message("check", At[k])]
    <3>1. \/ toS' = toS
          \/ toS' = toS \o [k \in 1..n |->
                Message("check", senderInputs[PairAt(k - 1)[1]][PairAt(k - 1)[2]])]
      BY <1>2, <2>2 DEF RCheck
    <3>2. PICK F : F = [k \in 1..n |-> senderInputs[PairAt(k - 1)[1]][PairAt(k - 1)[2]]]
      OBVIOUS
    <3>3. [k \in 1..n |-> Message("check", F[k])]
            = [k \in 1..n |->
                Message("check", senderInputs[PairAt(k - 1)[1]][PairAt(k - 1)[2]])]
      BY <3>2
    <3> QED
      BY <3>1, <3>3
  <2>5. CASE toS' = toS
    BY <2>1, <2>5, LatchFrame, UnderWayFrame
  <2>6. ASSUME NEW At, toS' = toS \o [k \in 1..n |-> Message("check", At[k])] PROVE UnderWay'
    <3>1. PICK f : f = [k \in 1..n |-> Message("check", At[k])]
      OBVIOUS
    <3>2. PICK T : T = {f[k] : k \in 1..n}
      OBVIOUS
    <3>3. f \in [1..n -> T] /\ \A m \in T : GoodS(m)
      BY <3>1, <3>2 DEF GoodS, Message
    <3>4. PICK S : toS \in Seq(S) /\ \A m \in S : GoodS(m)
      BY DEF UnderWay
    <3>5. toS' \in Seq(S \cup T) /\ \A m \in S \cup T : GoodS(m)
      BY <2>3, <2>6, <3>1, <3>3, <3>4, Joined
    <3> QED
      BY <2>1, <3>5 DEF UnderWay
  <2> QED
    BY <2>1, <2>4, <2>5, <2>6, LatchFrame
<1>3. CASE SBegin
  <2>1. /\ UNCHANGED <<rBaseVars, toS>> /\ toR' = Append(toR, Posted(sInit))
    BY <1>3 DEF SBegin
  <2>2. GoodR(Posted(sInit))
    BY DEF GoodR, Posted
  <2> QED
    BY <2>1, <2>2, ToRAppended, LatchFrame DEF UnderWay
<1>4. CASE SBase
  <2>1. /\ UNCHANGED <<rBaseVars, toS>> /\ CallSender
    BY <1>4 DEF SBase
  <2>2. PICK m : m = Message("C", <<Pow(Gen, secrets'.alpha), Pow(Gen, secrets'.tmp)>>)
    OBVIOUS
  <2>3. toR' = Append(toR, m) /\ secrets' \in [alpha : Exp, tmp : Exp]
    BY <2>1, <2>2, RandomAssumption DEF CallSender
  <2>4. GoodR(m)
    BY <2>2, <2>3, GroupAssumption DEF GoodR, Message
  <2> QED
    BY <2>1, <2>3, <2>4, ToRAppended, LatchFrame DEF UnderWay
<1>5. CASE SIknp
  <2>1. UNCHANGED <<rBaseVars, toS>>
    BY <1>5 DEF SIknp
  <2>2. PICK m : m = Message("u", IknpU(sMessages, sStep, receiverInputs[sStep]))
    OBVIOUS
  <2>3. toR' = Append(toR, m)
    BY <1>5, <2>2 DEF SIknp
  <2>4. GoodR(m)
    BY <2>2 DEF GoodR, Message
  <2> QED
    BY <2>1, <2>3, <2>4, ToRAppended, LatchFrame DEF UnderWay
<1> QED
  BY <1>1, <1>2, <1>3, <1>4, <1>5

\* The steps that receive, but for RecvC.
LEMMA ReceivesKeep ==
  ASSUME BaseInv, RecvPK0s \/ RIknp \/ SCheck \/ RecvSeedR \/ RecvSeedS
  PROVE  BaseInv'
<1> USE DEF BaseInv
<1>1. UNCHANGED rBaseVars
  BY DEF RecvPK0s, RIknp, SCheck, RecvSeedR, RecvSeedS
<1>2. CASE RecvPK0s \/ SCheck \/ RecvSeedS
  <2>1. Arrived(toS) /\ toS' = Tail(toS) /\ toR' = toR
    BY <1>2 DEF RecvPK0s, SCheck, RecvSeedS
  <2>2. UnderWay'
    BY <2>1, ToSTaken DEF UnderWay
  <2> QED
    BY <1>1, <2>2, LatchFrame
<1>3. CASE RIknp \/ RecvSeedR
  <2>1. Arrived(toR) /\ toR' = Tail(toR) /\ toS' = toS
    BY <1>3 DEF RIknp, RecvSeedR
  <2>2. UnderWay'
    BY <2>1, ToRTaken DEF UnderWay
  <2> QED
    BY <1>1, <2>2, LatchFrame
<1> QED
  BY <1>2, <1>3

\* The io threads, writing a seed.
LEMMA WritesKeep ==
  ASSUME BaseInv, WriteSeedR \/ WriteSeedS
  PROVE  BaseInv'
<1> USE DEF BaseInv
<1>1. UNCHANGED rBaseVars
  BY DEF WriteSeedR, WriteSeedS
<1>2. CASE WriteSeedR
  <2>1. /\ \E k \in DOMAIN toS : IsPosted(toS[k])
        /\ toS' \in Written(toS, RAlive, RSeed) /\ toR' = toR
    BY <1>2 DEF WriteSeedR
  <2>2. PICK S : toS \in Seq(S) /\ \A m \in S : GoodS(m)
    BY DEF UnderWay
  <2>3. PICK e : e.kind = "seed" /\ toS' \in Seq(S \cup {e})
    BY <2>1, <2>2, SeedWritten
  <2>4. \A m \in S \cup {e} : GoodS(m)
    BY <2>2, <2>3 DEF GoodS
  <2>5. UnderWay'
    BY <2>1, <2>3, <2>4 DEF UnderWay
  <2> QED
    BY <1>1, <2>5, LatchFrame
<1>3. CASE WriteSeedS
  <2>1. /\ \E k \in DOMAIN toR : IsPosted(toR[k])
        /\ toR' \in Written(toR, SAlive, SSeed) /\ toS' = toS
    BY <1>3 DEF WriteSeedS
  <2>2. PICK S : toR \in Seq(S) /\ \A m \in S : GoodR(m)
    BY DEF UnderWay
  <2>3. PICK e : e.kind = "seed" /\ toR' \in Seq(S \cup {e})
    BY <2>1, <2>2, SeedWritten
  <2>4. \A m \in S \cup {e} : GoodR(m)
    BY <2>2, <2>3 DEF GoodR
  <2>5. UnderWay'
    BY <2>1, <2>3, <2>4 DEF UnderWay
  <2> QED
    BY <1>1, <2>5, LatchFrame
<1> QED
  BY <1>2, <1>3

\* Steps that neither send nor receive nor are the receiver's threads'.
LEMMA OthersKeep ==
  ASSUME BaseInv,
         \/ \E t \in Thread : Encrypt(t)
         \/ SJoin \/ RBaseDone \/ RExtend \/ RAgain
         \/ SBaseDone \/ SSetBase \/ SExtend \/ SAgain \/ UNCHANGED vars
  PROVE  BaseInv'
<1>1. UNCHANGED <<rBaseVars, toR, toS>>
  BY DEF Encrypt, SJoin, RBaseDone, RExtend, RAgain, SBaseDone, SSetBase, SExtend, SAgain, vars
<1> QED
  BY <1>1, LatchFrame, UnderWayFrame DEF BaseInv

LEMMA InitBaseInv == Init => BaseInv
<1> SUFFICES ASSUME Init PROVE BaseInv
  OBVIOUS
<1>1. /\ rMain = "idle" /\ cBuff = Unset /\ sendBuff = [i \in Ot |-> Unset]
      /\ PK0Prom = FALSE
      /\ rAt = [t \in Thread |-> "idle"] /\ rIdx = [t \in Thread |-> 0]
      /\ toR = <<>> /\ toS = <<>>
  BY DEF Init, BaseIdle
<1>2. \A t, i : t \in Thread => ~ HasWritten(t, i)
  BY <1>1 DEF HasWritten
<1>3. Latch
  BY <1>1, <1>2 DEF Latch
<1>4. toR \in Seq({}) /\ toS \in Seq({})
  BY <1>1
<1> QED
  BY <1>3, <1>4 DEF BaseInv, UnderWay

LEMMA NextKeepsBaseInv == BaseInv /\ [Next]_vars => BaseInv'
<1> SUFFICES ASSUME BaseInv, [Next]_vars PROVE BaseInv'
  OBVIOUS
<1>1. CASE BaseStep
  BY <1>1, RecvCKeeps, WritePK0Keeps, CountdownKeeps, SetPromiseKeeps, HashMessageKeeps,
     SendPK0sKeeps, RJoinKeeps, ReceivesKeep, OthersKeep DEF BaseStep, ReceiverThread
<1>2. CASE RStepOn
  BY <1>2, RBaseKeeps, SendsKeep, ReceivesKeep, OthersKeep DEF RStepOn
<1>3. CASE SStepOn
  BY <1>3, SendsKeep, ReceivesKeep, OthersKeep DEF SStepOn
<1>4. CASE SeedStep
  BY <1>4, WritesKeep, ReceivesKeep DEF SeedStep
<1> QED
  BY <1>1, <1>2, <1>3, <1>4, OthersKeep DEF Next

LEMMA WholeFollows == BaseInv => PK0sWhole
<1> SUFFICES ASSUME BaseInv PROVE PK0sWhole
  OBVIOUS
<1> USE DEF BaseInv
<1>1. ASSUME rMain \in {"joining", "done"}, NEW i \in Ot PROVE sendBuff[i] # Unset
  BY <1>1, BufferComplete, ElementAssumption DEF Latch
<1>2. \A k \in 1..Len(toS) : GoodS(toS[k])
  BY ElementOfSeq DEF UnderWay
<1> QED
  BY <1>1, <1>2 DEF PK0sWhole, GoodS

\* The receiver of the base transfers sends its PK0s when every thread has
\* written all of its share, whichever thread the countdown lets report: for
\* any number of transfers and threads, whether or not the one is a multiple of
\* the other, and in every init.
THEOREM PK0sWholeHolds == Spec => []PK0sWhole
<1>1. Spec => []BaseInv
  BY InitBaseInv, NextKeepsBaseInv, PTL DEF Spec
<1> QED
  BY <1>1, WholeFollows, PTL
=============================================================================
