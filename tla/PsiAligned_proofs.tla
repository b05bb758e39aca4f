------------------------- MODULE PsiAligned_proofs -------------------------
(***************************************************************************)
(* The two parties of init stay aligned: for any number of calls of init   *)
(* with new or old OT objects, any numbers of threads, transfers and       *)
(* messages, and any group with the laws of GroupAssumption.               *)
(*                                                                         *)
(* A call of init sends its seed and, if it runs the base transfers, as    *)
(* many more messages as any other that does.  So the place of a message   *)
(* in its stream tells which init it is of and what it is, and how far a   *)
(* party has come in its code tells what it has read and written of the    *)
(* two streams (Positions, The streams).  What the parties hold is that of *)
(* the last base transfers they ran (What the parties hold), as many       *)
(* blocks of the generators used as inits since.                           *)
(***************************************************************************)
EXTENDS PsiInit_proofs

-----------------------------------------------------------------------------
(* Positions in the two streams of messages.                               *)

\* How many of the first n - 1 calls of init run the base transfers, and where
\* the messages of the n-th start, when such a call has per more than others.
Bases(F, n) == Cardinality({m \in 1..n - 1 : F[m]})
Start(F, per, n) == n - 1 + per * Bases(F, n)

\* Message p of the stream is number j of init n; the seed is number 0.
Lies(F, per, p, n, j) ==
    /\ n \in Nat \ {0} /\ j \in 0..per
    /\ j > 0 => F[n]
    /\ p = Start(F, per, n) + 1 + j

\* Of a party: its last init that has begun, what it has written of the stream
\* it writes, when it is at part in it, and what it has read.
LastBegun(init, phase) == IF phase = "begin" THEN init - 1 ELSE init
UpTo(F, per, init, phase, part) ==
    Start(F, per, init) + (IF phase = "begin" THEN 0 ELSE 1 + part)
ReadUpTo(F, per, init, phase, waiting, part) ==
    IF waiting # <<>> THEN Start(F, per, Head(waiting))
    ELSE UpTo(F, per, init, phase, part)

\* A party can be at part only of an init that has begun the base transfers.
Progress(F, per, init, phase, part) ==
    /\ init \in Nat \ {0} /\ part \in 0..per
    /\ part > 0 => F[init] /\ phase # "begin"

\* The receives of seeds that are left: those of the last inits; of earlier
\* ones only where the base transfers did not make init wait.
Waits(F, init, phase, waiting, part) ==
    /\ waiting \in Seq(Nat \ {0})
    /\ Len(waiting) <= LastBegun(init, phase)
    /\ \A k \in 1..Len(waiting) :
          /\ waiting[k] = LastBegun(init, phase) - Len(waiting) + k
          /\ waiting[k] < init => ~ F[waiting[k]]
    /\ part > 0 => waiting = <<>>

-----------------------------------------------------------------------------
(* The streams.                                                            *)

\* How many messages to either party an init has that runs the base transfers,
\* beside the seed: C and the blocks of IKNP; the PK0s and the pairs of check.
ToRPer == 1 + NumBlk
ToSPer == 1 + NumBlk * Width

\* How many of them the party has got, or put, in the init it is in.
RGot == IF rPhase = "baseOts" /\ cBuff # Unset THEN 1
        ELSE IF rPhase = "iknp" THEN 1 + rStep
        ELSE IF rPhase \in {"check", "extend", "done"} /\ fresh[rInit] THEN ToRPer ELSE 0
RPut == IF rPhase \in {"iknp", "check"} \/ (rPhase = "baseOts" /\ rMain \in {"joining", "done"})
        THEN 1
        ELSE IF rPhase \in {"extend", "done"} /\ fresh[rInit] THEN ToSPer ELSE 0
SGot == IF sPhase = "iknp" \/ (sPhase = "baseOts" /\ buff # Unset) THEN 1
        ELSE IF sPhase = "check" THEN 1 + sStep
        ELSE IF sPhase \in {"set", "extend", "done"} /\ fresh[sInit] THEN ToSPer ELSE 0
SPut == IF sPhase = "baseOts" THEN 1
        ELSE IF sPhase = "iknp" THEN 1 + sStep
        ELSE IF sPhase \in {"check", "set", "extend", "done"} /\ fresh[sInit] THEN ToRPer ELSE 0

RRead == ReadUpTo(fresh, ToRPer, rInit, rPhase, rWaiting, RGot)
SRead == ReadUpTo(fresh, ToSPer, sInit, sPhase, sWaiting, SGot)
RWritten == UpTo(fresh, ToSPer, rInit, rPhase, RPut)
SWritten == UpTo(fresh, ToRPer, sInit, sPhase, SPut)

\* The party has its OT objects.
HasOt(init, phase) == phase \in {"extend", "done"} \/ (phase = "begin" /\ init > 1)

\* Where R can be, what that says of what it has got, and which receives of
\* seeds are still to be served.
RControl ==
    /\ rInit \in 1..NumInit /\ fresh[1]
    /\ rPhase \in {"begin", "base", "baseOts", "iknp", "check", "extend", "done"}
    /\ rPhase \in {"base", "baseOts", "iknp", "check"} => fresh[rInit]
    /\ rPhase = "iknp" => rStep \in 0..NumBlk - 1
    /\ rMain \in {"idle", "started", "joining", "done"}
    /\ rMain = "idle" <=> rInit = 1 /\ rPhase \in {"begin", "base"}
    /\ rPhase # "baseOts" => rMain \in {"idle", "done"}
    /\ rMain \in {"joining", "done"} => cBuff # Unset
    /\ rOt.has <=> HasOt(rInit, rPhase)
    /\ rOt = NoBase \/ rOt = [has |-> TRUE, keys |-> rOt.keys, used |-> rOt.used]
    /\ Waits(fresh, rInit, rPhase, rWaiting, RGot)

\* The same of S.
SControl ==
    /\ sInit \in 1..NumInit /\ fresh[1]
    /\ sPhase \in {"begin", "base", "baseOts", "iknp", "check", "set", "extend", "done"}
    /\ sPhase \in {"base", "baseOts", "iknp", "check", "set"} => fresh[sInit]
    /\ sPhase = "iknp" => sStep \in 0..NumBlk - 1
    /\ sPhase = "check" => sStep \in 0..NumBlk * Width - 1
    /\ sMain \in {"idle", "started", "done"}
    /\ sMain = "idle" <=> sInit = 1 /\ sPhase \in {"begin", "base"}
    /\ sPhase # "baseOts" => sMain \in {"idle", "done"}
    /\ sMain = "done" => buff # Unset
    /\ sOt.has <=> HasOt(sInit, sPhase)
    /\ \/ sOt = NoBase
       \/ sOt = [has |-> TRUE, key |-> sOt.key, choice |-> sOt.choice, used |-> sOt.used]
    /\ Waits(fresh, sInit, sPhase, sWaiting, SGot)

\* What a message is, by its place.
FitsSeed(m, n, seed) ==
    /\ m.kind = "seed"
    /\ m.body = Unset => m = Posted(n)
    /\ m.body # Unset /\ fresh[n] => m.body = <<seed>>

\* The first message of the base transfers, and the messages to either party.
SenderC == <<Pow(Gen, secrets.alpha), Pow(Gen, secrets.tmp)>>
FitsR(m, n, j) ==
    /\ j = 0 => FitsSeed(m, n, SSeed)
    /\ j = 1 => m = Message("C", SenderC)
    /\ j > 1 => m = Message("u", IknpU(sMessages, j - 2, receiverInputs[j - 2]))

\* The pair passes the check of BaseSSOT.
Passes(m, k) ==
    LET blk == PairAt(k)[1]
        c == PairAt(k)[2]
    IN Chosen(m.body, receiverInputs[blk], c) = IknpRecvMessages(sMessages, blk)[c]
FitsS(m, n, j) ==
    /\ j = 0 => FitsSeed(m, n, RSeed)
    /\ j = 1 => m = Message("PK0", sendBuff)
    /\ j > 1 => m.kind = "check" /\ Passes(m, j - 2)

\* What has been written and not been read is under way, and is what it is to be.
ToRInv ==
    /\ SWritten = RRead + Len(toR)
    /\ \A i \in 1..Len(toR) : \E n, j :
          Lies(fresh, ToRPer, RRead + i, n, j) /\ FitsR(toR[i], n, j)
ToSInv ==
    /\ RWritten = SRead + Len(toS)
    /\ \A i \in 1..Len(toS) : \E n, j :
          Lies(fresh, ToSPer, SRead + i, n, j) /\ FitsS(toS[i], n, j)

Aligned == RControl /\ SControl /\ ToRInv /\ ToSInv

-----------------------------------------------------------------------------
(* What the parties hold.                                                  *)

\* Init n is the last whose base transfers have returned to the party.
Holds(F, init, phase, n) ==
    /\ n \in 1..init /\ F[n]
    /\ n = init => phase \notin {"begin", "base"}
    /\ \A k \in n + 1..init : F[k] => k = init /\ phase \in {"begin", "base"}

\* Of each transfer, what a thread of the receiver has written of it.
RWrote(t) == \A i \in Part(t) :
    /\ HasWritten(t, i) => sendBuff[i] = PK0(t, i)
    /\ rAt[t] = "hash" /\ i < rIdx[t] => rMessages[i] = Sha(i, Pow(cBuff[1], PK(t, i)))

\* The base transfers at R.
RThreads ==
    /\ rMain # "idle" => choices \in Deltas
    /\ DOMAIN rMessages = Ot
    /\ \A t \in Thread :
          /\ rAt[t] \in {"promise", "hash"} => cBuff # Unset /\ rIdx[t] \in First(t)..End(t)
          /\ rAt[t] = "promise" => rIdx[t] = First(t)
          /\ rAt[t] = "pk0" /\ cBuff = Unset => rIdx[t] = First(t)
          /\ rMain = "done" => RHashed(t)
          /\ RWrote(t)

\* The base transfers at S: what the threads of its side have made so far.
SThreads ==
    /\ sMain # "idle" => secrets \in SecretSets /\ receiverInputs \in Inputs
    /\ DOMAIN sMessages = Ot
    /\ sIdx \in [Thread -> 0..NumOt]
    /\ \A t \in Thread :
          /\ buff = Unset => sIdx[t] = 0
          /\ sMain = "done" => sIdx[t] = NumOt
          /\ \A i \in 0..sIdx[t] - 1 : sMessages[i] = Pair(i)

\* Both hold the state of the same base transfers.
Same == \E n : Holds(fresh, rInit, rPhase, n) /\ Holds(fresh, sInit, sPhase, n)

\* What the base transfers have sent either way has been received as it was.
Links ==
    Same => /\ cBuff # Unset => cBuff = SenderC
            /\ buff # Unset => buff = sendBuff

\* The pairs of block b are told apart by S's choices.
Served(pairs, b) ==
    \A c \in Bit :
        /\ pairs[b][c][1] # pairs[b][c][2]
        /\ Chosen(pairs[b][c], receiverInputs[b], c) = IknpRecvMessages(sMessages, b)[c]

\* The pairs that R has received the correction of.
RPairs ==
    /\ rPhase = "iknp" => DOMAIN senderInputs = Blk
    /\ Same =>
         /\ rPhase = "iknp" => \A b \in 0..rStep - 1 : Served(senderInputs, b)
         /\ rPhase = "check" => \A b \in Blk : Served(senderInputs, b)
         /\ rOt.has => \A b \in Blk : Served(rOt.keys, b)

\* The messages that S has chosen.
SKeys ==
    /\ sPhase = "iknp" =>
         /\ DOMAIN receiverOutputs = Blk
         /\ \A b \in 0..sStep - 1 : receiverOutputs[b] = IknpRecvMessages(sMessages, b)
    /\ sPhase \in {"check", "set"} =>
         \A b \in Blk : receiverOutputs[b] = IknpRecvMessages(sMessages, b)
    /\ sOt.has =>
         /\ \A b \in Blk : sOt.key[b] = IknpRecvMessages(sMessages, b)
         /\ sOt.choice = receiverInputs
    /\ sPhase \in {"extend", "done"} /\ fresh[sInit] => mSSOtChoice = sOt.choice

\* The blocks used of the generators: as many as the inits since the base
\* transfers have taken.
Round == Rounds(NumMsg)
Used(F, init, phase, used) ==
    \E n \in Nat :
        /\ Holds(F, init, phase, n)
        /\ used = Round * (init - n + IF phase = "done" THEN 1 ELSE 0)

\* The two messages of transfer i that R extends its pairs to.
RMessages(keys, used, i) ==
    <<SsotMessage([blk \in Blk |-> [c \in Bit |-> keys[blk][c][1]]], used, i),
      SsotMessage([blk \in Blk |-> [c \in Bit |-> keys[blk][c][2]]], used, i)>>

\* What the parties have extended to when init returns.
RProduct ==
    /\ rOt.has => Used(fresh, rInit, rPhase, rOt.used)
    /\ rPhase = "done" =>
         rMsgs = [i \in 0..NumMsg - 1 |-> RMessages(rOt.keys, rOt.used - Round, i)]
SProduct ==
    /\ sOt.has => Used(fresh, sInit, sPhase, sOt.used)
    /\ sPhase = "done" =>
         sMsgs = [i \in 0..NumMsg - 1 |-> SsotMessage(sOt.key, sOt.used - Round, i)]

\* The seeds, in an init that runs the base transfers.
RSeeds ==
    /\ fresh[rInit] /\ rPhase # "begin" /\ rWaiting = <<>> => rTheirs = SSeed
    /\ fresh[rInit] /\ rPhase = "done" => mHashingSeed["R"] = SymDiff(RSeed, SSeed)
SSeeds ==
    /\ fresh[sInit] /\ sPhase # "begin" /\ sWaiting = <<>> => sTheirs = RSeed
    /\ fresh[sInit] /\ sPhase = "done" => mHashingSeed["S"] = SymDiff(RSeed, SSeed)

\* What is said of a party by itself, and of what is between them.
RInv == RControl /\ RThreads /\ RProduct /\ RSeeds
SInv == SControl /\ SThreads /\ SKeys /\ SProduct /\ SSeeds
Between == ToRInv /\ ToSInv /\ Links /\ RPairs

\* The inductive invariant.
PartyInv == DOMAIN mHashingSeed = {"R", "S"} /\ RInv /\ SInv /\ Between
InitInv == BaseInv /\ PartyInv

-----------------------------------------------------------------------------
(* Positions.                                                              *)

LEMMA BasesNext ==
  ASSUME NEW F, NEW n \in Nat \ {0}
  PROVE  /\ Bases(F, n) \in Nat
         /\ Bases(F, n + 1) = Bases(F, n) + IF F[n] THEN 1 ELSE 0
<1> DEFINE A == {m \in 1..n - 1 : F[m]}
           B == {m \in 1..(n + 1) - 1 : F[m]}
<1>1. IsFiniteSet(A) /\ Cardinality(A) \in Nat
  <2>1. IsFiniteSet(1..n - 1)
    BY FS_Interval
  <2>2. A \subseteq 1..n - 1
    OBVIOUS
  <2>3. IsFiniteSet(A)
    BY <2>1, <2>2, FS_Subset
  <2> QED
    BY <2>3, FS_CardinalityType
<1>2. n \notin A /\ (F[n] => B = A \cup {n}) /\ (~ F[n] => B = A)
  OBVIOUS
<1>3. Bases(F, n) = Cardinality(A) /\ Bases(F, n + 1) = Cardinality(B)
  BY DEF Bases
<1> HIDE DEF A, B
<1>4. CASE F[n]
  <2>1. Cardinality(A \cup {n}) = Cardinality(A) + 1
    BY <1>1, <1>2, FS_AddElement
  <2> QED
    BY <1>1, <1>2, <1>3, <1>4, <2>1
<1>5. CASE ~ F[n]
  BY <1>1, <1>2, <1>3, <1>5
<1> QED
  BY <1>4, <1>5

LEMMA BasesGrow ==
  ASSUME NEW F, NEW m \in Nat \ {0}, NEW n \in Nat \ {0}, m <= n
  PROVE  Bases(F, m) <= Bases(F, n)
<1> DEFINE A == {k \in 1..m - 1 : F[k]}
           B == {k \in 1..n - 1 : F[k]}
<1>1. IsFiniteSet(B)
  <2>1. IsFiniteSet(1..n - 1) /\ B \subseteq 1..n - 1
    BY FS_Interval
  <2> QED
    BY <2>1, FS_Subset
<1>2. A \subseteq B
  OBVIOUS
<1>3. Cardinality(A) <= Cardinality(B)
  BY <1>1, <1>2, FS_Subset
<1> QED
  BY <1>3 DEF Bases

LEMMA StartNext ==
  ASSUME NEW F, NEW per \in Nat, NEW n \in Nat \ {0}
  PROVE  /\ Start(F, per, n) \in Nat
         /\ Start(F, per, n + 1) = Start(F, per, n) + 1 + IF F[n] THEN per ELSE 0
<1> DEFINE a == Bases(F, n)
           b == Bases(F, n + 1)
<1>1. a \in Nat /\ b = a + IF F[n] THEN 1 ELSE 0
  BY BasesNext
<1>2. Start(F, per, n) = n - 1 + per * a /\ Start(F, per, n + 1) = n + per * b
  BY DEF Start
<1> HIDE DEF a, b
<1>3. per * a \in Nat /\ per * (a + 1) = per * a + per
  BY <1>1, Scaled
<1> QED
  BY <1>1, <1>2, <1>3

LEMMA StartGrow ==
  ASSUME NEW F, NEW per \in Nat, NEW m \in Nat \ {0}, NEW n \in Nat \ {0}, m <= n
  PROVE  Start(F, per, m) <= Start(F, per, n)
<1> DEFINE a == Bases(F, m)
           b == Bases(F, n)
<1>1. a \in Nat /\ b \in Nat /\ a <= b
  BY BasesNext, BasesGrow
<1>2. Start(F, per, m) = m - 1 + per * a /\ Start(F, per, n) = n - 1 + per * b
  BY DEF Start
<1> HIDE DEF a, b
<1>3. per * a <= per * b /\ per * a \in Nat /\ per * b \in Nat
  BY <1>1, Scaled
<1> QED
  BY <1>1, <1>2, <1>3

\* The messages of an init end before those of a later one start.
LEMMA LiesBefore ==
  ASSUME NEW F, NEW per \in Nat, NEW p, NEW n, NEW j, Lies(F, per, p, n, j)
  PROVE  /\ Start(F, per, n) < p /\ p <= Start(F, per, n + 1)
         /\ \A m \in Nat \ {0} : n < m => p <= Start(F, per, m)
         /\ p \in Nat /\ n \in Nat \ {0} /\ j \in Nat /\ j <= per
<1>1. n \in Nat \ {0} /\ j \in 0..per /\ (j > 0 => F[n]) /\ p = Start(F, per, n) + 1 + j
  BY DEF Lies
<1>2. /\ Start(F, per, n) \in Nat /\ n + 1 \in Nat \ {0}
      /\ Start(F, per, n + 1) = Start(F, per, n) + 1 + IF F[n] THEN per ELSE 0
  BY <1>1, StartNext
<1>3. Start(F, per, n) < p /\ p <= Start(F, per, n + 1)
  BY <1>1, <1>2
<1>4. ASSUME NEW m \in Nat \ {0}, n < m PROVE p <= Start(F, per, m)
  <2>1. n + 1 <= m
    BY <1>1, <1>4
  <2>2. Start(F, per, n + 1) <= Start(F, per, m)
    BY <1>2, <2>1, StartGrow
  <2>3. Start(F, per, n + 1) \in Nat /\ Start(F, per, m) \in Nat
    BY <1>2, StartNext
  <2> QED
    BY <1>1, <1>2, <1>3, <2>2, <2>3
<1> QED
  BY <1>1, <1>2, <1>3, <1>4

LEMMA LiesUnique ==
  ASSUME NEW F, NEW per \in Nat, NEW p, NEW n, NEW j, NEW m, NEW k,
         Lies(F, per, p, n, j), Lies(F, per, p, m, k)
  PROVE  n = m /\ j = k
<1>1. /\ Start(F, per, n) < p /\ Start(F, per, m) < p
      /\ m \in Nat \ {0} /\ n \in Nat \ {0}
      /\ n < m => p <= Start(F, per, m)
      /\ m < n => p <= Start(F, per, n)
      /\ p \in Nat /\ j \in Nat /\ k \in Nat
  BY LiesBefore
<1>2. Start(F, per, n) \in Nat /\ Start(F, per, m) \in Nat
  BY <1>1, StartNext
<1>3. n = m
  BY <1>1, <1>2
<1>4. p = Start(F, per, n) + 1 + j /\ p = Start(F, per, n) + 1 + k
  BY <1>3 DEF Lies
<1> QED
  BY <1>1, <1>2, <1>3, <1>4

LEMMA UpToBounds ==
  ASSUME NEW F, NEW per \in Nat, NEW init, NEW phase, NEW part,
         Progress(F, per, init, phase, part)
  PROVE  /\ init \in Nat \ {0} /\ part \in Nat
         /\ UpTo(F, per, init, phase, part) \in Nat
         /\ Start(F, per, init) \in Nat
         /\ Start(F, per, init) <= UpTo(F, per, init, phase, part)
         /\ UpTo(F, per, init, phase, part) <= Start(F, per, init + 1)
<1>1. /\ init \in Nat \ {0} /\ part \in 0..per
      /\ part > 0 => F[init]
  BY DEF Progress
<1>2. /\ Start(F, per, init) \in Nat
      /\ Start(F, per, init + 1) = Start(F, per, init) + 1 + IF F[init] THEN per ELSE 0
  BY <1>1, StartNext
<1> QED
  BY <1>1, <1>2 DEF UpTo

\* A message that is written is of an init of its writer, which has come to it.
LEMMA WrittenTo ==
  ASSUME NEW F, NEW per \in Nat, NEW init, NEW phase, NEW part,
         Progress(F, per, init, phase, part),
         NEW p, NEW n, NEW j, Lies(F, per, p, n, j),
         p <= UpTo(F, per, init, phase, part)
  PROVE  n < init \/ (n = init /\ phase # "begin" /\ j <= part)
<1> DEFINE u == UpTo(F, per, init, phase, part)
<1>1. /\ init \in Nat \ {0} /\ part \in Nat /\ u \in Nat
      /\ Start(F, per, init) \in Nat
      /\ u <= Start(F, per, init + 1)
  BY UpToBounds
<1>2. /\ Start(F, per, n) < p /\ p \in Nat /\ n \in Nat \ {0} /\ j \in Nat
      /\ p = Start(F, per, n) + 1 + j
  BY LiesBefore DEF Lies
<1>3. Start(F, per, n) \in Nat /\ Start(F, per, init + 1) \in Nat /\ init + 1 \in Nat \ {0}
  <2>1. init + 1 \in Nat \ {0}
    BY <1>1
  <2> QED
    BY <1>2, <2>1, StartNext
<1>4. ~ (init < n)
  <2>1. init < n => Start(F, per, init + 1) <= Start(F, per, n)
    BY <1>1, <1>2, <1>3, StartGrow
  <2>2. p <= u
    OBVIOUS
  <2> HIDE DEF u
  <2> QED
    BY <1>1, <1>2, <1>3, <2>1, <2>2
<1>5. n = init => phase # "begin" /\ j <= part
  BY <1>1, <1>2, <1>3 DEF UpTo
<1> QED
  BY <1>1, <1>2, <1>4, <1>5

\* A message that has not been read and is not a seed is of an init that its
\* reader has not passed.
LEMMA ReadFrom ==
  ASSUME NEW F, NEW per \in Nat, NEW init, NEW phase, NEW waiting, NEW part,
         Progress(F, per, init, phase, part),
         Waits(F, init, phase, waiting, part),
         NEW p, NEW n, NEW j, Lies(F, per, p, n, j), j > 0,
         ReadUpTo(F, per, init, phase, waiting, part) < p
  PROVE  init <= n /\ (n = init => part < j)
<1>1. /\ init \in Nat \ {0} /\ part \in Nat
      /\ UpTo(F, per, init, phase, part) \in Nat
      /\ Start(F, per, init) \in Nat
      /\ Start(F, per, init) <= UpTo(F, per, init, phase, part)
  BY UpToBounds
<1>0. part > 0 => phase # "begin"
  BY DEF Progress
<1>2. /\ p \in Nat /\ n \in Nat \ {0} /\ j \in Nat /\ F[n]
      /\ p = Start(F, per, n) + 1 + j
      /\ n < init => p <= Start(F, per, init)
  BY <1>1, LiesBefore DEF Lies
<1>3. CASE waiting = <<>>
  <2>1. UpTo(F, per, init, phase, part) < p
    BY <1>3 DEF ReadUpTo
  <2>2. ~ (n < init)
    BY <1>1, <1>2, <2>1
  <2>3. n = init => part < j
    BY <1>0, <1>1, <1>2, <2>1 DEF UpTo
  <2> QED
    BY <1>1, <1>2, <2>2, <2>3
<1>4. CASE waiting # <<>>
  <2>1. Start(F, per, Head(waiting)) < p /\ ~ (part > 0)
    BY <1>4 DEF ReadUpTo, Waits
  <2>2. /\ Len(waiting) \in Nat \ {0} /\ Head(waiting) = waiting[1]
        /\ waiting[1] \in Nat \ {0}
    BY <1>4 DEF Waits
  <2> DEFINE last == LastBegun(init, phase)
             l == Len(waiting)
  <2>3. last \in Nat /\ l <= last /\ (last = init \/ last = init - 1)
    BY <1>1 DEF LastBegun, Waits
  <2>4. /\ waiting[1] = last - l + 1
        /\ \A k \in 1..l : waiting[k] = last - l + k /\ (waiting[k] < init => ~ F[waiting[k]])
    BY <2>2 DEF Waits
  <2>5. ASSUME n < init PROVE FALSE
    <3>1. CASE n < waiting[1]
      <4>1. p <= Start(F, per, waiting[1])
        BY <2>2, <3>1, LiesBefore
      <4>2. Start(F, per, waiting[1]) \in Nat
        BY <2>2, StartNext
      <4> QED
        BY <1>2, <2>1, <2>2, <4>1, <4>2
    <3>2. CASE waiting[1] <= n
      <4> HIDE DEF last, l
      <4>0. l \in Nat \ {0}
        BY <2>2 DEF l
      <4>1. n - last + l \in 1..l
        BY <1>1, <1>2, <2>2, <2>3, <2>4, <2>5, <3>2, <4>0
      <4> DEFINE k == n - last + l
      <4>2. k \in 1..l /\ waiting[k] = n
        <5>1. waiting[k] = last - l + k
          BY <2>4, <4>1
        <5> QED
          BY <1>2, <2>3, <4>0, <4>1, <5>1
      <4> QED
        BY <1>2, <2>4, <2>5, <4>2
    <3> QED
      BY <1>2, <2>2, <3>1, <3>2
  <2> QED
    BY <1>1, <1>2, <2>1, <2>5
<1> QED
  BY <1>3, <1>4

\* What has been read was written.
LEMMA Passed ==
  ASSUME NEW F, NEW per \in Nat,
         NEW init, NEW phase, NEW waiting, NEW part,
         Progress(F, per, init, phase, part),
         Waits(F, init, phase, waiting, part),
         NEW init2, NEW phase2, NEW part2,
         Progress(F, per, init2, phase2, part2),
         ReadUpTo(F, per, init, phase, waiting, part) \in Nat,
         ReadUpTo(F, per, init, phase, waiting, part) <= UpTo(F, per, init2, phase2, part2),
         NEW n \in Nat \ {0}, NEW k \in 1..per, F[n],
         n < init \/ (n = init /\ k <= part)
  PROVE  n < init2 \/ (n = init2 /\ phase2 # "begin" /\ k <= part2)
<1>1. PICK p : p = Start(F, per, n) + 1 + k
  OBVIOUS
<1>2. p \in Nat
  <2>1. Start(F, per, n) \in Nat
    BY StartNext
  <2> QED
    BY <1>1, <2>1
<1>3. Lies(F, per, p, n, k)
  BY <1>1 DEF Lies
<1>4. init \in Nat /\ part \in Nat /\ UpTo(F, per, init2, phase2, part2) \in Nat
  BY UpToBounds
<1>5. p <= ReadUpTo(F, per, init, phase, waiting, part)
  BY <1>2, <1>3, <1>4, ReadFrom
<1>6. p <= UpTo(F, per, init2, phase2, part2)
  BY <1>2, <1>4, <1>5
<1> QED
  BY <1>3, <1>6, WrittenTo

LEMMA ReadUpToType ==
  ASSUME NEW F, NEW per \in Nat, NEW init, NEW phase, NEW waiting, NEW part,
         Progress(F, per, init, phase, part),
         Waits(F, init, phase, waiting, part)
  PROVE  ReadUpTo(F, per, init, phase, waiting, part) \in Nat
<1>1. UpTo(F, per, init, phase, part) \in Nat
  BY UpToBounds
<1>2. waiting # <<>> => Head(waiting) \in Nat \ {0}
  BY DEF Waits
<1>3. waiting # <<>> => Start(F, per, Head(waiting)) \in Nat
  BY <1>2, StartNext
<1> QED
  BY <1>1, <1>3 DEF ReadUpTo

-----------------------------------------------------------------------------
(* What a party can find in the stream it reads.                           *)

LEMMA Pers ==
  /\ ToRPer \in Nat /\ ToRPer > 1 /\ ToSPer \in Nat /\ ToSPer > 1
  /\ ToRPer = 1 + NumBlk /\ ToSPer = 1 + NumBlk * Width
  /\ NumBlk \in Nat \ {0} /\ Width \in Nat \ {0} /\ NumBlk * Width \in Nat \ {0}
<1>1. NumBlk \in Nat \ {0} /\ Width \in Nat \ {0} 
  BY InitAssumption, WidthAssumption, CountAssumption
<1>2. NumBlk * Width \in Nat \ {0}
  BY <1>1
<1> QED
  BY <1>1, <1>2 DEF ToRPer, ToSPer

LEMMA RProgress ==
  ASSUME RControl
  PROVE  /\ rInit \in Nat \ {0} /\ RGot \in Nat /\ RPut \in Nat
         /\ Progress(fresh, ToRPer, rInit, rPhase, RGot)
         /\ Progress(fresh, ToSPer, rInit, rPhase, RPut)
         /\ Waits(fresh, rInit, rPhase, rWaiting, RGot)
<1>1. /\ rInit \in Nat \ {0}
      /\ rPhase \in {"base", "baseOts", "iknp", "check"} => fresh[rInit]
      /\ rPhase = "iknp" => rStep \in 0..NumBlk - 1
      /\ Waits(fresh, rInit, rPhase, rWaiting, RGot)
  BY InitAssumption DEF RControl
<1>2. RGot \in 0..ToRPer /\ (RGot > 0 => fresh[rInit] /\ rPhase # "begin")
  BY <1>1, Pers DEF RGot
<1>3. RPut \in 0..ToSPer /\ (RPut > 0 => fresh[rInit] /\ rPhase # "begin")
  BY <1>1, Pers DEF RPut
<1>4. RGot \in Nat /\ RPut \in Nat
  BY <1>2, <1>3, Pers
<1> QED
  BY <1>1, <1>2, <1>3, <1>4 DEF Progress

LEMMA SProgress ==
  ASSUME SControl
  PROVE  /\ sInit \in Nat \ {0} /\ SGot \in Nat /\ SPut \in Nat
         /\ Progress(fresh, ToSPer, sInit, sPhase, SGot)
         /\ Progress(fresh, ToRPer, sInit, sPhase, SPut)
         /\ Waits(fresh, sInit, sPhase, sWaiting, SGot)
<1>1. /\ sInit \in Nat \ {0}
      /\ sPhase \in {"base", "baseOts", "iknp", "check", "set"} => fresh[sInit]
      /\ sPhase = "iknp" => sStep \in 0..NumBlk - 1
      /\ sPhase = "check" => sStep \in 0..NumBlk * Width - 1
      /\ Waits(fresh, sInit, sPhase, sWaiting, SGot)
  BY InitAssumption DEF SControl
<1>2. SGot \in 0..ToSPer /\ (SGot > 0 => fresh[sInit] /\ sPhase # "begin")
  BY <1>1, Pers DEF SGot
<1>3. SPut \in 0..ToRPer /\ (SPut > 0 => fresh[sInit] /\ sPhase # "begin")
  BY <1>1, Pers DEF SPut
<1>4. SGot \in Nat /\ SPut \in Nat
  BY <1>2, <1>3, Pers
<1> QED
  BY <1>1, <1>2, <1>3, <1>4 DEF Progress

LEMMA QueueLen ==
  ASSUME BaseInv
  PROVE  Len(toR) \in Nat /\ Len(toS) \in Nat
BY LenProperties DEF BaseInv, UnderWay

\* What R has got of an init, S has put, and the other way round.
LEMMA RAfterS ==
  ASSUME BaseInv, Aligned, NEW n \in Nat \ {0}, NEW k \in 1..ToRPer, fresh[n],
         n < rInit \/ (n = rInit /\ k <= RGot)
  PROVE  n < sInit \/ (n = sInit /\ k <= SPut)
<1>1. /\ Progress(fresh, ToRPer, rInit, rPhase, RGot)
      /\ Waits(fresh, rInit, rPhase, rWaiting, RGot)
      /\ Progress(fresh, ToRPer, sInit, sPhase, SPut)
  BY RProgress, SProgress DEF Aligned
<1>2. RRead \in Nat
  BY <1>1, Pers, ReadUpToType DEF RRead
<1>3. RRead <= SWritten
  BY <1>2, QueueLen DEF Aligned, ToRInv
<1> QED
  BY <1>1, <1>2, <1>3, Pers, Passed DEF RRead, SWritten

LEMMA SAfterR ==
  ASSUME BaseInv, Aligned, NEW n \in Nat \ {0}, NEW k \in 1..ToSPer, fresh[n],
         n < sInit \/ (n = sInit /\ k <= SGot)
  PROVE  n < rInit \/ (n = rInit /\ k <= RPut)
<1>1. /\ Progress(fresh, ToSPer, sInit, sPhase, SGot)
      /\ Waits(fresh, sInit, sPhase, sWaiting, SGot)
      /\ Progress(fresh, ToSPer, rInit, rPhase, RPut)
  BY RProgress, SProgress DEF Aligned
<1>2. SRead \in Nat
  BY <1>1, Pers, ReadUpToType DEF SRead
<1>3. SRead <= RWritten
  BY <1>2, QueueLen DEF Aligned, ToSInv
<1> QED
  BY <1>1, <1>2, <1>3, Pers, Passed DEF SRead, RWritten

\* The same in terms of where the parties are.
LEMMA SFinished ==
  ASSUME BaseInv, Aligned, NEW n \in Nat \ {0}, fresh[n],
         n < sInit \/ (n = sInit /\ sPhase \in {"set", "extend", "done"})
  PROVE  n < rInit \/ (n = rInit /\ rPhase \in {"extend", "done"})
<1>1. n = sInit => ToSPer <= SGot
  BY Pers DEF SGot
<1>2. n < rInit \/ (n = rInit /\ ToSPer <= RPut)
  BY <1>1, Pers, SAfterR
<1> QED
  BY <1>2, Pers DEF RPut

LEMMA SGotPK0s ==
  ASSUME BaseInv, Aligned, NEW n \in Nat \ {0}, fresh[n],
         \/ n < sInit
         \/ n = sInit /\ sPhase \in {"iknp", "check", "set", "extend", "done"}
         \/ n = sInit /\ sPhase = "baseOts" /\ buff # Unset
  PROVE  \/ n < rInit
         \/ n = rInit /\ rPhase \in {"iknp", "check", "extend", "done"}
         \/ n = rInit /\ rPhase = "baseOts" /\ rMain \in {"joining", "done"}
<1>1. n = sInit => 1 <= SGot
  BY Pers DEF SGot, Aligned, SControl
<1>2. n < rInit \/ (n = rInit /\ 1 <= RPut)
  BY <1>1, Pers, SAfterR
<1> QED
  BY <1>2, Pers DEF RPut

LEMMA RFinished ==
  ASSUME BaseInv, Aligned, NEW n \in Nat \ {0}, fresh[n],
         n < rInit \/ (n = rInit /\ rPhase \in {"check", "extend", "done"})
  PROVE  n < sInit \/ (n = sInit /\ sPhase \in {"check", "set", "extend", "done"})
<1>1. n = rInit => ToRPer <= RGot
  BY Pers DEF RGot
<1>2. n < sInit \/ (n = sInit /\ ToRPer <= SPut)
  BY <1>1, Pers, RAfterS
<1>3. sPhase = "iknp" => sStep \in 0..NumBlk - 1
  BY DEF Aligned, SControl
<1> QED
  BY <1>2, <1>3, Pers DEF SPut

LEMMA RGotC ==
  ASSUME BaseInv, Aligned, NEW n \in Nat \ {0}, fresh[n],
         \/ n < rInit
         \/ n = rInit /\ rPhase \in {"iknp", "check", "extend", "done"}
         \/ n = rInit /\ rPhase = "baseOts" /\ cBuff # Unset
  PROVE  \/ n < sInit
         \/ n = sInit /\ sPhase \in {"baseOts", "iknp", "check", "set", "extend", "done"}
<1>1. n = rInit => 1 <= RGot
  BY Pers DEF RGot, Aligned, RControl
<1>2. n < sInit \/ (n = sInit /\ 1 <= SPut)
  BY <1>1, Pers, RAfterS
<1> QED
  BY <1>2, Pers DEF SPut

LEMMA RGotU ==
  ASSUME BaseInv, Aligned, NEW n \in Nat \ {0}, fresh[n],
         n = rInit /\ rPhase = "iknp" /\ rStep > 0
  PROVE  \/ n < sInit
         \/ n = sInit /\ sPhase \in {"iknp", "check", "set", "extend", "done"}
<1>1. 2 <= RGot
  BY Pers DEF RGot, Aligned, RControl
<1>2. n < sInit \/ (n = sInit /\ 2 <= SPut)
  BY <1>1, Pers, RAfterS
<1> QED
  BY <1>2, Pers DEF SPut

\* A message of the base transfers that R has not read is of S's init, and one
\* that S has not read of R's, or of one in which S is at its check.
LEMMA InToR ==
  ASSUME BaseInv, Aligned, NEW i \in 1..Len(toR), NEW n, NEW j,
         Lies(fresh, ToRPer, RRead + i, n, j), j > 0
  PROVE  /\ n = sInit /\ fresh[n] /\ rInit <= n
         /\ n = rInit => RGot < j
         /\ j <= SPut
         /\ sPhase \in {"baseOts", "iknp", "check"}
         /\ j > 1 => sPhase # "baseOts"
<1>1. /\ Progress(fresh, ToRPer, rInit, rPhase, RGot)
      /\ Waits(fresh, rInit, rPhase, rWaiting, RGot)
      /\ Progress(fresh, ToRPer, sInit, sPhase, SPut)
      /\ rInit \in Nat \ {0} /\ RGot \in Nat /\ sInit \in Nat \ {0} /\ SPut \in Nat
  BY RProgress, SProgress DEF Aligned
<1>2. RRead \in Nat
  BY <1>1, Pers, ReadUpToType DEF RRead
<1>3. RRead < RRead + i /\ RRead + i <= SWritten
  BY <1>2, QueueLen DEF Aligned, ToRInv
<1>4. fresh[n] /\ n \in Nat \ {0} /\ j \in 1..ToRPer
  BY Pers DEF Lies
<1>5. rInit <= n /\ (n = rInit => RGot < j)
  BY <1>1, <1>3, Pers, ReadFrom DEF RRead
<1>6. n < sInit \/ (n = sInit /\ sPhase # "begin" /\ j <= SPut)
  BY <1>1, <1>3, Pers, WrittenTo DEF SWritten
<1>7. ~ (n < rInit \/ (n = rInit /\ rPhase \in {"extend", "done"}))
  BY <1>1, <1>4, <1>5, Pers DEF RGot
<1>8. ~ (n < sInit \/ (n = sInit /\ sPhase \in {"set", "extend", "done"}))
  BY <1>4, <1>7, SFinished
<1>9. n = sInit /\ j <= SPut
  BY <1>6, <1>8
<1>10. sPhase \in {"baseOts", "iknp", "check"} /\ (j > 1 => sPhase # "baseOts")
  BY <1>4, <1>8, <1>9 DEF SPut
<1> QED
  BY <1>4, <1>5, <1>9, <1>10

LEMMA InToS ==
  ASSUME BaseInv, Aligned, NEW i \in 1..Len(toS), NEW n, NEW j,
         Lies(fresh, ToSPer, SRead + i, n, j), j > 0
  PROVE  /\ fresh[n] /\ sInit <= n /\ n <= rInit
         /\ n = sInit => SGot < j
         /\ j = 1 => /\ n = rInit
                     /\ \/ rPhase \in {"iknp", "check", "extend", "done"}
                        \/ rPhase = "baseOts" /\ rMain \in {"joining", "done"}
                     /\ sInit < n \/ sPhase \in {"begin", "base", "baseOts"}
         /\ j > 1 => n = sInit /\ sPhase = "check"
<1>1. /\ Progress(fresh, ToSPer, sInit, sPhase, SGot)
      /\ Waits(fresh, sInit, sPhase, sWaiting, SGot)
      /\ Progress(fresh, ToSPer, rInit, rPhase, RPut)
      /\ rInit \in Nat \ {0} /\ SGot \in Nat /\ sInit \in Nat \ {0} /\ RPut \in Nat
  BY RProgress, SProgress DEF Aligned
<1>2. SRead \in Nat
  BY <1>1, Pers, ReadUpToType DEF SRead
<1>3. SRead < SRead + i /\ SRead + i <= RWritten
  BY <1>2, QueueLen DEF Aligned, ToSInv
<1>4. fresh[n] /\ n \in Nat \ {0} /\ j \in 1..ToSPer
  BY Pers DEF Lies
<1>5. sInit <= n /\ (n = sInit => SGot < j)
  BY <1>1, <1>3, Pers, ReadFrom DEF SRead
<1>6. n < rInit \/ (n = rInit /\ rPhase # "begin" /\ j <= RPut)
  BY <1>1, <1>3, Pers, WrittenTo DEF RWritten
<1>7. ~ (n < sInit \/ (n = sInit /\ sPhase \in {"set", "extend", "done"}))
  BY <1>1, <1>4, <1>5, Pers DEF SGot
<1>8. n < rInit \/ (n = rInit /\ rPhase \in {"check", "extend", "done"}) => n = sInit /\ sPhase = "check"
  BY <1>4, <1>7, RFinished
<1>9. j > 1 => n = sInit /\ sPhase = "check"
  BY <1>1, <1>4, <1>6, <1>8, Pers DEF RPut
<1>10. sPhase = "check" => sStep \in Nat
  BY Pers DEF Aligned, SControl
<1>11. ASSUME j = 1 PROVE ~ (n = sInit /\ sPhase \in {"iknp", "check"})
  BY <1>1, <1>5, <1>10, <1>11 DEF SGot
<1>12. ASSUME j = 1 PROVE n = rInit
  BY <1>6, <1>8, <1>11, <1>12
<1>13. ASSUME j = 1
       PROVE \/ rPhase \in {"iknp", "check", "extend", "done"}
             \/ rPhase = "baseOts" /\ rMain \in {"joining", "done"}
  BY <1>1, <1>6, <1>12, <1>13 DEF RPut
<1>14. ASSUME j = 1 PROVE sInit < n \/ sPhase \in {"begin", "base", "baseOts"}
  <2>1. sPhase \in {"begin", "base", "baseOts", "iknp", "check", "set", "extend", "done"}
    BY DEF Aligned, SControl
  <2> QED
    BY <1>1, <1>4, <1>5, <1>7, <1>11, <1>14, <2>1
<1> QED
  BY <1>1, <1>4, <1>5, <1>6, <1>9, <1>12, <1>13, <1>14

-----------------------------------------------------------------------------
(* How a party's place in the streams changes.                             *)

\* The seed is posted, and its receive.
LEMMA Begins ==
  ASSUME NEW F, NEW per \in Nat, NEW init \in Nat \ {0}, NEW waiting,
         Waits(F, init, "begin", waiting, 0),
         NEW phase, phase # "begin"
  PROVE  /\ Waits(F, init, phase, Append(waiting, init), 0)
         /\ ReadUpTo(F, per, init, phase, Append(waiting, init), 0)
              = ReadUpTo(F, per, init, "begin", waiting, 0)
         /\ UpTo(F, per, init, phase, 0) = UpTo(F, per, init, "begin", 0) + 1
         /\ Lies(F, per, UpTo(F, per, init, "begin", 0) + 1, init, 0)
<1>1. /\ waiting \in Seq(Nat \ {0}) /\ Len(waiting) \in Nat
      /\ Len(waiting) <= init - 1
      /\ \A k \in 1..Len(waiting) :
            /\ waiting[k] = init - 1 - Len(waiting) + k
            /\ waiting[k] < init => ~ F[waiting[k]]
  BY DEF Waits, LastBegun
<1>2. /\ Append(waiting, init) \in Seq(Nat \ {0})
      /\ Len(Append(waiting, init)) = Len(waiting) + 1
      /\ \A k \in 1..Len(waiting) : Append(waiting, init)[k] = waiting[k]
      /\ Append(waiting, init)[Len(waiting) + 1] = init
      /\ Append(waiting, init) # <<>>
      /\ Head(Append(waiting, init)) = Append(waiting, init)[1]
  BY <1>1
<1> DEFINE w == Append(waiting, init)
           l == Len(waiting)
<1>3. ASSUME NEW k \in 1..l + 1
      PROVE  w[k] = init - (l + 1) + k /\ (w[k] < init => ~ F[w[k]])
  <2>1. CASE k \in 1..l
    <3>1. w[k] = waiting[k]
      BY <1>2, <2>1
    <3> QED
      BY <1>1, <2>1, <3>1
  <2>2. CASE k = l + 1
    <3>1. w[k] = init
      BY <1>2, <2>2
    <3> QED
      BY <1>1, <2>2, <3>1
  <2> QED
    BY <1>1, <2>1, <2>2
<1>4. Waits(F, init, phase, w, 0)
  BY <1>1, <1>2, <1>3 DEF Waits, LastBegun
<1>5. ReadUpTo(F, per, init, phase, w, 0) = ReadUpTo(F, per, init, "begin", waiting, 0)
  <2>1. ReadUpTo(F, per, init, phase, w, 0) = Start(F, per, w[1])
    BY <1>2 DEF ReadUpTo
  <2>2. CASE waiting = <<>>
    <3>1. w[1] = init
      BY <1>2, <2>2
    <3>2. Start(F, per, init) \in Nat
      BY StartNext
    <3> QED
      BY <2>1, <2>2, <3>1, <3>2 DEF ReadUpTo, UpTo
  <2>3. CASE waiting # <<>>
    <3>1. w[1] = waiting[1] /\ Head(waiting) = waiting[1]
      BY <1>1, <1>2, <2>3
    <3> QED
      BY <2>1, <2>3, <3>1 DEF ReadUpTo
  <2> QED
    BY <2>2, <2>3
<1>6. Start(F, per, init) \in Nat
  BY StartNext
<1>7. UpTo(F, per, init, phase, 0) = UpTo(F, per, init, "begin", 0) + 1
  BY <1>6 DEF UpTo
<1>8. Lies(F, per, UpTo(F, per, init, "begin", 0) + 1, init, 0)
  BY <1>6 DEF UpTo, Lies
<1> QED
  BY <1>4, <1>5, <1>7, <1>8

\* init has returned and is called again.
LEMMA Again ==
  ASSUME NEW F, NEW per \in Nat, NEW init \in Nat \ {0}
  PROVE  /\ UpTo(F, per, init + 1, "begin", 0)
              = UpTo(F, per, init, "done", IF F[init] THEN per ELSE 0)
         /\ \A waiting :
              /\ ReadUpTo(F, per, init + 1, "begin", waiting, 0)
                   = ReadUpTo(F, per, init, "done", waiting, IF F[init] THEN per ELSE 0)
              /\ (per > 0 /\ Waits(F, init, "done", waiting, IF F[init] THEN per ELSE 0)) =>
                     Waits(F, init + 1, "begin", waiting, 0)
<1>1. /\ Start(F, per, init) \in Nat
      /\ Start(F, per, init + 1) = Start(F, per, init) + 1 + IF F[init] THEN per ELSE 0
  BY StartNext
<1>2. UpTo(F, per, init + 1, "begin", 0) = UpTo(F, per, init, "done", IF F[init] THEN per ELSE 0)
  BY <1>1 DEF UpTo
<1>3. ASSUME NEW waiting
      PROVE  ReadUpTo(F, per, init + 1, "begin", waiting, 0)
               = ReadUpTo(F, per, init, "done", waiting, IF F[init] THEN per ELSE 0)
  BY <1>2 DEF ReadUpTo
<1>4. ASSUME NEW waiting, per > 0, Waits(F, init, "done", waiting, IF F[init] THEN per ELSE 0)
      PROVE  Waits(F, init + 1, "begin", waiting, 0)
  <2>1. /\ waiting \in Seq(Nat \ {0}) /\ Len(waiting) \in Nat
        /\ Len(waiting) <= init
        /\ \A k \in 1..Len(waiting) :
              /\ waiting[k] = init - Len(waiting) + k
              /\ waiting[k] < init => ~ F[waiting[k]]
        /\ F[init] => waiting = <<>>
    BY <1>4 DEF Waits, LastBegun
  <2>2. ASSUME NEW k \in 1..Len(waiting), waiting[k] < init + 1 PROVE ~ F[waiting[k]]
    <3>1. waiting[k] < init \/ waiting[k] = init
      BY <2>1, <2>2
    <3>2. waiting # <<>>
      BY <2>1
    <3> QED
      BY <2>1, <3>1, <3>2
  <2> QED
    BY <2>1, <2>2 DEF Waits, LastBegun
<1> QED
  BY <1>2, <1>3, <1>4

\* The oldest of the receives takes a seed.
LEMMA SeedTaken ==
  ASSUME NEW F, NEW per \in Nat, NEW init, NEW phase, NEW waiting, NEW part,
         Progress(F, per, init, phase, part),
         Waits(F, init, phase, waiting, part), waiting # <<>>
  PROVE  /\ Waits(F, init, phase, Tail(waiting), part)
         /\ ReadUpTo(F, per, init, phase, Tail(waiting), part)
              = ReadUpTo(F, per, init, phase, waiting, part) + 1
         /\ Lies(F, per, ReadUpTo(F, per, init, phase, waiting, part) + 1, Head(waiting), 0)
         /\ Head(waiting) \in Nat \ {0} /\ Head(waiting) <= LastBegun(init, phase)
         /\ Tail(waiting) = <<>> => Head(waiting) = LastBegun(init, phase)
<1> DEFINE last == LastBegun(init, phase)
           l == Len(waiting)
           w == Tail(waiting)
           h == Head(waiting)
<1>1. /\ waiting \in Seq(Nat \ {0}) /\ l \in Nat \ {0} /\ l <= last
      /\ \A k \in 1..l : waiting[k] = last - l + k /\ (waiting[k] < init => ~ F[waiting[k]])
      /\ part = 0
  BY DEF Waits, Progress
<1>2. init \in Nat \ {0} /\ last \in Nat /\ (phase = "begin" => last = init - 1)
      /\ (phase # "begin" => last = init)
  BY DEF Progress, LastBegun
<1>3. /\ w \in Seq(Nat \ {0}) /\ Len(w) = l - 1
      /\ \A k \in 1..l - 1 : w[k] = waiting[k + 1]
      /\ h = waiting[1] /\ h \in Nat \ {0}
      /\ w # <<>> => Head(w) = w[1] /\ l > 1
      /\ w = <<>> => l = 1
  <2>1. waiting \in Seq(Nat \ {0}) /\ l \in Nat \ {0}
    BY <1>1
  <2>2. w \in Seq(Nat \ {0}) /\ Len(w) = l - 1 /\ h = waiting[1] /\ h \in Nat \ {0}
    BY <2>1, HeadTailProperties
  <2>3. \A k \in 1..l - 1 : w[k] = waiting[k + 1]
    BY <2>1
  <2>4. w # <<>> <=> Len(w) # 0
    BY <2>2, EmptySeq
  <2>5. w # <<>> => Head(w) = w[1]
    BY <2>2
  <2> HIDE DEF w, l, h
  <2> QED
    BY <2>1, <2>2, <2>3, <2>4, <2>5
<1>4. h = last - l + 1 /\ (h < init => ~ F[h])
  BY <1>1, <1>3
<1> HIDE DEF last, l, w, h
<1>5. ASSUME NEW k \in 1..l - 1
      PROVE  w[k] = last - (l - 1) + k /\ (w[k] < init => ~ F[w[k]])
  <2>1. w[k] = waiting[k + 1] /\ k + 1 \in 1..l
    BY <1>1, <1>3
  <2>2. waiting[k + 1] = last - l + (k + 1) /\ (waiting[k + 1] < init => ~ F[waiting[k + 1]])
    BY <1>1, <2>1
  <2> QED
    BY <1>1, <1>2, <2>1, <2>2
<1>6. Waits(F, init, phase, w, part)
  BY <1>1, <1>2, <1>3, <1>5 DEF Waits, last
<1>7. ReadUpTo(F, per, init, phase, waiting, part) = Start(F, per, h)
  BY DEF ReadUpTo, h
<1>8. /\ Start(F, per, h) \in Nat
      /\ Start(F, per, h + 1) = Start(F, per, h) + 1 + IF F[h] THEN per ELSE 0
  BY <1>3, StartNext
<1>9. ReadUpTo(F, per, init, phase, w, part) = Start(F, per, h) + 1
  <2>1. CASE w # <<>>
    <3>1. Head(w) = h + 1 /\ h < init
      BY <1>1, <1>2, <1>3, <1>4, <1>5, <2>1
    <3> QED
      BY <1>4, <1>8, <2>1, <3>1 DEF ReadUpTo
  <2>2. CASE w = <<>>
    <3>1. h = last
      BY <1>1, <1>2, <1>3, <1>4, <2>2
    <3>2. ReadUpTo(F, per, init, phase, w, part)
            = Start(F, per, init) + (IF phase = "begin" THEN 0 ELSE 1 + part)
      BY <2>2 DEF ReadUpTo, UpTo
    <3>3. CASE phase = "begin"
      <4>1. init = h + 1 /\ h < init
        BY <1>2, <1>3, <3>1, <3>3
      <4> QED
        BY <1>4, <1>8, <3>2, <3>3, <4>1
    <3>4. CASE phase # "begin"
      BY <1>1, <1>2, <1>8, <3>1, <3>2, <3>4
    <3> QED
      BY <3>3, <3>4
  <2> QED
    BY <2>1, <2>2
<1>10. Lies(F, per, Start(F, per, h) + 1, h, 0)
  BY <1>3, <1>8 DEF Lies
<1>11. h <= last /\ (w = <<>> => h = last)
  BY <1>1, <1>2, <1>3, <1>4
<1> QED
  BY <1>3, <1>6, <1>7, <1>9, <1>10, <1>11 DEF w, h, last

\* Within an init.
LEMMA GoesUp ==
  ASSUME NEW F, NEW per \in Nat, NEW init \in Nat \ {0},
         NEW phase, phase # "begin", NEW part \in Nat,
         NEW phase2, phase2 # "begin", NEW part2 \in Nat
  PROVE  /\ UpTo(F, per, init, phase2, part2) = UpTo(F, per, init, phase, part) + part2 - part
         /\ UpTo(F, per, init, phase, part) \in Nat
<1>1. Start(F, per, init) \in Nat
  BY StartNext
<1> QED
  BY <1>1 DEF UpTo

LEMMA GoesRead ==
  ASSUME NEW F, NEW per \in Nat, NEW init \in Nat \ {0}, NEW waiting,
         NEW phase, phase # "begin", NEW part \in Nat,
         NEW phase2, phase2 # "begin", NEW part2 \in Nat,
         part2 # part => waiting = <<>>,
         ReadUpTo(F, per, init, phase, waiting, part) \in Nat
  PROVE  ReadUpTo(F, per, init, phase2, waiting, part2)
           = ReadUpTo(F, per, init, phase, waiting, part) + part2 - part
<1>1. CASE waiting = <<>>
  <2>1. /\ ReadUpTo(F, per, init, phase2, waiting, part2) = UpTo(F, per, init, phase2, part2)
        /\ ReadUpTo(F, per, init, phase, waiting, part) = UpTo(F, per, init, phase, part)
    BY <1>1 DEF ReadUpTo
  <2> QED
    BY <2>1, GoesUp
<1>2. CASE waiting # <<>>
  <2>1. ReadUpTo(F, per, init, phase2, waiting, part2) = ReadUpTo(F, per, init, phase, waiting, part)
    BY <1>2 DEF ReadUpTo
  <2> QED
    BY <1>2, <2>1
<1> QED
  BY <1>1, <1>2

LEMMA GoesWaits ==
  ASSUME NEW F, NEW init, NEW waiting, NEW phase, phase # "begin", NEW part,
         NEW phase2, phase2 # "begin", NEW part2 \in Nat,
         Waits(F, init, phase, waiting, part), part2 > 0 => waiting = <<>>
  PROVE  Waits(F, init, phase2, waiting, part2)
BY DEF Waits, LastBegun

LEMMA GoesLies ==
  ASSUME NEW F, NEW per \in Nat, NEW init \in Nat \ {0}, F[init],
         NEW phase, phase # "begin", NEW part \in Nat, NEW j \in 1..per, NEW i \in Nat,
         j = part + i,
         NEW p, p = UpTo(F, per, init, phase, part) + i
  PROVE  Lies(F, per, p, init, j)
<1>1. Start(F, per, init) \in Nat
  BY StartNext
<1> QED
  BY <1>1 DEF UpTo, Lies

-----------------------------------------------------------------------------
(* Whose state a party holds.                                              *)

LEMMA HoldsOne ==
  ASSUME NEW F, NEW init \in Nat, NEW phase, NEW m, NEW n,
         Holds(F, init, phase, m), Holds(F, init, phase, n)
  PROVE  m = n
<1>1. m \in 1..init /\ n \in 1..init
  BY DEF Holds
<1>2. ~ (m < n) /\ ~ (n < m)
  BY <1>1 DEF Holds
<1> QED
  BY <1>1, <1>2

LEMMA HoldsOn ==
  ASSUME NEW F, NEW init \in Nat \ {0}, NEW n
  PROVE  /\ Holds(F, init + 1, "begin", n) <=> Holds(F, init, "done", n)
         /\ ~ F[init] => \A phase, phase2 : Holds(F, init, phase2, n) <=> Holds(F, init, phase, n)
         /\ \A phase, phase2 : phase \in {"begin", "base"} /\ phase2 \in {"begin", "base"} =>
              (Holds(F, init, phase2, n) <=> Holds(F, init, phase, n))
         /\ \A phase, phase2 : phase \notin {"begin", "base"} /\ phase2 \notin {"begin", "base"} =>
              (Holds(F, init, phase2, n) <=> Holds(F, init, phase, n))
         /\ \A phase : F[init] /\ phase \notin {"begin", "base"} =>
              (Holds(F, init, phase, n) <=> n = init)
<1>1. Holds(F, init + 1, "begin", n) <=> Holds(F, init, "done", n)
  <2>1. ASSUME Holds(F, init + 1, "begin", n) PROVE Holds(F, init, "done", n)
    BY <2>1 DEF Holds
  <2>2. ASSUME Holds(F, init, "done", n) PROVE Holds(F, init + 1, "begin", n)
    <3>1. /\ n \in 1..init /\ F[n] /\ n \in 1..init + 1 /\ n # init + 1
          /\ \A k \in n + 1..init : ~ F[k]
      BY <2>2 DEF Holds
    <3>2. \A k \in n + 1..init + 1 : k = init + 1 \/ k \in n + 1..init
      BY <3>1
    <3> QED
      BY <3>1, <3>2 DEF Holds
  <2> QED
    BY <2>1, <2>2
<1>2. ASSUME ~ F[init], NEW phase, NEW phase2, Holds(F, init, phase, n)
      PROVE  Holds(F, init, phase2, n)
  BY <1>2 DEF Holds
<1>3. ASSUME NEW phase, NEW phase2,
             \/ phase \in {"begin", "base"} /\ phase2 \in {"begin", "base"}
             \/ phase \notin {"begin", "base"} /\ phase2 \notin {"begin", "base"},
             Holds(F, init, phase, n)
      PROVE  Holds(F, init, phase2, n)
  BY <1>3 DEF Holds
<1>4. ASSUME NEW phase, F[init], phase \notin {"begin", "base"}
      PROVE  Holds(F, init, phase, n) <=> n = init
  BY <1>4 DEF Holds
<1> QED
  BY <1>1, <1>2, <1>3, <1>4

LEMMA HoldsLast ==
  ASSUME NEW F, NEW init \in Nat \ {0}, NEW phase, NEW n, Holds(F, init, phase, n),
         NEW k \in Nat \ {0}, F[k],
         k < init \/ (k = init /\ phase \notin {"begin", "base"})
  PROVE  k <= n
BY DEF Holds

LEMMA HoldsSome ==
  ASSUME NEW F, F[1], NEW init \in Nat \ {0}, NEW phase,
         init > 1 \/ phase \notin {"begin", "base"}
  PROVE  \E n : Holds(F, init, phase, n)
<1> DEFINE Is(n) == n \in 1..init /\ F[n] /\ (n = init => phase \notin {"begin", "base"})
           D == {d \in Nat : d <= init /\ Is(init - d)}
<1>1. Is(1)
  OBVIOUS
<1>2. init - 1 \in D
  <2>1. init - (init - 1) = 1 /\ init - 1 \in Nat
    OBVIOUS
  <2> QED
    BY <1>1, <2>1
<1>3. PICK d \in D : \A e \in D : d <= e
  <2> HIDE DEF D
  <2>1. D \subseteq Nat
    BY DEF D
  <2> QED
    BY <1>2, <2>1, LeastMember
<1>4. PICK n : n = init - d
  OBVIOUS
<1>5. Is(n) /\ n \in 1..init /\ d = init - n
  BY <1>3, <1>4
<1>6. ASSUME NEW k \in n + 1..init, F[k], ~ (k = init /\ phase \in {"begin", "base"}) PROVE FALSE
  <2>1. Is(k) /\ init - (init - k) = k /\ init - k \in Nat
    BY <1>5, <1>6
  <2>2. init - k \in D
    BY <2>1
  <2>3. d <= init - k
    BY <1>3, <2>2
  <2> HIDE DEF Is, D
  <2> QED
    BY <1>5, <1>6, <2>3
<1> QED
  BY <1>5, <1>6 DEF Holds

-----------------------------------------------------------------------------
(* The queues, when messages are taken and given.                          *)

\* A step leaves every message under way in its place what it was.
KeptR == \A i, n, j, m :
    i \in 1..Len(toR) /\ m = toR[i] /\ Lies(fresh, ToRPer, RRead + i, n, j) /\ FitsR(m, n, j)
        => FitsR(m, n, j)'
KeptS == \A i, n, j, m :
    i \in 1..Len(toS) /\ m = toS[i] /\ Lies(fresh, ToSPer, SRead + i, n, j) /\ FitsS(m, n, j)
        => FitsS(m, n, j)'

LEMMA KeptRSame ==
  ASSUME UNCHANGED <<fresh, secrets, sMessages, receiverInputs>>
  PROVE  KeptR
<1>1. \A m, n, j : FitsR(m, n, j) => FitsR(m, n, j)'
  BY DEF FitsR, FitsSeed, SenderC, Posted
<1> QED
  BY <1>1 DEF KeptR

LEMMA KeptSSame ==
  ASSUME UNCHANGED <<fresh, sendBuff, sMessages, receiverInputs>>
  PROVE  KeptS
<1>1. \A m, n, j : FitsS(m, n, j) => FitsS(m, n, j)'
  BY DEF FitsS, FitsSeed, Passes, Posted
<1> QED
  BY <1>1 DEF KeptS

LEMMA ToRStays ==
  ASSUME ToRInv, UNCHANGED <<toR, fresh>>, RRead' = RRead, SWritten' = SWritten, KeptR
  PROVE  ToRInv'
<1>1. SWritten' = RRead' + Len(toR')
  BY DEF ToRInv
<1>2. ASSUME NEW i \in 1..Len(toR')
      PROVE  \E n, j : Lies(fresh', ToRPer, RRead' + i, n, j) /\ FitsR(toR[i], n, j)'
  <2>1. PICK m : m = toR[i]
    OBVIOUS
  <2>2. PICK n, j : Lies(fresh, ToRPer, RRead + i, n, j) /\ FitsR(m, n, j)
    BY <2>1 DEF ToRInv
  <2>3. FitsR(m, n, j)'
    BY <2>1, <2>2 DEF KeptR
  <2>4. FitsR(toR[i], n, j)'
    BY <2>1, <2>3
  <2> QED
    BY <2>2, <2>4
<1> QED
  BY <1>1, <1>2 DEF ToRInv

LEMMA ToSStays ==
  ASSUME ToSInv, UNCHANGED <<toS, fresh>>, SRead' = SRead, RWritten' = RWritten, KeptS
  PROVE  ToSInv'
<1>1. RWritten' = SRead' + Len(toS')
  BY DEF ToSInv
<1>2. ASSUME NEW i \in 1..Len(toS')
      PROVE  \E n, j : Lies(fresh', ToSPer, SRead' + i, n, j) /\ FitsS(toS[i], n, j)'
  <2>1. PICK m : m = toS[i]
    OBVIOUS
  <2>2. PICK n, j : Lies(fresh, ToSPer, SRead + i, n, j) /\ FitsS(m, n, j)
    BY <2>1 DEF ToSInv
  <2>3. FitsS(m, n, j)'
    BY <2>1, <2>2 DEF KeptS
  <2>4. FitsS(toS[i], n, j)'
    BY <2>1, <2>3
  <2> QED
    BY <2>2, <2>4
<1> QED
  BY <1>1, <1>2 DEF ToSInv

LEMMA ToRTakes ==
  ASSUME BaseInv, ToRInv, RRead \in Nat, toR # <<>>, toR' = Tail(toR), fresh' = fresh,
         RRead' = RRead + 1, SWritten' = SWritten, KeptR
  PROVE  ToRInv'
<1>1. PICK S : toR \in Seq(S)
  BY DEF BaseInv, UnderWay
<1>2. /\ Len(toR) \in Nat \ {0} /\ Len(toR') = Len(toR) - 1
      /\ \A i \in 1..Len(toR) - 1 : toR'[i] = toR[i + 1]
  BY <1>1
<1>3. SWritten' = RRead' + Len(toR')
  BY <1>2 DEF ToRInv
<1>4. ASSUME NEW i \in 1..Len(toR')
      PROVE  \E n, j : Lies(fresh', ToRPer, RRead' + i, n, j) /\ FitsR(toR[i], n, j)'
  <2>1. PICK k : k = i + 1
    OBVIOUS
  <2>2. k \in 1..Len(toR) /\ RRead + k = RRead' + i
    BY <1>2, <2>1
  <2>3. PICK m : m = toR[k]
    OBVIOUS
  <2>4. PICK n, j : Lies(fresh, ToRPer, RRead + k, n, j) /\ FitsR(m, n, j)
    BY <2>2, <2>3 DEF ToRInv
  <2>5. FitsR(m, n, j)'
    BY <2>2, <2>3, <2>4 DEF KeptR
  <2>6. toR'[i] = m
    BY <1>2, <2>1, <2>3
  <2>7. FitsR(toR[i], n, j)'
    BY <2>5, <2>6
  <2> QED
    BY <2>2, <2>4, <2>7
<1> QED
  BY <1>3, <1>4 DEF ToRInv

LEMMA ToRGives ==
  ASSUME BaseInv, ToRInv, RRead \in Nat, fresh' = fresh, RRead' = RRead, KeptR,
         NEW l \in Nat, NEW f,
         DOMAIN f = 1..l, f = [k \in 1..l |-> f[k]], toR' = toR \o f, SWritten' = SWritten + l,
         \A k \in 1..l : \E n, j : Lies(fresh, ToRPer, SWritten + k, n, j) /\ FitsR(f[k], n, j)'
  PROVE  ToRInv'
<1>1. PICK S : toR \in Seq(S)
  BY DEF BaseInv, UnderWay
<1>2. PICK T : T = {f[k] : k \in 1..l}
  OBVIOUS
<1>3. f \in Seq(T) /\ Len(f) = l
  <2>1. \A k \in 1..l : f[k] \in T
    BY <1>2
  <2> QED
    BY <2>1
<1>4. toR \in Seq(S \cup T) /\ f \in Seq(S \cup T)
  BY <1>1, <1>3, SeqGrows
<1>5. /\ Len(toR) \in Nat /\ Len(toR') = Len(toR) + l
      /\ \A i \in 1..Len(toR) + l :
            toR'[i] = IF i <= Len(toR) THEN toR[i] ELSE f[i - Len(toR)]
  BY <1>3, <1>4, ConcatProperties
<1>6. SWritten' = RRead' + Len(toR') /\ SWritten = RRead + Len(toR)
  BY <1>5 DEF ToRInv
<1>7. ASSUME NEW i \in 1..Len(toR')
      PROVE  \E n, j : Lies(fresh', ToRPer, RRead' + i, n, j) /\ FitsR(toR[i], n, j)'
  <2>1. CASE i <= Len(toR)
    <3>1. PICK m : m = toR[i]
      OBVIOUS
    <3>2. i \in 1..Len(toR) /\ toR'[i] = m
      BY <1>5, <2>1, <3>1
    <3>3. PICK n, j : Lies(fresh, ToRPer, RRead + i, n, j) /\ FitsR(m, n, j)
      BY <3>1, <3>2 DEF ToRInv
    <3>4. FitsR(m, n, j)'
      BY <3>1, <3>2, <3>3 DEF KeptR
    <3>5. FitsR(toR[i], n, j)'
      BY <3>2, <3>4
    <3> QED
      BY <3>3, <3>5
  <2>2. CASE ~ (i <= Len(toR))
    <3>1. PICK k : k = i - Len(toR)
      OBVIOUS
    <3>2. k \in 1..l /\ SWritten + k = RRead' + i /\ toR'[i] = f[k]
      BY <1>5, <1>6, <2>2, <3>1
    <3>3. PICK n, j : Lies(fresh, ToRPer, SWritten + k, n, j) /\ FitsR(f[k], n, j)'
      BY <3>2
    <3>4. FitsR(toR[i], n, j)'
      BY <3>2, <3>3
    <3> QED
      BY <3>2, <3>3, <3>4
  <2> QED
    BY <2>1, <2>2
<1> QED
  BY <1>6, <1>7 DEF ToRInv

LEMMA ToRGivesOne ==
  ASSUME BaseInv, ToRInv, RRead \in Nat, fresh' = fresh, RRead' = RRead, KeptR,
         NEW m, toR' = Append(toR, m), SWritten' = SWritten + 1,
         NEW n, NEW j, Lies(fresh, ToRPer, SWritten + 1, n, j), FitsR(m, n, j)'
  PROVE  ToRInv'
<1>1. PICK S : toR \in Seq(S)
  BY DEF BaseInv, UnderWay
<1>2. PICK f : f = <<m>>
  OBVIOUS
<1>3. DOMAIN f = 1..1 /\ f = [k \in 1..1 |-> f[k]] /\ f[1] = m
  BY <1>2
<1>4. toR' = toR \o f
  <2>1. toR \in Seq(S \cup {m}) /\ m \in S \cup {m}
    BY <1>1, SeqGrows
  <2> QED
    BY <1>2, <2>1, AppendIsConcat
<1>5. \A k \in 1..1 : \E a, b : Lies(fresh, ToRPer, SWritten + k, a, b) /\ FitsR(f[k], a, b)'
  <2>1. FitsR(f[1], n, j)'
    BY <1>3
  <2> QED
    BY <2>1
<1> QED
  BY <1>3, <1>4, <1>5, ToRGives

LEMMA ToSTakes ==
  ASSUME BaseInv, ToSInv, SRead \in Nat, toS # <<>>, toS' = Tail(toS), fresh' = fresh,
         SRead' = SRead + 1, RWritten' = RWritten, KeptS
  PROVE  ToSInv'
<1>1. PICK S : toS \in Seq(S)
  BY DEF BaseInv, UnderWay
<1>2. /\ Len(toS) \in Nat \ {0} /\ Len(toS') = Len(toS) - 1
      /\ \A i \in 1..Len(toS) - 1 : toS'[i] = toS[i + 1]
  BY <1>1
<1>3. RWritten' = SRead' + Len(toS')
  BY <1>2 DEF ToSInv
<1>4. ASSUME NEW i \in 1..Len(toS')
      PROVE  \E n, j : Lies(fresh', ToSPer, SRead' + i, n, j) /\ FitsS(toS[i], n, j)'
  <2>1. PICK k : k = i + 1
    OBVIOUS
  <2>2. k \in 1..Len(toS) /\ SRead + k = SRead' + i
    BY <1>2, <2>1
  <2>3. PICK m : m = toS[k]
    OBVIOUS
  <2>4. PICK n, j : Lies(fresh, ToSPer, SRead + k, n, j) /\ FitsS(m, n, j)
    BY <2>2, <2>3 DEF ToSInv
  <2>5. FitsS(m, n, j)'
    BY <2>2, <2>3, <2>4 DEF KeptS
  <2>6. toS'[i] = m
    BY <1>2, <2>1, <2>3
  <2>7. FitsS(toS[i], n, j)'
    BY <2>5, <2>6
  <2> QED
    BY <2>2, <2>4, <2>7
<1> QED
  BY <1>3, <1>4 DEF ToSInv

LEMMA ToSGives ==
  ASSUME BaseInv, ToSInv, SRead \in Nat, fresh' = fresh, SRead' = SRead, KeptS,
         NEW l \in Nat, NEW f,
         DOMAIN f = 1..l, f = [k \in 1..l |-> f[k]], toS' = toS \o f, RWritten' = RWritten + l,
         \A k \in 1..l : \E n, j : Lies(fresh, ToSPer, RWritten + k, n, j) /\ FitsS(f[k], n, j)'
  PROVE  ToSInv'
<1>1. PICK S : toS \in Seq(S)
  BY DEF BaseInv, UnderWay
<1>2. PICK T : T = {f[k] : k \in 1..l}
  OBVIOUS
<1>3. f \in Seq(T) /\ Len(f) = l
  <2>1. \A k \in 1..l : f[k] \in T
    BY <1>2
  <2> QED
    BY <2>1
<1>4. toS \in Seq(S \cup T) /\ f \in Seq(S \cup T)
  BY <1>1, <1>3, SeqGrows
<1>5. /\ Len(toS) \in Nat /\ Len(toS') = Len(toS) + l
      /\ \A i \in 1..Len(toS) + l :
            toS'[i] = IF i <= Len(toS) THEN toS[i] ELSE f[i - Len(toS)]
  BY <1>3, <1>4, ConcatProperties
<1>6. RWritten' = SRead' + Len(toS') /\ RWritten = SRead + Len(toS)
  BY <1>5 DEF ToSInv
<1>7. ASSUME NEW i \in 1..Len(toS')
      PROVE  \E n, j : Lies(fresh', ToSPer, SRead' + i, n, j) /\ FitsS(toS[i], n, j)'
  <2>1. CASE i <= Len(toS)
    <3>1. PICK m : m = toS[i]
      OBVIOUS
    <3>2. i \in 1..Len(toS) /\ toS'[i] = m
      BY <1>5, <2>1, <3>1
    <3>3. PICK n, j : Lies(fresh, ToSPer, SRead + i, n, j) /\ FitsS(m, n, j)
      BY <3>1, <3>2 DEF ToSInv
    <3>4. FitsS(m, n, j)'
      BY <3>1, <3>2, <3>3 DEF KeptS
    <3>5. FitsS(toS[i], n, j)'
      BY <3>2, <3>4
    <3> QED
      BY <3>3, <3>5
  <2>2. CASE ~ (i <= Len(toS))
    <3>1. PICK k : k = i - Len(toS)
      OBVIOUS
    <3>2. k \in 1..l /\ RWritten + k = SRead' + i /\ toS'[i] = f[k]
      BY <1>5, <1>6, <2>2, <3>1
    <3>3. PICK n, j : Lies(fresh, ToSPer, RWritten + k, n, j) /\ FitsS(f[k], n, j)'
      BY <3>2
    <3>4. FitsS(toS[i], n, j)'
      BY <3>2, <3>3
    <3> QED
      BY <3>2, <3>3, <3>4
  <2> QED
    BY <2>1, <2>2
<1> QED
  BY <1>6, <1>7 DEF ToSInv

LEMMA ToSGivesOne ==
  ASSUME BaseInv, ToSInv, SRead \in Nat, fresh' = fresh, SRead' = SRead, KeptS,
         NEW m, toS' = Append(toS, m), RWritten' = RWritten + 1,
         NEW n, NEW j, Lies(fresh, ToSPer, RWritten + 1, n, j), FitsS(m, n, j)'
  PROVE  ToSInv'
<1>1. PICK S : toS \in Seq(S)
  BY DEF BaseInv, UnderWay
<1>2. PICK f : f = <<m>>
  OBVIOUS
<1>3. DOMAIN f = 1..1 /\ f = [k \in 1..1 |-> f[k]] /\ f[1] = m
  BY <1>2
<1>4. toS' = toS \o f
  <2>1. toS \in Seq(S \cup {m}) /\ m \in S \cup {m}
    BY <1>1, SeqGrows
  <2> QED
    BY <1>2, <2>1, AppendIsConcat
<1>5. \A k \in 1..1 : \E a, b : Lies(fresh, ToSPer, RWritten + k, a, b) /\ FitsS(f[k], a, b)'
  <2>1. FitsS(f[1], n, j)'
    BY <1>3
  <2> QED
    BY <2>1
<1> QED
  BY <1>3, <1>4, <1>5, ToSGives

-----------------------------------------------------------------------------
(* What follows for the base transfers.                                    *)

LEMMA InitInvAligned ==
  ASSUME InitInv
  PROVE  /\ Aligned /\ BaseInv /\ RInv /\ SInv /\ Between
         /\ RControl /\ RThreads /\ RProduct /\ RSeeds
         /\ SControl /\ SThreads /\ SKeys /\ SProduct /\ SSeeds
         /\ ToRInv /\ ToSInv /\ Links /\ RPairs
         /\ rInit \in Nat \ {0} /\ sInit \in Nat \ {0}
         /\ RRead \in Nat /\ SRead \in Nat
<1>1. /\ Aligned /\ BaseInv /\ RInv /\ SInv /\ Between
      /\ RControl /\ RThreads /\ RProduct /\ RSeeds
      /\ SControl /\ SThreads /\ SKeys /\ SProduct /\ SSeeds
      /\ ToRInv /\ ToSInv /\ Links /\ RPairs
  BY DEF InitInv, PartyInv, RInv, SInv, Between, Aligned
<1>2. /\ rInit \in Nat \ {0} /\ Progress(fresh, ToRPer, rInit, rPhase, RGot)
      /\ Waits(fresh, rInit, rPhase, rWaiting, RGot)
  BY <1>1, RProgress
<1>3. /\ sInit \in Nat \ {0} /\ Progress(fresh, ToSPer, sInit, sPhase, SGot)
      /\ Waits(fresh, sInit, sPhase, sWaiting, SGot)
  BY <1>1, SProgress
<1>4. RRead \in Nat
  BY <1>2, Pers, ReadUpToType DEF RRead
<1>5. SRead \in Nat
  BY <1>3, Pers, ReadUpToType DEF SRead
<1> QED
  BY <1>1, <1>2, <1>3, <1>4, <1>5

\* When both have done with their base transfers, these are the same.
LEMMA DoneSame ==
  ASSUME InitInv, rMain = "done", sMain = "done"
  PROVE  Same
<1>1. /\ Aligned /\ BaseInv /\ RControl /\ SControl
      /\ rInit \in Nat \ {0} /\ sInit \in Nat \ {0}
  BY InitInvAligned
<1>2. PICK n : Holds(fresh, rInit, rPhase, n)
  <2>1. rInit > 1 \/ rPhase \notin {"begin", "base"}
    BY <1>1 DEF RControl
  <2> QED
    BY <1>1, <2>1, HoldsSome DEF RControl
<1>3. PICK m : Holds(fresh, sInit, sPhase, m)
  <2>1. sInit > 1 \/ sPhase \notin {"begin", "base"}
    BY <1>1 DEF SControl
  <2> QED
    BY <1>1, <2>1, HoldsSome DEF SControl
<1>4. /\ n \in Nat \ {0} /\ fresh[n] /\ m \in Nat \ {0} /\ fresh[m]
      /\ n < rInit \/ (n = rInit /\ rPhase \notin {"begin", "base"})
      /\ m < sInit \/ (m = sInit /\ sPhase \notin {"begin", "base"})
  BY <1>1, <1>2, <1>3 DEF Holds
<1>5. cBuff # Unset /\ buff # Unset
  BY <1>1 DEF RControl, SControl
<1>6. /\ rPhase \in {"begin", "base", "baseOts", "iknp", "check", "extend", "done"}
      /\ sPhase \in {"begin", "base", "baseOts", "iknp", "check", "set", "extend", "done"}
  BY <1>1 DEF RControl, SControl
<1>7. n < sInit \/ (n = sInit /\ sPhase \notin {"begin", "base"})
  BY <1>1, <1>4, <1>5, <1>6, RGotC
<1>8. n <= m
  BY <1>1, <1>3, <1>4, <1>7, HoldsLast
<1>9. m < rInit \/ (m = rInit /\ rPhase \notin {"begin", "base"})
  BY <1>1, <1>4, <1>5, <1>6, SGotPK0s
<1>10. m <= n
  BY <1>1, <1>2, <1>4, <1>9, HoldsLast
<1>11. m = n
  BY <1>4, <1>8, <1>10
<1> QED
  BY <1>2, <1>3, <1>11 DEF Same

\* The group does its part: what the receiver has computed is the message of
\* the pair that it chose.
LEMMA Transferred ==
  ASSUME NEW alpha \in Exp, NEW tmp \in Exp, NEW k \in Exp, NEW chosen \in BOOLEAN
  PROVE  LET g == Pow(Gen, k)
             pk0 == IF chosen THEN Div(Pow(Gen, tmp), g) ELSE g
             a == Pow(pk0, alpha)
             pC == Pow(Pow(Gen, tmp), alpha)
         IN  Pow(Pow(Gen, alpha), k) = IF chosen THEN Div(pC, a) ELSE a
<1> DEFINE g == Pow(Gen, k)
           c == Pow(Gen, tmp)
<1>1. g \in Elem /\ c \in Elem
  BY GroupAssumption
<1>2. Pow(g, alpha) \in Elem /\ Pow(c, alpha) \in Elem
  BY <1>1, GroupAssumption
<1>3. Pow(Pow(Gen, alpha), k) = Pow(g, alpha)
  BY GroupAssumption
<1>4. Pow(Div(c, g), alpha) = Div(Pow(c, alpha), Pow(g, alpha))
  BY <1>1, GroupAssumption
<1>5. Div(Pow(c, alpha), Div(Pow(c, alpha), Pow(g, alpha))) = Pow(g, alpha)
  BY <1>2, GroupAssumption
<1> HIDE DEF g, c
<1>6. CASE chosen
  BY <1>3, <1>4, <1>5, <1>6 DEF g, c
<1>7. CASE ~ chosen
  BY <1>3, <1>7 DEF g
<1> QED
  BY <1>6, <1>7

LEMMA BaseAgree ==
  ASSUME InitInv, rMain = "done", sMain = "done", NEW i \in Ot
  PROVE  rMessages[i] = sMessages[i][IF i \in choices THEN 2 ELSE 1]
<1>1. /\ Aligned /\ BaseInv /\ RControl /\ SControl /\ Links /\ RThreads /\ SThreads /\ Same
  BY InitInvAligned, DoneSame
<1>2. cBuff = SenderC /\ buff = sendBuff
  <2>1. cBuff # Unset /\ buff # Unset
    BY <1>1 DEF RControl, SControl
  <2> QED
    BY <1>1, <2>1 DEF Links
<1>3. PICK t \in Thread : i \in Part(t)
  BY PartsCover
<1>4. rAt[t] = "hash" /\ rIdx[t] = End(t) /\ RWrote(t)
  BY <1>1 DEF RThreads, RHashed
<1>5. First(t) \in Nat /\ i \in First(t)..End(t) - 1 /\ i < End(t) /\ i - First(t) \in Ot
  BY <1>3, PartBounds, CountAssumption DEF Part, Ot
<1>6. sendBuff[i] = PK0(t, i) /\ rMessages[i] = Sha(i, Pow(cBuff[1], PK(t, i)))
  BY <1>3, <1>4, <1>5 DEF RWrote, HasWritten
<1>7. PK(t, i) \in Exp
  BY <1>1, <1>5 DEF PK, BaseInv, Latch
<1>8. secrets.alpha \in Exp /\ secrets.tmp \in Exp
  <2>1. secrets \in [alpha : Exp, tmp : Exp]
    BY <1>1, RandomAssumption DEF SThreads
  <2> QED
    BY <2>1
<1>9. sMessages[i] = Pair(i)
  <2>1. i \in 0..sIdx[t] - 1
    BY <1>1 DEF SThreads, Ot
  <2> QED
    BY <1>1, <2>1 DEF SThreads
<1>10. PICK k, a, b : k = PK(t, i) /\ a = secrets.alpha /\ b = secrets.tmp
  OBVIOUS
<1>11. buff[i] = IF i \in choices THEN Div(Pow(Gen, b), Pow(Gen, k)) ELSE Pow(Gen, k)
  BY <1>2, <1>6, <1>10 DEF PK0, SenderC
<1>12. rMessages[i] = Sha(i, Pow(Pow(Gen, a), k))
  BY <1>2, <1>6, <1>10 DEF SenderC
<1>13. sMessages[i] = <<Sha(i, Pow(buff[i], a)), Sha(i, Div(Pow(Pow(Gen, b), a), Pow(buff[i], a)))>>
  BY <1>9, <1>10 DEF Pair
<1>14. CASE i \in choices
  <2>1. Pow(Pow(Gen, a), k) = Div(Pow(Pow(Gen, b), a), Pow(Div(Pow(Gen, b), Pow(Gen, k)), a))
    BY <1>7, <1>8, <1>10, Transferred
  <2> QED
    BY <1>11, <1>12, <1>13, <1>14, <2>1
<1>15. CASE i \notin choices
  <2>1. Pow(Pow(Gen, a), k) = Pow(Pow(Gen, k), a)
    BY <1>7, <1>8, <1>10, Transferred
  <2> QED
    BY <1>11, <1>12, <1>13, <1>15, <2>1
<1> QED
  BY <1>14, <1>15

-----------------------------------------------------------------------------
(* What a step leaves alone.                                               *)

LEMMA RPlaceFrame ==
  ASSUME UNCHANGED <<rInit, rPhase, rStep, rMain, rWaiting, cBuff, fresh>>
  PROVE  RGot' = RGot /\ RPut' = RPut /\ RRead' = RRead /\ RWritten' = RWritten
<1>1. RGot' = RGot /\ RPut' = RPut
  BY DEF RGot, RPut, ToRPer, ToSPer
<1> QED
  BY <1>1 DEF RRead, RWritten, ToRPer, ToSPer

LEMMA SPlaceFrame ==
  ASSUME UNCHANGED <<sInit, sPhase, sStep, sMain, sWaiting, buff, fresh>>
  PROVE  SGot' = SGot /\ SPut' = SPut /\ SRead' = SRead /\ SWritten' = SWritten
<1>1. SGot' = SGot /\ SPut' = SPut
  BY DEF SGot, SPut, ToRPer, ToSPer
<1> QED
  BY <1>1 DEF SRead, SWritten, ToRPer, ToSPer

LEMMA RControlFrame ==
  ASSUME RControl, UNCHANGED <<rInit, rPhase, rStep, rMain, rWaiting, cBuff, rOt, fresh>>
  PROVE  RControl'
BY RPlaceFrame DEF RControl

LEMMA SControlFrame ==
  ASSUME SControl, UNCHANGED <<sInit, sPhase, sStep, sMain, sWaiting, buff, sOt, fresh>>
  PROVE  SControl'
BY SPlaceFrame DEF SControl

LEMMA RThreadsFrame ==
  ASSUME RThreads, UNCHANGED <<rMain, choices, rnd, cBuff, sendBuff, rAt, rIdx, rMessages>>
  PROVE  RThreads'
BY DEF RThreads, RWrote, HasWritten, PK0, PK, RHashed

LEMMA SThreadsFrame ==
  ASSUME SThreads, UNCHANGED <<sMain, secrets, receiverInputs, buff, sIdx, sMessages>>
  PROVE  SThreads'
BY DEF SThreads, Pair

LEMMA RProductFrame ==
  ASSUME RProduct, UNCHANGED <<rInit, rPhase, rOt, rMsgs, fresh>>
  PROVE  RProduct'
BY DEF RProduct

LEMMA SProductFrame ==
  ASSUME SProduct, UNCHANGED <<sInit, sPhase, sOt, sMsgs, fresh>>
  PROVE  SProduct'
BY DEF SProduct

LEMMA RSeedsFrame ==
  ASSUME RSeeds, UNCHANGED <<rInit, rPhase, rWaiting, rTheirs, fresh>>,
         mHashingSeed'["R"] = mHashingSeed["R"]
  PROVE  RSeeds'
BY DEF RSeeds

LEMMA SSeedsFrame ==
  ASSUME SSeeds, UNCHANGED <<sInit, sPhase, sWaiting, sTheirs, fresh>>,
         mHashingSeed'["S"] = mHashingSeed["S"]
  PROVE  SSeeds'
BY DEF SSeeds

LEMMA SKeysFrame ==
  ASSUME SKeys,
         UNCHANGED <<sInit, sPhase, sStep, fresh, receiverOutputs, receiverInputs,
                     sMessages, sOt, mSSOtChoice>>
  PROVE  SKeys'
BY DEF SKeys

LEMMA RPairsFrame ==
  ASSUME RPairs, Same' => Same,
         UNCHANGED <<rPhase, rStep, senderInputs, rOt, receiverInputs, sMessages>>
  PROVE  RPairs'
BY DEF RPairs, Served

LEMMA LinksFrame ==
  ASSUME Links, Same' => Same, UNCHANGED <<cBuff, secrets, buff, sendBuff>>
  PROVE  Links'
BY DEF Links, SenderC

LEMMA SameFrame ==
  ASSUME UNCHANGED <<fresh, rInit, rPhase, sInit, sPhase>>
  PROVE  Same' <=> Same
BY DEF Same

\* A whole party.
LEMMA RFrame ==
  ASSUME RInv, UNCHANGED <<rBaseVars, rInitVars, fresh>>,
         mHashingSeed'["R"] = mHashingSeed["R"]
  PROVE  /\ RInv' /\ RGot' = RGot /\ RPut' = RPut /\ RRead' = RRead /\ RWritten' = RWritten
<1>1. UNCHANGED <<rMain, choices, rnd, cBuff, sendBuff, rAt, rIdx, rMessages, rInit,
                  rPhase, rStep, rTheirs, rWaiting, rOt, rMsgs, fresh>>
  BY DEF rBaseVars, rInitVars
<1>2. RControl' /\ RThreads' /\ RProduct' /\ RSeeds'
  BY <1>1, RControlFrame, RThreadsFrame, RProductFrame, RSeedsFrame DEF RInv
<1> QED
  BY <1>1, <1>2, RPlaceFrame DEF RInv

LEMMA SFrame ==
  ASSUME SInv, UNCHANGED <<sBaseVars, sInitVars, fresh>>,
         mHashingSeed'["S"] = mHashingSeed["S"]
  PROVE  /\ SInv' /\ SGot' = SGot /\ SPut' = SPut /\ SRead' = SRead /\ SWritten' = SWritten
<1>1. UNCHANGED <<sMain, secrets, buff, sIdx, sMessages, sInit, sPhase, sStep, sTheirs,
                  sWaiting, receiverInputs, receiverOutputs, sOt, mSSOtChoice, sMsgs, fresh>>
  BY DEF sBaseVars, sInitVars
<1>2. SControl' /\ SThreads' /\ SKeys' /\ SProduct' /\ SSeeds'
  BY <1>1, SControlFrame, SThreadsFrame, SKeysFrame, SProductFrame, SSeedsFrame DEF SInv
<1> QED
  BY <1>1, <1>2, SPlaceFrame DEF SInv

-----------------------------------------------------------------------------
(* The threads of the receiver of the base transfers.                      *)

LEMMA PartsDisjoint ==
  ASSUME NEW s \in Thread, NEW t \in Thread, s # t, NEW i \in Part(s)
  PROVE  i \notin Part(t)
<1>1. ASSUME NEW a \in Thread, NEW b \in Thread, a + 1 <= b PROVE End(a) <= First(b)
  <2> DEFINE n == NumOt
             m == NumThread
             e == End(a)
             f == First(b)
  <2>1. n \in Nat \ {0} /\ m \in Nat \ {0} /\ a \in Nat /\ b \in Nat /\ a + 1 \in Nat
    BY CountAssumption DEF Thread
  <2>2. (a + 1) * n \in Nat /\ b * n \in Nat /\ (a + 1) * n <= b * n
    BY <1>1, <2>1
  <2>3. /\ e \in Nat /\ m * e <= (a + 1) * n
        /\ f \in Nat /\ b * n < m * f + m
    BY <2>1, <2>2, Quotient DEF First, End
  <2> HIDE DEF n, m, e, f
  <2>4. ~ (f + 1 <= e)
    <3>1. f + 1 <= e => m * (f + 1) <= m * e
      BY <2>1, <2>3, Scaled
    <3>2. m * (f + 1) = m * f + m /\ m * f \in Nat /\ m * e \in Nat
      BY <2>1, <2>3, Scaled
    <3> QED
      BY <2>1, <2>2, <2>3, <3>1, <3>2
  <2> QED
    BY <2>3, <2>4 DEF e, f
<1>2. s \in Nat /\ t \in Nat /\ (s + 1 <= t \/ t + 1 <= s)
  BY DEF Thread
<1>3. /\ First(s) \in Nat /\ End(s) \in Nat /\ First(t) \in Nat /\ End(t) \in Nat
  BY PartBounds
<1> QED
  BY <1>1, <1>2, <1>3 DEF Part

\* Where the receiver is while a thread writes.
LEMMA Writing ==
  ASSUME InitInv, NEW t \in Thread, rAt[t] = "pk0"
  PROVE  rMain = "started" /\ rPhase = "baseOts" /\ fresh[rInit]
<1>1. RControl /\ BaseInv
  BY InitInvAligned
<1>2. Left # {} /\ rMain # "idle"
  BY <1>1 DEF BaseInv, Latch, Left
<1>3. rMain \notin {"joining", "done"}
  BY <1>1, <1>2 DEF BaseInv, Latch
<1> QED
  BY <1>1, <1>2, <1>3 DEF RControl

\* Until it sends its PK0s, none are under way and S has none.
LEMMA NotSent ==
  ASSUME InitInv, rPhase = "base" \/ (rPhase = "baseOts" /\ rMain = "started")
  PROVE  /\ \A i, n, j : i \in 1..Len(toS) /\ Lies(fresh, ToSPer, SRead + i, n, j) => j # 1
         /\ Holds(fresh, sInit, sPhase, rInit) => buff = Unset
<1>1. Aligned /\ BaseInv /\ SControl /\ rInit \in Nat \ {0} /\ sInit \in Nat \ {0}
  BY InitInvAligned
<1>2. ASSUME NEW i \in 1..Len(toS), NEW n, NEW j, Lies(fresh, ToSPer, SRead + i, n, j), j = 1
      PROVE  FALSE
  BY <1>1, <1>2, InToS
<1>3. ASSUME Holds(fresh, sInit, sPhase, rInit), buff # Unset PROVE FALSE
  <2>1. fresh[rInit] /\ (rInit < sInit \/ (rInit = sInit /\ sPhase \notin {"begin", "base"}))
    BY <1>1, <1>3 DEF Holds
  <2>2. sPhase \in {"begin", "base", "baseOts", "iknp", "check", "set", "extend", "done"}
    BY <1>1 DEF SControl
  <2> QED
    BY <1>1, <1>3, <2>1, <2>2, SGotPK0s
<1> QED
  BY <1>2, <1>3

\* A step of a thread, when it does its part.
LEMMA ThreadKeeps ==
  ASSUME InitInv, RThreads',
         UNCHANGED <<rMain, cBuff, sBaseVars, rInitVars, sInitVars, toR, toS, fresh, mHashingSeed>>,
         (rMain = "started" /\ rPhase = "baseOts") \/ sendBuff' = sendBuff
  PROVE  PartyInv'
<1>1. /\ Aligned /\ BaseInv /\ RInv /\ SInv /\ RControl /\ SControl /\ RProduct /\ RSeeds
      /\ ToRInv /\ ToSInv /\ Links /\ RPairs /\ rInit \in Nat \ {0}
  BY InitInvAligned
<1>2. /\ UNCHANGED <<rInit, rPhase, rStep, rTheirs, rWaiting, senderInputs, rOt, rMsgs>>
      /\ UNCHANGED <<sInit, sPhase, receiverInputs, secrets, sMessages, buff>>
  BY DEF rInitVars, sInitVars, sBaseVars
<1>3. SInv' /\ SRead' = SRead /\ SWritten' = SWritten
  BY <1>1, SFrame
<1>4. RControl' /\ RProduct' /\ RSeeds' /\ RRead' = RRead /\ RWritten' = RWritten
  BY <1>1, <1>2, RPlaceFrame, RControlFrame, RProductFrame, RSeedsFrame
<1>5. Same' => Same
  BY <1>2, SameFrame
<1>6. ToRInv'
  BY <1>1, <1>2, <1>3, <1>4, KeptRSame, ToRStays
<1>7. KeptS
  <2>1. CASE sendBuff' = sendBuff
    BY <1>2, <2>1, KeptSSame
  <2>2. CASE rMain = "started" /\ rPhase = "baseOts"
    <3>1. \A m, n, j : j # 1 /\ FitsS(m, n, j) => FitsS(m, n, j)'
      BY <1>2 DEF FitsS, FitsSeed, Passes, Posted
    <3>2. \A i, n, j : i \in 1..Len(toS) /\ Lies(fresh, ToSPer, SRead + i, n, j) => j # 1
      BY <2>2, NotSent
    <3> QED
      BY <3>1, <3>2 DEF KeptS
  <2> QED
    BY <2>1, <2>2
<1>8. ToSInv'
  BY <1>1, <1>3, <1>4, <1>7, ToSStays
<1>9. Links'
  <2>1. CASE sendBuff' = sendBuff
    BY <1>1, <1>2, <1>5, <2>1, LinksFrame
  <2>2. CASE rMain = "started" /\ rPhase = "baseOts"
    <3>1. fresh[rInit]
      BY <1>1, <2>2 DEF RControl
    <3>2. Same => buff = Unset
      <4>1. ASSUME NEW n, Holds(fresh, rInit, rPhase, n), Holds(fresh, sInit, sPhase, n)
            PROVE  buff = Unset
        <5>1. n = rInit
          BY <1>1, <2>2, <3>1, <4>1, HoldsOn
        <5> QED
          BY <2>2, <4>1, <5>1, NotSent
      <4> QED
        BY <4>1 DEF Same
    <3> QED
      BY <1>1, <1>2, <1>5, <3>2 DEF Links, SenderC
  <2> QED
    BY <2>1, <2>2
<1>10. RPairs'
  BY <1>1, <1>2, <1>5, RPairsFrame
<1> QED
  BY <1>1, <1>3, <1>4, <1>6, <1>8, <1>9, <1>10 DEF PartyInv, RInv, Between, InitInv

LEMMA WritePK0Aligned ==
  ASSUME InitInv, NEW t \in Thread, WritePK0(t),
         UNCHANGED <<rInitVars, sInitVars, fresh, mHashingSeed>>
  PROVE  PartyInv'
<1>1. /\ rAt[t] = "pk0" /\ cBuff # Unset /\ rIdx[t] < End(t)
      /\ sendBuff' = [sendBuff EXCEPT ![rIdx[t]] = PK0(t, rIdx[t])]
      /\ rIdx' = [rIdx EXCEPT ![t] = @ + 1]
      /\ UNCHANGED <<rMain, choices, rnd, cBuff, rAt, rMessages, sBaseVars, toR, toS>>
  BY DEF WritePK0
<1>2. RThreads /\ BaseInv /\ rMain = "started" /\ rPhase = "baseOts"
  BY <1>1, InitInvAligned, Writing
<1>3. PICK i : i = rIdx[t]
  OBVIOUS
<1>4. i \in Part(t) /\ i \in Ot /\ i \in Nat
  <2>1. First(t) \in Nat /\ End(t) \in Nat /\ End(t) <= NumOt /\ i \in First(t)..End(t)
    BY <1>1, <1>2, <1>3, PartBounds DEF BaseInv, Latch
  <2> QED
    BY <1>1, <1>3, <2>1, CountAssumption DEF Part, Ot
<1>5. /\ sendBuff'[i] = PK0(t, i)
      /\ \A j \in Ot : j # i => sendBuff'[j] = sendBuff[j]
  <2>1. sendBuff = [j \in Ot |-> sendBuff[j]]
    BY <1>2 DEF BaseInv, Latch
  <2>2. sendBuff' = [sendBuff EXCEPT ![i] = PK0(t, i)]
    BY <1>1, <1>3
  <2> QED
    BY <1>4, <2>1, <2>2
<1>6. /\ rIdx'[t] = i + 1 /\ \A s \in Thread : s # t => rIdx'[s] = rIdx[s]
  BY <1>1, <1>2, <1>3 DEF BaseInv, Latch
<1>7. ASSUME NEW s \in Thread PROVE RWrote(s)'
  <2>1. ASSUME NEW j \in Part(s), HasWritten(s, j)' PROVE sendBuff'[j] = PK0(s, j)
    <3>1. j \in Ot /\ j \in Nat
      BY PartBounds, CountAssumption DEF Part, Ot
    <3>2. CASE s = t /\ j = i
      BY <1>5, <3>2
    <3>3. CASE s = t /\ j # i
      <4>1. HasWritten(s, j)
        BY <1>1, <1>3, <1>4, <1>6, <2>1, <3>1, <3>3 DEF HasWritten
      <4> QED
        BY <1>2, <1>5, <3>1, <3>3, <4>1 DEF RThreads, RWrote
    <3>4. CASE s # t
      <4>1. HasWritten(s, j)
        BY <1>1, <1>6, <2>1, <3>4 DEF HasWritten
      <4>2. j # i
        BY <1>4, <3>4, PartsDisjoint
      <4> QED
        BY <1>2, <1>5, <3>1, <4>1, <4>2 DEF RThreads, RWrote
    <3> QED
      BY <3>2, <3>3, <3>4
  <2>2. \A j : PK0(s, j)' = PK0(s, j)
    BY <1>1 DEF PK0, PK
  <2>3. ASSUME NEW j \in Part(s), rAt'[s] = "hash", j < rIdx'[s]
        PROVE  rMessages'[j] = Sha(j, Pow(cBuff[1], PK(s, j)))
    <3>1. s # t
      BY <1>1, <2>3
    <3> QED
      BY <1>1, <1>2, <1>6, <2>3, <3>1 DEF RThreads, RWrote
  <2>4. \A j : PK(s, j)' = PK(s, j)
    BY <1>1 DEF PK
  <2> QED
    BY <1>1, <2>1, <2>2, <2>3, <2>4 DEF RWrote
<1>8. ASSUME NEW s \in Thread
      PROVE  /\ rAt'[s] \in {"promise", "hash"} => cBuff' # Unset /\ rIdx'[s] \in First(s)..End(s)
             /\ rAt'[s] = "promise" => rIdx'[s] = First(s)
             /\ rAt'[s] = "pk0" /\ cBuff' = Unset => rIdx'[s] = First(s)
  BY <1>1, <1>2, <1>6 DEF RThreads
<1>9. RThreads'
  BY <1>1, <1>2, <1>7, <1>8 DEF RThreads
<1> QED
  BY <1>1, <1>2, <1>9, ThreadKeeps

LEMMA CountdownAligned ==
  ASSUME InitInv, NEW t \in Thread, Countdown(t),
         UNCHANGED <<rInitVars, sInitVars, fresh, mHashingSeed>>
  PROVE  PartyInv'
<1>1. /\ rAt[t] = "pk0" /\ cBuff # Unset /\ rIdx[t] = End(t)
      /\ rAt' = [rAt EXCEPT ![t] = IF Reports(remainingPK0s') THEN "promise" ELSE "hash"]
      /\ rIdx' = [rIdx EXCEPT ![t] = First(t)]
      /\ UNCHANGED <<rMain, choices, rnd, cBuff, sendBuff, rMessages, sBaseVars, toR, toS>>
  BY DEF Countdown
<1>2. RThreads /\ BaseInv /\ rMain = "started" /\ rPhase = "baseOts"
  BY <1>1, InitInvAligned, Writing
<1>3. /\ rAt'[t] \in {"promise", "hash"} /\ \A s \in Thread : s # t => rAt'[s] = rAt[s]
      /\ rIdx'[t] = First(t) /\ \A s \in Thread : s # t => rIdx'[s] = rIdx[s]
  BY <1>1, <1>2 DEF BaseInv, Latch
<1>4. First(t) \in First(t)..End(t)
  BY PartBounds
<1>5. ASSUME NEW s \in Thread PROVE RWrote(s)'
  <2>1. ASSUME NEW j \in Part(s), HasWritten(s, j)' PROVE sendBuff'[j] = PK0(s, j)
    <3>1. HasWritten(s, j)
      <4>1. CASE s = t
        BY <1>1, <4>1, PartBounds DEF HasWritten, Part
      <4>2. CASE s # t
        BY <1>3, <2>1, <4>2 DEF HasWritten
      <4> QED
        BY <4>1, <4>2
    <3> QED
      BY <1>1, <1>2, <3>1 DEF RThreads, RWrote
  <2>2. ASSUME NEW j \in Part(s), rAt'[s] = "hash", j < rIdx'[s]
        PROVE  rMessages'[j] = Sha(j, Pow(cBuff[1], PK(s, j)))
    <3>1. s # t
      BY <1>3, <2>2, PartBounds DEF Part
    <3> QED
      BY <1>1, <1>2, <1>3, <2>2, <3>1 DEF RThreads, RWrote
  <2>3. \A j : PK0(s, j)' = PK0(s, j) /\ PK(s, j)' = PK(s, j)
    BY <1>1 DEF PK0, PK
  <2> QED
    BY <1>1, <2>1, <2>2, <2>3 DEF RWrote
<1>6. ASSUME NEW s \in Thread
      PROVE  /\ rAt'[s] \in {"promise", "hash"} => cBuff' # Unset /\ rIdx'[s] \in First(s)..End(s)
             /\ rAt'[s] = "promise" => rIdx'[s] = First(s)
             /\ rAt'[s] = "pk0" /\ cBuff' = Unset => rIdx'[s] = First(s)
  BY <1>1, <1>2, <1>3, <1>4 DEF RThreads
<1>7. RThreads'
  BY <1>1, <1>2, <1>5, <1>6 DEF RThreads
<1> QED
  BY <1>1, <1>2, <1>7, ThreadKeeps

LEMMA SetPromiseAligned ==
  ASSUME InitInv, NEW t \in Thread, SetPromise(t),
         UNCHANGED <<rInitVars, sInitVars, fresh, mHashingSeed>>
  PROVE  PartyInv'
<1>1. /\ rAt[t] = "promise" /\ rAt' = [rAt EXCEPT ![t] = "hash"]
      /\ UNCHANGED <<rMain, choices, rnd, cBuff, sendBuff, rIdx, rMessages, sBaseVars, toR, toS>>
  BY DEF SetPromise
<1>2. RThreads /\ BaseInv
  BY InitInvAligned
<1>3. /\ rAt'[t] = "hash" /\ \A s \in Thread : s # t => rAt'[s] = rAt[s]
      /\ rIdx[t] = First(t) /\ rIdx[t] \in First(t)..End(t) /\ rMain # "done" /\ cBuff # Unset
  BY <1>1, <1>2 DEF BaseInv, Latch, RThreads, RHashed
<1>4. ASSUME NEW s \in Thread PROVE RWrote(s)'
  <2>1. ASSUME NEW j \in Part(s), HasWritten(s, j)' PROVE sendBuff'[j] = PK0(s, j)
    <3>1. HasWritten(s, j)
      BY <1>1, <1>3, <2>1 DEF HasWritten
    <3> QED
      BY <1>1, <1>2, <3>1 DEF RThreads, RWrote
  <2>2. ASSUME NEW j \in Part(s), rAt'[s] = "hash", j < rIdx'[s]
        PROVE  rMessages'[j] = Sha(j, Pow(cBuff[1], PK(s, j)))
    <3>1. s # t
      BY <1>1, <1>3, <2>2, PartBounds DEF Part
    <3> QED
      BY <1>1, <1>2, <1>3, <2>2, <3>1 DEF RThreads, RWrote
  <2>3. \A j : PK0(s, j)' = PK0(s, j) /\ PK(s, j)' = PK(s, j)
    BY <1>1 DEF PK0, PK
  <2> QED
    BY <1>1, <2>1, <2>2, <2>3 DEF RWrote
<1>5. ASSUME NEW s \in Thread
      PROVE  /\ rAt'[s] \in {"promise", "hash"} => cBuff' # Unset /\ rIdx'[s] \in First(s)..End(s)
             /\ rAt'[s] = "promise" => rIdx'[s] = First(s)
             /\ rAt'[s] = "pk0" /\ cBuff' = Unset => rIdx'[s] = First(s)
  BY <1>1, <1>2, <1>3 DEF RThreads
<1>6. RThreads'
  BY <1>1, <1>2, <1>3, <1>4, <1>5 DEF RThreads
<1> QED
  BY <1>1, <1>6, ThreadKeeps

LEMMA HashMessageAligned ==
  ASSUME InitInv, NEW t \in Thread, HashMessage(t),
         UNCHANGED <<rInitVars, sInitVars, fresh, mHashingSeed>>
  PROVE  PartyInv'
<1>1. /\ rAt[t] = "hash" /\ rIdx[t] < End(t)
      /\ rMessages' = [rMessages EXCEPT ![rIdx[t]] = Sha(rIdx[t], Pow(cBuff[1], PK(t, rIdx[t])))]
      /\ rIdx' = [rIdx EXCEPT ![t] = @ + 1]
      /\ UNCHANGED <<rMain, choices, rnd, cBuff, sendBuff, rAt, sBaseVars, toR, toS>>
  BY DEF HashMessage
<1>2. RThreads /\ BaseInv
  BY InitInvAligned
<1>3. PICK i : i = rIdx[t]
  OBVIOUS
<1>4. i \in Part(t) /\ i \in Ot /\ i \in Nat /\ i + 1 \in First(t)..End(t)
  <2>1. First(t) \in Nat /\ End(t) \in Nat /\ End(t) <= NumOt /\ i \in First(t)..End(t)
    BY <1>1, <1>2, <1>3, PartBounds DEF RThreads
  <2> QED
    BY <1>1, <1>3, <2>1, CountAssumption DEF Part, Ot
<1>5. /\ rMessages'[i] = Sha(i, Pow(cBuff[1], PK(t, i))) /\ DOMAIN rMessages' = Ot
      /\ \A j \in Ot : j # i => rMessages'[j] = rMessages[j]
  <2>1. DOMAIN rMessages = Ot
    BY <1>2 DEF RThreads
  <2>2. rMessages' = [rMessages EXCEPT ![i] = Sha(i, Pow(cBuff[1], PK(t, i)))]
    BY <1>1, <1>3
  <2> QED
    BY <1>4, <2>1, <2>2
<1>6. rIdx'[t] = i + 1 /\ \A s \in Thread : s # t => rIdx'[s] = rIdx[s]
  BY <1>1, <1>2, <1>3 DEF BaseInv, Latch
<1>7. rMain # "done"
  BY <1>1, <1>2, <1>3, <1>4, PartBounds DEF RThreads, RHashed
<1>8. ASSUME NEW s \in Thread PROVE RWrote(s)'
  <2>1. ASSUME NEW j \in Part(s), HasWritten(s, j)' PROVE sendBuff'[j] = PK0(s, j)
    <3>1. HasWritten(s, j)
      BY <1>1, <1>6, <2>1 DEF HasWritten
    <3> QED
      BY <1>1, <1>2, <3>1 DEF RThreads, RWrote
  <2>2. ASSUME NEW j \in Part(s), rAt'[s] = "hash", j < rIdx'[s]
        PROVE  rMessages'[j] = Sha(j, Pow(cBuff[1], PK(s, j)))
    <3>1. j \in Ot /\ j \in Nat
      BY PartBounds, CountAssumption DEF Part, Ot
    <3>2. CASE s = t /\ j = i
      BY <1>5, <3>2
    <3>3. CASE s = t /\ j # i
      <4>1. j < rIdx[s]
        BY <1>3, <1>4, <1>6, <2>2, <3>1, <3>3
      <4> QED
        BY <1>1, <1>2, <1>5, <3>1, <3>3, <4>1 DEF RThreads, RWrote
    <3>4. CASE s # t
      <4>1. j # i
        BY <1>4, <3>4, PartsDisjoint
      <4> QED
        BY <1>1, <1>2, <1>5, <1>6, <2>2, <3>1, <3>4, <4>1 DEF RThreads, RWrote
    <3> QED
      BY <3>2, <3>3, <3>4
  <2>3. \A j : PK0(s, j)' = PK0(s, j) /\ PK(s, j)' = PK(s, j)
    BY <1>1 DEF PK0, PK
  <2> QED
    BY <1>1, <2>1, <2>2, <2>3 DEF RWrote
<1>9. ASSUME NEW s \in Thread
      PROVE  /\ rAt'[s] \in {"promise", "hash"} => cBuff' # Unset /\ rIdx'[s] \in First(s)..End(s)
             /\ rAt'[s] = "promise" => rIdx'[s] = First(s)
             /\ rAt'[s] = "pk0" /\ cBuff' = Unset => rIdx'[s] = First(s)
  BY <1>1, <1>2, <1>4, <1>6 DEF RThreads
<1>10. RThreads'
  BY <1>1, <1>2, <1>5, <1>7, <1>8, <1>9 DEF RThreads
<1> QED
  BY <1>1, <1>10, ThreadKeeps

-----------------------------------------------------------------------------
(* The steps of R.                                                         *)

\* The next message that is not a seed is the one that the party expects.
LEMMA NextToR ==
  ASSUME InitInv, rWaiting = <<>>, toR # <<>>, fresh[rInit], rPhase # "begin",
         NEW j \in 1..ToRPer, j = RGot + 1
  PROVE  FitsR(Head(toR), rInit, j)
<1>1. Aligned /\ BaseInv /\ RControl /\ ToRInv /\ rInit \in Nat \ {0} /\ RGot \in Nat
  BY InitInvAligned, RProgress
<1>2. 1 \in 1..Len(toR) /\ Head(toR) = toR[1]
  BY <1>1 DEF BaseInv, UnderWay
<1>3. PICK n, k : Lies(fresh, ToRPer, RRead + 1, n, k) /\ FitsR(toR[1], n, k)
  BY <1>1, <1>2 DEF ToRInv
<1>4. RRead = UpTo(fresh, ToRPer, rInit, rPhase, RGot)
  BY DEF RRead, ReadUpTo
<1>5. Lies(fresh, ToRPer, RRead + 1, rInit, j)
  BY <1>1, <1>4, Pers, GoesLies
<1>6. n = rInit /\ k = j
  BY <1>3, <1>5, Pers, LiesUnique
<1> QED
  BY <1>2, <1>3, <1>6

LEMMA NextToS ==
  ASSUME InitInv, sWaiting = <<>>, toS # <<>>, fresh[sInit], sPhase # "begin",
         NEW j \in 1..ToSPer, j = SGot + 1
  PROVE  FitsS(Head(toS), sInit, j)
<1>1. Aligned /\ BaseInv /\ SControl /\ ToSInv /\ sInit \in Nat \ {0} /\ SGot \in Nat
  BY InitInvAligned, SProgress
<1>2. 1 \in 1..Len(toS) /\ Head(toS) = toS[1]
  BY <1>1 DEF BaseInv, UnderWay
<1>3. PICK n, k : Lies(fresh, ToSPer, SRead + 1, n, k) /\ FitsS(toS[1], n, k)
  BY <1>1, <1>2 DEF ToSInv
<1>4. SRead = UpTo(fresh, ToSPer, sInit, sPhase, SGot)
  BY DEF SRead, ReadUpTo
<1>5. Lies(fresh, ToSPer, SRead + 1, sInit, j)
  BY <1>1, <1>4, Pers, GoesLies
<1>6. n = sInit /\ k = j
  BY <1>3, <1>5, Pers, LiesUnique
<1> QED
  BY <1>2, <1>3, <1>6

\* R's place, when its step is within an init.
LEMMA RGoes ==
  ASSUME InitInv, rPhase # "begin", rPhase' # "begin",
         UNCHANGED <<rInit, rWaiting, fresh>>, RGot' \in Nat, RPut' \in Nat,
         RGot' # RGot => rWaiting = <<>>,
         RGot' > 0 => rWaiting = <<>>
  PROVE  /\ RRead' = RRead + RGot' - RGot
         /\ RWritten' = RWritten + RPut' - RPut
         /\ RWritten \in Nat
         /\ Waits(fresh, rInit, rPhase, rWaiting, RGot)'
<1>1. RControl /\ rInit \in Nat \ {0} /\ RRead \in Nat
  BY InitInvAligned
<1>2. RGot \in Nat /\ RPut \in Nat /\ Waits(fresh, rInit, rPhase, rWaiting, RGot)
  BY <1>1, RProgress
<1>3. PICK p, g, w : p = rPhase' /\ g = RGot' /\ w = RPut'
  OBVIOUS
<1>4. /\ RRead' = ReadUpTo(fresh, ToRPer, rInit, p, rWaiting, g)
      /\ RWritten' = UpTo(fresh, ToSPer, rInit, p, w)
  BY <1>3 DEF RRead, RWritten, ToRPer, ToSPer
<1>5. ReadUpTo(fresh, ToRPer, rInit, p, rWaiting, g) = RRead + g - RGot
  BY <1>1, <1>2, <1>3, Pers, GoesRead DEF RRead
<1>6. UpTo(fresh, ToSPer, rInit, p, w) = RWritten + w - RPut /\ RWritten \in Nat
  <2>1. ToSPer \in Nat /\ w \in Nat /\ p # "begin"
    BY <1>3, Pers
  <2> QED
    BY <1>1, <1>2, <2>1, GoesUp DEF RWritten
<1>7. Waits(fresh, rInit, p, rWaiting, g)
  BY <1>1, <1>2, <1>3, GoesWaits
<1> QED
  BY <1>3, <1>4, <1>5, <1>6, <1>7

LEMMA RecvCAligned ==
  ASSUME InitInv, RecvC, rWaiting = <<>>,
         UNCHANGED <<rInitVars, sInitVars, fresh, mHashingSeed>>
  PROVE  PartyInv'
<1>1. /\ rMain = "started" /\ cBuff = Unset /\ Arrived(toR) /\ toR' = Tail(toR)
      /\ UNCHANGED <<choices, rnd, sendBuff, rAt, rIdx, rMessages, sBaseVars, toS>>
      /\ Head(toR).kind = "C" => cBuff' = Head(toR).body /\ rMain' = rMain
  BY DEF RecvC
<1>2. /\ Aligned /\ BaseInv /\ RInv /\ SInv /\ RControl /\ SControl /\ RThreads /\ RProduct /\ RSeeds
      /\ ToRInv /\ ToSInv /\ Links /\ RPairs /\ rInit \in Nat \ {0} /\ RRead \in Nat
  BY InitInvAligned
<1>3. /\ UNCHANGED <<rInit, rPhase, rStep, rTheirs, rWaiting, senderInputs, rOt, rMsgs>>
      /\ UNCHANGED <<sInit, sPhase, receiverInputs, secrets, sMessages, buff>>
  BY <1>1 DEF rInitVars, sInitVars, sBaseVars
<1>4. rPhase = "baseOts" /\ fresh[rInit] /\ RGot = 0
  BY <1>1, <1>2 DEF RControl, RGot
<1>5. FitsR(Head(toR), rInit, 1)
  BY <1>1, <1>2, <1>4, Pers, NextToR DEF Arrived
<1>6. cBuff' = SenderC /\ rMain' = "started" /\ cBuff' # Unset
  <2>1. Head(toR) = Message("C", SenderC)
    BY <1>5 DEF FitsR
  <2>2. SenderC # Unset
    BY DEF SenderC, Unset
  <2> QED
    BY <1>1, <2>1, <2>2 DEF Message
<1>7. RGot' = 1 /\ RPut' = 0 /\ RPut = 0
  BY <1>1, <1>3, <1>4, <1>6 DEF RGot, RPut
<1>8. /\ RRead' = RRead + 1 /\ RWritten' = RWritten
      /\ Waits(fresh, rInit, rPhase, rWaiting, RGot)'
  BY <1>2, <1>3, <1>4, <1>7, RGoes
<1>9. RControl'
  BY <1>1, <1>2, <1>3, <1>6, <1>8 DEF RControl
<1>10. RProduct' /\ RSeeds'
  BY <1>2, <1>3, RProductFrame, RSeedsFrame
<1>11. RThreads'
  <2>1. ASSUME NEW t \in Thread PROVE \A i \in Part(t) : ~ HasWritten(t, i)
    BY <1>1, <1>2, PartBounds DEF RThreads, HasWritten, Part
  <2>2. ASSUME NEW t \in Thread PROVE RWrote(t)'
    <3>1. \A i \in Part(t) : ~ HasWritten(t, i)'
      BY <1>1, <2>1 DEF HasWritten
    <3>2. rAt'[t] # "hash"
      BY <1>1, <1>2 DEF RThreads
    <3> QED
      BY <3>1, <3>2 DEF RWrote
  <2> QED
    BY <1>1, <1>2, <1>6, <2>2 DEF RThreads
<1>12. SInv' /\ SRead' = SRead /\ SWritten' = SWritten
  BY <1>1, <1>2, SFrame
<1>13. Same' => Same
  BY <1>3, SameFrame
<1>14. ToRInv'
  BY <1>1, <1>2, <1>3, <1>8, <1>12, KeptRSame, ToRTakes DEF Arrived
<1>15. ToSInv'
  BY <1>1, <1>2, <1>3, <1>8, <1>12, KeptSSame, ToSStays
<1>16. Links'
  BY <1>1, <1>2, <1>3, <1>6, <1>13 DEF Links, SenderC
<1>17. RPairs'
  BY <1>2, <1>3, <1>13, RPairsFrame
<1> QED
  BY <1>2, <1>9, <1>10, <1>11, <1>12, <1>14, <1>15, <1>16, <1>17
     DEF PartyInv, RInv, Between, InitInv

LEMMA SendPK0sAligned ==
  ASSUME InitInv, SendPK0s, UNCHANGED <<rInitVars, sInitVars, fresh, mHashingSeed>>
  PROVE  PartyInv'
<1>1. /\ rMain = "started" /\ PK0Prom /\ rMain' = "joining"
      /\ toS' = Append(toS, Message("PK0", sendBuff))
      /\ UNCHANGED <<choices, rnd, cBuff, sendBuff, rAt, rIdx, rMessages, sBaseVars, toR>>
  BY DEF SendPK0s
<1>2. /\ Aligned /\ BaseInv /\ RInv /\ SInv /\ RControl /\ SControl /\ RThreads /\ RProduct /\ RSeeds
      /\ ToRInv /\ ToSInv /\ Links /\ RPairs /\ rInit \in Nat \ {0} /\ SRead \in Nat
  BY InitInvAligned
<1>3. /\ UNCHANGED <<rInit, rPhase, rStep, rTheirs, rWaiting, senderInputs, rOt, rMsgs>>
      /\ UNCHANGED <<sInit, sPhase, receiverInputs, secrets, sMessages, buff>>
  BY <1>1 DEF rInitVars, sInitVars, sBaseVars
<1>4. rPhase = "baseOts" /\ fresh[rInit]
  BY <1>1, <1>2 DEF RControl
<1>5. cBuff # Unset
  <2>1. 0 \in Thread
    BY CountAssumption DEF Thread
  <2>2. rAt[0] \in {"promise", "hash"}
    BY <1>1, <1>2, <2>1 DEF BaseInv, Latch, Left
  <2> QED
    BY <1>2, <2>1, <2>2 DEF RThreads
<1>6. RPut = 0 /\ RPut' = 1 /\ RGot' = RGot /\ RGot \in Nat
  <2>1. RPut = 0 /\ RPut' = 1 /\ RGot' = 1 /\ RGot = 1
    BY <1>1, <1>3, <1>4, <1>5 DEF RGot, RPut
  <2> QED
    BY <2>1
<1>7. /\ RRead' = RRead /\ RWritten' = RWritten + 1
      /\ Waits(fresh, rInit, rPhase, rWaiting, RGot)'
  <2>1. RGot' > 0 => rWaiting = <<>>
    BY <1>2, <1>6 DEF RControl, Waits
  <2>2. RRead \in Nat
    BY InitInvAligned
  <2> QED
    BY <1>2, <1>3, <1>4, <1>6, <2>1, <2>2, RGoes
<1>8. RControl'
  BY <1>1, <1>2, <1>3, <1>4, <1>5, <1>7 DEF RControl
<1>9. RProduct' /\ RSeeds'
  BY <1>2, <1>3, RProductFrame, RSeedsFrame
<1>10. RThreads'
  <2>1. \A t : RWrote(t)' <=> RWrote(t)
    BY <1>1 DEF RWrote, HasWritten, PK0, PK
  <2> QED
    BY <1>1, <1>2, <2>1 DEF RThreads
<1>11. SInv' /\ SRead' = SRead /\ SWritten' = SWritten
  BY <1>1, <1>2, SFrame
<1>12. Same' => Same
  BY <1>3, SameFrame
<1>13. ToRInv'
  BY <1>1, <1>2, <1>3, <1>7, <1>11, KeptRSame, ToRStays
<1>14. ToSInv'
  <2>1. PICK m : m = Message("PK0", sendBuff)
    OBVIOUS
  <2>2. PICK n : n = rInit
    OBVIOUS
  <2>3. FitsS(m, n, 1)' /\ Lies(fresh, ToSPer, RWritten + 1, n, 1)
    <3>1. FitsS(m, n, 1)'
      BY <1>1, <2>1 DEF FitsS, Message
    <3>2. ToSPer \in Nat /\ 1 \in 1..ToSPer /\ RPut \in Nat /\ RPut + 1 = 1
      BY <1>6, Pers
    <3>3. Lies(fresh, ToSPer, RWritten + 1, rInit, 1)
      BY <1>2, <1>4, <3>2, GoesLies DEF RWritten
    <3> QED
      BY <2>2, <3>1, <3>3
  <2>5. SRead \in Nat /\ fresh' = fresh
    BY <1>2
  <2>4. KeptS
    BY <1>1, <1>3, KeptSSame
  <2> QED
    BY <1>1, <1>2, <1>7, <1>11, <2>1, <2>3, <2>4, <2>5, ToSGivesOne
<1>15. Links'
  BY <1>1, <1>2, <1>3, <1>12, LinksFrame
<1>16. RPairs'
  BY <1>2, <1>3, <1>12, RPairsFrame
<1> QED
  BY <1>2, <1>8, <1>9, <1>10, <1>11, <1>13, <1>14, <1>15, <1>16
     DEF PartyInv, RInv, Between, InitInv

LEMMA RJoinAligned ==
  ASSUME InitInv, RJoin, UNCHANGED <<rInitVars, sInitVars, fresh, mHashingSeed>>
  PROVE  PartyInv'
<1>1. /\ rMain = "joining" /\ rMain' = "done" /\ \A t \in Thread : RHashed(t)
      /\ UNCHANGED <<choices, rnd, cBuff, sendBuff, rAt, rIdx, rMessages, sBaseVars, toR, toS>>
  BY DEF RJoin
<1>2. /\ Aligned /\ BaseInv /\ RInv /\ SInv /\ RControl /\ SControl /\ RThreads /\ RProduct /\ RSeeds
      /\ ToRInv /\ ToSInv /\ Links /\ RPairs /\ rInit \in Nat \ {0} /\ RRead \in Nat
  BY InitInvAligned
<1>3. /\ UNCHANGED <<rInit, rPhase, rStep, rTheirs, rWaiting, senderInputs, rOt, rMsgs>>
      /\ UNCHANGED <<sInit, sPhase, receiverInputs, secrets, sMessages, buff>>
  BY <1>1 DEF rInitVars, sInitVars, sBaseVars
<1>4. rPhase = "baseOts" /\ cBuff # Unset
  BY <1>1, <1>2 DEF RControl
<1>5. RGot = 1 /\ RGot' = 1 /\ RPut = 1 /\ RPut' = 1
  BY <1>1, <1>3, <1>4 DEF RGot, RPut
<1>6. /\ RRead' = RRead /\ RWritten' = RWritten
      /\ Waits(fresh, rInit, rPhase, rWaiting, RGot)'
  <2>1. rWaiting = <<>>
    BY <1>2, <1>5 DEF RControl, Waits
  <2> QED
    BY <1>2, <1>3, <1>4, <1>5, <2>1, RGoes
<1>7. RControl'
  BY <1>1, <1>2, <1>3, <1>4, <1>6 DEF RControl
<1>8. RProduct' /\ RSeeds'
  BY <1>2, <1>3, RProductFrame, RSeedsFrame
<1>9. RThreads'
  <2>1. \A t : RWrote(t)' <=> RWrote(t)
    BY <1>1 DEF RWrote, HasWritten, PK0, PK
  <2> QED
    BY <1>1, <1>2, <2>1 DEF RThreads, RHashed
<1>10. SInv' /\ SRead' = SRead /\ SWritten' = SWritten
  BY <1>1, <1>2, SFrame
<1>11. Same' => Same
  BY <1>3, SameFrame
<1>12. ToRInv'
  BY <1>1, <1>2, <1>3, <1>6, <1>10, KeptRSame, ToRStays
<1>13. ToSInv'
  BY <1>1, <1>2, <1>3, <1>6, <1>10, KeptSSame, ToSStays
<1>14. Links' /\ RPairs'
  BY <1>1, <1>2, <1>3, <1>11, LinksFrame, RPairsFrame
<1> QED
  BY <1>2, <1>7, <1>8, <1>9, <1>10, <1>12, <1>13, <1>14
     DEF PartyInv, RInv, Between, InitInv

LEMMA SeedOf ==
  ASSUME NEW f, DOMAIN f = {"R", "S"}, NEW x
  PROVE  /\ DOMAIN [f EXCEPT !["R"] = x] = {"R", "S"} /\ DOMAIN [f EXCEPT !["S"] = x] = {"R", "S"}
         /\ [f EXCEPT !["R"] = x]["S"] = f["S"] /\ [f EXCEPT !["S"] = x]["R"] = f["R"]
         /\ [f EXCEPT !["R"] = x]["R"] = x /\ [f EXCEPT !["S"] = x]["S"] = x
OBVIOUS

LEMMA BeginsUp ==
  ASSUME NEW F, NEW per \in Nat, NEW init \in Nat \ {0}, NEW phase, phase # "begin"
  PROVE  /\ UpTo(F, per, init, phase, 0) = UpTo(F, per, init, "begin", 0) + 1
         /\ Lies(F, per, UpTo(F, per, init, "begin", 0) + 1, init, 0)
<1>1. Start(F, per, init) \in Nat
  BY StartNext
<1> QED
  BY <1>1 DEF UpTo, Lies

LEMMA RBeginAligned ==
  ASSUME InitInv, RBegin
  PROVE  PartyInv'
<1>1. /\ rPhase = "begin"
      /\ toS' = Append(toS, Posted(rInit)) /\ rWaiting' = Append(rWaiting, rInit)
      /\ rOt' = IF fresh[rInit] THEN NoBase ELSE rOt
      /\ rPhase' = IF rOt'.has THEN "extend" ELSE "base"
      /\ mHashingSeed' = [mHashingSeed EXCEPT !["R"] = {}]
      /\ UNCHANGED <<rBaseVars, sBaseVars, sInitVars, rInit, rStep, senderInputs, toR, fresh>>
  BY DEF RBegin
<1>2. /\ Aligned /\ BaseInv /\ RInv /\ SInv /\ RControl /\ SControl /\ RThreads /\ RProduct /\ RSeeds
      /\ ToRInv /\ ToSInv /\ Links /\ RPairs /\ rInit \in Nat \ {0} /\ SRead \in Nat
      /\ DOMAIN mHashingSeed = {"R", "S"}
  BY InitInvAligned DEF InitInv, PartyInv
<1>3. /\ UNCHANGED <<rMain, choices, rnd, cBuff, sendBuff, rAt, rIdx, rMessages>>
      /\ UNCHANGED <<sInit, sPhase, receiverInputs, secrets, sMessages, buff>>
  BY <1>1 DEF rBaseVars, sInitVars, sBaseVars
<1>4. \/ fresh[rInit] /\ rOt' = NoBase /\ rPhase' = "base" /\ ~ rOt'.has
      \/ ~ fresh[rInit] /\ rInit > 1 /\ rOt' = rOt /\ rPhase' = "extend" /\ rOt'.has
  <2>1. CASE fresh[rInit]
    BY <1>1, <2>1 DEF NoBase
  <2>2. CASE ~ fresh[rInit]
    BY <1>1, <1>2, <2>2 DEF RControl, HasOt
  <2> QED
    BY <2>1, <2>2
<1>5. RGot = 0 /\ RGot' = 0 /\ RPut = 0 /\ RPut' = 0
  BY <1>1, <1>4 DEF RGot, RPut
<1>6. PICK n, p : n = rInit /\ p = rPhase'
  OBVIOUS
<1>7. /\ RRead' = RRead /\ RWritten' = RWritten + 1
      /\ Waits(fresh, rInit, rPhase, rWaiting, RGot)'
      /\ Lies(fresh, ToSPer, RWritten + 1, n, 0)
  <2>1. Waits(fresh, rInit, "begin", rWaiting, 0) /\ p # "begin"
    BY <1>1, <1>2, <1>4, <1>5, <1>6 DEF RControl
  <2>2. /\ RRead' = ReadUpTo(fresh, ToRPer, rInit, p, Append(rWaiting, rInit), 0)
        /\ RWritten' = UpTo(fresh, ToSPer, rInit, p, 0)
        /\ RRead = ReadUpTo(fresh, ToRPer, rInit, "begin", rWaiting, 0)
        /\ RWritten = UpTo(fresh, ToSPer, rInit, "begin", 0)
    BY <1>1, <1>5, <1>6 DEF RRead, RWritten, ToRPer, ToSPer
  <2>3. ToRPer \in Nat /\ ToSPer \in Nat
    BY Pers
  <2>4. /\ Waits(fresh, rInit, p, Append(rWaiting, rInit), 0)
        /\ ReadUpTo(fresh, ToRPer, rInit, p, Append(rWaiting, rInit), 0)
             = ReadUpTo(fresh, ToRPer, rInit, "begin", rWaiting, 0)
    BY <1>2, <2>1, <2>3, Begins
  <2>5. /\ UpTo(fresh, ToSPer, rInit, p, 0) = UpTo(fresh, ToSPer, rInit, "begin", 0) + 1
        /\ Lies(fresh, ToSPer, UpTo(fresh, ToSPer, rInit, "begin", 0) + 1, rInit, 0)
    BY <1>2, <2>1, <2>3, BeginsUp
  <2>6. RRead' = RRead /\ RWritten' = RWritten + 1
    BY <2>2, <2>4, <2>5
  <2>7. Lies(fresh, ToSPer, RWritten + 1, n, 0)
    BY <1>6, <2>2, <2>5
  <2>8. Waits(fresh, rInit, rPhase, rWaiting, RGot)'
    BY <1>1, <1>5, <1>6, <2>4
  <2> QED
    BY <2>6, <2>7, <2>8
<1>8. RControl'
  <2>1. rOt'.has <=> HasOt(rInit, rPhase')
    BY <1>4 DEF HasOt
  <2>2. rOt' = NoBase \/ rOt' = [has |-> TRUE, keys |-> rOt'.keys, used |-> rOt'.used]
    BY <1>2, <1>4 DEF RControl
  <2>3. rMain' = "idle" <=> rInit' = 1 /\ rPhase' \in {"begin", "base"}
    BY <1>1, <1>2, <1>3, <1>4 DEF RControl
  <2> QED
    BY <1>1, <1>2, <1>3, <1>4, <1>7, <2>1, <2>2, <2>3 DEF RControl
<1>9. RProduct'
  <2>1. CASE fresh[rInit]
    BY <1>4, <2>1 DEF RProduct
  <2>2. CASE ~ fresh[rInit]
    <3>1. PICK k \in Nat : /\ Holds(fresh, rInit, "begin", k)
                           /\ rOt.used = Round * (rInit - k + IF rPhase = "done" THEN 1 ELSE 0)
      BY <1>1, <1>2, <1>4, <2>2 DEF RProduct, Used
    <3>2. Holds(fresh, rInit, "extend", k)
      BY <1>2, <2>2, <3>1, HoldsOn
    <3>3. rOt.used = Round * (rInit - k + IF "extend" = "done" THEN 1 ELSE 0)
      BY <1>1, <3>1
    <3>4. Used(fresh, rInit, "extend", rOt.used)
      BY <3>2, <3>3 DEF Used
    <3> QED
      BY <1>1, <1>4, <2>2, <3>4 DEF RProduct
  <2> QED
    BY <2>1, <2>2
<1>10. RSeeds'
  <2>1. rWaiting' # <<>>
    BY <1>1, <1>2 DEF RControl, Waits
  <2> QED
    BY <1>1, <1>4, <2>1 DEF RSeeds
<1>11. RThreads'
  BY <1>2, <1>3, RThreadsFrame
<1>12. /\ SInv' /\ SRead' = SRead /\ SWritten' = SWritten /\ DOMAIN mHashingSeed' = {"R", "S"}
  BY <1>1, <1>2, SeedOf, SFrame
<1>13. Same' => Same
  <2>1. ASSUME NEW k, Holds(fresh, rInit, p, k) PROVE Holds(fresh, rInit, rPhase, k)
    BY <1>1, <1>2, <1>4, <1>6, <2>1, HoldsOn
  <2> QED
    BY <1>1, <1>3, <1>6, <2>1 DEF Same
<1>14. ToRInv'
  BY <1>1, <1>2, <1>3, <1>7, <1>12, KeptRSame, ToRStays
<1>15. ToSInv'
  <2>1. PICK m : m = Posted(n)
    OBVIOUS
  <2>2. FitsS(m, n, 0)'
    BY <2>1 DEF FitsS, FitsSeed, Posted
  <2>3. KeptS
    BY <1>1, <1>3, KeptSSame
  <2>4. toS' = Append(toS, m) /\ fresh' = fresh
    BY <1>1, <1>6, <2>1
  <2> QED
    BY <1>2, <1>7, <1>12, <2>2, <2>3, <2>4, ToSGivesOne
<1>16. Links'
  BY <1>2, <1>3, <1>13, LinksFrame
<1>17. RPairs'
  BY <1>1, <1>2, <1>3, <1>4, <1>13 DEF RPairs, Served
<1> QED
  BY <1>8, <1>9, <1>10, <1>11, <1>12, <1>14, <1>15, <1>16, <1>17
     DEF PartyInv, RInv, Between

LEMMA RAgainAligned ==
  ASSUME InitInv, RAgain
  PROVE  PartyInv'
<1>1. /\ rPhase = "done" /\ rInit < NumInit /\ rInit' = rInit + 1 /\ rPhase' = "begin"
      /\ UNCHANGED <<rBaseVars, sBaseVars, sInitVars, rStep, rTheirs, rWaiting,
                     senderInputs, rOt, rMsgs, toR, toS, fresh, mHashingSeed>>
  BY DEF RAgain
<1>2. /\ Aligned /\ BaseInv /\ RInv /\ SInv /\ RControl /\ SControl /\ RThreads /\ RProduct /\ RSeeds
      /\ ToRInv /\ ToSInv /\ Links /\ RPairs /\ rInit \in Nat \ {0}
      /\ DOMAIN mHashingSeed = {"R", "S"}
  BY InitInvAligned DEF InitInv, PartyInv
<1>3. /\ UNCHANGED <<rMain, choices, rnd, cBuff, sendBuff, rAt, rIdx, rMessages>>
      /\ UNCHANGED <<sInit, sPhase, receiverInputs, secrets, sMessages, buff>>
  BY <1>1 DEF rBaseVars, sInitVars, sBaseVars
<1>4. /\ RGot = IF fresh[rInit] THEN ToRPer ELSE 0
      /\ RPut = IF fresh[rInit] THEN ToSPer ELSE 0
      /\ RGot' = 0 /\ RPut' = 0
  BY <1>1 DEF RGot, RPut
<1>5. /\ RRead' = RRead /\ RWritten' = RWritten
      /\ Waits(fresh, rInit, rPhase, rWaiting, RGot)'
  <2>1. ToRPer \in Nat /\ ToSPer \in Nat /\ ToRPer > 0
    BY Pers
  <2>2. /\ RRead' = ReadUpTo(fresh, ToRPer, rInit + 1, "begin", rWaiting, 0)
        /\ RWritten' = UpTo(fresh, ToSPer, rInit + 1, "begin", 0)
    BY <1>1, <1>4 DEF RRead, RWritten, ToRPer, ToSPer
  <2>3. /\ RRead = ReadUpTo(fresh, ToRPer, rInit, "done", rWaiting, IF fresh[rInit] THEN ToRPer ELSE 0)
        /\ RWritten = UpTo(fresh, ToSPer, rInit, "done", IF fresh[rInit] THEN ToSPer ELSE 0)
        /\ Waits(fresh, rInit, "done", rWaiting, IF fresh[rInit] THEN ToRPer ELSE 0)
    BY <1>1, <1>2, <1>4 DEF RRead, RWritten, RControl
  <2>4. RRead' = RRead /\ Waits(fresh, rInit + 1, "begin", rWaiting, 0)
    BY <1>2, <2>1, <2>2, <2>3, Again
  <2>5. RWritten' = RWritten
    BY <1>2, <2>1, <2>2, <2>3, Again
  <2> QED
    BY <1>1, <1>4, <2>4, <2>5
<1>6. RControl'
  BY <1>1, <1>2, <1>3, <1>5, InitAssumption DEF RControl, HasOt
<1>7. RProduct'
  <2>1. rOt.has
    BY <1>1, <1>2 DEF RControl, HasOt
  <2>2. PICK k \in Nat : /\ Holds(fresh, rInit, "done", k)
                         /\ rOt.used = Round * (rInit - k + IF rPhase = "done" THEN 1 ELSE 0)
    BY <1>1, <1>2, <2>1 DEF RProduct, Used
  <2>3. Holds(fresh, rInit + 1, "begin", k)
    BY <1>2, <2>2, HoldsOn
  <2>4. PICK a, q : a = rInit + 1 /\ q = "begin"
    OBVIOUS
  <2>5. rOt.used = Round * (a - k + IF q = "done" THEN 1 ELSE 0)
    <3>1. a - k + (IF q = "done" THEN 1 ELSE 0) = rInit - k + 1
      BY <1>2, <2>4
    <3>2. rOt.used = Round * (rInit - k + 1)
      BY <1>1, <2>2
    <3> QED
      BY <3>1, <3>2
  <2>6. Used(fresh, a, q, rOt.used)
    BY <2>3, <2>4, <2>5 DEF Used
  <2> QED
    BY <1>1, <2>4, <2>6 DEF RProduct
<1>8. RSeeds'
  BY <1>1 DEF RSeeds
<1>9. RThreads'
  BY <1>2, <1>3, RThreadsFrame
<1>10. SInv' /\ SRead' = SRead /\ SWritten' = SWritten
  BY <1>1, <1>2, SFrame
<1>11. Same' => Same
  <2>1. ASSUME NEW k, Holds(fresh, rInit + 1, "begin", k) PROVE Holds(fresh, rInit, rPhase, k)
    BY <1>1, <1>2, <2>1, HoldsOn
  <2> QED
    BY <1>1, <1>3, <2>1 DEF Same
<1>12. ToRInv'
  BY <1>1, <1>2, <1>3, <1>5, <1>10, KeptRSame, ToRStays
<1>13. ToSInv'
  BY <1>1, <1>2, <1>3, <1>5, <1>10, KeptSSame, ToSStays
<1>14. Links'
  BY <1>2, <1>3, <1>11, LinksFrame
<1>15. RPairs'
  BY <1>1, <1>2, <1>3, <1>11 DEF RPairs, Served
<1> QED
  BY <1>1, <1>2, <1>6, <1>7, <1>8, <1>9, <1>10, <1>12, <1>13, <1>14, <1>15
     DEF PartyInv, RInv, Between

LEMMA RBaseAligned ==
  ASSUME InitInv, RBase
  PROVE  PartyInv'
<1>1. /\ rPhase = "base" /\ rPhase' = "baseOts"
      /\ UNCHANGED <<sBaseVars, sInitVars, rInit, rStep, rTheirs, rWaiting,
                     senderInputs, rOt, rMsgs, toR, toS, fresh, mHashingSeed>>
  BY DEF RBase
<1>2. /\ rMain' = "started" /\ choices' \in Deltas
      /\ cBuff' = Unset
      /\ rAt' = [t \in Thread |-> "pk0"] /\ rIdx' = [t \in Thread |-> First(t)]
      /\ rMessages' = [i \in Ot |-> Unset]
  BY DEF RBase, CallReceiver
<1>3. /\ Aligned /\ BaseInv /\ RInv /\ SInv /\ RControl /\ SControl /\ RThreads /\ RProduct /\ RSeeds
      /\ ToRInv /\ ToSInv /\ Links /\ RPairs /\ rInit \in Nat \ {0} /\ RRead \in Nat
      /\ DOMAIN mHashingSeed = {"R", "S"}
  BY InitInvAligned DEF InitInv, PartyInv
<1>4. UNCHANGED <<sInit, sPhase, receiverInputs, secrets, sMessages, buff>>
  BY <1>1 DEF sInitVars, sBaseVars
<1>5. fresh[rInit] /\ ~ rOt.has
  BY <1>1, <1>3 DEF RControl, HasOt
<1>6. RGot = 0 /\ RGot' = 0 /\ RPut = 0 /\ RPut' = 0
  BY <1>1, <1>2 DEF RGot, RPut
<1>7. /\ RRead' = RRead /\ RWritten' = RWritten
      /\ Waits(fresh, rInit, rPhase, rWaiting, RGot)'
  BY <1>1, <1>3, <1>6, RGoes
<1>8. RControl'
  BY <1>1, <1>2, <1>3, <1>5, <1>7 DEF RControl, HasOt
<1>9. RProduct' /\ RSeeds'
  <2>1. RProduct'
    BY <1>1, <1>5 DEF RProduct
  <2>2. RSeeds'
    BY <1>1, <1>3 DEF RSeeds
  <2> QED
    BY <2>1, <2>2
<1>10. RThreads'
  <2>1. ASSUME NEW t \in Thread
        PROVE  /\ rAt'[t] = "pk0" /\ rIdx'[t] = First(t)
               /\ RWrote(t)'
    <3>1. rAt'[t] = "pk0" /\ rIdx'[t] = First(t)
      BY <1>2
    <3>2. \A i \in Part(t) : ~ HasWritten(t, i)'
      BY <3>1, PartBounds DEF HasWritten, Part
    <3> QED
      BY <3>1, <3>2 DEF RWrote
  <2> QED
    BY <1>2, <2>1 DEF RThreads
<1>11. SInv' /\ SRead' = SRead /\ SWritten' = SWritten
  BY <1>1, <1>3, SFrame
<1>12. ToRInv'
  BY <1>1, <1>3, <1>4, <1>7, <1>11, KeptRSame, ToRStays
<1>13. ToSInv'
  <2>1. \A m, n, j : j # 1 /\ FitsS(m, n, j) => FitsS(m, n, j)'
    BY <1>1, <1>4 DEF FitsS, FitsSeed, Passes, Posted
  <2>2. KeptS
    BY <1>1, <2>1, NotSent DEF KeptS
  <2> QED
    BY <1>1, <1>3, <1>7, <1>11, <2>2, ToSStays
<1>14. Same' => buff = Unset
  <2>1. ASSUME NEW k, Holds(fresh, rInit, "baseOts", k), Holds(fresh, sInit, sPhase, k)
        PROVE  buff = Unset
    <3>1. k = rInit
      BY <1>3, <1>5, <2>1, HoldsOn
    <3> QED
      BY <1>1, <2>1, <3>1, NotSent
  <2> QED
    BY <1>1, <1>4, <2>1 DEF Same
<1>15. Links'
  BY <1>2, <1>4, <1>14 DEF Links
<1>16. RPairs'
  BY <1>1, <1>5 DEF RPairs
<1> QED
  BY <1>1, <1>3, <1>8, <1>9, <1>10, <1>11, <1>12, <1>13, <1>15, <1>16
     DEF PartyInv, RInv, Between

LEMMA RBaseDoneAligned ==
  ASSUME InitInv, RBaseDone
  PROVE  PartyInv'
<1>1. /\ rPhase = "baseOts" /\ rMain = "done" /\ rPhase' = "iknp" /\ rStep' = 0
      /\ senderInputs' = [blk \in Blk |-> Unset]
      /\ UNCHANGED <<rBaseVars, sBaseVars, sInitVars, rInit, rTheirs, rWaiting,
                     rOt, rMsgs, toR, toS, fresh, mHashingSeed>>
  BY DEF RBaseDone
<1>2. /\ Aligned /\ BaseInv /\ RInv /\ SInv /\ RControl /\ SControl /\ RThreads /\ RProduct /\ RSeeds
      /\ ToRInv /\ ToSInv /\ Links /\ RPairs /\ rInit \in Nat \ {0} /\ RRead \in Nat
      /\ DOMAIN mHashingSeed = {"R", "S"}
  BY InitInvAligned DEF InitInv, PartyInv
<1>3. /\ UNCHANGED <<rMain, choices, rnd, cBuff, sendBuff, rAt, rIdx, rMessages>>
      /\ UNCHANGED <<sInit, sPhase, receiverInputs, secrets, sMessages, buff>>
  BY <1>1 DEF rBaseVars, sInitVars, sBaseVars
<1>4. fresh[rInit] /\ ~ rOt.has /\ cBuff # Unset
  BY <1>1, <1>2 DEF RControl, HasOt
<1>5. RGot = 1 /\ RGot' = 1 /\ RPut = 1 /\ RPut' = 1
  BY <1>1, <1>3, <1>4 DEF RGot, RPut
<1>6. /\ RRead' = RRead /\ RWritten' = RWritten
      /\ Waits(fresh, rInit, rPhase, rWaiting, RGot)'
  <2>1. rWaiting = <<>>
    BY <1>2, <1>5 DEF RControl, Waits
  <2> QED
    BY <1>1, <1>2, <1>5, <2>1, RGoes
<1>7. RControl'
  <2>1. 0 \in 0..NumBlk - 1
    BY InitAssumption
  <2> QED
    BY <1>1, <1>2, <1>3, <1>4, <1>6, <2>1 DEF RControl, HasOt
<1>8. RProduct' /\ RSeeds'
  <2>1. RProduct'
    BY <1>1, <1>4 DEF RProduct
  <2>2. RSeeds'
    BY <1>1, <1>2 DEF RSeeds
  <2> QED
    BY <2>1, <2>2
<1>9. RThreads'
  BY <1>2, <1>3, RThreadsFrame
<1>10. SInv' /\ SRead' = SRead /\ SWritten' = SWritten
  BY <1>1, <1>2, SFrame
<1>11. Same' => Same
  <2>1. ASSUME NEW k, Holds(fresh, rInit, "iknp", k) PROVE Holds(fresh, rInit, rPhase, k)
    BY <1>1, <1>2, <2>1, HoldsOn
  <2> QED
    BY <1>1, <1>3, <2>1 DEF Same
<1>12. ToRInv'
  BY <1>1, <1>2, <1>3, <1>6, <1>10, KeptRSame, ToRStays
<1>13. ToSInv'
  BY <1>1, <1>2, <1>3, <1>6, <1>10, KeptSSame, ToSStays
<1>14. Links'
  BY <1>2, <1>3, <1>11, LinksFrame
<1>15. RPairs'
  BY <1>1, <1>4 DEF RPairs
<1> QED
  BY <1>1, <1>2, <1>7, <1>8, <1>9, <1>10, <1>12, <1>13, <1>14, <1>15
     DEF PartyInv, RInv, Between

LEMMA RoundType == Round \in Nat
<1>1. NumMsg + Width - 1 \in Nat /\ Width \in Nat \ {0}
  BY InitAssumption, WidthAssumption, CountAssumption
<1> QED
  BY <1>1, Quotient DEF Round, Rounds

\* An extension uses the blocks of one round more.
LEMMA UsedMore ==
  ASSUME NEW F, NEW init \in Nat \ {0}, NEW phase, phase # "done", NEW used,
         Used(F, init, phase, used),
         phase \notin {"begin", "base"} \/ ~ F[init],
         NEW now, now = used + Round
  PROVE  Used(F, init, "done", now) /\ used \in Nat /\ now - Round = used
<1>1. PICK n \in Nat : Holds(F, init, phase, n) /\ used = Round * (init - n + 0)
  BY DEF Used
<1>2. n <= init /\ init - n \in Nat
  BY <1>1 DEF Holds
<1>3. Holds(F, init, "done", n)
  BY <1>1, HoldsOn
<1>4. PICK a : a = init - n
  OBVIOUS
<1>5. a \in Nat /\ a + 0 = a /\ used = Round * a
  BY <1>1, <1>2, <1>4
<1>6. Round * (a + 1) = Round * a + Round /\ a * Round \in Nat
  BY <1>5, RoundType, Scaled
<1>7. used \in Nat
  BY <1>5, RoundType
<1>8. now = Round * (init - n + IF "done" = "done" THEN 1 ELSE 0)
  BY <1>4, <1>5, <1>6
<1> QED
  BY <1>3, <1>7, <1>8, RoundType DEF Used

LEMMA RExtendAligned ==
  ASSUME InitInv, RExtend
  PROVE  PartyInv'
<1>1. /\ rPhase = "extend" /\ rPhase' = "done"
      /\ mHashingSeed' = [mHashingSeed EXCEPT !["R"] = SymDiff(RSeed, rTheirs)]
      /\ rMsgs' = [i \in 0..NumMsg - 1 |->
            <<SsotMessage(RKeys(1), rOt.used, i), SsotMessage(RKeys(2), rOt.used, i)>>]
      /\ rOt' = [rOt EXCEPT !.used = @ + Rounds(NumMsg)]
      /\ UNCHANGED <<rBaseVars, sBaseVars, sInitVars, rInit, rStep, rTheirs, rWaiting,
                     senderInputs, toR, toS, fresh>>
  BY DEF RExtend, Combined
<1>2. /\ Aligned /\ BaseInv /\ RInv /\ SInv /\ RControl /\ SControl /\ RThreads /\ RProduct /\ RSeeds
      /\ ToRInv /\ ToSInv /\ Links /\ RPairs /\ rInit \in Nat \ {0} /\ RRead \in Nat
      /\ DOMAIN mHashingSeed = {"R", "S"}
  BY InitInvAligned DEF InitInv, PartyInv
<1>3. /\ UNCHANGED <<rMain, choices, rnd, cBuff, sendBuff, rAt, rIdx, rMessages>>
      /\ UNCHANGED <<sInit, sPhase, receiverInputs, secrets, sMessages, buff>>
  BY <1>1 DEF rBaseVars, sInitVars, sBaseVars
<1>4. /\ rOt.has /\ rOt'.has /\ rOt'.keys = rOt.keys /\ rOt'.used = rOt.used + Round
      /\ rOt' = [has |-> TRUE, keys |-> rOt'.keys, used |-> rOt'.used]
  <2>1. rOt.has
    BY <1>1, <1>2 DEF RControl, HasOt
  <2>2. rOt = [has |-> TRUE, keys |-> rOt.keys, used |-> rOt.used]
    BY <1>2, <2>1 DEF RControl, NoBase
  <2> QED
    BY <1>1, <2>1, <2>2 DEF Round
<1>5. /\ RGot' = RGot /\ RPut' = RPut /\ RGot \in Nat /\ RPut \in Nat
      /\ Waits(fresh, rInit, rPhase, rWaiting, RGot)
  <2>1. RGot' = RGot /\ RPut' = RPut
    BY <1>1 DEF RGot, RPut, ToRPer, ToSPer
  <2> QED
    BY <1>2, <2>1, RProgress
<1>6. /\ RRead' = RRead /\ RWritten' = RWritten
      /\ Waits(fresh, rInit, rPhase, rWaiting, RGot)'
  <2>1. RGot' > 0 => rWaiting = <<>>
    BY <1>5 DEF Waits
  <2> QED
    BY <1>1, <1>2, <1>5, <2>1, RGoes
<1>7. RControl'
  BY <1>1, <1>2, <1>3, <1>4, <1>6 DEF RControl, HasOt
<1>8. RProduct'
  <2>1. Used(fresh, rInit, "extend", rOt.used)
    BY <1>1, <1>2, <1>4 DEF RProduct
  <2>2. PICK now, used, p : now = rOt'.used /\ used = rOt.used /\ p = "extend"
    OBVIOUS
  <2>3. Used(fresh, rInit, "done", now) /\ now - Round = rOt.used
    <3>1. rInit \in Nat \ {0} /\ Used(fresh, rInit, p, used) /\ now = used + Round
      BY <1>2, <1>4, <2>1, <2>2
    <3>2. p # "done" /\ p \notin {"begin", "base"}
      BY <2>2
    <3>3. Used(fresh, rInit, "done", now) /\ now - Round = used
      BY <3>1, <3>2, UsedMore
    <3> QED
      BY <2>2, <3>3
  <2>4. rOt'.used - Round = rOt.used
    BY <2>2, <2>3
  <2>5. rMsgs' = [i \in 0..NumMsg - 1 |-> RMessages(rOt'.keys, rOt'.used - Round, i)]
    <3>1. PICK k1, k2 : k1 = RKeys(1) /\ k2 = RKeys(2)
      OBVIOUS
    <3>2. \A i : RMessages(rOt.keys, rOt.used, i)
                   = <<SsotMessage(k1, rOt.used, i), SsotMessage(k2, rOt.used, i)>>
      BY <3>1, Zenon DEF RMessages, RKeys
    <3>3. rMsgs' = [i \in 0..NumMsg - 1 |->
                <<SsotMessage(k1, rOt.used, i), SsotMessage(k2, rOt.used, i)>>]
      BY <1>1, <3>1, Zenon
    <3>4. PICK f, g : /\ f = [i \in 0..NumMsg - 1 |-> RMessages(rOt'.keys, rOt'.used - Round, i)]
                      /\ g = rMsgs'
      OBVIOUS
    <3>5. \A i \in 0..NumMsg - 1 :
              g[i] = <<SsotMessage(k1, rOt.used, i), SsotMessage(k2, rOt.used, i)>>
      BY <3>3, <3>4
    <3>6. \A i \in 0..NumMsg - 1 : f[i] = RMessages(rOt.keys, rOt.used, i)
      BY <1>4, <2>4, <3>4
    <3>7. \A i \in 0..NumMsg - 1 : f[i] = g[i]
      BY <3>2, <3>5, <3>6
    <3>8. f = [i \in 0..NumMsg - 1 |-> f[i]] /\ g = [i \in 0..NumMsg - 1 |-> g[i]]
      BY <3>3, <3>4
    <3> QED
      BY <3>4, <3>7, <3>8
  <2>6. Used(fresh, rInit, "done", rOt'.used)
    BY <2>2, <2>3
  <2> QED
    BY <1>1, <2>5, <2>6 DEF RProduct
<1>9. RSeeds'
  <2>1. fresh[rInit] => rWaiting = <<>>
    BY <1>1, <1>5, Pers DEF Waits, RGot
  <2>2. fresh[rInit] => rTheirs = SSeed
    BY <1>1, <1>2, <2>1 DEF RSeeds
  <2>3. mHashingSeed'["R"] = SymDiff(RSeed, rTheirs)
    BY <1>1, <1>2, SeedOf
  <2> QED
    BY <1>1, <2>2, <2>3 DEF RSeeds
<1>10. RThreads'
  BY <1>2, <1>3, RThreadsFrame
<1>11. /\ SInv' /\ SRead' = SRead /\ SWritten' = SWritten /\ DOMAIN mHashingSeed' = {"R", "S"}
  BY <1>1, <1>2, SeedOf, SFrame
<1>12. Same' => Same
  <2>1. ASSUME NEW k, Holds(fresh, rInit, "done", k) PROVE Holds(fresh, rInit, rPhase, k)
    BY <1>1, <1>2, <2>1, HoldsOn
  <2> QED
    BY <1>1, <1>3, <2>1 DEF Same
<1>13. ToRInv'
  BY <1>1, <1>2, <1>3, <1>6, <1>11, KeptRSame, ToRStays
<1>14. ToSInv'
  BY <1>1, <1>2, <1>3, <1>6, <1>11, KeptSSame, ToSStays
<1>15. Links'
  BY <1>2, <1>3, <1>12, LinksFrame
<1>16. RPairs'
  BY <1>1, <1>2, <1>3, <1>4, <1>12 DEF RPairs, Served
<1> QED
  BY <1>7, <1>8, <1>9, <1>10, <1>11, <1>13, <1>14, <1>15, <1>16 DEF PartyInv, RInv, Between

LEMMA NextPlaceR ==
  ASSUME InitInv, rWaiting = <<>>, toR # <<>>, fresh[rInit], rPhase # "begin",
         NEW j \in 1..ToRPer, j = RGot + 1
  PROVE  1 \in 1..Len(toR) /\ Lies(fresh, ToRPer, RRead + 1, rInit, j)
<1>1. Aligned /\ BaseInv /\ RControl /\ rInit \in Nat \ {0} /\ RGot \in Nat
  BY InitInvAligned, RProgress
<1>2. 1 \in 1..Len(toR)
  BY <1>1 DEF BaseInv, UnderWay
<1>3. RRead = UpTo(fresh, ToRPer, rInit, rPhase, RGot)
  BY DEF RRead, ReadUpTo
<1> QED
  BY <1>1, <1>2, <1>3, Pers, GoesLies

\* What R computes of a block that S sends: of every pair S has one message and
\* not the other.
LEMMA PairServed ==
  ASSUME InitInv, rMain = "done", sMain = "done", NEW b \in Blk, NEW c \in Bit,
         NEW pair,
         pair = IknpSendMessages(rMessages, choices, b, IknpU(sMessages, b, receiverInputs[b]))[c]
  PROVE  pair[1] # pair[2] /\ Chosen(pair, receiverInputs[b], c) = IknpRecvMessages(sMessages, b)[c]
<1>1. choices \in Block \ {{}} /\ receiverInputs[b] \in Block
  <2>1. choices \in Deltas /\ receiverInputs \in Inputs
    BY InitInvAligned DEF RThreads, SThreads
  <2> QED
    BY <2>1, DeltaAssumption, InitAssumption
<1>2. PICK delta, x, u : /\ delta = choices /\ x = receiverInputs[b]
                         /\ u = IknpU(sMessages, b, receiverInputs[b])
  OBVIOUS
<1>3. \A i \in Bit : rMessages[i] = sMessages[i][IF i \in delta THEN 2 ELSE 1]
  BY <1>2, BaseAgree, WidthAssumption DEF Ot, Bit
<1>4. IknpRecvMessages(sMessages, b)[c] =
        IknpSendMessages(rMessages, delta, b, IknpU(sMessages, b, x))[c][IF c \in x THEN 2 ELSE 1]
  BY <1>1, <1>2, <1>3, IknpAgree
<1>5. Chosen(pair, receiverInputs[b], c) = IknpRecvMessages(sMessages, b)[c]
  BY <1>2, <1>4 DEF Chosen
<1>6. PICK q : q = Transpose(IknpQ(rMessages, choices, b, u))[c]
  OBVIOUS
<1>7. pair = <<<<q>>, <<SymDiff(q, delta)>>>>
  BY <1>2, <1>6 DEF IknpSendMessages, ShaRow
<1>8. SymDiff(q, delta) # q
  BY <1>1, <1>2 DEF SymDiff
<1> QED
  BY <1>5, <1>7, <1>8

LEMMA RIknpAligned ==
  ASSUME InitInv, RIknp
  PROVE  PartyInv'
<1>1. /\ rPhase = "iknp" /\ Arrived(toR) /\ rWaiting = <<>> /\ toR' = Tail(toR)
      /\ UNCHANGED <<rBaseVars, sBaseVars, sInitVars, rInit, rTheirs, rWaiting,
                     rOt, rMsgs, toS, fresh, mHashingSeed>>
      /\ Head(toR).kind = "u" =>
            /\ senderInputs' = [senderInputs EXCEPT ![rStep] =
                    IknpSendMessages(rMessages, choices, rStep, Head(toR).body)]
            /\ rStep' = rStep + 1
            /\ rPhase' = IF rStep' = NumBlk THEN "check" ELSE "iknp"
  BY DEF RIknp
<1>2. /\ Aligned /\ BaseInv /\ RInv /\ SInv /\ RControl /\ SControl /\ RThreads /\ RProduct /\ RSeeds
      /\ ToRInv /\ ToSInv /\ Links /\ RPairs /\ rInit \in Nat \ {0} /\ RRead \in Nat
      /\ DOMAIN mHashingSeed = {"R", "S"}
  BY InitInvAligned DEF InitInv, PartyInv
<1>3. /\ UNCHANGED <<rMain, choices, rnd, cBuff, sendBuff, rAt, rIdx, rMessages>>
      /\ UNCHANGED <<sInit, sPhase, receiverInputs, secrets, sMessages, buff>>
  BY <1>1 DEF rBaseVars, sInitVars, sBaseVars
<1>4. PICK b, j : b = rStep /\ j = rStep + 2
  OBVIOUS
<1>5. /\ fresh[rInit] /\ b \in Blk /\ b \in Nat /\ b + 1 <= NumBlk /\ NumBlk \in Nat
      /\ RGot = 1 + b /\ j = RGot + 1 /\ j - 2 = b /\ j > 1 /\ j > 0
      /\ j \in 1..ToRPer /\ ~ rOt.has
  <2>1. fresh[rInit] /\ b \in 0..NumBlk - 1 /\ ~ rOt.has
    BY <1>1, <1>2, <1>4 DEF RControl, HasOt
  <2>2. RGot = 1 + b
    BY <1>1, <1>4 DEF RGot
  <2> QED
    BY <1>4, <2>1, <2>2, Pers DEF Blk
<1>6. Head(toR) = Message("u", IknpU(sMessages, b, receiverInputs[b]))
  <2>1. FitsR(Head(toR), rInit, j)
    BY <1>1, <1>5, NextToR DEF Arrived
  <2> QED
    BY <1>5, <2>1 DEF FitsR
<1>7. rMain = "done" /\ sMain = "done"
  <2>1. 1 \in 1..Len(toR) /\ Lies(fresh, ToRPer, RRead + 1, rInit, j)
    BY <1>1, <1>5, NextPlaceR DEF Arrived
  <2>2. PICK i, n : i = 1 /\ n = rInit
    OBVIOUS
  <2>3. i \in 1..Len(toR) /\ Lies(fresh, ToRPer, RRead + i, n, j)
    BY <2>1, <2>2
  <2>4. sPhase \in {"baseOts", "iknp", "check"} /\ sPhase # "baseOts"
    BY <1>2, <1>5, <2>3, InToR
  <2> QED
    BY <1>1, <1>2, <2>4 DEF RControl, SControl
<1>8. /\ rStep' = b + 1 /\ rPhase' = IF b + 1 = NumBlk THEN "check" ELSE "iknp"
      /\ senderInputs' = [senderInputs EXCEPT ![b] =
            IknpSendMessages(rMessages, choices, b, IknpU(sMessages, b, receiverInputs[b]))]
  BY <1>1, <1>4, <1>6 DEF Message
<1>9. RGot' = RGot + 1 /\ RGot' \in Nat /\ RPut' = RPut /\ RPut \in Nat
  <2>1. RGot' = 2 + b
    BY <1>1, <1>5, <1>8, Pers DEF RGot, ToRPer
  <2>2. RPut' = 1 /\ RPut = 1
    BY <1>1, <1>8 DEF RPut
  <2> QED
    BY <1>5, <2>1, <2>2
<1>10. /\ RRead' = RRead + 1 /\ RWritten' = RWritten
       /\ Waits(fresh, rInit, rPhase, rWaiting, RGot)'
  <2>1. RGot \in Nat
    BY <1>5
  <2> QED
    BY <1>1, <1>2, <1>8, <1>9, <2>1, RGoes
<1>11. RControl'
  <2>1. rPhase' = "iknp" => rStep' \in 0..NumBlk - 1
    BY <1>5, <1>8
  <2> QED
    BY <1>1, <1>2, <1>3, <1>5, <1>7, <1>8, <1>10, <2>1 DEF RControl, HasOt
<1>12. RProduct' /\ RSeeds'
  <2>1. RProduct'
    BY <1>1, <1>5, <1>8 DEF RProduct
  <2>2. RSeeds'
    BY <1>1, <1>2, <1>8 DEF RSeeds
  <2> QED
    BY <2>1, <2>2
<1>13. RThreads'
  BY <1>2, <1>3, RThreadsFrame
<1>14. SInv' /\ SRead' = SRead /\ SWritten' = SWritten
  BY <1>1, <1>2, SFrame
<1>15. Same' => Same
  <2>1. PICK p : p = rPhase'
    OBVIOUS
  <2>2. ASSUME NEW k, Holds(fresh, rInit, p, k) PROVE Holds(fresh, rInit, rPhase, k)
    BY <1>1, <1>2, <1>8, <2>1, <2>2, HoldsOn
  <2> QED
    BY <1>1, <1>3, <2>1, <2>2 DEF Same
<1>16. ToRInv'
  BY <1>1, <1>2, <1>3, <1>10, <1>14, KeptRSame, ToRTakes DEF Arrived
<1>17. ToSInv'
  BY <1>1, <1>2, <1>3, <1>10, <1>14, KeptSSame, ToSStays
<1>18. Links'
  BY <1>2, <1>3, <1>15, LinksFrame
<1>19. RPairs'
  <2>1. DOMAIN senderInputs = Blk /\ DOMAIN senderInputs' = Blk
    BY <1>1, <1>2, <1>8 DEF RPairs
  <2>2. PICK new : new = senderInputs'
    OBVIOUS
  <2>3. Served(new, b)
    <3>1. new[b] = IknpSendMessages(rMessages, choices, b, IknpU(sMessages, b, receiverInputs[b]))
      BY <1>5, <1>8, <2>1, <2>2
    <3> QED
      BY <1>5, <1>7, <3>1, PairServed DEF Served
  <2>4. ASSUME Same, NEW k \in 0..b - 1 PROVE Served(new, k)
    <3>1. Served(senderInputs, k)
      BY <1>1, <1>2, <1>4, <2>4 DEF RPairs
    <3>2. new[k] = senderInputs[k]
      BY <1>5, <1>8, <2>1, <2>2, <2>4 DEF Blk
    <3> QED
      BY <3>1, <3>2 DEF Served
  <2>5. ASSUME Same, NEW k \in 0..b PROVE Served(senderInputs, k)'
    <3>1. Served(new, k)
      BY <1>5, <2>3, <2>4, <2>5
    <3> QED
      BY <1>3, <2>2, <3>1 DEF Served
  <2>6. (b + 1) - 1 = b /\ (b + 1 = NumBlk => \A k \in Blk : k \in 0..b)
    BY <1>5 DEF Blk
  <2>7. Same => /\ rPhase' = "iknp" => \A k \in 0..rStep' - 1 : Served(senderInputs, k)'
                /\ rPhase' = "check" => \A k \in Blk : Served(senderInputs, k)'
    BY <1>8, <2>5, <2>6
  <2> QED
    BY <1>1, <1>5, <1>15, <2>1, <2>7 DEF RPairs
<1> QED
  BY <1>1, <1>2, <1>11, <1>12, <1>13, <1>14, <1>16, <1>17, <1>18, <1>19
     DEF PartyInv, RInv, Between

LEMMA PairPlace ==
  ASSUME NEW k \in 0..NumBlk * Width - 1
  PROVE  k \div Width \in Blk /\ k % Width \in Bit
<1> DEFINE n == NumBlk
           w == Width
           q == k \div w
<1>1. n \in Nat \ {0} /\ w \in Nat \ {0} /\ k \in Nat /\ k < n * w /\ n * w \in Nat
  BY Pers
<1>2. q \in Nat /\ w * q <= k
  BY <1>1, Quotient
<1>3. k % w \in 0..w - 1
  BY <1>1
<1> HIDE DEF n, w, q
<1>4. n <= q => w * n <= w * q
  BY <1>1, <1>2, Scaled
<1>5. w * q \in Nat /\ w * n = n * w
  BY <1>1, <1>2
<1>6. q < n
  BY <1>1, <1>2, <1>4, <1>5
<1> QED
  BY <1>1, <1>2, <1>3, <1>6 DEF Blk, Bit, q, n, w

\* When R checks, S does, in the same init.
LEMMA CheckMeets ==
  ASSUME InitInv, rPhase = "check"
  PROVE  fresh[rInit] /\ sInit = rInit /\ sPhase = "check" /\ Same
<1>1. /\ Aligned /\ BaseInv /\ rInit \in Nat \ {0} /\ sInit \in Nat \ {0} /\ RControl
  BY InitInvAligned
<1>2. fresh[rInit]
  BY <1>1 DEF RControl
<1>3. rInit < sInit \/ (rInit = sInit /\ sPhase \in {"check", "set", "extend", "done"})
  BY <1>1, <1>2, RFinished
<1>4. ~ (rInit < sInit \/ (rInit = sInit /\ sPhase \in {"set", "extend", "done"}))
  BY <1>1, <1>2, SFinished
<1>5. sInit = rInit /\ sPhase = "check"
  BY <1>3, <1>4
<1>6. Holds(fresh, rInit, "check", rInit)
  BY <1>1, <1>2, HoldsOn
<1> QED
  BY <1>2, <1>5, <1>6 DEF Same

LEMMA RCheckAligned ==
  ASSUME InitInv, RCheck
  PROVE  PartyInv'
<1> DEFINE N == NumBlk * Width
           At(k) == senderInputs[PairAt(k)[1]][PairAt(k)[2]]
<1>1. /\ rPhase = "check"
      /\ rOt' = [has |-> TRUE, keys |-> senderInputs, used |-> 0]
      /\ UNCHANGED <<rBaseVars, sBaseVars, sInitVars, rInit, rStep, rTheirs, rWaiting,
                     senderInputs, rMsgs, toR, fresh, mHashingSeed>>
      /\ \/ {k \in 0..N - 1 : At(k)[1] = At(k)[2]} # {}
         \/ /\ rPhase' = "extend"
            /\ toS' = toS \o [k \in 1..N |-> Message("check", At(k - 1))]
  BY DEF RCheck
<1>2. /\ Aligned /\ BaseInv /\ RInv /\ SInv /\ RControl /\ SControl /\ RThreads /\ RProduct /\ RSeeds
      /\ ToRInv /\ ToSInv /\ Links /\ RPairs /\ rInit \in Nat \ {0} /\ RRead \in Nat /\ SRead \in Nat
      /\ DOMAIN mHashingSeed = {"R", "S"}
  BY InitInvAligned DEF InitInv, PartyInv
<1>3. /\ UNCHANGED <<rMain, choices, rnd, cBuff, sendBuff, rAt, rIdx, rMessages>>
      /\ UNCHANGED <<sInit, sPhase, receiverInputs, secrets, sMessages, buff>>
  BY <1>1 DEF rBaseVars, sInitVars, sBaseVars
<1>4. /\ fresh[rInit] /\ sInit = rInit /\ sPhase = "check" /\ Same
      /\ \A b \in Blk : Served(senderInputs, b)
  BY <1>1, <1>2, CheckMeets DEF RPairs
<1>5. ASSUME NEW k \in 0..N - 1
      PROVE  /\ At(k)[1] # At(k)[2]
             /\ Passes(Message("check", At(k)), k)
  <2>1. PICK b, c : b = k \div Width /\ c = k % Width
    OBVIOUS
  <2>2. b \in Blk /\ c \in Bit /\ PairAt(k)[1] = b /\ PairAt(k)[2] = c
    BY <2>1, PairPlace DEF PairAt
  <2>3. /\ senderInputs[b][c][1] # senderInputs[b][c][2]
        /\ Chosen(senderInputs[b][c], receiverInputs[b], c) = IknpRecvMessages(sMessages, b)[c]
    BY <1>4, <2>2 DEF Served
  <2> QED
    BY <2>2, <2>3 DEF Passes, Message
<1>6. /\ rPhase' = "extend"
      /\ toS' = toS \o [k \in 1..N |-> Message("check", At(k - 1))]
  BY <1>1, <1>5
<1>7. N \in Nat \ {0} /\ ToSPer = 1 + N /\ ToRPer \in Nat
  BY Pers
<1>8. RGot' = RGot /\ RGot \in Nat /\ RPut = 1 /\ RPut' = 1 + N
  <2>1. RGot = ToRPer /\ RGot' = ToRPer
    BY <1>1, <1>4, <1>6 DEF RGot, ToRPer
  <2>2. RPut = 1 /\ RPut' = ToSPer
    BY <1>1, <1>4, <1>6 DEF RPut, ToSPer
  <2> QED
    BY <1>7, <2>1, <2>2
<1> HIDE DEF N
<1>9. /\ RRead' = RRead /\ RWritten' = RWritten + N /\ RWritten \in Nat
      /\ Waits(fresh, rInit, rPhase, rWaiting, RGot)'
  <2>1. RGot' > 0 => rWaiting = <<>>
    BY <1>2, <1>8 DEF RControl, Waits
  <2>2. RPut' \in Nat
    BY <1>7, <1>8
  <2> QED
    BY <1>1, <1>2, <1>6, <1>7, <1>8, <2>1, <2>2, RGoes
<1>10. RControl'
  BY <1>1, <1>2, <1>3, <1>6, <1>9 DEF RControl, HasOt
<1>11. RProduct'
  <2>1. Holds(fresh, rInit, "extend", rInit)
    BY <1>2, <1>4, HoldsOn
  <2>2. Round * (rInit - rInit + IF "extend" = "done" THEN 1 ELSE 0) = 0
    BY <1>2, RoundType
  <2>3. Used(fresh, rInit, "extend", 0)
    BY <1>2, <2>1, <2>2 DEF Used
  <2> QED
    BY <1>1, <1>6, <2>3 DEF RProduct
<1>12. RSeeds'
  BY <1>1, <1>2, <1>6 DEF RSeeds
<1>13. RThreads'
  BY <1>2, <1>3, RThreadsFrame
<1>14. SInv' /\ SRead' = SRead /\ SWritten' = SWritten
  BY <1>1, <1>2, SFrame
<1>15. Same' => Same
  BY <1>4
<1>16. ToRInv'
  BY <1>1, <1>2, <1>3, <1>9, <1>14, KeptRSame, ToRStays
<1>17. ToSInv'
  <2>1. PICK f : f = [k \in 1..N |-> Message("check", At(k - 1))]
    OBVIOUS
  <2>2. DOMAIN f = 1..N /\ f = [k \in 1..N |-> f[k]]
    BY <2>1
  <2>3. ASSUME NEW k \in 1..N
        PROVE  \E n, j : Lies(fresh, ToSPer, RWritten + k, n, j) /\ FitsS(f[k], n, j)'
    <3>1. PICK p, n, j, m : p = RWritten + k /\ n = rInit /\ j = k + 1 /\ m = f[k]
      OBVIOUS
    <3>2. k - 1 \in 0..N - 1 /\ j - 2 = k - 1 /\ j > 1 /\ j \in 1..ToSPer /\ k \in Nat
          /\ j = RPut + k /\ RPut \in Nat /\ ToSPer \in Nat
      BY <1>7, <1>8, <3>1
    <3>3. Lies(fresh, ToSPer, p, rInit, j)
      BY <1>1, <1>2, <1>4, <3>1, <3>2, GoesLies DEF RWritten
    <3>4. m = Message("check", At(k - 1))
      BY <2>1, <3>1
    <3>5. Passes(m, j - 2)
      BY <1>5, <3>2, <3>4 DEF N
    <3>6. Passes(m, j - 2)'
      BY <1>3, <3>5 DEF Passes
    <3>7. FitsS(m, n, j)'
      BY <3>2, <3>4, <3>6 DEF FitsS, Message
    <3> QED
      BY <3>1, <3>3, <3>7
  <2>4. KeptS
    BY <1>1, <1>3, KeptSSame
  <2>5. toS' = toS \o f /\ fresh' = fresh /\ N \in Nat
    BY <1>1, <1>6, <1>7, <2>1
  <2> QED
    BY <1>2, <1>9, <1>14, <2>2, <2>3, <2>4, <2>5, ToSGives
<1>18. Links'
  BY <1>2, <1>3, <1>15, LinksFrame
<1>19. RPairs'
  BY <1>1, <1>3, <1>4, <1>6 DEF RPairs, Served
<1> QED
  BY <1>1, <1>2, <1>10, <1>11, <1>12, <1>13, <1>14, <1>16, <1>17, <1>18, <1>19
     DEF PartyInv, RInv, Between

-----------------------------------------------------------------------------
(* The seeds.                                                              *)

\* The seed of an init that runs the base transfers is still to be read: then
\* this init has not returned, and the seed is where it is sent from.
LEMMA LiveSeedR ==
  ASSUME BaseInv, Aligned, NEW i \in 1..Len(toS), NEW n,
         Lies(fresh, ToSPer, SRead + i, n, 0), fresh[n]
  PROVE  n \in RAlive
<1>1. /\ Progress(fresh, ToSPer, sInit, sPhase, SGot)
      /\ Waits(fresh, sInit, sPhase, sWaiting, SGot)
      /\ Progress(fresh, ToSPer, rInit, rPhase, RPut)
      /\ rInit \in Nat \ {0} /\ sInit \in Nat \ {0} /\ SGot \in Nat
  BY RProgress, SProgress DEF Aligned
<1>2. SRead \in Nat
  BY <1>1, Pers, ReadUpToType DEF SRead
<1>3. PICK p : p = SRead + i
  OBVIOUS
<1>4. p <= RWritten /\ p \in Nat /\ SRead < p
  BY <1>2, <1>3, QueueLen DEF Aligned, ToSInv
<1>5. n \in Nat \ {0} /\ p = Start(fresh, ToSPer, n) + 1 + 0
  BY <1>3 DEF Lies
<1>6. n < rInit \/ (n = rInit /\ rPhase # "begin")
  BY <1>1, <1>3, <1>4, Pers, WrittenTo DEF RWritten
<1>7. PICK q, j : q = p + 1 /\ j = 1
  OBVIOUS
<1>8. Lies(fresh, ToSPer, q, n, j) /\ j > 0 /\ SRead < q
  <2>1. Start(fresh, ToSPer, n) \in Nat /\ ToSPer \in Nat /\ ToSPer > 1
    BY <1>5, Pers, StartNext
  <2> QED
    BY <1>2, <1>4, <1>5, <1>7, <2>1 DEF Lies
<1>9. sInit <= n /\ (n = sInit => SGot < 1)
  BY <1>1, <1>7, <1>8, Pers, ReadFrom DEF SRead
<1>10. ASSUME n < rInit \/ rPhase = "done" PROVE FALSE
  <2>1. n < sInit \/ (n = sInit /\ sPhase \in {"check", "set", "extend", "done"})
    BY <1>1, <1>5, <1>6, <1>10, RFinished
  <2>2. n = sInit /\ sPhase \in {"check", "set", "extend", "done"} /\ SGot < 1
    BY <1>1, <1>5, <1>9, <2>1
  <2>3. sPhase = "check" => sStep \in Nat
    BY Pers DEF Aligned, SControl
  <2> QED
    BY <2>2, <2>3, Pers DEF SGot
<1> QED
  BY <1>1, <1>5, <1>6, <1>10 DEF RAlive

LEMMA LiveSeedS ==
  ASSUME BaseInv, Aligned, NEW i \in 1..Len(toR), NEW n,
         Lies(fresh, ToRPer, RRead + i, n, 0), fresh[n]
  PROVE  n \in SAlive
<1>1. /\ Progress(fresh, ToRPer, rInit, rPhase, RGot)
      /\ Waits(fresh, rInit, rPhase, rWaiting, RGot)
      /\ Progress(fresh, ToRPer, sInit, sPhase, SPut)
      /\ rInit \in Nat \ {0} /\ sInit \in Nat \ {0} /\ RGot \in Nat
  BY RProgress, SProgress DEF Aligned
<1>2. RRead \in Nat
  BY <1>1, Pers, ReadUpToType DEF RRead
<1>3. PICK p : p = RRead + i
  OBVIOUS
<1>4. p <= SWritten /\ p \in Nat /\ RRead < p
  BY <1>2, <1>3, QueueLen DEF Aligned, ToRInv
<1>5. n \in Nat \ {0} /\ p = Start(fresh, ToRPer, n) + 1 + 0
  BY <1>3 DEF Lies
<1>6. n < sInit \/ (n = sInit /\ sPhase # "begin")
  BY <1>1, <1>3, <1>4, Pers, WrittenTo DEF SWritten
<1>7. PICK q, j : q = p + 1 /\ j = 1
  OBVIOUS
<1>8. Lies(fresh, ToRPer, q, n, j) /\ j > 0 /\ RRead < q
  <2>1. Start(fresh, ToRPer, n) \in Nat /\ ToRPer \in Nat /\ ToRPer > 1
    BY <1>5, Pers, StartNext
  <2> QED
    BY <1>2, <1>4, <1>5, <1>7, <2>1 DEF Lies
<1>9. rInit <= n /\ (n = rInit => RGot < 1)
  BY <1>1, <1>7, <1>8, Pers, ReadFrom DEF RRead
<1>10. ASSUME n < sInit \/ sPhase = "done" PROVE FALSE
  <2>1. n < rInit \/ (n = rInit /\ rPhase \in {"extend", "done"})
    BY <1>1, <1>5, <1>6, <1>10, SFinished
  <2>2. n = rInit /\ rPhase \in {"extend", "done"} /\ RGot < 1
    BY <1>1, <1>5, <1>9, <2>1
  <2> QED
    BY <2>2, Pers DEF RGot
<1> QED
  BY <1>1, <1>5, <1>6, <1>10 DEF SAlive

\* What writing a seed changes.
Carries(n, b) == [kind |-> "seed", body |-> <<b>>, from |-> n]

WritesAt(q, alive, seed, r, j, b) ==
    /\ j \in 1..Len(q)
    /\ IsPosted(q[j]) /\ (q[j].from \in alive => b = seed)
    /\ \A n : q[j] = Posted(n) => r[j] = Carries(n, b)
    /\ Len(r) = Len(q) /\ \A i \in 1..Len(q) : i # j => r[i] = q[i]

LEMMA WrittenAt ==
  ASSUME NEW S, NEW q \in Seq(S), \E k \in DOMAIN q : IsPosted(q[k]),
         NEW alive, NEW seed, NEW r \in Written(q, alive, seed)
  PROVE  \E j, b : WritesAt(q, alive, seed, r, j, b)
<1>1. DOMAIN q = 1..Len(q) /\ Len(q) \in Nat
  BY LenProperties
<1> DEFINE P == {k \in DOMAIN q : IsPosted(q[k])}
           IsFirst(j) == IsPosted(q[j]) /\ \A i \in 1..j - 1 : ~ IsPosted(q[i])
<1>2. \E j \in DOMAIN q : IsFirst(j)
  <2>1. PICK j \in P : \A k \in P : j <= k
    <3>1. P \subseteq Nat /\ P # {}
      BY <1>1
    <3> QED
      BY <3>1, LeastMember
  <2>2. \A i \in 1..j - 1 : i \in DOMAIN q /\ ~ (j <= i)
    BY <1>1, <2>1
  <2> QED
    BY <2>1, <2>2
<1>3. PICK j : j = CHOOSE x \in DOMAIN q : IsFirst(x)
  OBVIOUS
<1>4. j \in 1..Len(q) /\ IsPosted(q[j])
  BY <1>1, <1>2, <1>3
<1>5. PICK b : /\ r = [q EXCEPT ![j].body = <<b>>]
               /\ b \in IF q[j].from \in alive THEN {seed} ELSE Stale
  BY <1>3 DEF Written
<1>6. r = [q EXCEPT ![j] = [q[j] EXCEPT !.body = <<b>>]]
  BY <1>1, <1>4, <1>5
<1>7. q[j].from \in alive => b = seed
  BY <1>5
<1>8. ASSUME NEW n, q[j] = Posted(n) PROVE r[j] = Carries(n, b)
  <2>1. r[j] = [q[j] EXCEPT !.body = <<b>>]
    BY <1>1, <1>4, <1>6
  <2> QED
    BY <1>8, <2>1 DEF Posted, Carries
<1>9. Len(r) = Len(q) /\ \A i \in 1..Len(q) : i # j => r[i] = q[i]
  BY <1>1, <1>4, <1>6
<1> QED
  BY <1>4, <1>7, <1>8, <1>9 DEF WritesAt

LEMMA WriteSeedRAligned ==
  ASSUME InitInv, WriteSeedR
  PROVE  PartyInv'
<1>1. /\ \E k \in DOMAIN toS : IsPosted(toS[k])
      /\ toS' \in Written(toS, RAlive, RSeed)
      /\ UNCHANGED <<rBaseVars, sBaseVars, rInitVars, sInitVars, toR, fresh, mHashingSeed>>
  BY DEF WriteSeedR
<1>2. /\ Aligned /\ BaseInv /\ RInv /\ SInv /\ RControl /\ SControl
      /\ ToRInv /\ ToSInv /\ Links /\ RPairs
      /\ DOMAIN mHashingSeed = {"R", "S"}
  BY InitInvAligned DEF InitInv, PartyInv
<1>3. /\ UNCHANGED <<rInit, rPhase, rStep, cBuff, sendBuff, senderInputs, rOt>>
      /\ UNCHANGED <<sInit, sPhase, receiverInputs, secrets, sMessages, buff>>
  BY <1>1 DEF rBaseVars, rInitVars, sInitVars, sBaseVars
<1>4. RInv' /\ RRead' = RRead /\ RWritten' = RWritten
  BY <1>1, <1>2, RFrame
<1>5. SInv' /\ SRead' = SRead /\ SWritten' = SWritten
  BY <1>1, <1>2, SFrame
<1>6. Same' => Same
  BY <1>1, <1>3, SameFrame
<1>7. ToRInv'
  BY <1>1, <1>2, <1>3, <1>4, <1>5, KeptRSame, ToRStays
<1>8. ToSInv'
  <2>1. PICK S : toS \in Seq(S)
    BY <1>2 DEF BaseInv, UnderWay
  <2>2. PICK queue, alive, seed : queue = toS' /\ alive = RAlive /\ seed = RSeed
    OBVIOUS
  <2>3. queue \in Written(toS, alive, seed) /\ \E k \in DOMAIN toS : IsPosted(toS[k])
    BY <1>1, <2>2
  <2>4. PICK k, b : WritesAt(toS, alive, seed, queue, k, b)
    BY <2>1, <2>3, WrittenAt
  <2>5. ASSUME NEW i \in 1..Len(queue)
        PROVE  \E n, j : Lies(fresh, ToSPer, SRead + i, n, j) /\ FitsS(queue[i], n, j)
    <3>1. PICK m : m = toS[i]
      OBVIOUS
    <3>2. PICK n, j : Lies(fresh, ToSPer, SRead + i, n, j) /\ FitsS(m, n, j)
      BY <1>2, <2>4, <3>1 DEF WritesAt, ToSInv
    <3>3. CASE i # k
      BY <2>4, <3>1, <3>2, <3>3 DEF WritesAt
    <3>4. CASE i = k
      <4>1. m.kind = "seed" /\ m.body = Unset /\ (m.from \in RAlive => b = RSeed)
        BY <2>2, <2>4, <3>1, <3>4 DEF WritesAt, IsPosted
      <4>2. j \in Nat
        BY <3>2, Pers DEF Lies
      <4>3. j = 0
        BY <3>2, <4>1, <4>2 DEF FitsS, Message
      <4>4. m = Posted(n)
        BY <3>2, <4>1, <4>3 DEF FitsS, FitsSeed
      <4>5. queue[i] = Carries(n, b) /\ m.from = n
        BY <2>4, <3>1, <3>4, <4>4 DEF WritesAt, Posted
      <4>6. fresh[n] => b = RSeed
        BY <1>2, <2>4, <3>2, <3>4, <4>1, <4>3, <4>5, LiveSeedR DEF WritesAt
      <4>7. <<b>> # Unset
        BY DEF Unset
      <4>8. FitsS(queue[i], n, j)
        BY <4>3, <4>5, <4>6, <4>7 DEF FitsS, FitsSeed, Carries
      <4> QED
        BY <3>2, <4>8
    <3> QED
      BY <3>3, <3>4
  <2>6. ASSUME NEW m, NEW n, NEW j, FitsS(m, n, j) PROVE FitsS(m, n, j)'
    BY <1>1, <1>3, <2>6 DEF FitsS, FitsSeed, Passes, Posted
  <2>7. ASSUME NEW i \in 1..Len(toS')
        PROVE  \E n, j : Lies(fresh', ToSPer, SRead' + i, n, j) /\ FitsS(toS[i], n, j)'
    <3>1. PICK m, p : m = queue[i] /\ p = SRead + i
      OBVIOUS
    <3>2. PICK n, j : Lies(fresh, ToSPer, p, n, j) /\ FitsS(m, n, j)
      BY <2>2, <2>5, <2>7, <3>1
    <3>3. FitsS(m, n, j)'
      BY <2>6, <3>2
    <3>4. FitsS(toS[i], n, j)'
      BY <2>2, <3>1, <3>3
    <3> QED
      BY <1>1, <1>5, <3>1, <3>2, <3>4
  <2>8. RWritten' = SRead' + Len(toS')
    BY <1>2, <1>4, <1>5, <2>2, <2>4 DEF WritesAt, ToSInv
  <2> QED
    BY <2>7, <2>8 DEF ToSInv
<1>9. Links' /\ RPairs'
  BY <1>2, <1>3, <1>6, LinksFrame, RPairsFrame
<1> QED
  BY <1>1, <1>2, <1>4, <1>5, <1>7, <1>8, <1>9 DEF PartyInv, Between

LEMMA WriteSeedSAligned ==
  ASSUME InitInv, WriteSeedS
  PROVE  PartyInv'
<1>1. /\ \E k \in DOMAIN toR : IsPosted(toR[k])
      /\ toR' \in Written(toR, SAlive, SSeed)
      /\ UNCHANGED <<rBaseVars, sBaseVars, rInitVars, sInitVars, toS, fresh, mHashingSeed>>
  BY DEF WriteSeedS
<1>2. /\ Aligned /\ BaseInv /\ SInv /\ RInv /\ SControl /\ RControl
      /\ ToSInv /\ ToRInv /\ Links /\ RPairs
      /\ DOMAIN mHashingSeed = {"R", "S"}
  BY InitInvAligned DEF InitInv, PartyInv
<1>3. /\ UNCHANGED <<rInit, rPhase, rStep, cBuff, sendBuff, senderInputs, rOt>>
      /\ UNCHANGED <<sInit, sPhase, receiverInputs, secrets, sMessages, buff>>
  BY <1>1 DEF rBaseVars, rInitVars, sInitVars, sBaseVars
<1>4. SInv' /\ SRead' = SRead /\ SWritten' = SWritten
  BY <1>1, <1>2, SFrame
<1>5. RInv' /\ RRead' = RRead /\ RWritten' = RWritten
  BY <1>1, <1>2, RFrame
<1>6. Same' => Same
  BY <1>1, <1>3, SameFrame
<1>7. ToSInv'
  BY <1>1, <1>2, <1>3, <1>4, <1>5, KeptSSame, ToSStays
<1>8. ToRInv'
  <2>1. PICK S : toR \in Seq(S)
    BY <1>2 DEF BaseInv, UnderWay
  <2>2. PICK queue, alive, seed : queue = toR' /\ alive = SAlive /\ seed = SSeed
    OBVIOUS
  <2>3. queue \in Written(toR, alive, seed) /\ \E k \in DOMAIN toR : IsPosted(toR[k])
    BY <1>1, <2>2
  <2>4. PICK k, b : WritesAt(toR, alive, seed, queue, k, b)
    BY <2>1, <2>3, WrittenAt
  <2>5. ASSUME NEW i \in 1..Len(queue)
        PROVE  \E n, j : Lies(fresh, ToRPer, RRead + i, n, j) /\ FitsR(queue[i], n, j)
    <3>1. PICK m : m = toR[i]
      OBVIOUS
    <3>2. PICK n, j : Lies(fresh, ToRPer, RRead + i, n, j) /\ FitsR(m, n, j)
      BY <1>2, <2>4, <3>1 DEF WritesAt, ToRInv
    <3>3. CASE i # k
      BY <2>4, <3>1, <3>2, <3>3 DEF WritesAt
    <3>4. CASE i = k
      <4>1. m.kind = "seed" /\ m.body = Unset /\ (m.from \in SAlive => b = SSeed)
        BY <2>2, <2>4, <3>1, <3>4 DEF WritesAt, IsPosted
      <4>2. j \in Nat
        BY <3>2, Pers DEF Lies
      <4>3. j = 0
        BY <3>2, <4>1, <4>2 DEF FitsR, Message
      <4>4. m = Posted(n)
        BY <3>2, <4>1, <4>3 DEF FitsR, FitsSeed
      <4>5. queue[i] = Carries(n, b) /\ m.from = n
        BY <2>4, <3>1, <3>4, <4>4 DEF WritesAt, Posted
      <4>6. fresh[n] => b = SSeed
        BY <1>2, <2>4, <3>2, <3>4, <4>1, <4>3, <4>5, LiveSeedS DEF WritesAt
      <4>7. <<b>> # Unset
        BY DEF Unset
      <4>8. FitsR(queue[i], n, j)
        BY <4>3, <4>5, <4>6, <4>7 DEF FitsR, FitsSeed, Carries
      <4> QED
        BY <3>2, <4>8
    <3> QED
      BY <3>3, <3>4
  <2>6. ASSUME NEW m, NEW n, NEW j, FitsR(m, n, j) PROVE FitsR(m, n, j)'
    BY <1>1, <1>3, <2>6 DEF FitsR, FitsSeed, SenderC, Posted
  <2>7. ASSUME NEW i \in 1..Len(toR')
        PROVE  \E n, j : Lies(fresh', ToRPer, RRead' + i, n, j) /\ FitsR(toR[i], n, j)'
    <3>1. PICK m, p : m = queue[i] /\ p = RRead + i
      OBVIOUS
    <3>2. PICK n, j : Lies(fresh, ToRPer, p, n, j) /\ FitsR(m, n, j)
      BY <2>2, <2>5, <2>7, <3>1
    <3>3. FitsR(m, n, j)'
      BY <2>6, <3>2
    <3>4. FitsR(toR[i], n, j)'
      BY <2>2, <3>1, <3>3
    <3> QED
      BY <1>1, <1>5, <3>1, <3>2, <3>4
  <2>8. SWritten' = RRead' + Len(toR')
    BY <1>2, <1>4, <1>5, <2>2, <2>4 DEF WritesAt, ToRInv
  <2> QED
    BY <2>7, <2>8 DEF ToRInv
<1>9. Links' /\ RPairs'
  BY <1>2, <1>3, <1>6, LinksFrame, RPairsFrame
<1> QED
  BY <1>1, <1>2, <1>4, <1>5, <1>7, <1>8, <1>9 DEF PartyInv, Between

LEMMA RecvSeedRAligned ==
  ASSUME InitInv, RecvSeedR
  PROVE  PartyInv'
<1> DEFINE h == Head(rWaiting)
<1>1. /\ rWaiting # <<>> /\ Arrived(toR) /\ rWaiting' = Tail(rWaiting) /\ toR' = Tail(toR)
      /\ Head(toR).kind = "seed" =>
            /\ rPhase' = rPhase
            /\ rTheirs' = IF h \in RAlive THEN Head(toR).body[1] ELSE rTheirs
      /\ UNCHANGED <<rBaseVars, sBaseVars, sInitVars, rInit, rStep, senderInputs,
                     rOt, rMsgs, toS, fresh, mHashingSeed>>
  BY DEF RecvSeedR
<1>2. /\ Aligned /\ BaseInv /\ RInv /\ SInv /\ RControl /\ SControl /\ RThreads /\ RProduct /\ RSeeds
      /\ ToRInv /\ ToSInv /\ Links /\ RPairs /\ rInit \in Nat \ {0} /\ RRead \in Nat
      /\ DOMAIN mHashingSeed = {"R", "S"}
  BY InitInvAligned DEF InitInv, PartyInv
<1>3. /\ UNCHANGED <<rMain, choices, rnd, cBuff, sendBuff, rAt, rIdx, rMessages>>
      /\ UNCHANGED <<sInit, sPhase, receiverInputs, secrets, sMessages, buff>>
  BY <1>1 DEF rBaseVars, sInitVars, sBaseVars
<1>4. /\ Progress(fresh, ToRPer, rInit, rPhase, RGot)
      /\ Waits(fresh, rInit, rPhase, rWaiting, RGot)
      /\ RGot = 0
  <2>1. RGot \in Nat /\ Waits(fresh, rInit, rPhase, rWaiting, RGot)
    BY <1>2, RProgress
  <2> QED
    BY <1>1, <1>2, <2>1, RProgress DEF Waits
<1>5. /\ Waits(fresh, rInit, rPhase, Tail(rWaiting), RGot)
      /\ ReadUpTo(fresh, ToRPer, rInit, rPhase, Tail(rWaiting), RGot) = RRead + 1
      /\ Lies(fresh, ToRPer, RRead + 1, h, 0)
      /\ Tail(rWaiting) = <<>> => h = LastBegun(rInit, rPhase)
  <2>1. ToRPer \in Nat /\ RRead = ReadUpTo(fresh, ToRPer, rInit, rPhase, rWaiting, RGot)
    BY Pers DEF RRead
  <2> QED
    BY <1>1, <1>4, <2>1, SeedTaken
<1> HIDE DEF h
<1>6. FitsR(Head(toR), h, 0)
  <2>1. 1 \in 1..Len(toR) /\ Head(toR) = toR[1]
    BY <1>1, <1>2 DEF BaseInv, UnderWay, Arrived
  <2>2. PICK n, j : Lies(fresh, ToRPer, RRead + 1, n, j) /\ FitsR(toR[1], n, j)
    BY <1>2, <2>1 DEF ToRInv
  <2>3. n = h /\ j = 0
    BY <1>5, <2>2, Pers, LiesUnique
  <2> QED
    BY <2>1, <2>2, <2>3
<1>7. Head(toR).kind = "seed" /\ (fresh[h] => Head(toR).body = <<SSeed>>)
  BY <1>1, <1>6 DEF FitsR, FitsSeed, Arrived
<1>8. rPhase' = rPhase /\ (h \in RAlive /\ fresh[h] => rTheirs' = SSeed)
  <2>1. rPhase' = rPhase
    BY <1>1, <1>7
  <2>2. h \in RAlive => rTheirs' = Head(toR).body[1]
    BY <1>1, <1>7 DEF h
  <2> QED
    BY <1>7, <2>1, <2>2
<1>9. RGot' = RGot /\ RPut' = RPut
  BY <1>1, <1>3, <1>8 DEF RGot, RPut, ToRPer, ToSPer
<1>10. /\ RRead' = RRead + 1 /\ RWritten' = RWritten
       /\ Waits(fresh, rInit, rPhase, rWaiting, RGot)'
  <2>1. RRead' = ReadUpTo(fresh, ToRPer, rInit, rPhase, Tail(rWaiting), RGot)
    BY <1>1, <1>8, <1>9 DEF RRead, ToRPer
  <2>2. RWritten' = RWritten
    BY <1>1, <1>8, <1>9 DEF RWritten, ToSPer
  <2> QED
    BY <1>1, <1>5, <1>8, <1>9, <2>1, <2>2
<1>11. RControl'
  BY <1>1, <1>2, <1>3, <1>8, <1>10 DEF RControl
<1>12. RProduct'
  BY <1>1, <1>2, <1>8, RProductFrame
<1>13. RSeeds'
  <2>1. ~ (fresh[rInit] /\ rPhase = "done")
    BY <1>4, Pers DEF RGot
  <2>2. ASSUME fresh[rInit], rPhase # "begin", Tail(rWaiting) = <<>> PROVE rTheirs' = SSeed
    <3>1. h = rInit
      BY <1>5, <2>2 DEF LastBegun
    <3>2. h \in RAlive
      BY <2>1, <2>2, <3>1 DEF RAlive
    <3> QED
      BY <1>8, <2>2, <3>1, <3>2
  <2> QED
    BY <1>1, <1>8, <2>1, <2>2 DEF RSeeds
<1>14. RThreads'
  BY <1>2, <1>3, RThreadsFrame
<1>15. SInv' /\ SRead' = SRead /\ SWritten' = SWritten
  BY <1>1, <1>2, SFrame
<1>16. Same' => Same
  BY <1>1, <1>3, <1>8, SameFrame
<1>17. ToRInv'
  BY <1>1, <1>2, <1>3, <1>10, <1>15, KeptRSame, ToRTakes DEF Arrived
<1>18. ToSInv'
  BY <1>1, <1>2, <1>3, <1>10, <1>15, KeptSSame, ToSStays
<1>19. Links' /\ RPairs'
  BY <1>1, <1>2, <1>3, <1>8, <1>16, LinksFrame, RPairsFrame
<1> QED
  BY <1>1, <1>2, <1>11, <1>12, <1>13, <1>14, <1>15, <1>17, <1>18, <1>19
     DEF PartyInv, RInv, Between

LEMMA RecvSeedSAligned ==
  ASSUME InitInv, RecvSeedS
  PROVE  PartyInv'
<1> DEFINE h == Head(sWaiting)
<1>1. /\ sWaiting # <<>> /\ Arrived(toS) /\ sWaiting' = Tail(sWaiting) /\ toS' = Tail(toS)
      /\ Head(toS).kind = "seed" =>
            /\ sPhase' = sPhase
            /\ sTheirs' = IF h \in SAlive THEN Head(toS).body[1] ELSE sTheirs
      /\ UNCHANGED <<rBaseVars, sBaseVars, rInitVars, sInit, sStep, receiverInputs,
                     receiverOutputs, sOt, mSSOtChoice, sMsgs, toR, fresh, mHashingSeed>>
  BY DEF RecvSeedS
<1>2. /\ Aligned /\ BaseInv /\ RInv /\ SInv /\ RControl /\ SControl
      /\ SThreads /\ SKeys /\ SProduct /\ SSeeds
      /\ ToRInv /\ ToSInv /\ Links /\ RPairs /\ sInit \in Nat \ {0} /\ SRead \in Nat
      /\ DOMAIN mHashingSeed = {"R", "S"}
  BY InitInvAligned DEF InitInv, PartyInv
<1>3. /\ UNCHANGED <<rInit, rPhase, rStep, cBuff, sendBuff, senderInputs, rOt>>
      /\ UNCHANGED <<sMain, secrets, buff, sIdx, sMessages>>
  BY <1>1 DEF rBaseVars, rInitVars, sBaseVars
<1>4. /\ Progress(fresh, ToSPer, sInit, sPhase, SGot)
      /\ Waits(fresh, sInit, sPhase, sWaiting, SGot)
      /\ SGot = 0
  <2>1. SGot \in Nat /\ Waits(fresh, sInit, sPhase, sWaiting, SGot)
    BY <1>2, SProgress
  <2> QED
    BY <1>1, <1>2, <2>1, SProgress DEF Waits
<1>5. /\ Waits(fresh, sInit, sPhase, Tail(sWaiting), SGot)
      /\ ReadUpTo(fresh, ToSPer, sInit, sPhase, Tail(sWaiting), SGot) = SRead + 1
      /\ Lies(fresh, ToSPer, SRead + 1, h, 0)
      /\ Tail(sWaiting) = <<>> => h = LastBegun(sInit, sPhase)
  <2>1. ToSPer \in Nat /\ SRead = ReadUpTo(fresh, ToSPer, sInit, sPhase, sWaiting, SGot)
    BY Pers DEF SRead
  <2> QED
    BY <1>1, <1>4, <2>1, SeedTaken
<1> HIDE DEF h
<1>6. FitsS(Head(toS), h, 0)
  <2>1. 1 \in 1..Len(toS) /\ Head(toS) = toS[1]
    BY <1>1, <1>2 DEF BaseInv, UnderWay, Arrived
  <2>2. PICK n, j : Lies(fresh, ToSPer, SRead + 1, n, j) /\ FitsS(toS[1], n, j)
    BY <1>2, <2>1 DEF ToSInv
  <2>3. n = h /\ j = 0
    BY <1>5, <2>2, Pers, LiesUnique
  <2> QED
    BY <2>1, <2>2, <2>3
<1>7. Head(toS).kind = "seed" /\ (fresh[h] => Head(toS).body = <<RSeed>>)
  BY <1>1, <1>6 DEF FitsS, FitsSeed, Arrived
<1>8. sPhase' = sPhase /\ (h \in SAlive /\ fresh[h] => sTheirs' = RSeed)
  <2>1. sPhase' = sPhase
    BY <1>1, <1>7
  <2>2. h \in SAlive => sTheirs' = Head(toS).body[1]
    BY <1>1, <1>7 DEF h
  <2> QED
    BY <1>7, <2>1, <2>2
<1>9. SGot' = SGot /\ SPut' = SPut
  BY <1>1, <1>3, <1>8 DEF SGot, SPut, ToRPer, ToSPer
<1>10. /\ SRead' = SRead + 1 /\ SWritten' = SWritten
       /\ Waits(fresh, sInit, sPhase, sWaiting, SGot)'
  <2>1. SRead' = ReadUpTo(fresh, ToSPer, sInit, sPhase, Tail(sWaiting), SGot)
    BY <1>1, <1>8, <1>9 DEF SRead, ToSPer
  <2>2. SWritten' = SWritten
    BY <1>1, <1>8, <1>9 DEF SWritten, ToRPer
  <2> QED
    BY <1>1, <1>5, <1>8, <1>9, <2>1, <2>2
<1>11. SControl'
  BY <1>1, <1>2, <1>3, <1>8, <1>10 DEF SControl
<1>12. SProduct' /\ SThreads' /\ SKeys'
  BY <1>1, <1>2, <1>3, <1>8, SProductFrame, SThreadsFrame, SKeysFrame
<1>13. SSeeds'
  <2>1. ~ (fresh[sInit] /\ sPhase = "done")
    BY <1>4, Pers DEF SGot
  <2>2. ASSUME fresh[sInit], sPhase # "begin", Tail(sWaiting) = <<>> PROVE sTheirs' = RSeed
    <3>1. h = sInit
      BY <1>5, <2>2 DEF LastBegun
    <3>2. h \in SAlive
      BY <2>1, <2>2, <3>1 DEF SAlive
    <3> QED
      BY <1>8, <2>2, <3>1, <3>2
  <2> QED
    BY <1>1, <1>8, <2>1, <2>2 DEF SSeeds
<1>15. RInv' /\ RRead' = RRead /\ RWritten' = RWritten
  BY <1>1, <1>2, RFrame
<1>16. Same' => Same
  BY <1>1, <1>3, <1>8, SameFrame
<1>17. ToSInv'
  BY <1>1, <1>2, <1>3, <1>10, <1>15, KeptSSame, ToSTakes DEF Arrived
<1>18. ToRInv'
  BY <1>1, <1>2, <1>3, <1>10, <1>15, KeptRSame, ToRStays
<1>19. Links' /\ RPairs'
  BY <1>1, <1>2, <1>3, <1>8, <1>16, LinksFrame, RPairsFrame
<1> QED
  BY <1>1, <1>2, <1>11, <1>12, <1>13, <1>15, <1>17, <1>18, <1>19
     DEF PartyInv, SInv, Between

-----------------------------------------------------------------------------
(* The steps of S.                                                         *)

\* S's place, when its step is within an init.
LEMMA SGoes ==
  ASSUME InitInv, sPhase # "begin", sPhase' # "begin",
         UNCHANGED <<sInit, sWaiting, fresh>>, SGot' \in Nat, SPut' \in Nat,
         SGot' # SGot => sWaiting = <<>>,
         SGot' > 0 => sWaiting = <<>>
  PROVE  /\ SRead' = SRead + SGot' - SGot
         /\ SWritten' = SWritten + SPut' - SPut
         /\ SWritten \in Nat
         /\ Waits(fresh, sInit, sPhase, sWaiting, SGot)'
<1>1. SControl /\ sInit \in Nat \ {0} /\ SRead \in Nat
  BY InitInvAligned
<1>2. SGot \in Nat /\ SPut \in Nat /\ Waits(fresh, sInit, sPhase, sWaiting, SGot)
  BY <1>1, SProgress
<1>3. PICK p, g, w : p = sPhase' /\ g = SGot' /\ w = SPut'
  OBVIOUS
<1>4. /\ SRead' = ReadUpTo(fresh, ToSPer, sInit, p, sWaiting, g)
      /\ SWritten' = UpTo(fresh, ToRPer, sInit, p, w)
  BY <1>3 DEF SRead, SWritten, ToSPer, ToRPer
<1>5. ReadUpTo(fresh, ToSPer, sInit, p, sWaiting, g) = SRead + g - SGot
  BY <1>1, <1>2, <1>3, Pers, GoesRead DEF SRead
<1>6. UpTo(fresh, ToRPer, sInit, p, w) = SWritten + w - SPut /\ SWritten \in Nat
  <2>1. ToRPer \in Nat /\ w \in Nat /\ p # "begin"
    BY <1>3, Pers
  <2> QED
    BY <1>1, <1>2, <2>1, GoesUp DEF SWritten
<1>7. Waits(fresh, sInit, p, sWaiting, g)
  BY <1>1, <1>2, <1>3, GoesWaits
<1> QED
  BY <1>3, <1>4, <1>5, <1>6, <1>7

\* Where R is in the init in which S begins its base transfers, or is at them.
LEMMA Early ==
  ASSUME InitInv, fresh[sInit], Holds(fresh, rInit, rPhase, sInit)
  PROVE  /\ sPhase = "base" => rPhase = "baseOts" /\ cBuff = Unset /\ ~ rOt.has
         /\ sPhase = "baseOts" =>
              ~ rOt.has /\ rPhase # "check" /\ (rPhase = "iknp" => rStep = 0)
<1>1. Aligned /\ BaseInv /\ RControl /\ rInit \in Nat \ {0} /\ sInit \in Nat \ {0}
  BY InitInvAligned
<1>2. /\ rPhase \in {"begin", "base", "baseOts", "iknp", "check", "extend", "done"}
      /\ rPhase = "iknp" => rStep \in Nat
      /\ rOt.has <=> HasOt(rInit, rPhase)
  BY <1>1 DEF RControl
<1>3. sInit < rInit \/ (sInit = rInit /\ rPhase \notin {"begin", "base"})
  BY <1>1 DEF Holds
<1>4. ASSUME sPhase = "base" PROVE rInit = sInit /\ rPhase = "baseOts" /\ cBuff = Unset
  BY <1>1, <1>2, <1>3, <1>4, RGotC
<1>5. ASSUME sPhase = "baseOts"
      PROVE  rInit = sInit /\ rPhase \in {"baseOts", "iknp"} /\ (rPhase = "iknp" => rStep = 0)
  <2>1. ~ (sInit < rInit \/ (sInit = rInit /\ rPhase \in {"check", "extend", "done"}))
    BY <1>1, <1>5, RFinished
  <2>2. ~ (sInit = rInit /\ rPhase = "iknp" /\ rStep > 0)
    BY <1>1, <1>5, RGotU
  <2> QED
    BY <1>2, <1>3, <2>1, <2>2
<1> QED
  BY <1>2, <1>4, <1>5 DEF HasOt

LEMMA RecvPK0sAligned ==
  ASSUME InitInv, RecvPK0s, sWaiting = <<>>,
         UNCHANGED <<rInitVars, sInitVars, fresh, mHashingSeed>>
  PROVE  PartyInv'
<1>1. /\ sMain = "started" /\ buff = Unset /\ Arrived(toS) /\ toS' = Tail(toS)
      /\ UNCHANGED <<rBaseVars, secrets, sIdx, sMessages, toR>>
      /\ Head(toS).kind = "PK0" => buff' = Head(toS).body /\ sMain' = sMain
  BY DEF RecvPK0s
<1>2. /\ Aligned /\ BaseInv /\ RInv /\ SInv /\ RControl /\ SControl
      /\ SThreads /\ SKeys /\ SProduct /\ SSeeds
      /\ ToRInv /\ ToSInv /\ Links /\ RPairs /\ sInit \in Nat \ {0} /\ SRead \in Nat
      /\ DOMAIN mHashingSeed = {"R", "S"}
  BY InitInvAligned DEF InitInv, PartyInv
<1>3. /\ UNCHANGED <<rInit, rPhase, rStep, senderInputs, rOt, cBuff, sendBuff>>
      /\ UNCHANGED <<sInit, sPhase, sStep, sTheirs, sWaiting, receiverInputs,
                     receiverOutputs, sOt, mSSOtChoice, sMsgs>>
  BY <1>1 DEF rInitVars, rBaseVars, sInitVars
<1>4. sPhase = "baseOts" /\ fresh[sInit] /\ SGot = 0
  BY <1>1, <1>2 DEF SControl, SGot
<1>5. FitsS(Head(toS), sInit, 1)
  BY <1>1, <1>2, <1>4, Pers, NextToS DEF Arrived
<1>6. buff' = sendBuff /\ sMain' = "started" /\ buff' # Unset
  <2>1. Head(toS) = Message("PK0", sendBuff)
    BY <1>5 DEF FitsS
  <2>2. Head(toS).body # Unset
    BY <1>1 DEF Arrived
  <2> QED
    BY <1>1, <2>1, <2>2 DEF Message
<1>7. SGot' = 1 /\ SPut' = 1 /\ SPut = 1
  BY <1>1, <1>3, <1>4, <1>6 DEF SGot, SPut
<1>8. /\ SRead' = SRead + 1 /\ SWritten' = SWritten
      /\ Waits(fresh, sInit, sPhase, sWaiting, SGot)'
  BY <1>2, <1>3, <1>4, <1>7, SGoes
<1>9. SControl'
  BY <1>1, <1>2, <1>3, <1>6, <1>8 DEF SControl
<1>10. SProduct' /\ SSeeds' /\ SKeys'
  BY <1>1, <1>2, <1>3, SProductFrame, SSeedsFrame, SKeysFrame
<1>11. SThreads'
  <2>1. \A t \in Thread : sIdx[t] = 0
    BY <1>1, <1>2 DEF SThreads
  <2> QED
    BY <1>1, <1>2, <1>3, <1>6, <2>1 DEF SThreads
<1>12. RInv' /\ RRead' = RRead /\ RWritten' = RWritten
  BY <1>1, <1>2, RFrame
<1>13. Same' => Same
  BY <1>3, SameFrame
<1>14. ToSInv'
  BY <1>1, <1>2, <1>3, <1>8, <1>12, KeptSSame, ToSTakes DEF Arrived
<1>15. ToRInv'
  BY <1>1, <1>2, <1>3, <1>8, <1>12, KeptRSame, ToRStays
<1>16. Links'
  BY <1>1, <1>2, <1>3, <1>6, <1>13 DEF Links, SenderC
<1>17. RPairs'
  BY <1>1, <1>2, <1>3, <1>13, RPairsFrame
<1> QED
  BY <1>2, <1>9, <1>10, <1>11, <1>12, <1>14, <1>15, <1>16, <1>17
     DEF PartyInv, SInv, Between

LEMMA EncryptAligned ==
  ASSUME InitInv, NEW t \in Thread, Encrypt(t),
         UNCHANGED <<rInitVars, sInitVars, fresh, mHashingSeed>>
  PROVE  PartyInv'
<1>1. /\ sMain = "started" /\ buff # Unset /\ sIdx[t] < NumOt
      /\ sMessages' = [sMessages EXCEPT ![sIdx[t]] = Pair(sIdx[t])]
      /\ sIdx' = [sIdx EXCEPT ![t] = @ + 1]
      /\ UNCHANGED <<rBaseVars, sMain, secrets, buff, toR, toS>>
  BY DEF Encrypt
<1>2. /\ Aligned /\ BaseInv /\ RInv /\ SInv /\ RControl /\ SControl
      /\ SThreads /\ SKeys /\ SProduct /\ SSeeds
      /\ ToRInv /\ ToSInv /\ Links /\ RPairs /\ sInit \in Nat \ {0}
      /\ DOMAIN mHashingSeed = {"R", "S"}
  BY InitInvAligned DEF InitInv, PartyInv
<1>3. /\ UNCHANGED <<rInit, rPhase, rStep, senderInputs, rOt, cBuff, sendBuff>>
      /\ UNCHANGED <<sInit, sPhase, sStep, sTheirs, sWaiting, receiverInputs,
                     receiverOutputs, sOt, mSSOtChoice, sMsgs>>
  BY <1>1 DEF rInitVars, rBaseVars, sInitVars
<1>4. sPhase = "baseOts" /\ fresh[sInit] /\ ~ sOt.has
  BY <1>1, <1>2 DEF SControl, HasOt
<1>5. SControl' /\ SRead' = SRead /\ SWritten' = SWritten
  BY <1>1, <1>2, <1>3, SControlFrame, SPlaceFrame
<1>6. SProduct' /\ SSeeds' /\ SKeys'
  <2>1. SKeys'
    BY <1>3, <1>4 DEF SKeys
  <2> QED
    BY <1>2, <1>3, <2>1, SProductFrame, SSeedsFrame
<1>7. SThreads'
  <2>1. PICK k : k = sIdx[t]
    OBVIOUS
  <2>2. k \in 0..NumOt - 1 /\ k + 1 \in 0..NumOt /\ k \in Ot /\ NumOt \in Nat
    BY <1>1, <1>2, <2>1, CountAssumption DEF SThreads, Ot
  <2>3. /\ DOMAIN sMessages' = Ot /\ sMessages'[k] = Pair(k)
        /\ \A i \in Ot : i # k => sMessages'[i] = sMessages[i]
    <3>1. DOMAIN sMessages = Ot
      BY <1>2 DEF SThreads
    <3>2. sMessages' = [sMessages EXCEPT ![k] = Pair(k)]
      BY <1>1, <2>1
    <3> QED
      BY <2>2, <3>1, <3>2
  <2>4. /\ sIdx' \in [Thread -> 0..NumOt] /\ sIdx'[t] = k + 1
        /\ \A s \in Thread : s # t => sIdx'[s] = sIdx[s]
    BY <1>1, <1>2, <2>1, <2>2 DEF SThreads
  <2>5. \A i : Pair(i)' = Pair(i)
    BY <1>1 DEF Pair
  <2>6. ASSUME NEW s \in Thread, NEW i \in 0..sIdx'[s] - 1 PROVE sMessages'[i] = Pair(i)
    <3>1. sIdx[s] \in 0..NumOt /\ sIdx'[s] \in 0..NumOt
      BY <1>2, <2>4 DEF SThreads
    <3>2. i \in Ot
      BY <2>2, <2>6, <3>1 DEF Ot
    <3>3. i # k => i \in 0..sIdx[s] - 1
      BY <2>1, <2>2, <2>4, <2>6, <3>1
    <3> QED
      BY <1>2, <2>3, <3>2, <3>3 DEF SThreads
  <2>7. receiverInputs' \in Inputs /\ secrets' \in SecretSets
    BY <1>1, <1>2, <1>3 DEF SThreads
  <2> QED
    BY <1>1, <2>3, <2>4, <2>5, <2>6, <2>7 DEF SThreads
<1>8. RInv' /\ RRead' = RRead /\ RWritten' = RWritten
  BY <1>1, <1>2, RFrame
<1>9. Same' => Same
  BY <1>3, SameFrame
<1>10. ToRInv'
  <2>1. \A m, n, j : ~ (j > 1) /\ FitsR(m, n, j) => FitsR(m, n, j)'
    BY <1>1, <1>3 DEF FitsR, FitsSeed, SenderC, Posted
  <2>2. ASSUME NEW i \in 1..Len(toR), NEW n, NEW j, Lies(fresh, ToRPer, RRead + i, n, j)
        PROVE  ~ (j > 1)
    <3>1. j \in Nat
      BY <2>2, Pers DEF Lies
    <3> QED
      BY <1>2, <1>4, <2>2, <3>1, InToR
  <2>3. KeptR
    BY <2>1, <2>2 DEF KeptR
  <2> QED
    BY <1>1, <1>2, <1>5, <1>8, <2>3, ToRStays
<1>11. ToSInv'
  <2>1. \A m, n, j : ~ (j > 1) /\ FitsS(m, n, j) => FitsS(m, n, j)'
    BY <1>1, <1>3 DEF FitsS, FitsSeed, Posted
  <2>2. ASSUME NEW i \in 1..Len(toS), NEW n, NEW j, Lies(fresh, ToSPer, SRead + i, n, j)
        PROVE  ~ (j > 1)
    <3>1. j \in Nat
      BY <2>2, Pers DEF Lies
    <3> QED
      BY <1>2, <1>4, <2>2, <3>1, InToS
  <2>3. KeptS
    BY <2>1, <2>2 DEF KeptS
  <2> QED
    BY <1>1, <1>2, <1>5, <1>8, <2>3, ToSStays
<1>12. Links'
  BY <1>1, <1>2, <1>3, <1>9, LinksFrame
<1>13. RPairs'
  <2>1. Same => ~ rOt.has /\ rPhase # "check" /\ (rPhase = "iknp" => rStep = 0)
    <3>1. ASSUME NEW n, Holds(fresh, rInit, rPhase, n), Holds(fresh, sInit, sPhase, n)
          PROVE  n = sInit
      BY <1>2, <1>4, <3>1, HoldsOn
    <3> QED
      BY <1>4, <3>1, Early DEF Same
  <2> QED
    BY <1>2, <1>3, <1>9, <2>1 DEF RPairs
<1> QED
  BY <1>2, <1>5, <1>6, <1>7, <1>8, <1>10, <1>11, <1>12, <1>13
     DEF PartyInv, SInv, Between

LEMMA SJoinAligned ==
  ASSUME InitInv, SJoin, UNCHANGED <<rInitVars, sInitVars, fresh, mHashingSeed>>
  PROVE  PartyInv'
<1>1. /\ sMain = "started" /\ sMain' = "done" /\ \A t \in Thread : SHashed(t)
      /\ UNCHANGED <<rBaseVars, secrets, buff, sIdx, sMessages, toR, toS>>
  BY DEF SJoin
<1>2. /\ Aligned /\ BaseInv /\ RInv /\ SInv /\ RControl /\ SControl
      /\ SThreads /\ SKeys /\ SProduct /\ SSeeds
      /\ ToRInv /\ ToSInv /\ Links /\ RPairs /\ sInit \in Nat \ {0} /\ SRead \in Nat
      /\ DOMAIN mHashingSeed = {"R", "S"}
  BY InitInvAligned DEF InitInv, PartyInv
<1>3. /\ UNCHANGED <<rInit, rPhase, rStep, senderInputs, rOt, cBuff, sendBuff>>
      /\ UNCHANGED <<sInit, sPhase, sStep, sTheirs, sWaiting, receiverInputs,
                     receiverOutputs, sOt, mSSOtChoice, sMsgs>>
  BY <1>1 DEF rInitVars, rBaseVars, sInitVars
<1>4. sPhase = "baseOts" /\ buff # Unset
  <2>1. 0 \in Thread /\ NumOt # 0
    BY CountAssumption DEF Thread
  <2>2. sIdx[0] = NumOt
    BY <1>1, <2>1 DEF SHashed
  <2> QED
    BY <1>1, <1>2, <2>1, <2>2 DEF SThreads, SControl
<1>5. SGot' = SGot /\ SPut' = SPut
  BY <1>1, <1>3, <1>4 DEF SGot, SPut
<1>6. /\ SRead' = SRead /\ SWritten' = SWritten
      /\ Waits(fresh, sInit, sPhase, sWaiting, SGot)'
  BY <1>2, <1>3, <1>5 DEF SRead, SWritten, SControl, ToRPer, ToSPer
<1>7. SControl'
  BY <1>1, <1>2, <1>3, <1>4, <1>6 DEF SControl
<1>8. SProduct' /\ SSeeds' /\ SKeys'
  BY <1>1, <1>2, <1>3, SProductFrame, SSeedsFrame, SKeysFrame
<1>9. SThreads'
  <2>1. \A i : Pair(i)' = Pair(i)
    BY <1>1 DEF Pair
  <2> QED
    BY <1>1, <1>2, <1>3, <2>1 DEF SThreads, SHashed
<1>10. RInv' /\ RRead' = RRead /\ RWritten' = RWritten
  BY <1>1, <1>2, RFrame
<1>11. Same' => Same
  BY <1>3, SameFrame
<1>12. ToRInv'
  BY <1>1, <1>2, <1>3, <1>6, <1>10, KeptRSame, ToRStays
<1>13. ToSInv'
  BY <1>1, <1>2, <1>3, <1>6, <1>10, KeptSSame, ToSStays
<1>14. Links' /\ RPairs'
  BY <1>1, <1>2, <1>3, <1>11, LinksFrame, RPairsFrame
<1> QED
  BY <1>2, <1>7, <1>8, <1>9, <1>10, <1>12, <1>13, <1>14
     DEF PartyInv, SInv, Between

LEMMA SBeginAligned ==
  ASSUME InitInv, SBegin
  PROVE  PartyInv'
<1>1. /\ sPhase = "begin"
      /\ toR' = Append(toR, Posted(sInit)) /\ sWaiting' = Append(sWaiting, sInit)
      /\ sOt' = IF fresh[sInit] THEN NoBase ELSE sOt
      /\ sPhase' = IF sOt'.has THEN "extend" ELSE "base"
      /\ mHashingSeed' = [mHashingSeed EXCEPT !["S"] = {}]
      /\ UNCHANGED <<rBaseVars, sBaseVars, rInitVars, sInit, sStep, receiverInputs,
                     receiverOutputs, toS, fresh>>
  BY DEF SBegin
<1>2. /\ Aligned /\ BaseInv /\ RInv /\ SInv /\ RControl /\ SControl
      /\ SThreads /\ SKeys /\ SProduct /\ SSeeds
      /\ ToRInv /\ ToSInv /\ Links /\ RPairs /\ sInit \in Nat \ {0} /\ SRead \in Nat
      /\ DOMAIN mHashingSeed = {"R", "S"}
  BY InitInvAligned DEF InitInv, PartyInv
<1>3. /\ UNCHANGED <<rInit, rPhase, rStep, senderInputs, rOt, cBuff, sendBuff>>
      /\ UNCHANGED <<sMain, secrets, buff, sIdx, sMessages>>
  BY <1>1 DEF rInitVars, rBaseVars, sBaseVars
<1>4. \/ fresh[sInit] /\ sOt' = NoBase /\ sPhase' = "base" /\ ~ sOt'.has
      \/ ~ fresh[sInit] /\ sInit > 1 /\ sOt' = sOt /\ sPhase' = "extend" /\ sOt'.has
  <2>1. CASE fresh[sInit]
    BY <1>1, <2>1 DEF NoBase
  <2>2. CASE ~ fresh[sInit]
    BY <1>1, <1>2, <2>2 DEF SControl, HasOt
  <2> QED
    BY <2>1, <2>2
<1>5. SGot = 0 /\ SGot' = 0 /\ SPut = 0 /\ SPut' = 0
  BY <1>1, <1>4 DEF SGot, SPut
<1>6. PICK n, p : n = sInit /\ p = sPhase'
  OBVIOUS
<1>7. /\ SRead' = SRead /\ SWritten' = SWritten + 1
      /\ Waits(fresh, sInit, sPhase, sWaiting, SGot)'
      /\ Lies(fresh, ToRPer, SWritten + 1, n, 0)
  <2>1. Waits(fresh, sInit, "begin", sWaiting, 0) /\ p # "begin"
    BY <1>1, <1>2, <1>4, <1>5, <1>6 DEF SControl
  <2>2. /\ SRead' = ReadUpTo(fresh, ToSPer, sInit, p, Append(sWaiting, sInit), 0)
        /\ SWritten' = UpTo(fresh, ToRPer, sInit, p, 0)
        /\ SRead = ReadUpTo(fresh, ToSPer, sInit, "begin", sWaiting, 0)
        /\ SWritten = UpTo(fresh, ToRPer, sInit, "begin", 0)
    BY <1>1, <1>5, <1>6 DEF SRead, SWritten, ToSPer, ToRPer
  <2>3. ToSPer \in Nat /\ ToRPer \in Nat
    BY Pers
  <2>4. /\ Waits(fresh, sInit, p, Append(sWaiting, sInit), 0)
        /\ ReadUpTo(fresh, ToSPer, sInit, p, Append(sWaiting, sInit), 0)
             = ReadUpTo(fresh, ToSPer, sInit, "begin", sWaiting, 0)
    BY <1>2, <2>1, <2>3, Begins
  <2>5. /\ UpTo(fresh, ToRPer, sInit, p, 0) = UpTo(fresh, ToRPer, sInit, "begin", 0) + 1
        /\ Lies(fresh, ToRPer, UpTo(fresh, ToRPer, sInit, "begin", 0) + 1, sInit, 0)
    BY <1>2, <2>1, <2>3, BeginsUp
  <2>6. SRead' = SRead /\ SWritten' = SWritten + 1
    BY <2>2, <2>4, <2>5
  <2>7. Lies(fresh, ToRPer, SWritten + 1, n, 0)
    BY <1>6, <2>2, <2>5
  <2>8. Waits(fresh, sInit, sPhase, sWaiting, SGot)'
    BY <1>1, <1>5, <1>6, <2>4
  <2> QED
    BY <2>6, <2>7, <2>8
<1>8. SControl'
  <2>1. sOt'.has <=> HasOt(sInit, sPhase')
    BY <1>4 DEF HasOt
  <2>2. \/ sOt' = NoBase
        \/ sOt' = [has |-> TRUE, key |-> sOt'.key, choice |-> sOt'.choice, used |-> sOt'.used]
    BY <1>2, <1>4 DEF SControl
  <2>3. sMain' = "idle" <=> sInit' = 1 /\ sPhase' \in {"begin", "base"}
    BY <1>1, <1>2, <1>3, <1>4 DEF SControl
  <2> QED
    BY <1>1, <1>2, <1>3, <1>4, <1>7, <2>1, <2>2, <2>3 DEF SControl
<1>9. SProduct'
  <2>1. CASE fresh[sInit]
    BY <1>4, <2>1 DEF SProduct
  <2>2. CASE ~ fresh[sInit]
    <3>1. PICK k \in Nat : /\ Holds(fresh, sInit, "begin", k)
                           /\ sOt.used = Round * (sInit - k + IF sPhase = "done" THEN 1 ELSE 0)
      BY <1>1, <1>2, <1>4, <2>2 DEF SProduct, Used
    <3>2. Holds(fresh, sInit, "extend", k)
      BY <1>2, <2>2, <3>1, HoldsOn
    <3>3. sOt.used = Round * (sInit - k + IF "extend" = "done" THEN 1 ELSE 0)
      BY <1>1, <3>1
    <3>4. Used(fresh, sInit, "extend", sOt.used)
      BY <3>2, <3>3 DEF Used
    <3> QED
      BY <1>1, <1>4, <2>2, <3>4 DEF SProduct
  <2> QED
    BY <2>1, <2>2
<1>10. SSeeds'
  <2>1. sWaiting' # <<>>
    BY <1>1, <1>2 DEF SControl, Waits
  <2> QED
    BY <1>1, <1>4, <2>1 DEF SSeeds
<1>11. SThreads' /\ SKeys'
  <2>1. SKeys'
    BY <1>1, <1>2, <1>3, <1>4 DEF SKeys, NoBase
  <2> QED
    BY <1>1, <1>2, <1>3, <2>1, SThreadsFrame
<1>12. /\ RInv' /\ RRead' = RRead /\ RWritten' = RWritten /\ DOMAIN mHashingSeed' = {"R", "S"}
  BY <1>1, <1>2, SeedOf, RFrame
<1>13. Same' => Same
  <2>1. ASSUME NEW k, Holds(fresh, sInit, p, k) PROVE Holds(fresh, sInit, sPhase, k)
    BY <1>1, <1>2, <1>4, <1>6, <2>1, HoldsOn
  <2> QED
    BY <1>1, <1>3, <1>6, <2>1 DEF Same
<1>14. ToSInv'
  BY <1>1, <1>2, <1>3, <1>7, <1>12, KeptSSame, ToSStays
<1>15. ToRInv'
  <2>1. PICK m : m = Posted(n)
    OBVIOUS
  <2>2. FitsR(m, n, 0)'
    BY <2>1 DEF FitsR, FitsSeed, Posted
  <2>3. KeptR
    BY <1>1, <1>3, KeptRSame
  <2>4. toR' = Append(toR, m) /\ fresh' = fresh /\ RRead \in Nat
    BY <1>1, <1>6, <2>1, InitInvAligned
  <2> QED
    BY <1>2, <1>7, <1>12, <2>2, <2>3, <2>4, ToRGivesOne
<1>16. Links' /\ RPairs'
  BY <1>1, <1>2, <1>3, <1>13, LinksFrame, RPairsFrame
<1> QED
  BY <1>2, <1>8, <1>9, <1>10, <1>11, <1>12, <1>14, <1>15, <1>16
     DEF PartyInv, SInv, Between

LEMMA SBaseAligned ==
  ASSUME InitInv, SBase
  PROVE  PartyInv'
<1>1. /\ sPhase = "base" /\ sPhase' = "baseOts" /\ receiverInputs' \in Inputs
      /\ UNCHANGED <<rBaseVars, rInitVars, sInit, sStep, sTheirs, sWaiting,
                     receiverOutputs, sOt, mSSOtChoice, sMsgs, toS, fresh, mHashingSeed>>
  BY DEF SBase
<1>2. /\ sMain' = "started" /\ secrets' \in SecretSets /\ buff' = Unset
      /\ toR' = Append(toR, Message("C", SenderC'))
      /\ sIdx' = [t \in Thread |-> 0] /\ sMessages' = [i \in Ot |-> <<Unset, Unset>>]
  BY DEF SBase, CallSender, NoPairs, SenderC
<1>3. /\ Aligned /\ BaseInv /\ RInv /\ SInv /\ RControl /\ SControl
      /\ SThreads /\ SKeys /\ SProduct /\ SSeeds
      /\ ToRInv /\ ToSInv /\ Links /\ RPairs /\ sInit \in Nat \ {0} /\ SRead \in Nat /\ RRead \in Nat
      /\ DOMAIN mHashingSeed = {"R", "S"}
  BY InitInvAligned DEF InitInv, PartyInv
<1>4. UNCHANGED <<rInit, rPhase, rStep, senderInputs, rOt, cBuff, sendBuff>>
  BY <1>1 DEF rInitVars, rBaseVars
<1>5. fresh[sInit] /\ ~ sOt.has
  BY <1>1, <1>3 DEF SControl, HasOt
<1>6. SGot = 0 /\ SGot' = 0 /\ SPut = 0 /\ SPut' = 1
  BY <1>1, <1>2 DEF SGot, SPut
<1>7. /\ SRead' = SRead /\ SWritten' = SWritten + 1
      /\ Waits(fresh, sInit, sPhase, sWaiting, SGot)'
  BY <1>1, <1>3, <1>6, SGoes
<1>8. SControl'
  BY <1>1, <1>2, <1>3, <1>5, <1>7 DEF SControl, HasOt
<1>9. SProduct' /\ SSeeds' /\ SKeys'
  <2>1. SProduct' /\ SKeys'
    BY <1>1, <1>5 DEF SProduct, SKeys
  <2>2. SSeeds'
    BY <1>1, <1>3 DEF SSeeds
  <2> QED
    BY <2>1, <2>2
<1>10. SThreads'
  <2>1. \A t \in Thread : sIdx'[t] = 0
    BY <1>2
  <2>2. sIdx' \in [Thread -> 0..NumOt]
    BY <1>2, CountAssumption
  <2> QED
    BY <1>1, <1>2, <2>1, <2>2 DEF SThreads
<1>11. RInv' /\ RRead' = RRead /\ RWritten' = RWritten
  BY <1>1, <1>3, RFrame
<1>12. KeptR
  <2>1. \A m, n, j : j = 0 /\ FitsR(m, n, j) => FitsR(m, n, j)'
    BY <1>1 DEF FitsR, FitsSeed, Posted
  <2>2. ASSUME NEW i \in 1..Len(toR), NEW n, NEW j, Lies(fresh, ToRPer, RRead + i, n, j)
        PROVE  j = 0
    <3>1. j \in Nat
      BY <2>2, Pers DEF Lies
    <3>2. ~ (j > 0)
      BY <1>1, <1>3, <2>2, InToR
    <3> QED
      BY <3>1, <3>2
  <2> QED
    BY <2>1, <2>2 DEF KeptR
<1>13. ToRInv'
  <2>1. PICK m, n : m = Message("C", SenderC') /\ n = sInit
    OBVIOUS
  <2>2. FitsR(m, n, 1)'
    BY <2>1 DEF FitsR, Message, SenderC
  <2>3. Lies(fresh, ToRPer, SWritten + 1, n, 1)
    <3>1. ToRPer \in Nat /\ 1 \in 1..ToRPer /\ SPut \in Nat /\ SPut + 1 = 1
      BY <1>6, Pers
    <3>2. SWritten = UpTo(fresh, ToRPer, sInit, sPhase, SPut)
      BY DEF SWritten
    <3>3. PICK p : p = "baseOts"
      OBVIOUS
    <3>4. Lies(fresh, ToRPer, SWritten + 1, sInit, 1)
      BY <1>1, <1>3, <1>5, <3>1, <3>2, GoesLies
    <3> QED
      BY <2>1, <3>4
  <2>4. toR' = Append(toR, m) /\ fresh' = fresh
    BY <1>1, <1>2, <2>1
  <2> QED
    BY <1>3, <1>7, <1>11, <1>12, <2>2, <2>3, <2>4, ToRGivesOne
<1>14. ToSInv'
  <2>1. \A m, n, j : ~ (j > 1) /\ FitsS(m, n, j) => FitsS(m, n, j)'
    BY <1>1, <1>4 DEF FitsS, FitsSeed, Posted
  <2>2. ASSUME NEW i \in 1..Len(toS), NEW n, NEW j, Lies(fresh, ToSPer, SRead + i, n, j)
        PROVE  ~ (j > 1)
    <3>1. j \in Nat
      BY <2>2, Pers DEF Lies
    <3>2. ASSUME j > 1 PROVE sPhase = "check"
      <4>1. Aligned /\ BaseInv /\ j > 0
        BY <1>3, <3>1, <3>2
      <4> QED
        BY <2>2, <3>2, <4>1, InToS
    <3> QED
      BY <1>1, <3>2
  <2>3. KeptS
    BY <2>1, <2>2 DEF KeptS
  <2> QED
    BY <1>1, <1>3, <1>7, <1>11, <2>3, ToSStays
<1>15. Same' => rPhase = "baseOts" /\ cBuff = Unset /\ ~ rOt.has
  <2>1. ASSUME NEW n, Holds(fresh, rInit, rPhase, n), Holds(fresh, sInit, "baseOts", n)
        PROVE  n = sInit
    BY <1>3, <1>5, <2>1, HoldsOn
  <2>2. ASSUME NEW n, Holds(fresh, rInit, rPhase, n), Holds(fresh, sInit, "baseOts", n)
        PROVE  rPhase = "baseOts" /\ cBuff = Unset /\ ~ rOt.has
    BY <1>1, <1>5, <2>1, <2>2, Early
  <2> QED
    BY <1>1, <1>4, <2>2 DEF Same
<1>16. Links' /\ RPairs'
  <2>1. Links'
    BY <1>2, <1>4, <1>15 DEF Links
  <2>2. RPairs'
    BY <1>3, <1>4, <1>15 DEF RPairs
  <2> QED
    BY <2>1, <2>2
<1> QED
  BY <1>1, <1>3, <1>8, <1>9, <1>10, <1>11, <1>13, <1>14, <1>16
     DEF PartyInv, SInv, Between

LEMMA SBaseDoneAligned ==
  ASSUME InitInv, SBaseDone
  PROVE  PartyInv'
<1>1. /\ sPhase = "baseOts" /\ sMain = "done" /\ sPhase' = "iknp" /\ sStep' = 0
      /\ receiverOutputs' = [blk \in Blk |-> Unset]
      /\ UNCHANGED <<rBaseVars, sBaseVars, rInitVars, sInit, sTheirs, sWaiting,
                     receiverInputs, sOt, mSSOtChoice, sMsgs, toR, toS, fresh, mHashingSeed>>
  BY DEF SBaseDone
<1>2. /\ Aligned /\ BaseInv /\ RInv /\ SInv /\ RControl /\ SControl
      /\ SThreads /\ SKeys /\ SProduct /\ SSeeds
      /\ ToRInv /\ ToSInv /\ Links /\ RPairs /\ sInit \in Nat \ {0} /\ SRead \in Nat
      /\ DOMAIN mHashingSeed = {"R", "S"}
  BY InitInvAligned DEF InitInv, PartyInv
<1>3. /\ UNCHANGED <<rInit, rPhase, rStep, senderInputs, rOt, cBuff, sendBuff>>
      /\ UNCHANGED <<sMain, secrets, buff, sIdx, sMessages>>
  BY <1>1 DEF rInitVars, rBaseVars, sBaseVars
<1>4. fresh[sInit] /\ ~ sOt.has /\ buff # Unset
  BY <1>1, <1>2 DEF SControl, HasOt
<1>5. SGot = 1 /\ SGot' = 1 /\ SPut = 1 /\ SPut' = 1
  BY <1>1, <1>3, <1>4 DEF SGot, SPut
<1>6. /\ SRead' = SRead /\ SWritten' = SWritten
      /\ Waits(fresh, sInit, sPhase, sWaiting, SGot)'
  <2>1. sWaiting = <<>>
    BY <1>2, <1>5 DEF SControl, Waits
  <2> QED
    BY <1>1, <1>2, <1>5, <2>1, SGoes
<1>7. SControl'
  <2>1. 0 \in 0..NumBlk - 1
    BY InitAssumption
  <2> QED
    BY <1>1, <1>2, <1>3, <1>4, <1>6, <2>1 DEF SControl, HasOt
<1>8. SProduct' /\ SSeeds' /\ SKeys'
  <2>1. SProduct' /\ SKeys'
    BY <1>1, <1>4 DEF SProduct, SKeys
  <2>2. SSeeds'
    BY <1>1, <1>2 DEF SSeeds
  <2> QED
    BY <2>1, <2>2
<1>9. SThreads'
  BY <1>1, <1>2, <1>3, SThreadsFrame
<1>10. RInv' /\ RRead' = RRead /\ RWritten' = RWritten
  BY <1>1, <1>2, RFrame
<1>11. Same' => Same
  <2>1. ASSUME NEW k, Holds(fresh, sInit, "iknp", k) PROVE Holds(fresh, sInit, sPhase, k)
    BY <1>1, <1>2, <2>1, HoldsOn
  <2> QED
    BY <1>1, <1>3, <2>1 DEF Same
<1>12. ToRInv'
  BY <1>1, <1>2, <1>3, <1>6, <1>10, KeptRSame, ToRStays
<1>13. ToSInv'
  BY <1>1, <1>2, <1>3, <1>6, <1>10, KeptSSame, ToSStays
<1>14. Links' /\ RPairs'
  BY <1>1, <1>2, <1>3, <1>11, LinksFrame, RPairsFrame
<1> QED
  BY <1>1, <1>2, <1>7, <1>8, <1>9, <1>10, <1>12, <1>13, <1>14
     DEF PartyInv, SInv, Between

LEMMA SIknpAligned ==
  ASSUME InitInv, SIknp
  PROVE  PartyInv'
<1>1. /\ sPhase = "iknp"
      /\ toR' = Append(toR, Message("u", IknpU(sMessages, sStep, receiverInputs[sStep])))
      /\ receiverOutputs' = [receiverOutputs EXCEPT ![sStep] = IknpRecvMessages(sMessages, sStep)]
      /\ sStep' = (sStep + 1) % NumBlk
      /\ sPhase' = IF sStep + 1 < NumBlk THEN "iknp" ELSE "check"
      /\ UNCHANGED <<rBaseVars, sBaseVars, rInitVars, sInit, sTheirs, sWaiting,
                     receiverInputs, sOt, mSSOtChoice, sMsgs, toS, fresh, mHashingSeed>>
  BY DEF SIknp
<1>2. /\ Aligned /\ BaseInv /\ RInv /\ SInv /\ RControl /\ SControl
      /\ SThreads /\ SKeys /\ SProduct /\ SSeeds
      /\ ToRInv /\ ToSInv /\ Links /\ RPairs /\ sInit \in Nat \ {0} /\ SRead \in Nat
      /\ DOMAIN mHashingSeed = {"R", "S"}
  BY InitInvAligned DEF InitInv, PartyInv
<1>3. /\ UNCHANGED <<rInit, rPhase, rStep, senderInputs, rOt, cBuff, sendBuff>>
      /\ UNCHANGED <<sMain, secrets, buff, sIdx, sMessages>>
  BY <1>1 DEF rInitVars, rBaseVars, sBaseVars
<1>4. PICK b, j : b = sStep /\ j = sStep + 2
  OBVIOUS
<1>5. /\ fresh[sInit] /\ ~ sOt.has /\ b \in 0..NumBlk - 1 /\ b \in Blk /\ b \in Nat
      /\ NumBlk \in Nat \ {0} /\ ToRPer = 1 + NumBlk
      /\ j \in 1..ToRPer /\ j > 1 /\ j - 2 = b
  <2>1. fresh[sInit] /\ ~ sOt.has /\ b \in 0..NumBlk - 1
    BY <1>1, <1>2, <1>4 DEF SControl, HasOt
  <2> QED
    BY <1>4, <2>1, Pers DEF Blk
<1>6. /\ b + 1 < NumBlk => sPhase' = "iknp" /\ sStep' = b + 1
      /\ ~ (b + 1 < NumBlk) => sPhase' = "check" /\ sStep' = 0 /\ b + 1 = NumBlk
  <2>1. b + 1 < NumBlk => (b + 1) % NumBlk = b + 1
    BY <1>5
  <2>2. ~ (b + 1 < NumBlk) => b + 1 = NumBlk /\ NumBlk % NumBlk = 0
    BY <1>5
  <2> QED
    BY <1>1, <1>4, <2>1, <2>2
<1>7. SGot = 1 /\ SGot' = 1 /\ SPut = 1 + b /\ SPut' = 2 + b
  BY <1>1, <1>4, <1>5, <1>6 DEF SGot, SPut, ToRPer
<1>8. /\ SRead' = SRead /\ SWritten' = SWritten + 1
      /\ Waits(fresh, sInit, sPhase, sWaiting, SGot)'
  <2>1. sWaiting = <<>>
    BY <1>2, <1>7 DEF SControl, Waits
  <2>2. SPut' \in Nat /\ SGot' \in Nat /\ sPhase' # "begin" /\ sPhase # "begin"
    BY <1>1, <1>5, <1>6, <1>7
  <2>3. SRead' = SRead + 1 - 1 /\ SWritten' = SWritten + (2 + b) - (1 + b) /\ SWritten \in Nat
        /\ Waits(fresh, sInit, sPhase, sWaiting, SGot)'
    BY <1>1, <1>2, <1>7, <2>1, <2>2, SGoes
  <2> QED
    BY <1>2, <1>5, <2>3
<1>9. SControl'
  <2>1. /\ sPhase' = "iknp" => sStep' \in 0..NumBlk - 1
        /\ sPhase' = "check" => sStep' \in 0..NumBlk * Width - 1
    <3>1. 0 \in 0..NumBlk * Width - 1
      BY Pers
    <3> QED
      BY <1>5, <1>6, <3>1
  <2> QED
    BY <1>1, <1>2, <1>3, <1>5, <1>6, <1>8, <2>1 DEF SControl, HasOt
<1>10. SProduct' /\ SSeeds'
  <2>1. SProduct'
    BY <1>1, <1>5, <1>6 DEF SProduct
  <2>2. SSeeds'
    BY <1>1, <1>2, <1>6 DEF SSeeds
  <2> QED
    BY <2>1, <2>2
<1>11. SKeys'
  <2>1. /\ DOMAIN receiverOutputs = Blk
        /\ \A k \in 0..b - 1 : receiverOutputs[k] = IknpRecvMessages(sMessages, k)
    BY <1>1, <1>2, <1>4 DEF SKeys
  <2>2. PICK new : new = receiverOutputs'
    OBVIOUS
  <2>3. new = [receiverOutputs EXCEPT ![b] = IknpRecvMessages(sMessages, b)]
    BY <1>1, <1>4, <2>2
  <2>4. DOMAIN new = Blk /\ \A k \in 0..b : new[k] = IknpRecvMessages(sMessages, k)
    <3>1. DOMAIN new = Blk /\ new[b] = IknpRecvMessages(sMessages, b)
      BY <1>5, <2>1, <2>3
    <3>2. \A k \in Blk : k # b => new[k] = receiverOutputs[k]
      BY <2>1, <2>3
    <3>3. \A k \in 0..b : k \in Blk /\ (k = b \/ k \in 0..b - 1)
      BY <1>5 DEF Blk
    <3> QED
      BY <2>1, <3>1, <3>2, <3>3
  <2>5. (b + 1) - 1 = b /\ (b + 1 = NumBlk => \A k \in Blk : k \in 0..b)
    BY <1>5 DEF Blk
  <2> QED
    BY <1>1, <1>3, <1>5, <1>6, <2>2, <2>4, <2>5 DEF SKeys
<1>12. SThreads'
  BY <1>1, <1>2, <1>3, SThreadsFrame
<1>13. RInv' /\ RRead' = RRead /\ RWritten' = RWritten
  BY <1>1, <1>2, RFrame
<1>14. Same' => Same
  <2>1. PICK p : p = sPhase'
    OBVIOUS
  <2>2. ASSUME NEW k, Holds(fresh, sInit, p, k) PROVE Holds(fresh, sInit, sPhase, k)
    BY <1>1, <1>2, <1>6, <2>1, <2>2, HoldsOn
  <2> QED
    BY <1>1, <1>3, <2>1, <2>2 DEF Same
<1>15. ToRInv'
  <2>1. PICK m, n : m = Message("u", IknpU(sMessages, b, receiverInputs[b])) /\ n = sInit
    OBVIOUS
  <2>2. FitsR(m, n, j)'
    BY <1>1, <1>3, <1>5, <2>1 DEF FitsR, Message
  <2>3. Lies(fresh, ToRPer, SWritten + 1, n, j)
    <3>1. ToRPer \in Nat /\ SPut \in Nat /\ j = SPut + 1
      BY <1>4, <1>5, <1>7
    <3>2. Lies(fresh, ToRPer, SWritten + 1, sInit, j)
      BY <1>1, <1>2, <1>5, <3>1, GoesLies DEF SWritten
    <3> QED
      BY <2>1, <3>2
  <2>4. toR' = Append(toR, m) /\ fresh' = fresh /\ RRead \in Nat
    BY <1>1, <1>4, <2>1, InitInvAligned
  <2>5. KeptR
    BY <1>1, <1>3, KeptRSame
  <2> QED
    BY <1>2, <1>8, <1>13, <2>2, <2>3, <2>4, <2>5, ToRGivesOne
<1>16. ToSInv'
  BY <1>1, <1>2, <1>3, <1>8, <1>13, KeptSSame, ToSStays
<1>17. Links' /\ RPairs'
  BY <1>1, <1>2, <1>3, <1>14, LinksFrame, RPairsFrame
<1> QED
  BY <1>1, <1>2, <1>9, <1>10, <1>11, <1>12, <1>13, <1>15, <1>16, <1>17
     DEF PartyInv, SInv, Between

LEMMA SCheckAligned ==
  ASSUME InitInv, SCheck
  PROVE  PartyInv'
<1> DEFINE blk == PairAt(sStep)[1]
           c == PairAt(sStep)[2]
           N == NumBlk * Width
<1>1. /\ sPhase = "check" /\ Arrived(toS) /\ sWaiting = <<>> /\ toS' = Tail(toS)
      /\ /\ Head(toS).kind = "check"
         /\ Chosen(Head(toS).body, receiverInputs[blk], c) = receiverOutputs[blk][c]
         => sStep' = sStep + 1 /\ sPhase' = IF sStep' = N THEN "set" ELSE "check"
      /\ UNCHANGED <<rBaseVars, sBaseVars, rInitVars, sInit, sTheirs, sWaiting,
                     receiverInputs, receiverOutputs, sOt, mSSOtChoice, sMsgs,
                     toR, fresh, mHashingSeed>>
  BY DEF SCheck
<1>2. /\ Aligned /\ BaseInv /\ RInv /\ SInv /\ RControl /\ SControl
      /\ SThreads /\ SKeys /\ SProduct /\ SSeeds
      /\ ToRInv /\ ToSInv /\ Links /\ RPairs /\ sInit \in Nat \ {0} /\ SRead \in Nat
      /\ DOMAIN mHashingSeed = {"R", "S"}
  BY InitInvAligned DEF InitInv, PartyInv
<1>3. /\ UNCHANGED <<rInit, rPhase, rStep, senderInputs, rOt, cBuff, sendBuff>>
      /\ UNCHANGED <<sMain, secrets, buff, sIdx, sMessages>>
  BY <1>1 DEF rInitVars, rBaseVars, sBaseVars
<1>4. PICK k, j : k = sStep /\ j = sStep + 2
  OBVIOUS
<1>5. /\ fresh[sInit] /\ ~ sOt.has /\ k \in 0..N - 1 /\ k \in Nat
      /\ N \in Nat \ {0} /\ ToSPer = 1 + N
      /\ SGot = 1 + k /\ SPut = ToRPer /\ ToRPer \in Nat
      /\ j = SGot + 1 /\ j \in 1..ToSPer /\ j > 1 /\ j - 2 = k
  <2>1. fresh[sInit] /\ ~ sOt.has /\ k \in 0..N - 1
    BY <1>1, <1>2, <1>4 DEF SControl, HasOt
  <2>2. SGot = 1 + k /\ SPut = ToRPer
    BY <1>1, <1>4, <2>1 DEF SGot, SPut
  <2>3. N \in Nat \ {0} /\ ToSPer = 1 + N /\ ToRPer \in Nat
    BY Pers
  <2> HIDE DEF N
  <2> QED
    BY <1>4, <2>1, <2>2, <2>3
<1>6. /\ Head(toS).kind = "check"
      /\ Chosen(Head(toS).body, receiverInputs[blk], c) = receiverOutputs[blk][c]
  <2>1. FitsS(Head(toS), sInit, j)
    BY <1>1, <1>5, NextToS DEF Arrived
  <2>2. Head(toS).kind = "check" /\ Passes(Head(toS), k)
    BY <1>5, <2>1 DEF FitsS
  <2>3. blk = k \div Width /\ c = k % Width
    BY <1>4 DEF PairAt
  <2>4. blk \in Blk
    BY <1>5, <2>3, PairPlace
  <2>5. receiverOutputs[blk] = IknpRecvMessages(sMessages, blk)
    BY <1>1, <1>2, <2>4 DEF SKeys
  <2> QED
    BY <1>4, <2>2, <2>5 DEF Passes
<1>7. sStep' = k + 1 /\ sPhase' = IF k + 1 = N THEN "set" ELSE "check"
  BY <1>1, <1>4, <1>6
<1>8. /\ SGot' = SGot + 1 /\ SGot' \in Nat /\ SGot \in Nat
      /\ SPut' = SPut /\ SPut \in Nat
  <2>1. SGot' = 2 + k
    BY <1>1, <1>5, <1>7 DEF SGot, ToSPer
  <2>2. SPut' = ToRPer
    BY <1>1, <1>5, <1>7 DEF SPut, ToRPer
  <2> QED
    BY <1>5, <2>1, <2>2
<1> HIDE DEF N, blk, c
<1>9. /\ SRead' = SRead + 1 /\ SWritten' = SWritten
      /\ Waits(fresh, sInit, sPhase, sWaiting, SGot)'
  BY <1>1, <1>2, <1>7, <1>8, SGoes
<1>10. SControl'
  <2>1. sPhase' = "check" => sStep' \in 0..N - 1
    BY <1>5, <1>7
  <2> QED
    BY <1>1, <1>2, <1>3, <1>5, <1>7, <1>9, <2>1 DEF SControl, HasOt, N
<1>11. SProduct' /\ SSeeds' /\ SKeys'
  <2>1. SProduct'
    BY <1>1, <1>5, <1>7 DEF SProduct
  <2>2. SSeeds'
    BY <1>1, <1>2, <1>7 DEF SSeeds
  <2>3. SKeys'
    BY <1>1, <1>2, <1>3, <1>5, <1>7 DEF SKeys
  <2> QED
    BY <2>1, <2>2, <2>3
<1>12. SThreads'
  BY <1>1, <1>2, <1>3, SThreadsFrame
<1>13. RInv' /\ RRead' = RRead /\ RWritten' = RWritten
  BY <1>1, <1>2, RFrame
<1>14. Same' => Same
  <2>1. PICK p : p = sPhase'
    OBVIOUS
  <2>2. ASSUME NEW n, Holds(fresh, sInit, p, n) PROVE Holds(fresh, sInit, sPhase, n)
    BY <1>1, <1>2, <1>7, <2>1, <2>2, HoldsOn
  <2> QED
    BY <1>1, <1>3, <2>1, <2>2 DEF Same
<1>15. ToRInv'
  BY <1>1, <1>2, <1>3, <1>9, <1>13, KeptRSame, ToRStays
<1>16. ToSInv'
  BY <1>1, <1>2, <1>3, <1>9, <1>13, KeptSSame, ToSTakes DEF Arrived
<1>17. Links' /\ RPairs'
  BY <1>1, <1>2, <1>3, <1>14, LinksFrame, RPairsFrame
<1> QED
  BY <1>1, <1>2, <1>10, <1>11, <1>12, <1>13, <1>15, <1>16, <1>17
     DEF PartyInv, SInv, Between

LEMMA SSetBaseAligned ==
  ASSUME InitInv, SSetBase
  PROVE  PartyInv'
<1>1. /\ sPhase = "set" /\ sPhase' = "extend"
      /\ sOt' = [has |-> TRUE, key |-> receiverOutputs, choice |-> receiverInputs, used |-> 0]
      /\ mSSOtChoice' = receiverInputs
      /\ UNCHANGED <<rBaseVars, sBaseVars, rInitVars, sInit, sStep, sTheirs, sWaiting,
                     receiverInputs, receiverOutputs, sMsgs, toR, toS, fresh, mHashingSeed>>
  BY DEF SSetBase
<1>2. /\ Aligned /\ BaseInv /\ RInv /\ SInv /\ RControl /\ SControl
      /\ SThreads /\ SKeys /\ SProduct /\ SSeeds
      /\ ToRInv /\ ToSInv /\ Links /\ RPairs /\ sInit \in Nat \ {0} /\ SRead \in Nat
      /\ DOMAIN mHashingSeed = {"R", "S"}
  BY InitInvAligned DEF InitInv, PartyInv
<1>3. /\ UNCHANGED <<rInit, rPhase, rStep, senderInputs, rOt, cBuff, sendBuff>>
      /\ UNCHANGED <<sMain, secrets, buff, sIdx, sMessages>>
  BY <1>1 DEF rInitVars, rBaseVars, sBaseVars
<1>4. /\ fresh[sInit] /\ SGot' = SGot /\ SPut' = SPut /\ SGot \in Nat /\ SPut \in Nat
      /\ Waits(fresh, sInit, sPhase, sWaiting, SGot)
  <2>1. fresh[sInit]
    BY <1>1, <1>2 DEF SControl
  <2>2. SGot' = SGot /\ SPut' = SPut
    BY <1>1, <2>1 DEF SGot, SPut, ToRPer, ToSPer
  <2> QED
    BY <1>2, <2>1, <2>2, SProgress
<1>5. /\ SRead' = SRead /\ SWritten' = SWritten
      /\ Waits(fresh, sInit, sPhase, sWaiting, SGot)'
  <2>1. SGot' > 0 => sWaiting = <<>>
    BY <1>4 DEF Waits
  <2> QED
    BY <1>1, <1>2, <1>4, <2>1, SGoes
<1>6. SControl'
  BY <1>1, <1>2, <1>3, <1>5 DEF SControl, HasOt
<1>7. SProduct'
  <2>1. Holds(fresh, sInit, "extend", sInit)
    BY <1>2, <1>4, HoldsOn
  <2>2. Round * (sInit - sInit + IF "extend" = "done" THEN 1 ELSE 0) = 0
    BY <1>2, RoundType
  <2>3. Used(fresh, sInit, "extend", 0)
    BY <1>2, <2>1, <2>2 DEF Used
  <2> QED
    BY <1>1, <2>3 DEF SProduct
<1>8. SSeeds' /\ SKeys'
  <2>1. SKeys'
    BY <1>1, <1>2, <1>3 DEF SKeys
  <2>2. SSeeds'
    BY <1>1, <1>2 DEF SSeeds
  <2> QED
    BY <2>1, <2>2
<1>9. SThreads'
  BY <1>1, <1>2, <1>3, SThreadsFrame
<1>10. RInv' /\ RRead' = RRead /\ RWritten' = RWritten
  BY <1>1, <1>2, RFrame
<1>11. Same' => Same
  <2>1. ASSUME NEW k, Holds(fresh, sInit, "extend", k) PROVE Holds(fresh, sInit, sPhase, k)
    BY <1>1, <1>2, <2>1, HoldsOn
  <2> QED
    BY <1>1, <1>3, <2>1 DEF Same
<1>12. ToRInv'
  BY <1>1, <1>2, <1>3, <1>5, <1>10, KeptRSame, ToRStays
<1>13. ToSInv'
  BY <1>1, <1>2, <1>3, <1>5, <1>10, KeptSSame, ToSStays
<1>14. Links' /\ RPairs'
  BY <1>1, <1>2, <1>3, <1>11, LinksFrame, RPairsFrame
<1> QED
  BY <1>1, <1>2, <1>6, <1>7, <1>8, <1>9, <1>10, <1>12, <1>13, <1>14
     DEF PartyInv, SInv, Between

LEMMA SExtendAligned ==
  ASSUME InitInv, SExtend
  PROVE  PartyInv'
<1>1. /\ sPhase = "extend" /\ sPhase' = "done"
      /\ mHashingSeed' = [mHashingSeed EXCEPT !["S"] = SymDiff(SSeed, sTheirs)]
      /\ sMsgs' = [i \in 0..NumMsg - 1 |-> SsotMessage(sOt.key, sOt.used, i)]
      /\ sOt' = [sOt EXCEPT !.used = @ + Rounds(NumMsg)]
      /\ UNCHANGED <<rBaseVars, sBaseVars, rInitVars, sInit, sStep, sTheirs, sWaiting,
                     receiverInputs, receiverOutputs, mSSOtChoice, toR, toS, fresh>>
  BY DEF SExtend, Combined
<1>2. /\ Aligned /\ BaseInv /\ RInv /\ SInv /\ RControl /\ SControl
      /\ SThreads /\ SKeys /\ SProduct /\ SSeeds
      /\ ToRInv /\ ToSInv /\ Links /\ RPairs /\ sInit \in Nat \ {0} /\ SRead \in Nat
      /\ DOMAIN mHashingSeed = {"R", "S"}
  BY InitInvAligned DEF InitInv, PartyInv
<1>3. /\ UNCHANGED <<rInit, rPhase, rStep, senderInputs, rOt, cBuff, sendBuff>>
      /\ UNCHANGED <<sMain, secrets, buff, sIdx, sMessages>>
  BY <1>1 DEF rInitVars, rBaseVars, sBaseVars
<1>4. /\ sOt.has /\ sOt'.has /\ sOt'.key = sOt.key /\ sOt'.choice = sOt.choice
      /\ sOt'.used = sOt.used + Round
      /\ sOt' = [has |-> TRUE, key |-> sOt'.key, choice |-> sOt'.choice, used |-> sOt'.used]
  <2>1. sOt.has
    BY <1>1, <1>2 DEF SControl, HasOt
  <2>2. sOt = [has |-> TRUE, key |-> sOt.key, choice |-> sOt.choice, used |-> sOt.used]
    BY <1>2, <2>1 DEF SControl, NoBase
  <2> QED
    BY <1>1, <2>1, <2>2 DEF Round
<1>5. /\ SGot' = SGot /\ SPut' = SPut /\ SGot \in Nat /\ SPut \in Nat
      /\ Waits(fresh, sInit, sPhase, sWaiting, SGot)
  <2>1. SGot' = SGot /\ SPut' = SPut
    BY <1>1 DEF SGot, SPut, ToRPer, ToSPer
  <2> QED
    BY <1>2, <2>1, SProgress
<1>6. /\ SRead' = SRead /\ SWritten' = SWritten
      /\ Waits(fresh, sInit, sPhase, sWaiting, SGot)'
  <2>1. SGot' > 0 => sWaiting = <<>>
    BY <1>5 DEF Waits
  <2> QED
    BY <1>1, <1>2, <1>5, <2>1, SGoes
<1>7. SControl'
  BY <1>1, <1>2, <1>3, <1>4, <1>6 DEF SControl, HasOt
<1>8. SProduct'
  <2>1. Used(fresh, sInit, "extend", sOt.used)
    BY <1>1, <1>2, <1>4 DEF SProduct
  <2>2. PICK now, used, p : now = sOt'.used /\ used = sOt.used /\ p = "extend"
    OBVIOUS
  <2>3. Used(fresh, sInit, "done", now) /\ now - Round = sOt.used
    <3>1. sInit \in Nat \ {0} /\ Used(fresh, sInit, p, used) /\ now = used + Round
      BY <1>2, <1>4, <2>1, <2>2
    <3>2. p # "done" /\ p \notin {"begin", "base"}
      BY <2>2
    <3>3. Used(fresh, sInit, "done", now) /\ now - Round = used
      BY <3>1, <3>2, UsedMore
    <3> QED
      BY <2>2, <3>3
  <2>4. sOt'.used - Round = sOt.used
    BY <2>2, <2>3
  <2>5. sMsgs' = [i \in 0..NumMsg - 1 |-> SsotMessage(sOt'.key, sOt'.used - Round, i)]
    BY <1>1, <1>4, <2>4
  <2>6. Used(fresh, sInit, "done", sOt'.used)
    BY <2>2, <2>3
  <2> QED
    BY <1>1, <2>5, <2>6 DEF SProduct
<1>9. SSeeds' /\ SKeys'
  <2>1. fresh[sInit] => sWaiting = <<>>
    BY <1>1, <1>5, Pers DEF Waits, SGot
  <2>2. fresh[sInit] => sTheirs = RSeed
    BY <1>1, <1>2, <2>1 DEF SSeeds
  <2>3. mHashingSeed'["S"] = SymDiff(SSeed, sTheirs) /\ SymDiff(SSeed, RSeed) = SymDiff(RSeed, SSeed)
    BY <1>1, <1>2, SeedOf DEF SymDiff
  <2>4. SSeeds'
    BY <1>1, <2>2, <2>3 DEF SSeeds
  <2>5. SKeys'
    BY <1>1, <1>2, <1>3, <1>4 DEF SKeys
  <2> QED
    BY <2>4, <2>5
<1>10. SThreads'
  BY <1>1, <1>2, <1>3, SThreadsFrame
<1>11. /\ RInv' /\ RRead' = RRead /\ RWritten' = RWritten /\ DOMAIN mHashingSeed' = {"R", "S"}
  BY <1>1, <1>2, SeedOf, RFrame
<1>12. Same' => Same
  <2>1. ASSUME NEW k, Holds(fresh, sInit, "done", k) PROVE Holds(fresh, sInit, sPhase, k)
    BY <1>1, <1>2, <2>1, HoldsOn
  <2> QED
    BY <1>1, <1>3, <2>1 DEF Same
<1>13. ToRInv'
  BY <1>1, <1>2, <1>3, <1>6, <1>11, KeptRSame, ToRStays
<1>14. ToSInv'
  BY <1>1, <1>2, <1>3, <1>6, <1>11, KeptSSame, ToSStays
<1>15. Links' /\ RPairs'
  BY <1>1, <1>2, <1>3, <1>12, LinksFrame, RPairsFrame
<1> QED
  BY <1>2, <1>7, <1>8, <1>9, <1>10, <1>11, <1>13, <1>14, <1>15 DEF PartyInv, SInv, Between

LEMMA SAgainAligned ==
  ASSUME InitInv, SAgain
  PROVE  PartyInv'
<1>1. /\ sPhase = "done" /\ sInit < NumInit /\ sInit' = sInit + 1 /\ sPhase' = "begin"
      /\ UNCHANGED <<rBaseVars, sBaseVars, rInitVars, sStep, sTheirs, sWaiting,
                     receiverInputs, receiverOutputs, sOt, mSSOtChoice, sMsgs,
                     toR, toS, fresh, mHashingSeed>>
  BY DEF SAgain
<1>2. /\ Aligned /\ BaseInv /\ RInv /\ SInv /\ RControl /\ SControl
      /\ SThreads /\ SKeys /\ SProduct /\ SSeeds
      /\ ToRInv /\ ToSInv /\ Links /\ RPairs /\ sInit \in Nat \ {0} /\ SRead \in Nat
      /\ DOMAIN mHashingSeed = {"R", "S"}
  BY InitInvAligned DEF InitInv, PartyInv
<1>3. /\ UNCHANGED <<rInit, rPhase, rStep, senderInputs, rOt, cBuff, sendBuff>>
      /\ UNCHANGED <<sMain, secrets, buff, sIdx, sMessages>>
  BY <1>1 DEF rInitVars, rBaseVars, sBaseVars
<1>4. /\ SGot = IF fresh[sInit] THEN ToSPer ELSE 0
      /\ SPut = IF fresh[sInit] THEN ToRPer ELSE 0
      /\ SGot' = 0 /\ SPut' = 0
  BY <1>1 DEF SGot, SPut
<1>5. /\ SRead' = SRead /\ SWritten' = SWritten
      /\ Waits(fresh, sInit, sPhase, sWaiting, SGot)'
  <2>1. ToSPer \in Nat /\ ToRPer \in Nat /\ ToSPer > 0
    BY Pers
  <2>2. /\ SRead' = ReadUpTo(fresh, ToSPer, sInit + 1, "begin", sWaiting, 0)
        /\ SWritten' = UpTo(fresh, ToRPer, sInit + 1, "begin", 0)
    BY <1>1, <1>4 DEF SRead, SWritten, ToSPer, ToRPer
  <2>3. /\ SRead = ReadUpTo(fresh, ToSPer, sInit, "done", sWaiting, IF fresh[sInit] THEN ToSPer ELSE 0)
        /\ SWritten = UpTo(fresh, ToRPer, sInit, "done", IF fresh[sInit] THEN ToRPer ELSE 0)
        /\ Waits(fresh, sInit, "done", sWaiting, IF fresh[sInit] THEN ToSPer ELSE 0)
    BY <1>1, <1>2, <1>4 DEF SRead, SWritten, SControl
  <2>4. SRead' = SRead /\ Waits(fresh, sInit + 1, "begin", sWaiting, 0)
    BY <1>2, <2>1, <2>2, <2>3, Again
  <2>5. SWritten' = SWritten
    BY <1>2, <2>1, <2>2, <2>3, Again
  <2> QED
    BY <1>1, <1>4, <2>4, <2>5
<1>6. SControl'
  BY <1>1, <1>2, <1>3, <1>5, InitAssumption DEF SControl, HasOt
<1>7. SProduct'
  <2>1. sOt.has
    BY <1>1, <1>2 DEF SControl, HasOt
  <2>2. PICK k \in Nat : /\ Holds(fresh, sInit, "done", k)
                         /\ sOt.used = Round * (sInit - k + IF sPhase = "done" THEN 1 ELSE 0)
    BY <1>1, <1>2, <2>1 DEF SProduct, Used
  <2>3. Holds(fresh, sInit + 1, "begin", k)
    BY <1>2, <2>2, HoldsOn
  <2>4. PICK a, q : a = sInit + 1 /\ q = "begin"
    OBVIOUS
  <2>5. sOt.used = Round * (a - k + IF q = "done" THEN 1 ELSE 0)
    <3>1. a - k + (IF q = "done" THEN 1 ELSE 0) = sInit - k + 1
      BY <1>2, <2>4
    <3>2. sOt.used = Round * (sInit - k + 1)
      BY <1>1, <2>2
    <3> QED
      BY <3>1, <3>2
  <2>6. Used(fresh, a, q, sOt.used)
    BY <2>3, <2>4, <2>5 DEF Used
  <2> QED
    BY <1>1, <2>4, <2>6 DEF SProduct
<1>8. SSeeds' /\ SKeys'
  BY <1>1, <1>2, <1>3 DEF SSeeds, SKeys
<1>9. SThreads'
  BY <1>1, <1>2, <1>3, SThreadsFrame
<1>10. RInv' /\ RRead' = RRead /\ RWritten' = RWritten
  BY <1>1, <1>2, RFrame
<1>11. Same' => Same
  <2>1. ASSUME NEW k, Holds(fresh, sInit + 1, "begin", k) PROVE Holds(fresh, sInit, sPhase, k)
    BY <1>1, <1>2, <2>1, HoldsOn
  <2> QED
    BY <1>1, <1>3, <2>1 DEF Same
<1>12. ToRInv'
  BY <1>1, <1>2, <1>3, <1>5, <1>10, KeptRSame, ToRStays
<1>13. ToSInv'
  BY <1>1, <1>2, <1>3, <1>5, <1>10, KeptSSame, ToSStays
<1>14. Links' /\ RPairs'
  BY <1>1, <1>2, <1>3, <1>11, LinksFrame, RPairsFrame
<1> QED
  BY <1>1, <1>2, <1>6, <1>7, <1>8, <1>9, <1>10, <1>12, <1>13, <1>14
     DEF PartyInv, SInv, Between

-----------------------------------------------------------------------------
(* The invariant.                                                          *)

LEMMA InitPartyInv ==
  ASSUME Init
  PROVE  PartyInv
<1>1. /\ rInit = 1 /\ sInit = 1 /\ rPhase = "begin" /\ sPhase = "begin" /\ fresh[1]
      /\ rWaiting = <<>> /\ sWaiting = <<>> /\ toR = <<>> /\ toS = <<>>
      /\ rOt = NoBase /\ sOt = NoBase /\ mHashingSeed = [p \in {"R", "S"} |-> {}]
  BY DEF Init
<1>2. /\ rMain = "idle" /\ sMain = "idle" /\ cBuff = Unset /\ buff = Unset
      /\ rAt = [t \in Thread |-> "idle"] /\ rMessages = [i \in Ot |-> Unset]
      /\ sIdx = [t \in Thread |-> 0] /\ sMessages = [i \in Ot |-> <<Unset, Unset>>]
  BY DEF Init, BaseIdle, NoPairs
<1>3. RGot = 0 /\ RPut = 0 /\ SGot = 0 /\ SPut = 0
  BY <1>1 DEF RGot, RPut, SGot, SPut
<1>4. Waits(fresh, 1, "begin", <<>>, 0)
  BY DEF Waits, LastBegun
<1>5. RControl
  BY <1>1, <1>2, <1>3, <1>4, InitAssumption DEF RControl, HasOt, NoBase
<1>6. SControl
  BY <1>1, <1>2, <1>3, <1>4, InitAssumption DEF SControl, HasOt, NoBase
<1>7. RThreads
  BY <1>2 DEF RThreads, RWrote, HasWritten
<1>8. SThreads
  <2>1. sIdx \in [Thread -> 0..NumOt] /\ \A t \in Thread : sIdx[t] = 0
    BY <1>2, CountAssumption
  <2> QED
    BY <1>2, <2>1 DEF SThreads
<1>9. RProduct /\ SProduct /\ RSeeds /\ SSeeds /\ SKeys
  BY <1>1 DEF RProduct, SProduct, RSeeds, SSeeds, SKeys, NoBase
<1>10. ToRInv /\ ToSInv
  <2>1. Start(fresh, ToRPer, 1) \in Nat /\ Start(fresh, ToSPer, 1) \in Nat
    <3>1. PICK n : n = 1
      OBVIOUS
    <3>2. n \in Nat \ {0} /\ ToRPer \in Nat /\ ToSPer \in Nat
      BY <3>1, Pers
    <3>3. Start(fresh, ToRPer, n) \in Nat /\ Start(fresh, ToSPer, n) \in Nat
      BY <3>2, StartNext
    <3> QED
      BY <3>1, <3>3
  <2>2. /\ RRead = UpTo(fresh, ToRPer, 1, "begin", 0) /\ SWritten = UpTo(fresh, ToRPer, 1, "begin", 0)
        /\ SRead = UpTo(fresh, ToSPer, 1, "begin", 0) /\ RWritten = UpTo(fresh, ToSPer, 1, "begin", 0)
    BY <1>1, <1>3 DEF RRead, SWritten, SRead, RWritten, ReadUpTo
  <2>4. UpTo(fresh, ToRPer, 1, "begin", 0) \in Nat /\ UpTo(fresh, ToSPer, 1, "begin", 0) \in Nat
    BY <2>1 DEF UpTo
  <2>3. Len(toR) = 0 /\ Len(toS) = 0
    BY <1>1
  <2> QED
    BY <2>2, <2>3, <2>4 DEF ToRInv, ToSInv
<1>11. Links /\ RPairs
  BY <1>1, <1>2 DEF Links, RPairs, NoBase
<1> QED
  BY <1>1, <1>5, <1>6, <1>7, <1>8, <1>9, <1>10, <1>11 DEF PartyInv, RInv, SInv, Between

LEMMA StutterAligned ==
  ASSUME InitInv, UNCHANGED vars
  PROVE  PartyInv'
<1>1. /\ UNCHANGED <<rBaseVars, sBaseVars, rInitVars, sInitVars, toR, toS, fresh, mHashingSeed>>
  BY DEF vars
<1>2. /\ RInv /\ SInv /\ ToRInv /\ ToSInv /\ Links /\ RPairs /\ DOMAIN mHashingSeed = {"R", "S"}
  BY InitInvAligned DEF InitInv, PartyInv
<1>3. /\ UNCHANGED <<rInit, rPhase, rStep, senderInputs, rOt, cBuff, sendBuff>>
      /\ UNCHANGED <<sInit, sPhase, receiverInputs, secrets, sMessages, buff>>
  BY <1>1 DEF rInitVars, rBaseVars, sInitVars, sBaseVars
<1>4. /\ RInv' /\ RRead' = RRead /\ RWritten' = RWritten
      /\ SInv' /\ SRead' = SRead /\ SWritten' = SWritten
  BY <1>1, <1>2, RFrame, SFrame
<1>5. Same' => Same
  BY <1>1, <1>3, SameFrame
<1>6. ToRInv' /\ ToSInv'
  BY <1>1, <1>2, <1>3, <1>4, KeptRSame, ToRStays, KeptSSame, ToSStays
<1>7. Links' /\ RPairs'
  BY <1>2, <1>3, <1>5, LinksFrame, RPairsFrame
<1> QED
  BY <1>1, <1>2, <1>4, <1>6, <1>7 DEF PartyInv, Between

LEMMA NextKeepsInitInv == InitInv /\ [Next]_vars => InitInv'
<1> SUFFICES ASSUME InitInv, [Next]_vars PROVE PartyInv'
  BY NextKeepsBaseInv DEF InitInv
<1>1. CASE BaseStep
  <2>1. UNCHANGED <<rInitVars, sInitVars, fresh, mHashingSeed>>
    BY <1>1 DEF BaseStep
  <2>2. CASE RecvC /\ rWaiting = <<>>
    BY <2>1, <2>2, RecvCAligned
  <2>3. CASE RecvPK0s /\ sWaiting = <<>>
    BY <2>1, <2>3, RecvPK0sAligned
  <2>4. CASE \E t \in Thread : ReceiverThread(t) \/ Encrypt(t)
    BY <2>1, <2>4, WritePK0Aligned, CountdownAligned, SetPromiseAligned, HashMessageAligned,
       EncryptAligned DEF ReceiverThread
  <2>5. CASE SendPK0s \/ RJoin \/ SJoin
    BY <2>1, <2>5, SendPK0sAligned, RJoinAligned, SJoinAligned
  <2> QED
    BY <1>1, <2>2, <2>3, <2>4, <2>5 DEF BaseStep
<1>2. CASE RStepOn
  BY <1>2, RBeginAligned, RBaseAligned, RBaseDoneAligned, RIknpAligned, RCheckAligned,
     RExtendAligned, RAgainAligned DEF RStepOn
<1>3. CASE SStepOn
  BY <1>3, SBeginAligned, SBaseAligned, SBaseDoneAligned, SIknpAligned, SCheckAligned,
     SSetBaseAligned, SExtendAligned, SAgainAligned DEF SStepOn
<1>4. CASE SeedStep
  BY <1>4, WriteSeedRAligned, WriteSeedSAligned, RecvSeedRAligned, RecvSeedSAligned DEF SeedStep
<1> QED
  BY <1>1, <1>2, <1>3, <1>4, StutterAligned DEF Next

\* The two parties stay aligned: what each has written of the two streams of
\* messages is what the other has read and what is under way, each message is
\* what its place in the stream calls for, and what the parties keep of their
\* transfers corresponds; for any number of calls of init, any of which may
\* have new or old OT objects, and any sizes.
THEOREM InitInvariance == Spec => []InitInv
<1>1. Init => InitInv
  BY InitBaseInv, InitPartyInv DEF InitInv
<1> QED
  BY <1>1, NextKeepsInitInv, PTL DEF Spec

-----------------------------------------------------------------------------
(* What it means.                                                          *)

LEMMA LockstepFollows == InitInv => InitLockstep
<1> SUFFICES ASSUME InitInv PROVE InitLockstep
  OBVIOUS
<1>1. RControl /\ SControl
  BY InitInvAligned
<1> QED
  BY <1>1 DEF InitLockstep, RControl, SControl

\* Neither party ever receives another message than the one it expects, and no
\* pair fails the check of BaseSSOT, though the seeds are sent and received
\* beside the rest and an init with old OT objects sends nothing else.
THEOREM InitLockstepHolds == Spec => []InitLockstep
BY InitInvariance, LockstepFollows, PTL

LEMMA AgreementFollows == InitInv => BaseAgreement
BY BaseAgree DEF BaseAgreement

\* When both have returned from the base transfers the receiver has the message
\* of each pair that it chose, in every init that runs them.
THEOREM BaseAgreementHolds == Spec => []BaseAgreement
BY InitInvariance, AgreementFollows, PTL

LEMMA SeedsFollow == InitInv => SeedsAgree
<1> SUFFICES ASSUME InitInv PROVE SeedsAgree
  OBVIOUS
<1>1. RSeeds /\ SSeeds
  BY InitInvAligned
<1> QED
  BY <1>1 DEF SeedsAgree, BothDone, RSeeds, SSeeds

\* After an init that runs the base transfers both parties have combined the
\* same seeds in mHashingSeed.
THEOREM SeedsAgreeHolds == Spec => []SeedsAgree
BY InitInvariance, SeedsFollow, PTL

LEMMA SettledFollows == InitInv => SeedsSettled
<1> SUFFICES ASSUME InitInv PROVE SeedsSettled
  OBVIOUS
<1>1. /\ Aligned /\ BaseInv /\ RControl /\ SControl /\ ToRInv /\ ToSInv
  BY InitInvAligned
<1>2. ASSUME rPhase = "done", fresh[rInit]
      PROVE  /\ rWaiting = <<>>
             /\ \A k \in DOMAIN toS : IsPosted(toS[k]) => toS[k].from # rInit
  <2>1. rWaiting = <<>>
    BY <1>1, <1>2, Pers DEF RControl, Waits, RGot
  <2>2. ASSUME NEW k \in DOMAIN toS, IsPosted(toS[k]), toS[k].from = rInit PROVE FALSE
    <3>1. k \in 1..Len(toS)
      BY <1>1, <2>2 DEF BaseInv, UnderWay
    <3>2. PICK n, j : Lies(fresh, ToSPer, SRead + k, n, j) /\ FitsS(toS[k], n, j)
      BY <1>1, <3>1 DEF ToSInv
    <3>3. j = 0
      <4>1. j \in Nat
        BY <3>2, Pers DEF Lies
      <4> QED
        BY <2>2, <3>2, <4>1 DEF FitsS, IsPosted, Message
    <3>4. n = rInit
      BY <2>2, <3>2, <3>3 DEF FitsS, FitsSeed, IsPosted, Posted
    <3>5. n \in RAlive
      BY <1>1, <1>2, <3>1, <3>2, <3>3, <3>4, LiveSeedR
    <3> QED
      BY <1>2, <3>5 DEF RAlive
  <2> QED
    BY <2>1, <2>2
<1>3. ASSUME sPhase = "done", fresh[sInit]
      PROVE  /\ sWaiting = <<>>
             /\ \A k \in DOMAIN toR : IsPosted(toR[k]) => toR[k].from # sInit
  <2>1. sWaiting = <<>>
    BY <1>1, <1>3, Pers DEF SControl, Waits, SGot
  <2>2. ASSUME NEW k \in DOMAIN toR, IsPosted(toR[k]), toR[k].from = sInit PROVE FALSE
    <3>1. k \in 1..Len(toR)
      BY <1>1, <2>2 DEF BaseInv, UnderWay
    <3>2. PICK n, j : Lies(fresh, ToRPer, RRead + k, n, j) /\ FitsR(toR[k], n, j)
      BY <1>1, <3>1 DEF ToRInv
    <3>3. j = 0
      <4>1. j \in Nat
        BY <3>2, Pers DEF Lies
      <4> QED
        BY <2>2, <3>2, <4>1 DEF FitsR, IsPosted, Message
    <3>4. n = sInit
      BY <2>2, <3>2, <3>3 DEF FitsR, FitsSeed, IsPosted, Posted
    <3>5. n \in SAlive
      BY <1>1, <1>3, <3>1, <3>2, <3>3, <3>4, LiveSeedS
    <3> QED
      BY <1>3, <3>5 DEF SAlive
  <2> QED
    BY <2>1, <2>2
<1> QED
  BY <1>2, <1>3 DEF SeedsSettled

\* An init that runs the base transfers returns only when the seed on its stack
\* has been written to the socket and that of the other party received into it.
THEOREM SeedsSettledHolds == Spec => []SeedsSettled
BY InitInvariance, SettledFollows, PTL

LEMMA RelateFollows == InitInv => OtsRelate
<1> SUFFICES ASSUME InitInv, BothDone
             PROVE  /\ \A i \in 0..NumMsg - 1 : \A blk \in Blk :
                         LET t0 == rMsgs[i][1][blk]
                             t1 == rMsgs[i][2][blk]
                         IN  sMsgs[i][blk] = SymDiff(t0, SymDiff(t0, t1) \cap sOt.choice[blk])
                    /\ fresh[sInit] => mSSOtChoice = sOt.choice
  BY DEF OtsRelate
<1>1. /\ rPhase = "done" /\ sPhase = "done" /\ rInit = sInit
      /\ RControl /\ SControl /\ RProduct /\ SProduct /\ SKeys /\ SThreads /\ RPairs
      /\ rInit \in Nat \ {0} /\ rOt.has /\ sOt.has
  BY InitInvAligned DEF BothDone, RControl, SControl, HasOt
<1>2. PICK n : Holds(fresh, rInit, "done", n)
  <2>1. fresh[1]
    BY <1>1 DEF RControl
  <2> QED
    BY <1>1, <2>1, HoldsSome
<1>3. /\ \A b \in Blk : Served(rOt.keys, b)
      /\ \A b \in Blk : sOt.key[b] = IknpRecvMessages(sMessages, b)
      /\ sOt.choice = receiverInputs
  BY <1>1, <1>2 DEF Same, RPairs, SKeys
<1>4. PICK key, keys, choice, used :
        key = sOt.key /\ keys = rOt.keys /\ choice = sOt.choice /\ used = rOt.used - Round
  OBVIOUS
<1>5. /\ \A b \in Blk : choice[b] \in Block
      /\ \A b \in Blk, c \in Bit : key[b][c] = keys[b][c][IF c \in choice[b] THEN 2 ELSE 1]
  <2>1. receiverInputs \in [Blk -> Block]
    BY <1>1, InitAssumption DEF SThreads, SControl
  <2> QED
    BY <1>3, <1>4, <2>1 DEF Served, Chosen
<1>6. sOt.used = rOt.used
  <2>1. PICK m \in Nat : /\ Holds(fresh, rInit, "done", m)
                         /\ rOt.used = Round * (rInit - m + 1)
    BY <1>1 DEF RProduct, Used
  <2>2. PICK k \in Nat : /\ Holds(fresh, sInit, "done", k)
                         /\ sOt.used = Round * (sInit - k + 1)
    BY <1>1 DEF SProduct, Used
  <2>3. m = k
    BY <1>1, <2>1, <2>2, HoldsOne
  <2> QED
    BY <1>1, <2>1, <2>2, <2>3
<1>7. ASSUME NEW i \in 0..NumMsg - 1, NEW blk \in Blk
      PROVE  LET t0 == rMsgs[i][1][blk]
                 t1 == rMsgs[i][2][blk]
             IN  sMsgs[i][blk] = SymDiff(t0, SymDiff(t0, t1) \cap sOt.choice[blk])
  <2>1. i % Width \in Bit
    BY InitAssumption, Pers DEF Bit
  <2>2. rMsgs[i] = RMessages(keys, used, i) /\ sMsgs[i] = SsotMessage(key, used, i)
    BY <1>1, <1>4, <1>6 DEF RProduct, SProduct
  <2>3. PICK keys0, keys1, bits :
          /\ keys0 = [b \in Blk |-> [c \in Bit |-> keys[b][c][1]]]
          /\ keys1 = [b \in Blk |-> [c \in Bit |-> keys[b][c][2]]]
          /\ bits = choice[blk]
    OBVIOUS
  <2>4. PICK t0, t1 : t0 = rMsgs[i][1][blk] /\ t1 = rMsgs[i][2][blk]
    OBVIOUS
  <2>5. t0 = SsotMessage(keys0, used, i)[blk] /\ t1 = SsotMessage(keys1, used, i)[blk]
    BY <2>2, <2>3, <2>4 DEF RMessages
  <2>6. \A c \in Bit : key[blk][c] = IF c \in bits THEN keys1[blk][c] ELSE keys0[blk][c]
    BY <1>5, <2>3
  <2>7. SsotMessage(key, used, i)[blk] = SymDiff(t0, SymDiff(t0, t1) \cap bits)
    <3> DEFINE P(K) == [c \in Bit |-> Prg(K[blk][c], used + i \div Width)]
               r == i % Width
    <3>1. ASSUME NEW K PROVE SsotMessage(K, used, i)[blk] = {c \in Bit : r \in P(K)[c]}
      BY <2>1 DEF SsotMessage, Transpose
    <3>2. \A c \in Bit : P(key)[c] = IF c \in bits THEN P(keys1)[c] ELSE P(keys0)[c]
      BY <2>6
    <3>3. bits \in Block
      BY <1>5, <2>3
    <3> HIDE DEF P, r
    <3>4. /\ t0 = {c \in Bit : r \in P(keys0)[c]} /\ t1 = {c \in Bit : r \in P(keys1)[c]}
          /\ SsotMessage(key, used, i)[blk] = {c \in Bit : r \in P(key)[c]}
      BY <2>5, <3>1
    <3>5. \A c \in Bit : r \in P(key)[c] <=>
                         IF c \in bits THEN r \in P(keys1)[c] ELSE r \in P(keys0)[c]
      BY <3>2
    <3> QED
      BY <3>4, <3>5 DEF SymDiff
  <2> QED
    BY <1>4, <2>2, <2>3, <2>4, <2>7
<1>8. fresh[sInit] => mSSOtChoice = sOt.choice
  BY <1>1 DEF SKeys
<1> QED
  BY <1>7, <1>8

\* After every init, whether or not it ran the base transfers, the sender's
\* transfers are those of the receiver's that its choices select, which is what
\* the online phase relies on: the blocks used of the generators stay level.
THEOREM OtsRelateHolds == Spec => []OtsRelate
BY InitInvariance, RelateFollows, PTL
=============================================================================
