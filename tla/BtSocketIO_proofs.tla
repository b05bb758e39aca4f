------------------------- MODULE BtSocketIO_proofs -------------------------
(***************************************************************************)
(* The safety properties of the channel for every pair of ends, every set  *)
(* of sizes and every number of operations.                                *)
(***************************************************************************)
EXTENDS BtSocketIO, SequenceTheorems, WellFoundedInduction, TLAPS

(* The inductive invariant.  Operations are numbered in the order they are *)
(* issued, so the contents of the queues are determined by how many are    *)
(* behind them: SendPopped(p) operations have left mSendQueue[p].          *)

MinOf(x, y) == IF x <= y THEN x ELSE y

Closing(p) == app[p] \in {"closing", "closed"}

SendTotal(p) == Len(sent[p]) + (IF Closing(p) THEN 1 ELSE 0)
RecvTotal(p) == Len(recvs[p]) + (IF Closing(p) THEN 1 ELSE 0)

SendPopped(p) == SendTotal(p) - Len(sendPosted[p]) - Len(mSendQueue[p])
RecvPopped(p) == RecvTotal(p) - Len(recvPosted[p]) - Len(mRecvQueue[p])

\* How many parts of frames have been written at p, and read at p.
Written(p) ==
    2 * MinOf(SendPopped(p), Len(sent[p]))
        + (IF sender[p] = "body" THEN 1
           ELSE IF sender[p] \in {"written", "fulfilled"} THEN 2 ELSE 0)

ReadCount(p) ==
    2 * MinOf(RecvPopped(p), Len(recvs[p]))
        + (IF reader[p] \in {"body", "failed"} THEN 1
           ELSE IF reader[p] \in {"read", "fulfilled"} THEN 2 ELSE 0)

\* The rank of a part among all the parts its end writes.
Rank(part) == 2 * part.n - (IF part.part = "header" THEN 1 ELSE 0)

\* The operations of a queue carry the numbers after base, and those up to
\* last are of type data; the one after last is close()'s.
Consecutive(queue, base, last, data) ==
    \A i \in 1..Len(queue) :
        /\ queue[i].n = base + i
        /\ queue[i].type = data <=> queue[i].n <= last

\* Exactly one chain drains the queue while it is not empty, and the operation
\* it works on is a message.
SendDriver(p) ==
    /\ pushing[p] => mSendQueue[p] # <<>>
    /\ sender[p] = "idle" <=> Len(mSendQueue[p]) = (IF pushing[p] THEN 1 ELSE 0)
    /\ sender[p] # "idle" => SendPopped(p) < Len(sent[p])

RecvDriver(p) ==
    /\ reader[p] = "idle" <=> Len(mRecvQueue[p]) = 0
    /\ reader[p] # "idle" => RecvPopped(p) < Len(recvs[p])

SendQueueInv(p) ==
    /\ SendPopped(p) >= 0
    /\ Consecutive(mSendQueue[p], SendPopped(p), Len(sent[p]), "SendData")
    /\ Consecutive(sendPosted[p], SendPopped(p) + Len(mSendQueue[p]),
                   Len(sent[p]), "SendData")
    /\ SendDriver(p)

RecvQueueInv(p) ==
    /\ RecvPopped(p) >= 0
    /\ Consecutive(mRecvQueue[p], RecvPopped(p), Len(recvs[p]), "RecvData")
    /\ Consecutive(recvPosted[p], RecvPopped(p) + Len(mRecvQueue[p]),
                   Len(recvs[p]), "RecvData")
    /\ RecvDriver(p)

\* The promises on the user's stack: close()'s are set when its operation has
\* left the queue; that of a synchronous send, which is the last message, when
\* its write has completed.
AwaitedSend(p, op) ==
    op.type = "SendData" /\ op.sync =>
        app[p] = "sending" /\ op.n = Len(sent[p]) /\ "send" \notin signal[p]

SignalInv(p) ==
    /\ "closeSend" \in signal[p] => Closing(p) /\ SendPopped(p) = SendTotal(p)
    /\ "closeRecv" \in signal[p] => Closing(p) /\ RecvPopped(p) = RecvTotal(p)
    /\ app[p] = "closed" => {"closeSend", "closeRecv"} \subseteq signal[p]
    /\ "send" \in signal[p] =>
          /\ app[p] = "sending"
          /\ SendPopped(p) + (IF sender[p] = "fulfilled" THEN 1 ELSE 0) = Len(sent[p])
    /\ \A i \in 1..Len(mSendQueue[p]) :
          i > 1 \/ sender[p] # "fulfilled" => AwaitedSend(p, mSendQueue[p][i])
    /\ \A i \in 1..Len(sendPosted[p]) : AwaitedSend(p, sendPosted[p][i])

\* The connection holds the parts that were written and not read, in order.
WireInv(p) ==
    /\ \A i \in 1..Len(wire[p]) : Rank(wire[p][i]) = ReadCount(Other(p)) + i
    /\ ReadCount(Other(p)) + Len(wire[p]) <= Written(p)
    /\ ~ lost => ReadCount(Other(p)) + Len(wire[p]) = Written(p)
    /\ lost => wire[p] = <<>>

GotInv(p) ==
    /\ Len(got[p]) = MinOf(RecvPopped(p), Len(recvs[p]))
                        + (IF reader[p] \in {"fulfilled", "failed"} THEN 1 ELSE 0)
    /\ \A i \in 1..Len(got[p]) :
          /\ got[p][i].recv = i
          /\ got[p][i].msg = IF reader[p] = "failed" /\ i = Len(got[p])
                               THEN Refused ELSE i
    /\ reader[p] = "read" => body[p] = RecvPopped(p) + 1

\* A process dies only after the other end has closed, and for a reason.
Unbalanced(p) ==
    \/ Len(recvs[p]) > Len(sent[Other(p)])
    \/ Len(sent[p]) > Len(recvs[Other(p)])

CrashInv(p) ==
    crashed[p] =>
        /\ app[Other(p)] = "closed" /\ ~ crashed[Other(p)]
        /\ wire[Other(p)] = <<>>
        /\ Unbalanced(p)

LostInv ==
    lost => \E p \in Peer :
                app[Other(p)] = "closed" /\ Len(sent[p]) > Len(recvs[Other(p)])

IInv ==
    /\ ChannelTypeOK
    /\ LostInv
    /\ \A p \in Peer :
          /\ SendQueueInv(p) /\ RecvQueueInv(p)
          /\ SignalInv(p)
          /\ WireInv(p) /\ GotInv(p)
          /\ CrashInv(p)

-----------------------------------------------------------------------------
LEMMA OtherPeer ==
    \A p \in Peer : /\ Other(p) \in Peer /\ Other(p) # p
                     /\ Other(Other(p)) = p
                     /\ \A q \in Peer : q # p => q = Other(p)
BY PeerAssumption DEF Other

\* What the prover needs to know of a queue.
LEMMA HeadTail ==
    ASSUME NEW S, NEW q \in Seq(S), q # <<>>
    PROVE  /\ Head(q) \in S /\ Tail(q) \in Seq(S)
           /\ Head(q) = q[1]
           /\ Len(q) \in Nat /\ Len(q) >= 1
           /\ Len(Tail(q)) = Len(q) - 1
           /\ \A i \in 1..Len(Tail(q)) : Tail(q)[i] = q[i + 1]
OBVIOUS

LEMMA Appended ==
    ASSUME NEW S, NEW q \in Seq(S), NEW e \in S
    PROVE  /\ Append(q, e) \in Seq(S)
           /\ Append(q, e) # <<>>
           /\ Len(Append(q, e)) = Len(q) + 1
           /\ Append(q, e)[Len(q) + 1] = e
           /\ \A i \in 1..Len(q) : Append(q, e)[i] = q[i]
OBVIOUS

LEMMA ConsecutiveAppend ==
    ASSUME NEW S, NEW q \in Seq(S), NEW e \in S,
           NEW base \in Int, NEW last \in Nat, NEW data,
           Consecutive(q, base, last, data),
           e.n = base + Len(q) + 1, e.type = data <=> e.n <= last
    PROVE  Consecutive(Append(q, e), base, last, data)
<1>. SUFFICES ASSUME NEW i \in 1..Len(Append(q, e))
              PROVE  /\ Append(q, e)[i].n = base + i
                     /\ Append(q, e)[i].type = data <=> Append(q, e)[i].n <= last
  BY DEF Consecutive
<1>1. CASE i \in 1..Len(q)
  BY <1>1, Appended DEF Consecutive
<1>2. CASE i = Len(q) + 1
  BY <1>2, Appended
<1>. QED  BY <1>1, <1>2, Appended

LEMMA ConsecutiveTail ==
    ASSUME NEW S, NEW q \in Seq(S), q # <<>>,
           NEW base \in Int, NEW last \in Nat, NEW data,
           Consecutive(q, base, last, data)
    PROVE  /\ Head(q).n = base + 1
           /\ Head(q).type = data <=> base + 1 <= last
           /\ Consecutive(Tail(q), base + 1, last, data)
<1>1. /\ Head(q).n = base + 1
      /\ Head(q).type = data <=> base + 1 <= last
  BY HeadTail DEF Consecutive
<1>2. ASSUME NEW i \in 1..Len(Tail(q))
      PROVE  /\ Tail(q)[i].n = base + 1 + i
             /\ Tail(q)[i].type = data <=> Tail(q)[i].n <= last
  <2>1. i \in Nat /\ i + 1 \in 1..Len(q) /\ Tail(q)[i] = q[i + 1]
    BY HeadTail
  <2>2. /\ q[i + 1].n = base + (i + 1)
        /\ q[i + 1].type = data <=> q[i + 1].n <= last
    BY <2>1 DEF Consecutive
  <2>. QED  BY <2>1, <2>2
<1>. QED  BY <1>1, <1>2 DEF Consecutive

LEMMA EmptyOrNot ==
    ASSUME NEW S, NEW q \in Seq(S)
    PROVE  Len(q) \in Nat /\ (q = <<>> <=> Len(q) = 0)
OBVIOUS

(* Frames.  Each part of the invariant looks at one side of one end.       *)

SendEnd(p) == <<sent[p], sendPosted[p], mSendQueue[p], pushing[p], sender[p],
                SendTotal(p)>>
RecvEnd(p) == <<recvs[p], recvPosted[p], mRecvQueue[p], reader[p], body[p],
                got[p], RecvTotal(p)>>

LEMMA SendFrame ==
    ASSUME NEW p, UNCHANGED SendEnd(p)
    PROVE  /\ SendQueueInv(p) => SendQueueInv(p)'
           /\ SendPopped(p)' = SendPopped(p)
           /\ Written(p)' = Written(p)
BY DEF SendEnd, SendQueueInv, SendDriver, SendPopped, Written

LEMMA RecvFrame ==
    ASSUME NEW p, UNCHANGED RecvEnd(p)
    PROVE  /\ RecvQueueInv(p) => RecvQueueInv(p)'
           /\ GotInv(p) => GotInv(p)'
           /\ RecvPopped(p)' = RecvPopped(p)
           /\ ReadCount(p)' = ReadCount(p)
BY DEF RecvEnd, RecvQueueInv, RecvDriver, RecvPopped, ReadCount, GotInv

LEMMA SignalFrame ==
    ASSUME NEW p, UNCHANGED <<SendEnd(p), RecvEnd(p), app[p], signal[p]>>
    PROVE  SignalInv(p) => SignalInv(p)'
<1>1. SendPopped(p)' = SendPopped(p) /\ RecvPopped(p)' = RecvPopped(p)
  BY SendFrame, RecvFrame
<1>. QED
  BY <1>1 DEF SendEnd, RecvEnd, SignalInv, AwaitedSend, Closing

\* The other end of p takes no part in a step.
Bystander(p) == <<SendEnd(Other(p)), RecvEnd(Other(p)), app[Other(p)],
                  signal[Other(p)], crashed[Other(p)]>>

\* The socket of a closed end is drained.
Drained(p) ==
    /\ sendPosted[p] = <<>> /\ mSendQueue[p] = <<>> /\ recvPosted[p] = <<>>
    /\ mRecvQueue[p] = <<>>
    /\ sender[p] = "idle" /\ reader[p] = "idle" /\ ~ pushing[p]

LEMMA ClosedIsDrained ==
    ASSUME IInv, NEW p \in Peer, app[p] = "closed"
    PROVE  Drained(p)
<1>1. /\ SendPopped(p) = SendTotal(p) /\ RecvPopped(p) = RecvTotal(p)
      /\ SendQueueInv(p) /\ RecvQueueInv(p)
  BY DEF IInv, SignalInv
<1>2. /\ sendPosted[p] \in Seq(Op) /\ mSendQueue[p] \in Seq(Op)
      /\ recvPosted[p] \in Seq(ROp) /\ mRecvQueue[p] \in Seq(ROp)
      /\ sent[p] \in Seq(Size) /\ recvs[p] \in Seq(Expected)
      /\ pushing[p] \in BOOLEAN
  BY DEF IInv, ChannelTypeOK
<1>3. SendTotal(p) \in Nat /\ RecvTotal(p) \in Nat
  BY <1>2, EmptyOrNot DEF SendTotal, RecvTotal, Closing
<1>4. /\ Len(sendPosted[p]) = 0 /\ Len(mSendQueue[p]) = 0
      /\ Len(recvPosted[p]) = 0 /\ Len(mRecvQueue[p]) = 0
  <2>. DEFINE a == Len(sendPosted[p])
              b == Len(mSendQueue[p])
              c == Len(recvPosted[p])
              d == Len(mRecvQueue[p])
              s == SendTotal(p)
              r == RecvTotal(p)
  <2>1. s - a - b = s /\ r - c - d = r
    BY <1>1 DEF SendPopped, RecvPopped
  <2>2. a \in Nat /\ b \in Nat /\ c \in Nat /\ d \in Nat /\ s \in Nat /\ r \in Nat
    BY <1>2, <1>3, EmptyOrNot
  <2>. HIDE DEF a, b, c, d, s, r
  <2>3. a = 0 /\ b = 0 /\ c = 0 /\ d = 0
    BY <2>1, <2>2
  <2>. QED  BY <2>3 DEF a, b, c, d
<1>5. /\ sendPosted[p] = <<>> /\ mSendQueue[p] = <<>>
      /\ recvPosted[p] = <<>> /\ mRecvQueue[p] = <<>>
  BY <1>2, <1>4, EmptyOrNot
<1>. QED
  BY <1>1, <1>4, <1>5 DEF SendQueueInv, RecvQueueInv, SendDriver, RecvDriver, Drained

\* A step of an end that is alive leaves the connection's fate as it was.
LEMMA AliveStep ==
    ASSUME IInv, NEW p \in Peer, app[p] # "closed", ~ crashed[p],
           UNCHANGED <<Bystander(p), lost, crashed>>,
           Len(sent[p])' >= Len(sent[p]),
           ChannelTypeOK'
    PROVE  CrashInv(p)' /\ CrashInv(Other(p))' /\ LostInv'
<1>1. ~ crashed[Other(p)]
  BY OtherPeer DEF IInv, CrashInv
<1>2. CrashInv(p)' /\ CrashInv(Other(p))'
  BY <1>1, OtherPeer DEF CrashInv
<1>3. LostInv'
  <2>. SUFFICES ASSUME lost PROVE LostInv'
    BY DEF LostInv
  <2>1. app[Other(p)] = "closed" /\ Len(sent[p]) > Len(recvs[Other(p)])
    BY OtherPeer DEF IInv, LostInv
  <2>2. app'[Other(p)] = "closed" /\ recvs'[Other(p)] = recvs[Other(p)]
    BY <2>1 DEF Bystander, RecvEnd
  <2>3. Len(sent[p])' > Len(recvs[Other(p)])'
    <3>1. Len(sent[p]) \in Nat /\ Len(recvs[Other(p)]) \in Nat /\ Len(sent[p])' \in Nat
      <4>1. /\ sent[p] \in Seq(Size) /\ recvs[Other(p)] \in Seq(Expected)
            /\ sent'[p] \in Seq(Size)
        BY OtherPeer DEF IInv, ChannelTypeOK
      <4>. QED  BY <4>1, EmptyOrNot
    <3>. QED  BY <3>1, <2>1, <2>2
  <2>. QED  BY <2>2, <2>3 DEF LostInv
<1>. QED  BY <1>2, <1>3

\* A step of one end that leaves the connection alone.
LEMMA LocalStep ==
    ASSUME IInv, NEW p \in Peer, app[p] # "closed", ~ crashed[p],
           UNCHANGED <<Bystander(p), wire, lost, crashed>>,
           Len(sent[p])' >= Len(sent[p]),
           ChannelTypeOK',
           SendQueueInv(p)', RecvQueueInv(p)', SignalInv(p)', GotInv(p)',
           Written(p)' = Written(p), ReadCount(p)' = ReadCount(p)
    PROVE  IInv'
<1>. DEFINE o == Other(p)
<1>1. CrashInv(p)' /\ CrashInv(o)' /\ LostInv'
  BY AliveStep
<1>2. o \in Peer /\ Other(o) = p
  BY OtherPeer
<1>3. /\ SendQueueInv(o)' /\ RecvQueueInv(o)' /\ SignalInv(o)' /\ GotInv(o)'
      /\ Written(o)' = Written(o) /\ ReadCount(o)' = ReadCount(o)
  BY <1>2, SendFrame, RecvFrame, SignalFrame DEF IInv, Bystander
<1>4. WireInv(p)' /\ WireInv(o)'
  BY <1>2, <1>3 DEF IInv, WireInv, Rank
<1>. QED
  BY <1>1, <1>3, <1>4, OtherPeer DEF IInv

(* The facts about one end that every step at that end starts from.        *)
LEMMA EndTypes ==
    ASSUME ChannelTypeOK, NEW p \in Peer
    PROVE  /\ sent[p] \in Seq(Size) /\ recvs[p] \in Seq(Expected)
           /\ sendPosted[p] \in Seq(Op) /\ mSendQueue[p] \in Seq(Op)
           /\ recvPosted[p] \in Seq(ROp) /\ mRecvQueue[p] \in Seq(ROp)
           /\ wire[p] \in Seq(Part) /\ got[p] \in Seq(Result)
           /\ pushing[p] \in BOOLEAN /\ body[p] \in Nat
           /\ sender[p] \in {"idle", "header", "body", "written", "fulfilled"}
           /\ reader[p] \in {"idle", "header", "body", "read", "fulfilled", "failed"}
BY DEF ChannelTypeOK

LEMMA EndLengths ==
    ASSUME ChannelTypeOK, NEW p \in Peer
    PROVE  /\ Len(sent[p]) \in Nat /\ Len(recvs[p]) \in Nat
           /\ Len(sendPosted[p]) \in Nat /\ Len(mSendQueue[p]) \in Nat
           /\ Len(recvPosted[p]) \in Nat /\ Len(mRecvQueue[p]) \in Nat
           /\ Len(wire[p]) \in Nat /\ Len(got[p]) \in Nat
           /\ SendTotal(p) \in Nat /\ RecvTotal(p) \in Nat
           /\ SendPopped(p) \in Int /\ RecvPopped(p) \in Int
<1>1. /\ Len(sent[p]) \in Nat /\ Len(recvs[p]) \in Nat
      /\ Len(sendPosted[p]) \in Nat /\ Len(mSendQueue[p]) \in Nat
      /\ Len(recvPosted[p]) \in Nat /\ Len(mRecvQueue[p]) \in Nat
      /\ Len(wire[p]) \in Nat /\ Len(got[p]) \in Nat
  BY EndTypes, EmptyOrNot
<1>2. SendTotal(p) \in Nat /\ RecvTotal(p) \in Nat
  <2>1. CASE Closing(p)
    BY <1>1, <2>1 DEF SendTotal, RecvTotal
  <2>2. CASE ~ Closing(p)
    BY <1>1, <2>2 DEF SendTotal, RecvTotal
  <2>. QED  BY <2>1, <2>2
<1>3. SendPopped(p) \in Int /\ RecvPopped(p) \in Int
  <2>1. SendPopped(p) \in Int
    BY <1>1, <1>2 DEF SendPopped
  <2>2. RecvPopped(p) \in Int
    BY <1>1, <1>2 DEF RecvPopped
  <2>. QED  BY <2>1, <2>2
<1>. QED  BY <1>1, <1>2, <1>3

-----------------------------------------------------------------------------
(* One lemma per action.                                                   *)

LEMMA SendTotalCases ==
    ASSUME NEW p, Len(sent[p]) \in Nat
    PROVE  \/ Closing(p) /\ SendTotal(p) = Len(sent[p]) + 1
           \/ ~ Closing(p) /\ SendTotal(p) = Len(sent[p])
<1>1. CASE Closing(p)
  BY <1>1 DEF SendTotal
<1>2. CASE ~ Closing(p)
  BY <1>2 DEF SendTotal
<1>. QED  BY <1>1, <1>2

LEMMA RecvTotalCases ==
    ASSUME NEW p, Len(recvs[p]) \in Nat
    PROVE  \/ Closing(p) /\ RecvTotal(p) = Len(recvs[p]) + 1
           \/ ~ Closing(p) /\ RecvTotal(p) = Len(recvs[p])
<1>1. CASE Closing(p)
  BY <1>1 DEF RecvTotal
<1>2. CASE ~ Closing(p)
  BY <1>2 DEF RecvTotal
<1>. QED  BY <1>1, <1>2

\* sendOne is called with the contents of the queue while nothing else drains
\* it: base operations have left the queue before.
SendQueueReady(p, queue, base) ==
    /\ base \in Nat
    /\ SendTotal(p) = base + Len(queue) + Len(sendPosted[p])
    /\ Consecutive(queue, base, Len(sent[p]), "SendData")
    /\ Consecutive(sendPosted[p], base + Len(queue), Len(sent[p]), "SendData")

SendSignalReady(p, queue, base) ==
    /\ "closeRecv" \in signal[p] => Closing(p) /\ RecvPopped(p) = RecvTotal(p)
    /\ app[p] # "closed" /\ "closeSend" \notin signal[p]
    /\ "send" \in signal[p] => app[p] = "sending" /\ base = Len(sent[p])
    /\ \A i \in 1..Len(queue) : AwaitedSend(p, queue[i])
    /\ \A i \in 1..Len(sendPosted[p]) : AwaitedSend(p, sendPosted[p][i])

OnlySendOne(p) ==
    /\ pushing'[p] = FALSE
    /\ UNCHANGED <<sent[p], sendPosted[p], SendTotal(p), RecvEnd(p), app>>

LEMMA SendOneEffect ==
    ASSUME ChannelTypeOK, NEW p \in Peer, NEW queue \in Seq(Op), queue # <<>>,
           NEW base, SendQueueReady(p, queue, base), SendSignalReady(p, queue, base),
           SendOne(p, queue), OnlySendOne(p)
    PROVE  /\ SendQueueInv(p)' /\ SignalInv(p)'
           /\ Written(p)' = 2 * base
           /\ mSendQueue' \in [Peer -> Seq(Op)]
           /\ sender' \in [Peer -> {"idle", "header", "body", "written", "fulfilled"}]
           /\ signal' \in [Peer -> SUBSET {"send", "closeSend", "closeRecv"}]
           /\ UNCHANGED <<mSendQueue[Other(p)], sender[Other(p)], signal[Other(p)]>>
<1>. DEFINE last == Len(sent[p])
            inside == Len(queue)
            behind == Len(sendPosted[p])
            total == SendTotal(p)
<1>1. /\ last \in Nat /\ inside \in Nat /\ inside >= 1 /\ base \in Nat
      /\ behind \in Nat /\ total \in Nat
      /\ total = base + inside + behind
  BY EndLengths, HeadTail DEF SendQueueReady
<1>2. Tail(queue) \in Seq(Op) /\ Len(Tail(queue)) = inside - 1
  BY HeadTail
<1>3. /\ Head(queue).type = "SendData" <=> base + 1 <= last
      /\ Consecutive(Tail(queue), base + 1, last, "SendData")
  BY <1>1, ConsecutiveTail DEF SendQueueReady
<1>4. \/ Closing(p) /\ total = last + 1
      \/ ~ Closing(p) /\ total = last
  BY <1>1, SendTotalCases
<1>. HIDE DEF last, inside, behind, total
<1>5. base <= last /\ (base = last => total = last + 1 /\ inside = 1 /\ behind = 0)
  BY <1>1, <1>4
<1>6. base = last => Closing(p)
  BY <1>1, <1>4, <1>5
<1>7. "send" \notin signal[p]
  BY <1>6 DEF SendSignalReady, Closing, last
<1>8. RecvPopped(p)' = RecvPopped(p) /\ RecvTotal(p)' = RecvTotal(p)
  BY RecvFrame DEF OnlySendOne, RecvEnd
<1>9. CASE Head(queue).type = "SendData"
  <2>1. /\ mSendQueue' = [mSendQueue EXCEPT ![p] = queue]
        /\ sender' = [sender EXCEPT ![p] = "header"]
        /\ signal' = signal
    BY <1>9 DEF SendOne
  <2>2. /\ mSendQueue'[p] = queue /\ sender'[p] = "header" /\ signal' = signal
        /\ mSendQueue' \in [Peer -> Seq(Op)]
        /\ sender' \in [Peer -> {"idle", "header", "body", "written", "fulfilled"}]
        /\ UNCHANGED <<mSendQueue[Other(p)], sender[Other(p)]>>
    BY <2>1, OtherPeer DEF ChannelTypeOK
  <2>3. SendPopped(p)' = total - behind - inside
    BY <2>2 DEF SendPopped, OnlySendOne, total, behind, inside
  <2>4. SendPopped(p)' = base
    BY <1>1, <2>3
  <2>5. Written(p)' = 2 * base
    <3>1. Len(sent[p])' = last /\ sender'[p] = "header"
      BY <2>2 DEF OnlySendOne, last
    <3>. QED  BY <1>1, <1>5, <2>4, <3>1 DEF Written, MinOf
  <2>6. SendQueueInv(p)'
    BY <1>1, <1>3, <1>9, <2>2, <2>4
       DEF SendQueueInv, SendDriver, SendQueueReady, OnlySendOne, last, inside
  <2>7. SignalInv(p)'
    BY <1>7, <1>8, <2>2 DEF SignalInv, AwaitedSend, Closing, SendSignalReady, OnlySendOne
  <2>. QED  BY <2>2, <2>5, <2>6, <2>7 DEF ChannelTypeOK
<1>10. CASE Head(queue).type # "SendData"
  <2>1. /\ mSendQueue' = [mSendQueue EXCEPT ![p] = Tail(queue)]
        /\ sender' = [sender EXCEPT ![p] = "idle"]
        /\ signal' = [signal EXCEPT ![p] = @ \cup {"closeSend"}]
    BY <1>10 DEF SendOne
  <2>2. /\ mSendQueue'[p] = Tail(queue) /\ sender'[p] = "idle"
        /\ signal'[p] = signal[p] \cup {"closeSend"}
        /\ mSendQueue' \in [Peer -> Seq(Op)]
        /\ sender' \in [Peer -> {"idle", "header", "body", "written", "fulfilled"}]
        /\ signal' \in [Peer -> SUBSET {"send", "closeSend", "closeRecv"}]
        /\ UNCHANGED <<mSendQueue[Other(p)], sender[Other(p)], signal[Other(p)]>>
    BY <1>2, <2>1, OtherPeer DEF ChannelTypeOK
  <2>3. base = last /\ total = last + 1 /\ inside = 1 /\ behind = 0 /\ Closing(p)
    BY <1>1, <1>3, <1>5, <1>6, <1>10
  <2>4. Len(Tail(queue)) = 0
    BY <1>2, <2>3
  <2>5. /\ Len(mSendQueue[p])' = 0 /\ Len(sendPosted[p])' = 0 /\ sender'[p] = "idle"
        /\ pushing'[p] = FALSE /\ app' = app /\ Closing(p)'
        /\ Len(sent[p])' = last /\ SendTotal(p)' = last + 1
    BY <2>2, <2>3, <2>4 DEF OnlySendOne, Closing, behind, total, last
  <2>6. SendPopped(p)' = (last + 1) - 0 - 0
    BY <2>5 DEF SendPopped
  <2>7. SendPopped(p)' = last + 1
    BY <1>1, <2>6
  <2>8. Written(p)' = 2 * base
    BY <1>1, <2>3, <2>5, <2>7 DEF Written, MinOf
  <2>9. SendQueueInv(p)'
    BY <1>1, <2>5, <2>7 DEF SendQueueInv, SendDriver, Consecutive
  <2>10. SignalInv(p)'
    BY <1>7, <1>8, <2>2, <2>5, <2>7 DEF SignalInv, Closing, SendSignalReady
  <2>. QED  BY <2>2, <2>8, <2>9, <2>10
<1>. QED  BY <1>9, <1>10

LEMMA PushSendKeepsIInv ==
    ASSUME IInv, NEW p \in Peer, PushSend(p)
    PROVE  IInv'
<1>. DEFINE op == Head(sendPosted[p])
            posted == sendPosted[p]
            queue == mSendQueue[p]
            popped == SendPopped(p)
<1>1. /\ posted \in Seq(Op) /\ queue \in Seq(Op) /\ posted # <<>>
      /\ ChannelTypeOK
  BY EndTypes DEF IInv, PushSend
<1>2. /\ op \in Op /\ op = posted[1] /\ Tail(posted) \in Seq(Op)
      /\ Len(posted) >= 1 /\ Len(Tail(posted)) = Len(posted) - 1
      /\ \A i \in 1..Len(Tail(posted)) : Tail(posted)[i] = posted[i + 1]
  BY <1>1, HeadTail
<1>3. /\ Append(queue, op) \in Seq(Op) /\ Append(queue, op) # <<>>
      /\ Len(Append(queue, op)) = Len(queue) + 1
      /\ Append(queue, op)[Len(queue) + 1] = op
      /\ \A i \in 1..Len(queue) : Append(queue, op)[i] = queue[i]
  BY <1>1, <1>2, Appended
<1>4. ChannelTypeOK'
  BY <1>2, <1>3 DEF IInv, ChannelTypeOK, PushSend, appVars, histVars, recvVars, netVars
<1>5. /\ mSendQueue'[p] = Append(queue, op) /\ sendPosted'[p] = Tail(posted)
      /\ pushing[p] = FALSE /\ pushing'[p] = TRUE
      /\ UNCHANGED <<sender, sent, app, signal, RecvEnd(p), SendTotal(p),
                     Bystander(p), wire, lost, crashed>>
      /\ ~ crashed[p]
  <2>1. /\ mSendQueue'[p] = Append(queue, op) /\ sendPosted'[p] = Tail(posted)
        /\ pushing[p] = FALSE /\ pushing'[p] = TRUE
        /\ UNCHANGED <<mSendQueue[Other(p)], sendPosted[Other(p)], pushing[Other(p)]>>
    <3>1. /\ mSendQueue' = [mSendQueue EXCEPT ![p] = Append(@, op)]
          /\ sendPosted' = [sendPosted EXCEPT ![p] = Tail(@)]
          /\ pushing' = [pushing EXCEPT ![p] = TRUE] /\ ~ pushing[p]
      BY DEF PushSend
    <3>2. /\ DOMAIN mSendQueue = Peer /\ DOMAIN sendPosted = Peer
          /\ pushing \in [Peer -> BOOLEAN]
      BY <1>1 DEF ChannelTypeOK
    <3>. HIDE DEF op
    <3>. QED  BY <3>1, <3>2, OtherPeer
  <2>2. /\ UNCHANGED <<sender, sent, recvs, app, signal, recvPosted, mRecvQueue,
                       reader, body, got, wire, lost, crashed>>
        /\ ~ crashed[p]
    BY DEF PushSend, appVars, histVars, recvVars, netVars
  <2>. QED
    BY <2>1, <2>2 DEF RecvEnd, SendEnd, RecvTotal, SendTotal, Closing, Bystander
<1>6. SendPopped(p)' = popped /\ Written(p)' = Written(p)
  <2>1. SendTotal(p) \in Nat /\ Len(posted) \in Nat /\ Len(queue) \in Nat
    BY <1>1, EndLengths
  <2>2. SendPopped(p)' = SendTotal(p) - (Len(posted) - 1) - (Len(queue) + 1)
    BY <1>2, <1>3, <1>5 DEF SendPopped
  <2>3. popped = SendTotal(p) - Len(posted) - Len(queue)
    BY DEF SendPopped
  <2>4. SendPopped(p)' = popped
    BY <2>1, <2>2, <2>3
  <2>. QED  BY <1>5, <2>4 DEF Written
<1>7. SendQueueInv(p)'
  <2>. DEFINE base == popped + Len(queue)
              last == Len(sent[p])
  <2>1. /\ popped >= 0 /\ SendDriver(p)
        /\ Consecutive(queue, popped, last, "SendData")
        /\ Consecutive(posted, base, last, "SendData")
        /\ popped \in Int /\ base \in Int /\ last \in Nat /\ Len(queue) \in Nat
    BY <1>1, EndLengths DEF IInv, SendQueueInv
  <2>2. /\ op.n = popped + Len(queue) + 1
        /\ op.type = "SendData" <=> op.n <= last
        /\ Consecutive(Tail(posted), base + 1, last, "SendData")
    BY <1>1, <2>1, ConsecutiveTail
  <2>3. Consecutive(Append(queue, op), popped, last, "SendData")
    BY <1>1, <1>2, <2>1, <2>2, ConsecutiveAppend
  <2>4. SendDriver(p)'
    BY <1>3, <1>5, <1>6, <2>1 DEF SendDriver
  <2>. QED  BY <1>3, <1>5, <1>6, <2>1, <2>2, <2>3, <2>4 DEF SendQueueInv
<1>8. SignalInv(p)'
  <2>1. SignalInv(p) /\ Len(queue) \in Nat
    BY <1>1, EndLengths DEF IInv
  <2>2. AwaitedSend(p, op)
    BY <1>1, <1>2, <2>1 DEF SignalInv
  <2>3. RecvPopped(p)' = RecvPopped(p) /\ RecvTotal(p)' = RecvTotal(p)
    BY <1>5, RecvFrame DEF RecvEnd
  <2>4. ASSUME NEW i \in 1..Len(Append(queue, op)), i > 1 \/ sender[p] # "fulfilled"
        PROVE  AwaitedSend(p, Append(queue, op)[i])
    BY <1>3, <2>1, <2>2, <2>4 DEF SignalInv
  <2>5. ASSUME NEW i \in 1..Len(Tail(posted))
        PROVE  AwaitedSend(p, Tail(posted)[i])
    BY <1>2, <2>1, <2>5 DEF SignalInv
  <2>. QED  BY <1>5, <1>6, <2>1, <2>3, <2>4, <2>5 DEF SignalInv, AwaitedSend, Closing
<1>9. app[p] # "closed"
  BY <1>1, ClosedIsDrained DEF Drained
<1>. QED
  BY <1>1, <1>4, <1>5, <1>6, <1>7, <1>8, <1>9, RecvFrame, LocalStep, EndLengths DEF IInv

\* What SendPopped is, without its subtractions.
LEMMA SendSplit ==
    ASSUME ChannelTypeOK, NEW p \in Peer
    PROVE  /\ SendTotal(p) = SendPopped(p) + Len(mSendQueue[p]) + Len(sendPosted[p])
           /\ SendTotal(p) = Len(sent[p]) \/ SendTotal(p) = Len(sent[p]) + 1
<1>1. SendTotal(p) = SendPopped(p) + Len(mSendQueue[p]) + Len(sendPosted[p])
  BY EndLengths DEF SendPopped
<1>. QED  BY <1>1, EndLengths, SendTotalCases

LEMMA RecvSplit ==
    ASSUME ChannelTypeOK, NEW p \in Peer
    PROVE  /\ RecvTotal(p) = RecvPopped(p) + Len(mRecvQueue[p]) + Len(recvPosted[p])
           /\ RecvTotal(p) = Len(recvs[p]) \/ RecvTotal(p) = Len(recvs[p]) + 1
<1>1. RecvTotal(p) = RecvPopped(p) + Len(mRecvQueue[p]) + Len(recvPosted[p])
  BY EndLengths DEF RecvPopped
<1>. QED  BY <1>1, EndLengths, RecvTotalCases

LEMMA KickSendKeepsIInv ==
    ASSUME IInv, NEW p \in Peer, KickSend(p)
    PROVE  IInv'
<1>. DEFINE queue == mSendQueue[p]
            popped == SendPopped(p)
<1>1. /\ ChannelTypeOK /\ SendQueueInv(p) /\ SignalInv(p) /\ RecvQueueInv(p) /\ GotInv(p)
      /\ queue \in Seq(Op) /\ queue # <<>> /\ pushing[p] /\ ~ crashed[p]
  BY EndTypes DEF IInv, KickSend, SendQueueInv, SendDriver
<1>2. /\ pushing'[p] = FALSE
      /\ UNCHANGED <<sendPosted, sent, app, RecvEnd(p), SendTotal(p), wire, lost, crashed>>
  BY <1>1
     DEF ChannelTypeOK, KickSend, appVars, histVars, recvVars, netVars, RecvEnd,
         RecvTotal, SendTotal, Closing
<1>3. app[p] # "closed"
  BY <1>1, ClosedIsDrained DEF Drained
<1>4. UNCHANGED <<pushing[Other(p)], mSendQueue[Other(p)], sender[Other(p)], signal[Other(p)]>>
        => UNCHANGED Bystander(p)
  BY DEF KickSend, appVars, histVars, recvVars, netVars, RecvEnd, SendEnd,
         RecvTotal, SendTotal, Closing, Bystander
<1>5. /\ RecvQueueInv(p)' /\ GotInv(p)' /\ ReadCount(p)' = ReadCount(p)
  BY <1>1, <1>2, RecvFrame
<1>6. UNCHANGED pushing[Other(p)] /\ pushing' \in [Peer -> BOOLEAN]
  BY OtherPeer DEF KickSend, IInv, ChannelTypeOK
<1>7. CASE StartSending(queue) /\ SendOne(p, queue)
  <2>1. Len(queue) = 1 /\ sender[p] = "idle"
    BY <1>1, <1>7 DEF StartSending, SendQueueInv, SendDriver
  <2>2. /\ popped \in Nat /\ popped <= Len(sent[p]) /\ popped # SendTotal(p)
        /\ Len(sent[p]) \in Nat
    BY <1>1, <2>1, SendSplit, EndLengths DEF SendQueueInv
  <2>3. SendQueueReady(p, queue, popped)
    BY <1>1, <2>2, SendSplit DEF SendQueueReady, SendQueueInv
  <2>4. SendSignalReady(p, queue, popped)
    BY <1>1, <1>3, <2>1, <2>2 DEF SendSignalReady, SignalInv
  <2>5. OnlySendOne(p)
    BY <1>2 DEF OnlySendOne
  <2>6. /\ SendQueueInv(p)' /\ SignalInv(p)' /\ Written(p)' = 2 * popped
        /\ mSendQueue' \in [Peer -> Seq(Op)]
        /\ sender' \in [Peer -> {"idle", "header", "body", "written", "fulfilled"}]
        /\ signal' \in [Peer -> SUBSET {"send", "closeSend", "closeRecv"}]
        /\ UNCHANGED <<mSendQueue[Other(p)], sender[Other(p)], signal[Other(p)]>>
    BY <1>1, <1>7, <2>2, <2>3, <2>4, <2>5, SendOneEffect
  <2>7. Written(p)' = Written(p)
    BY <2>1, <2>2, <2>6 DEF Written, MinOf
  <2>8. ChannelTypeOK'
    BY <1>1, <1>6, <2>6 DEF ChannelTypeOK, KickSend, appVars, histVars, recvVars, netVars
  <2>. QED
    BY <1>1, <1>2, <1>3, <1>4, <1>5, <1>6, <2>2, <2>6, <2>7, <2>8, LocalStep
<1>8. CASE ~ StartSending(queue) /\ UNCHANGED <<mSendQueue, sender, signal>>
  <2>1. ChannelTypeOK'
    BY <1>1, <1>6, <1>8 DEF ChannelTypeOK, KickSend, appVars, histVars, recvVars, netVars
  <2>2. /\ SendPopped(p)' = popped /\ Written(p)' = Written(p)
        /\ RecvPopped(p)' = RecvPopped(p) /\ RecvTotal(p)' = RecvTotal(p)
    BY <1>2, <1>8, RecvFrame DEF SendPopped, Written, RecvEnd
  <2>3. SendQueueInv(p)'
    <3>1. Len(queue) # 1 /\ Len(queue) # 0
      BY <1>1, <1>8, EmptyOrNot DEF StartSending
    <3>. QED  BY <1>1, <1>2, <1>8, <2>2, <3>1 DEF SendQueueInv, SendDriver
  <2>4. SignalInv(p)'
    BY <1>1, <1>2, <1>8, <2>2 DEF SignalInv, AwaitedSend, Closing
  <2>. QED
    BY <1>1, <1>2, <1>3, <1>4, <1>5, <1>6, <1>8, <2>1, <2>2, <2>3, <2>4, LocalStep, EndLengths
<1>. QED
  BY <1>7, <1>8 DEF KickSend

\* The operation a chain works on.
LEMMA SenderFacts ==
    ASSUME IInv, NEW p \in Peer, sender[p] # "idle"
    PROVE  /\ mSendQueue[p] \in Seq(Op) /\ mSendQueue[p] # <<>>
           /\ Head(mSendQueue[p]) \in Op /\ Head(mSendQueue[p]) = mSendQueue[p][1]
           /\ Head(mSendQueue[p]).n = SendPopped(p) + 1
           /\ Head(mSendQueue[p]).type = "SendData"
           /\ SendPopped(p) \in Nat /\ SendPopped(p) < Len(sent[p])
           /\ sender[p] = "header" => Written(p) = 2 * SendPopped(p)
           /\ sender[p] = "body" => Written(p) = 2 * SendPopped(p) + 1
           /\ sender[p] \in {"written", "fulfilled"} => Written(p) = 2 * SendPopped(p) + 2
           /\ app[p] # "closed"
           /\ "closeSend" \notin signal[p]
<1>1. /\ ChannelTypeOK /\ SendQueueInv(p) /\ SignalInv(p) /\ mSendQueue[p] \in Seq(Op)
  BY EndTypes DEF IInv
<1>2. /\ SendPopped(p) \in Nat /\ Len(sent[p]) \in Nat /\ SendPopped(p) < Len(sent[p])
  BY <1>1, EndLengths DEF SendQueueInv, SendDriver
<1>3. mSendQueue[p] # <<>> /\ Len(mSendQueue[p]) >= 1
  BY <1>1, EmptyOrNot, HeadTail DEF SendQueueInv, SendDriver
<1>4. /\ Head(mSendQueue[p]).n = SendPopped(p) + 1
      /\ Head(mSendQueue[p]).type = "SendData"
  BY <1>1, <1>2, <1>3, ConsecutiveTail DEF SendQueueInv
<1>5. app[p] # "closed"
  BY ClosedIsDrained DEF Drained
<1>6. "closeSend" \notin signal[p]
  BY <1>1, <1>2, <1>3, SendSplit, EndLengths DEF SignalInv
<1>. QED
  BY <1>1, <1>2, <1>3, <1>4, <1>5, <1>6, HeadTail DEF Written, MinOf

\* A chain goes on with the operation it works on.
LEMMA SenderMoves ==
    ASSUME IInv, NEW p \in Peer, sender[p] # "idle", sender'[p] # "idle",
           UNCHANGED <<sent[p], sendPosted[p], mSendQueue[p], pushing[p], SendTotal(p)>>
    PROVE  SendQueueInv(p)' /\ SendPopped(p)' = SendPopped(p)
<1>1. SendPopped(p)' = SendPopped(p)
  BY DEF SendPopped
<1>2. SendQueueInv(p)
  BY DEF IInv
<1>. QED
  BY <1>1, <1>2 DEF SendQueueInv, SendDriver

\* One more part of a frame is handed to the connection.
LEMMA WriteStep ==
    ASSUME IInv, NEW p \in Peer, NEW part \in Part, NEW next \in {"body", "written"},
           sender[p] \in {"header", "body"}, ~ crashed[p], ~ lost,
           Rank(part) = Written(p) + 1,
           2 * SendPopped(p) + (IF next = "body" THEN 1 ELSE 2) = Written(p) + 1,
           wire' = [wire EXCEPT ![p] = Append(@, part)],
           sender' = [sender EXCEPT ![p] = next],
           UNCHANGED <<appVars, signal, histVars, sendPosted, mSendQueue, pushing,
                       recvVars, lost, crashed>>
    PROVE  IInv'
<1>. DEFINE o == Other(p)
<1>1. ChannelTypeOK /\ WireInv(p) /\ WireInv(o) /\ SignalInv(p) /\ sender[p] # "fulfilled"
  BY OtherPeer DEF IInv
<1>2. o \in Peer /\ o # p /\ Other(o) = p /\ Peer = {p, o}
  BY OtherPeer
<1>3. /\ wire'[p] = Append(wire[p], part) /\ wire'[o] = wire[o]
      /\ sender'[p] = next /\ sender'[o] = sender[o]
      /\ wire' \in [Peer -> Seq(Part)]
      /\ sender' \in [Peer -> {"idle", "header", "body", "written", "fulfilled"}]
  BY <1>1, <1>2, Appended DEF ChannelTypeOK
<1>4. /\ UNCHANGED <<app, waitFor, signal, sent, recvs, sendPosted, mSendQueue, pushing,
                     recvPosted, mRecvQueue, reader, body, got, lost, crashed>>
  BY DEF appVars, histVars, recvVars
<1>5. ChannelTypeOK'
  BY <1>1, <1>3, <1>4 DEF ChannelTypeOK
<1>6. /\ UNCHANGED <<RecvEnd(p), RecvEnd(o), SendEnd(o), SendTotal(p), Bystander(p)>>
  BY <1>3, <1>4 DEF RecvEnd, SendEnd, RecvTotal, SendTotal, Closing, Bystander
<1>7. SendQueueInv(p)' /\ SendPopped(p)' = SendPopped(p)
  BY <1>3, <1>4, <1>6, SenderMoves
<1>8. Written(p)' = Written(p) + 1
  <2>1. Len(sent[p])' = Len(sent[p]) /\ Len(sent[p]) \in Nat
    BY <1>1, <1>4, EndLengths
  <2>2. SendPopped(p) \in Nat /\ SendPopped(p) < Len(sent[p])
    BY SenderFacts
  <2>3. MinOf(SendPopped(p), Len(sent[p])) = SendPopped(p)
    BY <2>1, <2>2 DEF MinOf
  <2>. QED  BY <1>3, <1>7, <2>1, <2>3 DEF Written
<1>9. /\ RecvQueueInv(p)' /\ GotInv(p)' /\ ReadCount(p)' = ReadCount(p)
      /\ RecvPopped(p)' = RecvPopped(p) /\ RecvTotal(p)' = RecvTotal(p)
      /\ SendQueueInv(o)' /\ RecvQueueInv(o)' /\ GotInv(o)' /\ SignalInv(o)'
      /\ Written(o)' = Written(o) /\ ReadCount(o)' = ReadCount(o)
  BY <1>2, <1>4, <1>6, SendFrame, RecvFrame, SignalFrame DEF IInv, RecvEnd
<1>10. SignalInv(p)'
  <2>1. "send" \notin signal[p]
    <3>1. SendPopped(p) # Len(sent[p]) /\ SendPopped(p) \in Nat
      BY SenderFacts
    <3>. QED  BY <1>1, <3>1 DEF SignalInv
  <2>. QED
    BY <1>1, <1>3, <1>4, <1>6, <1>7, <1>9, <2>1 DEF SignalInv, AwaitedSend, Closing
<1>11. WireInv(p)'
  <2>1. /\ Len(wire[p]) \in Nat /\ Written(p) = ReadCount(o) + Len(wire[p])
        /\ \A i \in 1..Len(wire[p]) : Rank(wire[p][i]) = ReadCount(o) + i
    BY <1>1, EndLengths DEF WireInv
  <2>2. /\ Len(wire[p])' = Len(wire[p]) + 1
        /\ wire'[p][Len(wire[p]) + 1] = part
        /\ \A i \in 1..Len(wire[p]) : wire'[p][i] = wire[p][i]
    BY <1>1, <1>3, EndTypes, Appended
  <2>3. ReadCount(o) \in Int
    <3>1. /\ Len(recvs[o]) \in Nat /\ RecvPopped(o) \in Int
      BY <1>1, <1>2, EndLengths
    <3>. QED  BY <3>1 DEF ReadCount, MinOf
  <2>4. \A i \in 1..Len(wire[p])' : Rank(wire'[p][i]) = ReadCount(o) + i
    BY <2>1, <2>2, <2>3 DEF Rank
  <2>5. ReadCount(o) + Len(wire[p])' = Written(p)'
    BY <1>8, <2>1, <2>2, <2>3
  <2>. QED  BY <1>2, <1>4, <1>9, <2>2, <2>3, <2>4, <2>5, <2>1, <1>8 DEF WireInv, Rank
<1>12. WireInv(o)'
  BY <1>1, <1>2, <1>3, <1>4, <1>9 DEF WireInv, Rank
<1>13. CrashInv(p)' /\ CrashInv(o)' /\ LostInv'
  <2>1. app[p] # "closed" /\ Len(sent[p])' >= Len(sent[p])
    BY <1>1, <1>4, SenderFacts, EndLengths
  <2>. QED  BY <1>4, <1>5, <1>6, <2>1, AliveStep
<1>. QED
  BY <1>2, <1>5, <1>7, <1>9, <1>10, <1>11, <1>12, <1>13 DEF IInv

LEMMA WritesKeepIInv ==
    ASSUME IInv, NEW p \in Peer, WriteHeader(p) \/ WriteBody(p)
    PROVE  IInv'
<1>. DEFINE n == Head(mSendQueue[p]).n
<1>1. CASE WriteHeader(p)
  <2>1. /\ sender[p] = "header" /\ ~ crashed[p] /\ ~ lost
        /\ wire' = [wire EXCEPT ![p] = Append(@, Header(n))]
        /\ sender' = [sender EXCEPT ![p] = "body"]
        /\ UNCHANGED <<appVars, signal, histVars, sendPosted, mSendQueue, pushing,
                       recvVars, lost, crashed>>
    BY <1>1 DEF WriteHeader
  <2>2. n = SendPopped(p) + 1 /\ n \in Nat /\ Written(p) = 2 * SendPopped(p)
    BY <2>1, SenderFacts DEF Op
  <2>3. Header(n) \in Part /\ Rank(Header(n)) = 2 * n - 1
    BY <2>2 DEF Header, Part, Rank
  <2>4. SendPopped(p) \in Nat
    BY <2>1, SenderFacts
  <2>5. /\ Rank(Header(n)) = Written(p) + 1
        /\ 2 * SendPopped(p) + (IF "body" = "body" THEN 1 ELSE 2) = Written(p) + 1
    BY <2>2, <2>3, <2>4
  <2>6. Header(n) \in Part
    BY <2>3
  <2>. HIDE DEF n
  <2>. QED  BY <2>1, <2>5, <2>6, WriteStep
<1>2. CASE WriteBody(p)
  <2>1. /\ sender[p] = "body" /\ ~ crashed[p] /\ ~ lost
        /\ wire' = [wire EXCEPT ![p] = Append(@, Body(n))]
        /\ sender' = [sender EXCEPT ![p] = "written"]
        /\ UNCHANGED <<appVars, signal, histVars, sendPosted, mSendQueue, pushing,
                       recvVars, lost, crashed>>
    BY <1>2 DEF WriteBody
  <2>2. n = SendPopped(p) + 1 /\ n \in Nat /\ Written(p) = 2 * SendPopped(p) + 1
    BY <2>1, SenderFacts DEF Op
  <2>3. Body(n) \in Part /\ Rank(Body(n)) = 2 * n
    BY <2>2 DEF Body, Part, Rank
  <2>4. SendPopped(p) \in Nat
    BY <2>1, SenderFacts
  <2>5. /\ Rank(Body(n)) = Written(p) + 1
        /\ 2 * SendPopped(p) + (IF "written" = "body" THEN 1 ELSE 2) = Written(p) + 1
    BY <2>2, <2>3, <2>4
  <2>6. Body(n) \in Part
    BY <2>3
  <2>. HIDE DEF n
  <2>. QED  BY <2>1, <2>5, <2>6, WriteStep
<1>. QED  BY <1>1, <1>2

LEMMA CompleteSendKeepsIInv ==
    ASSUME IInv, NEW p \in Peer, CompleteSend(p)
    PROVE  IInv'
<1>. DEFINE op == Head(mSendQueue[p])
            popped == SendPopped(p)
            last == Len(sent[p])
<1>1. /\ ChannelTypeOK /\ SignalInv(p) /\ SendQueueInv(p)
      /\ sender[p] = "written" /\ ~ crashed[p]
  BY DEF IInv, CompleteSend
<1>2. /\ sender' = [sender EXCEPT ![p] = "fulfilled"]
      /\ signal' = [signal EXCEPT ![p] = IF op.sync THEN @ \cup {"send"} ELSE @]
      /\ UNCHANGED <<app, waitFor, sent, recvs, sendPosted, mSendQueue, pushing,
                     recvPosted, mRecvQueue, reader, body, got, wire, lost, crashed>>
  BY DEF CompleteSend, FulfilsSend, appVars, histVars, recvVars, netVars
<1>3. /\ sender'[p] = "fulfilled"
      /\ signal'[p] = IF op.sync THEN signal[p] \cup {"send"} ELSE signal[p]
      /\ UNCHANGED <<sender[Other(p)], signal[Other(p)]>>
      /\ sender' \in [Peer -> {"idle", "header", "body", "written", "fulfilled"}]
      /\ signal' \in [Peer -> SUBSET {"send", "closeSend", "closeRecv"}]
  BY <1>1, <1>2, OtherPeer DEF ChannelTypeOK
<1>4. ChannelTypeOK'
  BY <1>1, <1>2, <1>3 DEF ChannelTypeOK
<1>5. UNCHANGED <<RecvEnd(p), SendTotal(p), Bystander(p)>>
  BY <1>2, <1>3 DEF RecvEnd, SendEnd, RecvTotal, SendTotal, Closing, Bystander
<1>6. /\ popped \in Nat /\ last \in Nat /\ popped < last
      /\ op.n = popped + 1 /\ op.type = "SendData" /\ op = mSendQueue[p][1]
      /\ Len(mSendQueue[p]) \in Nat /\ Len(mSendQueue[p]) >= 1
      /\ Len(sendPosted[p]) \in Nat
      /\ app[p] # "closed"
  BY <1>1, SenderFacts, HeadTail, EndLengths
<1>7. SendQueueInv(p)' /\ SendPopped(p)' = popped
  BY <1>1, <1>2, <1>3, <1>5, SenderMoves
<1>8. Written(p)' = Written(p)
  BY <1>1, <1>2, <1>3, <1>7 DEF Written
<1>9. /\ RecvQueueInv(p)' /\ GotInv(p)' /\ ReadCount(p)' = ReadCount(p)
      /\ RecvPopped(p)' = RecvPopped(p) /\ RecvTotal(p)' = RecvTotal(p)
  BY <1>5, RecvFrame DEF IInv, RecvEnd
<1>10. SignalInv(p)'
  <2>1. "send" \notin signal[p]
    BY <1>1, <1>6 DEF SignalInv
  <2>2. CASE op.sync
    <3>1. app[p] = "sending" /\ op.n = last
      BY <1>1, <1>6, <2>2 DEF SignalInv, AwaitedSend
    <3>2. ASSUME NEW i \in 1..Len(mSendQueue[p]), i > 1
          PROVE  mSendQueue[p][i].type # "SendData"
      BY <1>1, <1>6, <3>1, <3>2 DEF SendQueueInv, Consecutive
    <3>3. ASSUME NEW i \in 1..Len(sendPosted[p])
          PROVE  sendPosted[p][i].type # "SendData"
      BY <1>1, <1>6, <3>1 DEF SendQueueInv, Consecutive
    <3>. QED
      BY <1>1, <1>2, <1>3, <1>5, <1>6, <1>7, <1>9, <2>2, <3>1, <3>2, <3>3
         DEF SignalInv, AwaitedSend, Closing
  <2>3. CASE ~ op.sync
    BY <1>1, <1>2, <1>3, <1>5, <1>7, <1>9, <2>1, <2>3 DEF SignalInv, AwaitedSend, Closing
  <2>. QED  BY <2>2, <2>3
<1>. QED
  BY <1>1, <1>2, <1>4, <1>5, <1>6, <1>7, <1>8, <1>9, <1>10, LocalStep

LEMMA PopSendKeepsIInv ==
    ASSUME IInv, NEW p \in Peer, PopSend(p)
    PROVE  IInv'
<1>. DEFINE queue == mSendQueue[p]
            rest == Tail(queue)
            popped == SendPopped(p)
            last == Len(sent[p])
<1>1. /\ ChannelTypeOK /\ SignalInv(p) /\ SendQueueInv(p)
      /\ sender[p] = "fulfilled" /\ ~ crashed[p] /\ pushing[p] = FALSE
  BY DEF IInv, PopSend, ChannelTypeOK
<1>2. UNCHANGED <<app, waitFor, sent, recvs, sendPosted, pushing,
                  recvPosted, mRecvQueue, reader, body, got, wire, lost, crashed>>
  BY DEF PopSend, appVars, histVars, recvVars, netVars
<1>3. UNCHANGED <<RecvEnd(p), SendTotal(p)>>
  BY <1>2 DEF RecvEnd, RecvTotal, SendTotal, Closing
<1>4. UNCHANGED <<mSendQueue[Other(p)], sender[Other(p)], signal[Other(p)]>>
        => UNCHANGED Bystander(p)
  BY <1>2 DEF RecvEnd, SendEnd, RecvTotal, SendTotal, Closing, Bystander
<1>5. /\ queue \in Seq(Op) /\ queue # <<>> /\ rest \in Seq(Op)
      /\ popped \in Nat /\ last \in Nat /\ popped < last
      /\ Len(queue) \in Nat /\ Len(queue) >= 1 /\ Len(rest) = Len(queue) - 1
      /\ \A i \in 1..Len(rest) : rest[i] = queue[i + 1]
      /\ Len(sendPosted[p]) \in Nat /\ SendTotal(p) \in Nat
      /\ app[p] # "closed" /\ "closeSend" \notin signal[p]
      /\ Written(p) = 2 * popped + 2
  BY <1>1, SenderFacts, HeadTail, EndLengths
<1>6. /\ SendTotal(p) = popped + Len(queue) + Len(sendPosted[p])
  BY <1>1, SendSplit
<1>7. /\ Consecutive(rest, popped + 1, last, "SendData")
      /\ Consecutive(sendPosted[p], popped + Len(queue), last, "SendData")
  BY <1>1, <1>5, ConsecutiveTail DEF SendQueueInv
<1>8. /\ RecvQueueInv(p)' /\ GotInv(p)' /\ ReadCount(p)' = ReadCount(p)
      /\ RecvPopped(p)' = RecvPopped(p) /\ RecvTotal(p)' = RecvTotal(p)
  BY <1>3, RecvFrame DEF IInv, RecvEnd
<1>9. "send" \in signal[p] => app[p] = "sending" /\ popped + 1 = last
  BY <1>1 DEF SignalInv
<1>10. ASSUME NEW i \in 1..Len(rest)
       PROVE  AwaitedSend(p, rest[i])
  <2>1. i + 1 \in 1..Len(queue) /\ i + 1 > 1 /\ rest[i] = queue[i + 1]
    BY <1>5
  <2>. QED  BY <1>1, <2>1 DEF SignalInv
<1>11. CASE HasMore(rest) /\ SendOne(p, rest)
  <2>1. SendQueueReady(p, rest, popped + 1)
    BY <1>5, <1>6, <1>7 DEF SendQueueReady
  <2>2. SendSignalReady(p, rest, popped + 1)
    BY <1>1, <1>5, <1>9, <1>10 DEF SendSignalReady, SignalInv
  <2>3. OnlySendOne(p)
    BY <1>1, <1>2, <1>3 DEF OnlySendOne
  <2>4. rest # <<>>
    BY <1>11 DEF HasMore
  <2>5. /\ SendQueueInv(p)' /\ SignalInv(p)' /\ Written(p)' = 2 * (popped + 1)
        /\ mSendQueue' \in [Peer -> Seq(Op)]
        /\ sender' \in [Peer -> {"idle", "header", "body", "written", "fulfilled"}]
        /\ signal' \in [Peer -> SUBSET {"send", "closeSend", "closeRecv"}]
        /\ UNCHANGED <<mSendQueue[Other(p)], sender[Other(p)], signal[Other(p)]>>
    BY <1>1, <1>5, <1>11, <2>1, <2>2, <2>3, <2>4, SendOneEffect
  <2>6. ChannelTypeOK'
    BY <1>1, <1>2, <2>5 DEF ChannelTypeOK
  <2>7. Written(p)' = Written(p)
    BY <1>5, <2>5
  <2>. QED
    BY <1>1, <1>2, <1>3, <1>4, <1>5, <1>8, <2>5, <2>6, <2>7, LocalStep
<1>12. CASE /\ ~ HasMore(rest)
            /\ mSendQueue' = [mSendQueue EXCEPT ![p] = rest]
            /\ sender' = [sender EXCEPT ![p] = "idle"]
            /\ signal' = signal
  <2>1. /\ mSendQueue'[p] = rest /\ sender'[p] = "idle" /\ signal' = signal
        /\ mSendQueue' \in [Peer -> Seq(Op)]
        /\ sender' \in [Peer -> {"idle", "header", "body", "written", "fulfilled"}]
        /\ UNCHANGED <<mSendQueue[Other(p)], sender[Other(p)], signal[Other(p)]>>
    <3>1. /\ mSendQueue \in [Peer -> Seq(Op)]
          /\ sender \in [Peer -> {"idle", "header", "body", "written", "fulfilled"}]
      BY <1>1 DEF ChannelTypeOK
    <3>2. rest \in Seq(Op)
      BY <1>5
    <3>. HIDE DEF rest
    <3>. QED  BY <1>12, <3>1, <3>2, OtherPeer
  <2>2. Len(rest) = 0 /\ Len(queue) = 1
    <3>1. rest = <<>> => Len(rest) = 0
      BY <1>5, EmptyOrNot
    <3>. HIDE DEF rest, queue
    <3>. QED  BY <1>5, <1>12, <3>1 DEF HasMore
  <2>3. SendPopped(p)' = popped + 1
    <3>1. SendPopped(p)' = SendTotal(p) - Len(sendPosted[p]) - 0
      BY <1>2, <1>3, <2>1, <2>2 DEF SendPopped
    <3>. QED  BY <3>1, <1>5, <1>6, <2>2
  <2>4. Written(p)' = Written(p)
    <3>1. MinOf(popped + 1, last) = popped + 1
      BY <1>5 DEF MinOf
    <3>2. Written(p)' = 2 * (popped + 1) + 0
      BY <1>2, <2>1, <2>3, <3>1 DEF Written
    <3>. QED  BY <1>5, <3>2
  <2>5. SendQueueInv(p)'
    <3>1. /\ SendPopped(p)' >= 0
          /\ Consecutive(rest, SendPopped(p)', last, "SendData")
          /\ Consecutive(sendPosted[p], SendPopped(p)' + Len(rest), last, "SendData")
      <4>. HIDE DEF rest, queue, last
      <4>1. SendPopped(p)' + Len(rest) = popped + Len(queue)
        BY <1>5, <2>2, <2>3
      <4>. QED  BY <1>5, <1>7, <2>3, <4>1
    <3>2. SendDriver(p)'
      BY <1>1, <1>2, <2>1, <2>2 DEF SendDriver
    <3>. QED  BY <1>2, <2>1, <3>1, <3>2 DEF SendQueueInv, Consecutive
  <2>6. SignalInv(p)'
    <3>1. ASSUME NEW i \in 1..Len(sendPosted[p])
          PROVE  AwaitedSend(p, sendPosted[p][i])'
      BY <1>1, <1>2, <2>1 DEF SignalInv, AwaitedSend
    <3>. HIDE DEF rest, queue, last, popped
    <3>2. \A i \in 1..Len(rest) : FALSE
      BY <2>2
    <3>3. "send" \in signal[p] => app[p] = "sending" /\ SendPopped(p)' + 0 = last
      BY <1>5, <1>9, <2>3
    <3>. QED
      BY <1>1, <1>2, <1>3, <1>5, <1>8, <2>1, <3>1, <3>2, <3>3
         DEF SignalInv, Closing, last
  <2>7. ChannelTypeOK'
    BY <1>1, <1>2, <2>1 DEF ChannelTypeOK
  <2>. QED
    BY <1>1, <1>2, <1>3, <1>4, <1>5, <1>8, <2>1, <2>4, <2>5, <2>6, <2>7, LocalStep
<1>. QED
  BY <1>11, <1>12 DEF PopSend

\* receiveOne is called with the contents of the queue while nothing else
\* drains it: base operations have left the queue before, all with a message.
RecvQueueReady(p, queue, posted, base) ==
    /\ base \in Nat
    /\ RecvTotal(p) = base + Len(queue) + Len(posted)
    /\ Consecutive(queue, base, Len(recvs[p]), "RecvData")
    /\ Consecutive(posted, base + Len(queue), Len(recvs[p]), "RecvData")

AllGot(p, base) ==
    /\ Len(got[p]) = base
    /\ \A i \in 1..Len(got[p]) : got[p][i].recv = i /\ got[p][i].msg = i

OnlyReceiveOne(p, posted) ==
    /\ recvPosted'[p] = posted
    /\ UNCHANGED <<recvs[p], body[p], got[p], RecvTotal(p), SendEnd(p), app>>

LEMMA ReceiveOneEffect ==
    ASSUME ChannelTypeOK, NEW p \in Peer, SignalInv(p), app[p] # "closed",
           "closeRecv" \notin signal[p],
           NEW queue \in Seq(ROp), queue # <<>>, NEW posted \in Seq(ROp), NEW base,
           RecvQueueReady(p, queue, posted, base), AllGot(p, base),
           ReceiveOne(p, queue), OnlyReceiveOne(p, posted)
    PROVE  /\ RecvQueueInv(p)' /\ GotInv(p)' /\ SignalInv(p)'
           /\ ReadCount(p)' = 2 * base
           /\ mRecvQueue' \in [Peer -> Seq(ROp)]
           /\ reader' \in [Peer -> {"idle", "header", "body", "read", "fulfilled", "failed"}]
           /\ signal' \in [Peer -> SUBSET {"send", "closeSend", "closeRecv"}]
           /\ UNCHANGED <<mRecvQueue[Other(p)], reader[Other(p)], signal[Other(p)]>>
<1>. DEFINE last == Len(recvs[p])
            inside == Len(queue)
            behind == Len(posted)
            total == RecvTotal(p)
<1>1. /\ last \in Nat /\ inside \in Nat /\ inside >= 1 /\ base \in Nat
      /\ behind \in Nat /\ total \in Nat
      /\ total = base + inside + behind
  BY EndLengths, HeadTail, EmptyOrNot DEF RecvQueueReady
<1>2. Tail(queue) \in Seq(ROp) /\ Len(Tail(queue)) = inside - 1
  BY HeadTail
<1>3. /\ Head(queue).type = "RecvData" <=> base + 1 <= last
      /\ Consecutive(Tail(queue), base + 1, last, "RecvData")
  BY <1>1, ConsecutiveTail DEF RecvQueueReady
<1>4. \/ Closing(p) /\ total = last + 1
      \/ ~ Closing(p) /\ total = last
  BY <1>1, RecvTotalCases
<1>. HIDE DEF last, inside, behind, total
<1>5. base <= last /\ (base = last => total = last + 1 /\ inside = 1 /\ behind = 0)
  BY <1>1, <1>4
<1>6. base = last => Closing(p)
  BY <1>1, <1>4, <1>5
<1>7. /\ SendPopped(p)' = SendPopped(p)
      /\ UNCHANGED <<sent[p], sendPosted[p], mSendQueue[p], pushing[p], sender[p],
                     SendTotal(p), app, recvs[p], body[p], got[p], RecvTotal(p)>>
  BY SendFrame DEF OnlyReceiveOne, SendEnd
<1>8. CASE Head(queue).type = "RecvData"
  <2>1. /\ mRecvQueue' = [mRecvQueue EXCEPT ![p] = queue]
        /\ reader' = [reader EXCEPT ![p] = "header"]
        /\ signal' = signal
    BY <1>8 DEF ReceiveOne
  <2>2. /\ mRecvQueue'[p] = queue /\ reader'[p] = "header" /\ signal' = signal
        /\ mRecvQueue' \in [Peer -> Seq(ROp)]
        /\ reader' \in [Peer -> {"idle", "header", "body", "read", "fulfilled", "failed"}]
        /\ UNCHANGED <<mRecvQueue[Other(p)], reader[Other(p)]>>
    BY <2>1, OtherPeer DEF ChannelTypeOK
  <2>3. RecvPopped(p)' = total - behind - inside
    BY <1>7, <2>2 DEF RecvPopped, OnlyReceiveOne, total, behind, inside
  <2>4. RecvPopped(p)' = base /\ base < last /\ MinOf(base, last) = base
    BY <1>1, <1>3, <1>8, <2>3 DEF MinOf
  <2>5. ReadCount(p)' = 2 * base
    BY <1>1, <1>7, <2>2, <2>4 DEF ReadCount, last
  <2>6. RecvQueueInv(p)'
    BY <1>1, <1>7, <2>2, <2>4
       DEF RecvQueueInv, RecvDriver, RecvQueueReady, OnlyReceiveOne, last, inside
  <2>7. GotInv(p)'
    BY <1>1, <1>7, <2>2, <2>4 DEF GotInv, AllGot, last
  <2>8. SignalInv(p)'
    BY <1>7, <2>2 DEF SignalInv, AwaitedSend, Closing
  <2>. QED  BY <2>2, <2>5, <2>6, <2>7, <2>8 DEF ChannelTypeOK
<1>9. CASE Head(queue).type # "RecvData"
  <2>1. /\ mRecvQueue' = [mRecvQueue EXCEPT ![p] = Tail(queue)]
        /\ reader' = [reader EXCEPT ![p] = "idle"]
        /\ signal' = [signal EXCEPT ![p] = @ \cup {"closeRecv"}]
    BY <1>9 DEF ReceiveOne
  <2>2. /\ mRecvQueue'[p] = Tail(queue) /\ reader'[p] = "idle"
        /\ signal'[p] = signal[p] \cup {"closeRecv"}
        /\ mRecvQueue' \in [Peer -> Seq(ROp)]
        /\ reader' \in [Peer -> {"idle", "header", "body", "read", "fulfilled", "failed"}]
        /\ signal' \in [Peer -> SUBSET {"send", "closeSend", "closeRecv"}]
        /\ UNCHANGED <<mRecvQueue[Other(p)], reader[Other(p)], signal[Other(p)]>>
    <3>1. /\ mRecvQueue \in [Peer -> Seq(ROp)] /\ Tail(queue) \in Seq(ROp)
          /\ reader \in [Peer -> {"idle", "header", "body", "read", "fulfilled", "failed"}]
      BY <1>2 DEF ChannelTypeOK
    <3>2. signal \in [Peer -> SUBSET {"send", "closeSend", "closeRecv"}]
      BY DEF ChannelTypeOK
    <3>3. /\ mRecvQueue'[p] = Tail(queue) /\ reader'[p] = "idle"
          /\ mRecvQueue' \in [Peer -> Seq(ROp)]
          /\ reader' \in [Peer -> {"idle", "header", "body", "read", "fulfilled", "failed"}]
          /\ UNCHANGED <<mRecvQueue[Other(p)], reader[Other(p)]>>
      BY <2>1, <3>1, OtherPeer
    <3>4. /\ signal'[p] = signal[p] \cup {"closeRecv"}
          /\ signal' \in [Peer -> SUBSET {"send", "closeSend", "closeRecv"}]
          /\ UNCHANGED signal[Other(p)]
      BY <2>1, <3>2, OtherPeer
    <3>. QED  BY <3>3, <3>4
  <2>3. base = last /\ total = last + 1 /\ inside = 1 /\ behind = 0 /\ Closing(p)
    BY <1>1, <1>3, <1>5, <1>6, <1>9
  <2>4. Len(Tail(queue)) = 0
    BY <1>2, <2>3
  <2>5. /\ Len(mRecvQueue[p])' = 0 /\ Len(recvPosted[p])' = 0 /\ reader'[p] = "idle"
        /\ Closing(p)' /\ Len(recvs[p])' = last /\ RecvTotal(p)' = last + 1
    BY <1>7, <2>2, <2>3, <2>4 DEF OnlyReceiveOne, Closing, behind, total, last
  <2>6. RecvPopped(p)' = (last + 1) - 0 - 0
    BY <2>5 DEF RecvPopped
  <2>7. RecvPopped(p)' = last + 1 /\ MinOf(last + 1, last) = last
    BY <1>1, <2>6 DEF MinOf
  <2>8. ReadCount(p)' = 2 * base
    BY <1>1, <2>3, <2>5, <2>7 DEF ReadCount
  <2>9. RecvQueueInv(p)'
    BY <1>1, <2>5, <2>7 DEF RecvQueueInv, RecvDriver, Consecutive
  <2>10. GotInv(p)'
    BY <1>1, <1>7, <2>3, <2>5, <2>7 DEF GotInv, AllGot
  <2>11. SignalInv(p)'
    BY <1>7, <2>2, <2>5, <2>7 DEF SignalInv, AwaitedSend, Closing
  <2>. QED  BY <2>2, <2>8, <2>9, <2>10, <2>11
<1>. QED  BY <1>8, <1>9

\* The operation the reads are for.
LEMMA ReaderFacts ==
    ASSUME IInv, NEW p \in Peer, reader[p] # "idle"
    PROVE  /\ mRecvQueue[p] \in Seq(ROp) /\ mRecvQueue[p] # <<>>
           /\ Head(mRecvQueue[p]) \in ROp
           /\ Head(mRecvQueue[p]).n = RecvPopped(p) + 1
           /\ RecvPopped(p) \in Nat /\ RecvPopped(p) < Len(recvs[p])
           /\ MinOf(RecvPopped(p), Len(recvs[p])) = RecvPopped(p)
           /\ app[p] # "closed"
           /\ "closeRecv" \notin signal[p]
<1>1. /\ ChannelTypeOK /\ RecvQueueInv(p) /\ SignalInv(p) /\ mRecvQueue[p] \in Seq(ROp)
  BY EndTypes DEF IInv
<1>2. /\ RecvPopped(p) \in Nat /\ Len(recvs[p]) \in Nat /\ RecvPopped(p) < Len(recvs[p])
  BY <1>1, EndLengths DEF RecvQueueInv, RecvDriver
<1>3. mRecvQueue[p] # <<>> /\ Len(mRecvQueue[p]) >= 1
  BY <1>1, EmptyOrNot, HeadTail DEF RecvQueueInv, RecvDriver
<1>4. Head(mRecvQueue[p]).n = RecvPopped(p) + 1
  BY <1>1, <1>2, <1>3, ConsecutiveTail DEF RecvQueueInv
<1>5. app[p] # "closed"
  BY ClosedIsDrained DEF Drained
<1>6. "closeRecv" \notin signal[p]
  BY <1>1, <1>2, <1>3, RecvSplit, EndLengths DEF SignalInv
<1>. QED
  BY <1>1, <1>2, <1>3, <1>4, <1>5, <1>6, HeadTail DEF MinOf

LEMMA ReaderMoves ==
    ASSUME IInv, NEW p \in Peer, reader[p] # "idle", reader'[p] # "idle",
           UNCHANGED <<recvs[p], recvPosted[p], mRecvQueue[p], RecvTotal(p)>>
    PROVE  RecvQueueInv(p)' /\ RecvPopped(p)' = RecvPopped(p)
<1>1. RecvPopped(p)' = RecvPopped(p)
  BY DEF RecvPopped
<1>2. RecvQueueInv(p)
  BY DEF IInv
<1>. QED
  BY <1>1, <1>2 DEF RecvQueueInv, RecvDriver

\* One more part of a frame is taken from the connection.
LEMMA ReadStep ==
    ASSUME IInv, NEW p \in Peer, NEW next \in {"body", "failed", "read"},
           reader[p] # "idle", ~ crashed[p], wire[Other(p)] # <<>>,
           wire' = [wire EXCEPT ![Other(p)] = Tail(@)],
           reader' = [reader EXCEPT ![p] = next],
           \A q \in Peer : q # p => UNCHANGED <<body[q], got[q]>>,
           body' \in [Peer -> Nat], got' \in [Peer -> Seq(Result)],
           UNCHANGED <<appVars, signal, histVars, sendVars, recvPosted, mRecvQueue,
                       lost, crashed>>,
           ReadCount(p)' = ReadCount(p) + 1, GotInv(p)'
    PROVE  IInv'
<1>. DEFINE o == Other(p)
            w == wire[o]
<1>1. ChannelTypeOK /\ WireInv(p) /\ WireInv(o) /\ SignalInv(p)
  BY OtherPeer DEF IInv
<1>2. o \in Peer /\ o # p /\ Other(o) = p /\ Peer = {p, o}
  BY OtherPeer
<1>3. /\ w \in Seq(Part) /\ Tail(w) \in Seq(Part) /\ Len(w) \in Nat /\ Len(w) >= 1
      /\ Len(Tail(w)) = Len(w) - 1
      /\ \A i \in 1..Len(Tail(w)) : Tail(w)[i] = w[i + 1]
  <2>1. w \in Seq(Part) /\ w # <<>>
    BY <1>1, <1>2, EndTypes
  <2>. HIDE DEF w
  <2>. QED  BY <2>1, HeadTail
<1>4. /\ wire'[o] = Tail(w) /\ wire'[p] = wire[p] /\ reader'[o] = reader[o] /\ reader'[p] = next
      /\ wire' \in [Peer -> Seq(Part)]
      /\ reader' \in [Peer -> {"idle", "header", "body", "read", "fulfilled", "failed"}]
  BY <1>1, <1>2, <1>3 DEF ChannelTypeOK
<1>5. UNCHANGED <<app, waitFor, signal, sent, recvs, sendPosted, mSendQueue, pushing,
                  sender, recvPosted, mRecvQueue, lost, crashed>>
  BY DEF appVars, histVars, sendVars
<1>6. ChannelTypeOK'
  BY <1>1, <1>4, <1>5 DEF ChannelTypeOK
<1>7. UNCHANGED <<SendEnd(p), SendEnd(o), RecvEnd(o), RecvTotal(p), Bystander(p)>>
  BY <1>2, <1>4, <1>5 DEF RecvEnd, SendEnd, RecvTotal, SendTotal, Closing, Bystander
<1>8. RecvQueueInv(p)' /\ RecvPopped(p)' = RecvPopped(p)
  BY <1>4, <1>5, <1>7, ReaderMoves
<1>9. /\ SendQueueInv(p)' /\ Written(p)' = Written(p) /\ SendPopped(p)' = SendPopped(p)
      /\ SendQueueInv(o)' /\ RecvQueueInv(o)' /\ GotInv(o)' /\ SignalInv(o)'
      /\ Written(o)' = Written(o) /\ ReadCount(o)' = ReadCount(o)
  BY <1>2, <1>5, <1>7, SendFrame, RecvFrame, SignalFrame DEF IInv
<1>10. SignalInv(p)'
  BY <1>1, <1>5, <1>7, <1>8, <1>9 DEF SignalInv, AwaitedSend, Closing, SendEnd
<1>11. WireInv(o)'
  <2>1. ReadCount(p) \in Int
    <3>1. /\ Len(recvs[p]) \in Nat /\ RecvPopped(p) \in Int
      BY <1>1, <1>2, EndLengths
    <3>. QED  BY <3>1 DEF ReadCount, MinOf
  <2>2. /\ ~ lost
        /\ ReadCount(p) + Len(w) = Written(o)
    BY <1>1, <1>2 DEF WireInv
  <2>3. ASSUME NEW i \in 1..Len(Tail(w))
        PROVE  Rank(Tail(w)[i]) = ReadCount(p) + 1 + i
    <3>1. i + 1 \in 1..Len(w) /\ Tail(w)[i] = w[i + 1] /\ i \in Nat
      BY <1>3
    <3>2. Rank(w[i + 1]) = ReadCount(p) + (i + 1)
      BY <1>1, <1>2, <3>1 DEF WireInv
    <3>3. Rank(Tail(w)[i]) = Rank(w[i + 1])
      BY <3>1
    <3>. HIDE DEF w
    <3>. QED  BY <2>1, <3>1, <3>2, <3>3
  <2>4. ReadCount(p)' + Len(wire[o])' = Written(o)'
    BY <1>3, <1>4, <1>9, <2>1, <2>2
  <2>5. ReadCount(p)' + Len(wire[o])' <= Written(o)'
    BY <1>3, <1>4, <2>1, <2>4
  <2>. QED  BY <1>2, <1>4, <1>5, <2>2, <2>3, <2>4, <2>5 DEF WireInv, Rank
<1>12. WireInv(p)'
  BY <1>1, <1>2, <1>4, <1>5, <1>9 DEF WireInv, Rank
<1>13. CrashInv(p)' /\ CrashInv(o)' /\ LostInv'
  <2>1. app[p] # "closed" /\ Len(sent[p])' >= Len(sent[p])
    BY <1>1, <1>5, ReaderFacts, EndLengths
  <2>. QED  BY <1>5, <1>6, <1>7, <2>1, AliveStep
<1>. QED
  BY <1>2, <1>6, <1>8, <1>9, <1>10, <1>11, <1>12, <1>13 DEF IInv

LEMMA ReadHeaderKeepsIInv ==
    ASSUME IInv, NEW p \in Peer, ReadHeader(p)
    PROVE  IInv'
<1>1. /\ reader[p] = "header" /\ ~ crashed[p] /\ wire[Other(p)] # <<>>
      /\ wire' = [wire EXCEPT ![Other(p)] = Tail(@)]
      /\ reader' = [reader EXCEPT ![p] = "body"]
      /\ UNCHANGED <<appVars, signal, histVars, sendVars, recvPosted, mRecvQueue,
                     body, got, lost, crashed>>
  BY DEF ReadHeader
<1>2. ChannelTypeOK /\ GotInv(p)
  BY DEF IInv
<1>3. /\ reader'[p] = "body" /\ UNCHANGED <<recvs, RecvTotal(p)>>
  BY <1>1, <1>2 DEF ChannelTypeOK, RecvTotal, Closing, histVars, appVars
<1>4. /\ RecvPopped(p)' = RecvPopped(p) /\ RecvPopped(p) \in Nat
      /\ MinOf(RecvPopped(p), Len(recvs[p])) = RecvPopped(p)
  BY <1>1, <1>3, ReaderMoves, ReaderFacts
<1>5. ReadCount(p)' = ReadCount(p) + 1
  BY <1>1, <1>3, <1>4 DEF ReadCount
<1>6. GotInv(p)'
  BY <1>1, <1>2, <1>3, <1>4 DEF GotInv
<1>7. body' \in [Peer -> Nat] /\ got' \in [Peer -> Seq(Result)]
  BY <1>1, <1>2 DEF ChannelTypeOK
<1>. QED  BY <1>1, <1>3, <1>5, <1>6, <1>7, ReadStep

LEMMA RefuseHeaderKeepsIInv ==
    ASSUME IInv, NEW p \in Peer, RefuseHeader(p)
    PROVE  IInv'
<1>. DEFINE result == [recv |-> Head(mRecvQueue[p]).n, msg |-> Refused]
            popped == RecvPopped(p)
<1>1. /\ reader[p] = "header" /\ ~ crashed[p] /\ wire[Other(p)] # <<>>
      /\ wire' = [wire EXCEPT ![Other(p)] = Tail(@)]
      /\ reader' = [reader EXCEPT ![p] = "failed"]
      /\ got' = [got EXCEPT ![p] = Append(@, result)]
      /\ UNCHANGED <<appVars, signal, histVars, sendVars, recvPosted, mRecvQueue,
                     body, lost, crashed>>
  BY DEF RefuseHeader
<1>2. ChannelTypeOK /\ GotInv(p) /\ got[p] \in Seq(Result)
  BY EndTypes DEF IInv
<1>3. /\ reader'[p] = "failed" /\ UNCHANGED <<recvs, RecvTotal(p)>>
  BY <1>1, <1>2 DEF ChannelTypeOK, RecvTotal, Closing, histVars, appVars
<1>4. /\ RecvPopped(p)' = popped /\ popped \in Nat
      /\ MinOf(popped, Len(recvs[p])) = popped
      /\ Head(mRecvQueue[p]).n = popped + 1
  BY <1>1, <1>3, ReaderMoves, ReaderFacts
<1>5. result \in Result /\ result.recv = popped + 1 /\ result.msg = Refused
  BY <1>4 DEF Result, Refused
<1>. HIDE DEF result, popped
<1>6. ReadCount(p)' = ReadCount(p) + 1
  BY <1>1, <1>3, <1>4 DEF ReadCount, popped
<1>7. /\ got'[p] = Append(got[p], result)
      /\ got' \in [Peer -> Seq(Result)]
      /\ \A q \in Peer : q # p => got'[q] = got[q]
  BY <1>1, <1>2, <1>5, Appended DEF ChannelTypeOK
<1>8. /\ Len(got[p]) = popped /\ Len(got'[p]) = popped + 1
      /\ got'[p][popped + 1] = result
      /\ \A i \in 1..popped : got'[p][i] = got[p][i]
  BY <1>1, <1>2, <1>4, <1>5, <1>7, Appended DEF GotInv, popped
<1>9. GotInv(p)'
  <2>1. Len(got'[p]) = MinOf(popped, Len(recvs[p])) + 1
    BY <1>4, <1>8
  <2>2. ASSUME NEW i \in 1..Len(got'[p])
        PROVE  /\ got'[p][i].recv = i
               /\ got'[p][i].msg = IF i = Len(got'[p]) THEN Refused ELSE i
    <3>1. CASE i \in 1..popped
      <4>1. got[p][i].recv = i /\ got[p][i].msg = i
        BY <1>1, <1>2, <1>8, <3>1 DEF GotInv
      <4>. QED  BY <1>4, <1>8, <3>1, <4>1
    <3>2. CASE i = popped + 1
      BY <1>5, <1>8, <3>2
    <3>. QED  BY <1>4, <1>8, <3>1, <3>2
  <2>. QED  BY <1>3, <1>4, <2>1, <2>2 DEF GotInv, popped
<1>10. body' \in [Peer -> Nat]
  BY <1>1, <1>2 DEF ChannelTypeOK
<1>. QED  BY <1>1, <1>3, <1>6, <1>7, <1>9, <1>10, ReadStep

LEMMA ReadBodyKeepsIInv ==
    ASSUME IInv, NEW p \in Peer, ReadBody(p)
    PROVE  IInv'
<1>. DEFINE part == Head(wire[Other(p)])
            popped == RecvPopped(p)
<1>1. /\ reader[p] = "body" /\ ~ crashed[p] /\ wire[Other(p)] # <<>>
      /\ wire' = [wire EXCEPT ![Other(p)] = Tail(@)]
      /\ reader' = [reader EXCEPT ![p] = "read"]
      /\ body' = [body EXCEPT ![p] = part.n]
      /\ UNCHANGED <<appVars, signal, histVars, sendVars, recvPosted, mRecvQueue,
                     got, lost, crashed>>
  BY DEF ReadBody
<1>2. /\ ChannelTypeOK /\ GotInv(p) /\ WireInv(Other(p)) /\ Other(Other(p)) = p
      /\ wire[Other(p)] \in Seq(Part)
  BY OtherPeer, EndTypes DEF IInv
<1>3. /\ reader'[p] = "read" /\ UNCHANGED <<recvs, RecvTotal(p)>>
  BY <1>1, <1>2 DEF ChannelTypeOK, RecvTotal, Closing, histVars, appVars
<1>4. /\ RecvPopped(p)' = popped /\ popped \in Nat
      /\ MinOf(popped, Len(recvs[p])) = popped
  BY <1>1, <1>3, ReaderMoves, ReaderFacts
<1>5. ReadCount(p) = 2 * popped + 1 /\ ReadCount(p)' = ReadCount(p) + 1
  BY <1>1, <1>3, <1>4 DEF ReadCount
<1>6. part \in Part /\ part = wire[Other(p)][1] /\ 1 \in 1..Len(wire[Other(p)])
  BY <1>1, <1>2, HeadTail
<1>7. Rank(part) = 2 * popped + 2
  BY <1>2, <1>4, <1>5, <1>6 DEF WireInv
<1>8. part.n \in Nat /\ part.n = popped + 1
  <2>1. part.n \in Nat
    BY <1>6 DEF Part
  <2>2. 2 * part.n - 0 = 2 * popped + 2 \/ 2 * part.n - 1 = 2 * popped + 2
    BY <1>7 DEF Rank
  <2>. HIDE DEF popped, part
  <2>. QED  BY <1>4, <2>1, <2>2
<1>9. /\ body' \in [Peer -> Nat] /\ got' \in [Peer -> Seq(Result)]
      /\ body'[p] = popped + 1
      /\ \A q \in Peer : q # p => body'[q] = body[q]
  BY <1>1, <1>2, <1>8 DEF ChannelTypeOK
<1>10. GotInv(p)'
  BY <1>1, <1>2, <1>3, <1>4, <1>9 DEF GotInv
<1>. QED  BY <1>1, <1>3, <1>5, <1>9, <1>10, ReadStep

LEMMA CompleteRecvKeepsIInv ==
    ASSUME IInv, NEW p \in Peer, CompleteRecv(p)
    PROVE  IInv'
<1>. DEFINE result == [recv |-> Head(mRecvQueue[p]).n, msg |-> body[p]]
            popped == RecvPopped(p)
<1>1. /\ reader[p] = "read" /\ ~ crashed[p]
      /\ reader' = [reader EXCEPT ![p] = "fulfilled"]
      /\ got' = [got EXCEPT ![p] = Append(@, result)]
      /\ UNCHANGED <<app, waitFor, signal, sent, recvs, sendPosted, mSendQueue, pushing,
                     sender, recvPosted, mRecvQueue, body, wire, lost, crashed>>
  BY DEF CompleteRecv, appVars, histVars, sendVars, netVars
<1>2. ChannelTypeOK /\ GotInv(p) /\ SignalInv(p) /\ SendQueueInv(p) /\ got[p] \in Seq(Result)
  BY EndTypes DEF IInv
<1>3. /\ RecvTotal(p)' = RecvTotal(p) /\ UNCHANGED SendEnd(p)
  BY <1>1 DEF RecvTotal, Closing, SendEnd, SendTotal
<1>4. /\ reader'[p] = "fulfilled"
      /\ reader' \in [Peer -> {"idle", "header", "body", "read", "fulfilled", "failed"}]
  BY <1>1, <1>2 DEF ChannelTypeOK
<1>5. /\ RecvPopped(p)' = popped /\ popped \in Nat /\ RecvQueueInv(p)'
      /\ MinOf(popped, Len(recvs[p])) = popped
      /\ Head(mRecvQueue[p]).n = popped + 1
      /\ app[p] # "closed"
  BY <1>1, <1>3, <1>4, ReaderMoves, ReaderFacts
<1>6. result \in Result /\ result.recv = popped + 1 /\ result.msg = popped + 1
  BY <1>1, <1>2, <1>5 DEF Result, GotInv
<1>. HIDE DEF result, popped
<1>7. ReadCount(p)' = ReadCount(p)
  BY <1>1, <1>4, <1>5 DEF ReadCount, popped
<1>8. /\ got'[p] = Append(got[p], result)
      /\ got' \in [Peer -> Seq(Result)]
  BY <1>1, <1>2, <1>6, Appended DEF ChannelTypeOK
<1>9. /\ Len(got[p]) = popped /\ Len(got'[p]) = popped + 1
      /\ got'[p][popped + 1] = result
      /\ \A i \in 1..popped : got'[p][i] = got[p][i]
  BY <1>1, <1>2, <1>5, <1>6, <1>8, Appended DEF GotInv, popped
<1>10. GotInv(p)'
  <2>1. Len(got'[p]) = MinOf(popped, Len(recvs[p])) + 1
    BY <1>5, <1>9
  <2>2. ASSUME NEW i \in 1..Len(got'[p])
        PROVE  got'[p][i].recv = i /\ got'[p][i].msg = i
    <3>1. CASE i \in 1..popped
      <4>1. got[p][i].recv = i /\ got[p][i].msg = i
        BY <1>1, <1>2, <1>9, <3>1 DEF GotInv
      <4>. QED  BY <1>9, <3>1, <4>1
    <3>2. CASE i = popped + 1
      BY <1>6, <1>9, <3>2
    <3>. QED  BY <1>5, <1>9, <3>1, <3>2
  <2>. QED  BY <1>1, <1>4, <1>5, <2>1, <2>2 DEF GotInv, popped
<1>11. /\ SendQueueInv(p)' /\ Written(p)' = Written(p) /\ SendPopped(p)' = SendPopped(p)
  BY <1>2, <1>3, SendFrame
<1>12. SignalInv(p)'
  BY <1>1, <1>2, <1>3, <1>5, <1>11 DEF SignalInv, AwaitedSend, Closing, SendEnd, popped
<1>13. ChannelTypeOK'
  BY <1>1, <1>2, <1>4, <1>8 DEF ChannelTypeOK
<1>14. UNCHANGED Bystander(p)
  BY <1>1, <1>2, OtherPeer
     DEF ChannelTypeOK, Bystander, SendEnd, RecvEnd, SendTotal, RecvTotal, Closing
<1>. QED
  BY <1>1, <1>2, <1>5, <1>7, <1>10, <1>11, <1>12, <1>13, <1>14, LocalStep, EndLengths

LEMMA PushRecvKeepsIInv ==
    ASSUME IInv, NEW p \in Peer, PushRecv(p)
    PROVE  IInv'
<1>. DEFINE posted == recvPosted[p]
            op == Head(posted)
            old == mRecvQueue[p]
            queue == Append(old, op)
            popped == RecvPopped(p)
            last == Len(recvs[p])
<1>1. /\ ChannelTypeOK /\ GotInv(p) /\ SignalInv(p) /\ SendQueueInv(p) /\ RecvQueueInv(p)
      /\ posted \in Seq(ROp) /\ posted # <<>> /\ old \in Seq(ROp)
      /\ ~ crashed[p]
  BY EndTypes DEF IInv, PushRecv
<1>2. /\ op \in ROp /\ Tail(posted) \in Seq(ROp)
      /\ Len(posted) \in Nat /\ Len(posted) >= 1 /\ Len(Tail(posted)) = Len(posted) - 1
  <2>. HIDE DEF posted
  <2>. QED  BY <1>1, HeadTail
<1>3. queue \in Seq(ROp) /\ queue # <<>> /\ Len(queue) = Len(old) + 1
  BY <1>1, <1>2, Appended
<1>4. /\ recvPosted' = [recvPosted EXCEPT ![p] = Tail(@)]
      /\ UNCHANGED <<app, waitFor, sent, recvs, sendPosted, mSendQueue, pushing,
                     sender, body, got, wire, lost, crashed>>
  BY DEF PushRecv, appVars, histVars, sendVars, netVars
<1>5. /\ recvPosted'[p] = Tail(posted)
      /\ recvPosted' \in [Peer -> Seq(ROp)]
      /\ UNCHANGED recvPosted[Other(p)]
  BY <1>1, <1>2, <1>4, OtherPeer DEF ChannelTypeOK
<1>6. /\ RecvTotal(p)' = RecvTotal(p) /\ UNCHANGED SendEnd(p)
  BY <1>4 DEF RecvTotal, Closing, SendEnd, SendTotal
<1>7. UNCHANGED <<mRecvQueue[Other(p)], reader[Other(p)], signal[Other(p)]>>
        => UNCHANGED Bystander(p)
  BY <1>4, <1>5 DEF Bystander, SendEnd, RecvEnd, SendTotal, RecvTotal, Closing
<1>8. /\ RecvTotal(p) = popped + Len(old) + Len(posted)
      /\ RecvTotal(p) = last \/ RecvTotal(p) = last + 1
      /\ popped \in Nat /\ last \in Nat /\ Len(old) \in Nat
  BY <1>1, RecvSplit, EndLengths DEF RecvQueueInv
<1>9. app[p] # "closed" /\ "closeRecv" \notin signal[p]
  <2>1. app[p] # "closed"
    BY <1>1, ClosedIsDrained DEF Drained
  <2>2. popped # RecvTotal(p)
    <3>. HIDE DEF popped, old, posted, last
    <3>. QED  BY <1>2, <1>8
  <2>. QED  BY <1>1, <2>1, <2>2 DEF SignalInv
<1>10. /\ Consecutive(queue, popped, last, "RecvData")
       /\ Consecutive(Tail(posted), popped + Len(queue), last, "RecvData")
  <2>1. /\ Consecutive(old, popped, last, "RecvData")
        /\ Consecutive(posted, popped + Len(old), last, "RecvData")
    BY <1>1 DEF RecvQueueInv
  <2>. HIDE DEF popped, old, posted, last
  <2>2. /\ op.n = popped + Len(old) + 1
        /\ op.type = "RecvData" <=> op.n <= last
        /\ Consecutive(Tail(posted), (popped + Len(old)) + 1, last, "RecvData")
    BY <1>1, <1>8, <2>1, ConsecutiveTail
  <2>3. (popped + Len(old)) + 1 = popped + Len(queue)
    BY <1>3, <1>8
  <2>4. Consecutive(queue, popped, last, "RecvData")
    BY <1>1, <1>2, <1>8, <2>1, <2>2, ConsecutiveAppend
  <2>. QED  BY <2>2, <2>3, <2>4
<1>11. RecvTotal(p) = popped + Len(queue) + Len(Tail(posted))
  <2>. HIDE DEF popped, old, posted, last
  <2>. QED  BY <1>2, <1>3, <1>8
<1>12. /\ SendQueueInv(p)' /\ Written(p)' = Written(p) /\ SendPopped(p)' = SendPopped(p)
  BY <1>1, <1>6, SendFrame
<1>13. CASE StartRecving(queue) /\ ReceiveOne(p, queue)
  <2>1. Len(old) = 0 /\ reader[p] = "idle"
    <3>1. Len(old) = 0
      <4>1. Len(queue) = 1
        BY <1>13 DEF StartRecving
      <4>2. Len(queue) = Len(old) + 1 /\ Len(old) \in Nat
        BY <1>3, <1>8
      <4>. DEFINE length == Len(old)
      <4>3. length + 1 = 1 /\ length \in Nat
        BY <4>1, <4>2
      <4>. HIDE DEF length
      <4>4. length = 0
        BY <4>3
      <4>. QED  BY <4>4 DEF length
    <3>. QED  BY <1>1, <3>1 DEF RecvQueueInv, RecvDriver
  <2>2. popped <= last /\ MinOf(popped, last) = popped
    <3>. HIDE DEF popped, old, posted, last
    <3>. QED  BY <1>2, <1>8, <2>1 DEF MinOf
  <2>3. AllGot(p, popped) /\ ReadCount(p) = 2 * popped
    BY <1>1, <1>8, <2>1, <2>2 DEF GotInv, AllGot, ReadCount
  <2>4. RecvQueueReady(p, queue, Tail(posted), popped)
    BY <1>8, <1>10, <1>11 DEF RecvQueueReady
  <2>5. OnlyReceiveOne(p, Tail(posted))
    BY <1>4, <1>5, <1>6 DEF OnlyReceiveOne
  <2>. HIDE DEF popped, queue
  <2>6. /\ RecvQueueInv(p)' /\ GotInv(p)' /\ SignalInv(p)'
        /\ ReadCount(p)' = 2 * popped
        /\ mRecvQueue' \in [Peer -> Seq(ROp)]
        /\ reader' \in [Peer -> {"idle", "header", "body", "read", "fulfilled", "failed"}]
        /\ signal' \in [Peer -> SUBSET {"send", "closeSend", "closeRecv"}]
        /\ UNCHANGED <<mRecvQueue[Other(p)], reader[Other(p)], signal[Other(p)]>>
    BY <1>1, <1>2, <1>3, <1>8, <1>9, <1>13, <2>3, <2>4, <2>5, ReceiveOneEffect
  <2>7. ChannelTypeOK'
    BY <1>1, <1>4, <1>5, <2>6 DEF ChannelTypeOK
  <2>. QED
    BY <1>1, <1>4, <1>7, <1>9, <1>12, <2>3, <2>6, <2>7, LocalStep, EndLengths
<1>14. CASE /\ ~ StartRecving(queue)
            /\ mRecvQueue' = [mRecvQueue EXCEPT ![p] = queue]
            /\ UNCHANGED <<reader, signal>>
  <2>1. /\ mRecvQueue'[p] = queue /\ mRecvQueue' \in [Peer -> Seq(ROp)]
        /\ UNCHANGED <<mRecvQueue[Other(p)], reader, signal>>
    BY <1>1, <1>3, <1>14, OtherPeer DEF ChannelTypeOK
  <2>2. ChannelTypeOK'
    BY <1>1, <1>4, <1>5, <2>1 DEF ChannelTypeOK
  <2>3. RecvPopped(p)' = popped
    <3>1. RecvPopped(p)' = RecvTotal(p) - Len(Tail(posted)) - Len(queue)
      BY <1>5, <1>6, <2>1 DEF RecvPopped
    <3>. HIDE DEF popped, old, posted, queue, last
    <3>. QED  BY <1>2, <1>3, <1>8, <1>11, <3>1
  <2>4. Len(queue) # 1 /\ Len(queue) # 0 /\ reader[p] # "idle" /\ popped < last
    <3>1. Len(old) # 0 /\ Len(queue) # 1 /\ Len(queue) # 0
      <4>. HIDE DEF old, queue
      <4>. QED  BY <1>3, <1>8, <1>14 DEF StartRecving
    <3>. QED  BY <1>1, <3>1 DEF RecvQueueInv, RecvDriver
  <2>5. RecvDriver(p)'
    BY <1>4, <2>1, <2>3, <2>4 DEF RecvDriver
  <2>6. RecvQueueInv(p)'
    <3>. HIDE DEF popped, queue
    <3>. QED  BY <1>4, <1>5, <1>8, <1>10, <2>1, <2>3, <2>5 DEF RecvQueueInv
  <2>7. GotInv(p)' /\ ReadCount(p)' = ReadCount(p)
    BY <1>1, <1>4, <2>1, <2>3 DEF GotInv, ReadCount
  <2>8. SignalInv(p)'
    BY <1>1, <1>4, <1>6, <1>9, <1>12, <2>1 DEF SignalInv, AwaitedSend, Closing, SendEnd
  <2>. QED
    BY <1>1, <1>4, <1>7, <1>9, <1>12, <2>1, <2>2, <2>6, <2>7, <2>8, LocalStep, EndLengths
<1>. QED
  BY <1>13, <1>14 DEF PushRecv

LEMMA PopRecvKeepsIInv ==
    ASSUME IInv, NEW p \in Peer, PopRecv(p)
    PROVE  IInv'
<1>. DEFINE posted == recvPosted[p]
            queue == mRecvQueue[p]
            rest == Tail(queue)
            popped == RecvPopped(p)
            last == Len(recvs[p])
<1>1. /\ ChannelTypeOK /\ GotInv(p) /\ SignalInv(p) /\ SendQueueInv(p) /\ RecvQueueInv(p)
      /\ reader[p] = "fulfilled" /\ ~ crashed[p] /\ posted \in Seq(ROp)
  BY EndTypes DEF IInv, PopRecv
<1>2. UNCHANGED <<app, waitFor, sent, recvs, sendPosted, mSendQueue, pushing,
                  sender, recvPosted, body, got, wire, lost, crashed>>
  BY DEF PopRecv, appVars, histVars, sendVars, netVars
<1>3. /\ RecvTotal(p)' = RecvTotal(p) /\ UNCHANGED SendEnd(p)
  BY <1>2 DEF RecvTotal, Closing, SendEnd, SendTotal
<1>4. UNCHANGED <<mRecvQueue[Other(p)], reader[Other(p)], signal[Other(p)]>>
        => UNCHANGED Bystander(p)
  BY <1>2 DEF Bystander, SendEnd, RecvEnd, SendTotal, RecvTotal, Closing
<1>5. /\ queue \in Seq(ROp) /\ queue # <<>>
      /\ popped \in Nat /\ popped < last /\ MinOf(popped, last) = popped
      /\ app[p] # "closed" /\ "closeRecv" \notin signal[p]
  BY <1>1, ReaderFacts
<1>6. /\ rest \in Seq(ROp) /\ Len(queue) \in Nat /\ Len(queue) >= 1
      /\ Len(rest) = Len(queue) - 1
  <2>. HIDE DEF queue
  <2>. QED  BY <1>5, HeadTail
<1>7. /\ RecvTotal(p) = popped + Len(queue) + Len(posted)
      /\ last \in Nat /\ Len(posted) \in Nat /\ RecvTotal(p) \in Nat
  BY <1>1, RecvSplit, EndLengths
<1>8. /\ Consecutive(rest, popped + 1, last, "RecvData")
      /\ Consecutive(posted, (popped + 1) + Len(rest), last, "RecvData")
  <2>1. /\ Consecutive(queue, popped, last, "RecvData")
        /\ Consecutive(posted, popped + Len(queue), last, "RecvData")
    BY <1>1 DEF RecvQueueInv
  <2>2. queue \in Seq(ROp) /\ queue # <<>> /\ popped \in Int /\ last \in Nat
    BY <1>5, <1>7
  <2>. HIDE DEF popped, posted, queue, last
  <2>3. Consecutive(rest, popped + 1, last, "RecvData")
    BY <2>1, <2>2, ConsecutiveTail
  <2>4. popped + Len(queue) = (popped + 1) + Len(rest)
    BY <1>5, <1>6
  <2>. QED  BY <2>1, <2>3, <2>4
<1>9. AllGot(p, popped + 1) /\ ReadCount(p) = 2 * (popped + 1)
  BY <1>1, <1>5 DEF GotInv, AllGot, ReadCount
<1>10. /\ SendQueueInv(p)' /\ Written(p)' = Written(p) /\ SendPopped(p)' = SendPopped(p)
  BY <1>1, <1>3, SendFrame
<1>11. RecvTotal(p) = (popped + 1) + Len(rest) + Len(posted)
  <2>. HIDE DEF popped, posted, queue, rest
  <2>. QED  BY <1>5, <1>6, <1>7
<1>12. CASE HasMore(rest) /\ ReceiveOne(p, rest)
  <2>1. RecvQueueReady(p, rest, posted, popped + 1)
    BY <1>5, <1>8, <1>11 DEF RecvQueueReady
  <2>2. OnlyReceiveOne(p, posted) /\ rest # <<>>
    BY <1>2, <1>3, <1>12 DEF OnlyReceiveOne, HasMore
  <2>. HIDE DEF popped, rest
  <2>3. /\ RecvQueueInv(p)' /\ GotInv(p)' /\ SignalInv(p)'
        /\ ReadCount(p)' = 2 * (popped + 1)
        /\ mRecvQueue' \in [Peer -> Seq(ROp)]
        /\ reader' \in [Peer -> {"idle", "header", "body", "read", "fulfilled", "failed"}]
        /\ signal' \in [Peer -> SUBSET {"send", "closeSend", "closeRecv"}]
        /\ UNCHANGED <<mRecvQueue[Other(p)], reader[Other(p)], signal[Other(p)]>>
    BY <1>1, <1>5, <1>6, <1>9, <1>12, <2>1, <2>2, ReceiveOneEffect
  <2>4. ChannelTypeOK'
    BY <1>1, <1>2, <2>3 DEF ChannelTypeOK
  <2>. QED
    BY <1>1, <1>2, <1>4, <1>5, <1>9, <1>10, <2>3, <2>4, LocalStep, EndLengths
<1>13. CASE /\ ~ HasMore(rest)
            /\ mRecvQueue' = [mRecvQueue EXCEPT ![p] = rest]
            /\ reader' = [reader EXCEPT ![p] = "idle"]
            /\ signal' = signal
  <2>1. /\ mRecvQueue'[p] = rest /\ reader'[p] = "idle"
        /\ mRecvQueue' \in [Peer -> Seq(ROp)]
        /\ reader' \in [Peer -> {"idle", "header", "body", "read", "fulfilled", "failed"}]
        /\ UNCHANGED <<mRecvQueue[Other(p)], reader[Other(p)], signal>>
    BY <1>1, <1>6, <1>13, OtherPeer DEF ChannelTypeOK
  <2>2. Len(rest) = 0
    <3>1. rest = <<>> => Len(rest) = 0
      BY <1>6, EmptyOrNot
    <3>. HIDE DEF rest
    <3>. QED  BY <1>13, <3>1 DEF HasMore
  <2>3. RecvPopped(p)' = popped + 1 /\ MinOf(popped + 1, last) = popped + 1
    <3>1. RecvPopped(p)' = RecvTotal(p) - Len(posted) - Len(rest)
      BY <1>2, <1>3, <2>1 DEF RecvPopped
    <3>. HIDE DEF popped, posted, rest, last
    <3>. QED  BY <1>5, <1>7, <1>11, <2>2, <3>1 DEF MinOf
  <2>4. RecvQueueInv(p)'
    <3>. HIDE DEF popped, rest
    <3>. QED  BY <1>2, <1>5, <1>8, <2>1, <2>2, <2>3 DEF RecvQueueInv, RecvDriver
  <2>5. GotInv(p)' /\ ReadCount(p)' = 2 * (popped + 1)
    BY <1>2, <1>5, <1>9, <2>1, <2>3 DEF GotInv, AllGot, ReadCount
  <2>6. SignalInv(p)'
    BY <1>1, <1>2, <1>3, <1>5, <1>10, <2>1 DEF SignalInv, AwaitedSend, Closing, SendEnd
  <2>7. ChannelTypeOK'
    BY <1>1, <1>2, <2>1 DEF ChannelTypeOK
  <2>. QED
    BY <1>1, <1>2, <1>4, <1>5, <1>9, <1>10, <2>1, <2>4, <2>5, <2>6, <2>7, LocalStep, EndLengths
<1>. QED
  BY <1>12, <1>13 DEF PopRecv

\* A call that neither posts nor is awaited: futures and the counters.
LEMMA AppStep ==
    ASSUME IInv, NEW p \in Peer, NEW next \in {"run", "waiting", "polling"},
           app[p] \in {"run", "waiting", "polling"}, ~ crashed[p],
           app' = [app EXCEPT ![p] = next], waitFor' \in [Peer -> Nat],
           UNCHANGED <<signal, histVars, sendVars, recvVars, netVars>>
    PROVE  IInv'
<1>1. ChannelTypeOK /\ SendQueueInv(p) /\ RecvQueueInv(p) /\ SignalInv(p) /\ GotInv(p)
  BY DEF IInv
<1>2. /\ app'[p] = next /\ UNCHANGED app[Other(p)]
      /\ UNCHANGED <<signal, sent, recvs, sendPosted, mSendQueue, pushing, sender,
                     recvPosted, mRecvQueue, reader, body, got, wire, lost, crashed>>
  BY <1>1, OtherPeer DEF ChannelTypeOK, histVars, sendVars, recvVars, netVars
<1>3. ChannelTypeOK'
  BY <1>1, <1>2 DEF ChannelTypeOK
<1>4. UNCHANGED <<SendEnd(p), RecvEnd(p), Bystander(p)>>
  BY <1>2 DEF Bystander, SendEnd, RecvEnd, SendTotal, RecvTotal, Closing
<1>5. /\ SendQueueInv(p)' /\ RecvQueueInv(p)' /\ GotInv(p)'
      /\ Written(p)' = Written(p) /\ ReadCount(p)' = ReadCount(p)
  BY <1>1, <1>4, SendFrame, RecvFrame
<1>6. SignalInv(p)'
  BY <1>1, <1>2 DEF SignalInv, AwaitedSend, Closing
<1>. QED
  BY <1>1, <1>2, <1>3, <1>4, <1>5, <1>6, LocalStep, EndLengths

LEMMA FutureAndPollKeepIInv ==
    ASSUME IInv, NEW p \in Peer,
           \/ \E n \in 1..MaxRecv[p] : FutureGet(p, n)
           \/ FutureReturn(p) \/ GetTotalLoad(p) \/ GetTotalClear(p)
    PROVE  IInv'
<1>1. waitFor \in [Peer -> Nat]
  BY DEF IInv, ChannelTypeOK
<1>2. CASE \E n \in 1..MaxRecv[p] : FutureGet(p, n)
  <2>1. PICK n \in 1..MaxRecv[p] : FutureGet(p, n)
    BY <1>2
  <2>2. n \in Nat
    BY <2>1, EndLengths DEF IInv, FutureGet
  <2>. QED  BY <1>1, <2>1, <2>2, AppStep DEF FutureGet, CanCall
<1>3. CASE FutureReturn(p)
  BY <1>1, <1>3, AppStep DEF FutureReturn
<1>4. CASE GetTotalLoad(p)
  BY <1>1, <1>4, AppStep DEF GetTotalLoad, CanCall
<1>5. CASE GetTotalClear(p)
  BY <1>1, <1>5, AppStep DEF GetTotalClear
<1>. QED  BY <1>2, <1>3, <1>4, <1>5

LEMMA SendReturnKeepsIInv ==
    ASSUME IInv, NEW p \in Peer, SendReturn(p)
    PROVE  IInv'
<1>1. /\ ChannelTypeOK /\ SendQueueInv(p) /\ RecvQueueInv(p) /\ SignalInv(p) /\ GotInv(p)
      /\ app[p] = "sending" /\ ~ crashed[p] /\ "send" \in signal[p]
  BY DEF IInv, SendReturn
<1>2. /\ app' = [app EXCEPT ![p] = "run"]
      /\ signal' = [signal EXCEPT ![p] = @ \ {"send"}]
      /\ UNCHANGED <<waitFor, sent, recvs, sendPosted, mSendQueue, pushing, sender,
                     recvPosted, mRecvQueue, reader, body, got, wire, lost, crashed>>
  BY DEF SendReturn, histVars, sendVars, recvVars, netVars
<1>3. /\ app'[p] = "run" /\ signal'[p] = signal[p] \ {"send"}
      /\ UNCHANGED <<app[Other(p)], signal[Other(p)]>>
      /\ ChannelTypeOK'
  BY <1>1, <1>2, OtherPeer DEF ChannelTypeOK
<1>4. UNCHANGED <<SendEnd(p), RecvEnd(p), Bystander(p)>>
  BY <1>1, <1>2, <1>3 DEF Bystander, SendEnd, RecvEnd, SendTotal, RecvTotal, Closing
<1>5. /\ SendQueueInv(p)' /\ RecvQueueInv(p)' /\ GotInv(p)'
      /\ Written(p)' = Written(p) /\ ReadCount(p)' = ReadCount(p)
  BY <1>1, <1>4, SendFrame, RecvFrame
<1>6. SignalInv(p)'
  BY <1>1, <1>2, <1>3 DEF SignalInv, AwaitedSend, Closing
<1>. QED
  BY <1>1, <1>2, <1>3, <1>4, <1>5, <1>6, LocalStep, EndLengths

LEMMA CloseReturnKeepsIInv ==
    ASSUME IInv, NEW p \in Peer, CloseReturn(p)
    PROVE  IInv'
<1>1. /\ ChannelTypeOK /\ SendQueueInv(p) /\ RecvQueueInv(p) /\ SignalInv(p) /\ GotInv(p)
      /\ app[p] = "closing" /\ ~ crashed[p] /\ {"closeSend", "closeRecv"} \subseteq signal[p]
  BY DEF IInv, CloseReturn, CloseAwaits
<1>2. /\ app' = [app EXCEPT ![p] = "closed"]
      /\ UNCHANGED <<waitFor, signal, sent, recvs, sendPosted, mSendQueue, pushing, sender,
                     recvPosted, mRecvQueue, reader, body, got, wire, lost, crashed>>
  BY DEF CloseReturn, histVars, sendVars, recvVars, netVars
<1>3. app'[p] = "closed" /\ UNCHANGED app[Other(p)] /\ ChannelTypeOK'
  BY <1>1, <1>2, OtherPeer DEF ChannelTypeOK
<1>4. UNCHANGED <<SendEnd(p), RecvEnd(p), Bystander(p)>>
  BY <1>1, <1>2, <1>3 DEF Bystander, SendEnd, RecvEnd, SendTotal, RecvTotal, Closing
<1>5. /\ SendQueueInv(p)' /\ RecvQueueInv(p)' /\ GotInv(p)'
      /\ Written(p)' = Written(p) /\ ReadCount(p)' = ReadCount(p)
      /\ SendPopped(p)' = SendPopped(p) /\ RecvPopped(p)' = RecvPopped(p)
      /\ SendTotal(p)' = SendTotal(p) /\ RecvTotal(p)' = RecvTotal(p)
  BY <1>1, <1>4, SendFrame, RecvFrame DEF SendEnd, RecvEnd
<1>6. SignalInv(p)'
  BY <1>1, <1>2, <1>3, <1>5 DEF SignalInv, AwaitedSend, Closing
<1>. QED
  BY <1>1, <1>2, <1>3, <1>4, <1>5, <1>6, LocalStep, EndLengths

\* Another message changes no operation that is already in a queue.
LEMMA ConsecutiveGrow ==
    ASSUME NEW S, NEW q \in Seq(S), NEW base \in Nat, NEW last \in Nat, NEW data,
           Consecutive(q, base, last, data), base + Len(q) <= last
    PROVE  Consecutive(q, base, last + 1, data)
<1>1. Len(q) \in Nat
  BY EmptyOrNot
<1>2. ASSUME NEW i \in 1..Len(q)
      PROVE  /\ q[i].n = base + i
             /\ q[i].type = data <=> q[i].n <= last + 1
  <2>1. /\ q[i].n = base + i
        /\ q[i].type = data <=> q[i].n <= last
    BY DEF Consecutive
  <2>2. base + i <= last /\ base + i <= last + 1
    BY <1>1
  <2>. QED  BY <2>1, <2>2
<1>. QED  BY <1>2 DEF Consecutive

\* While the user can call nothing is being waited for.
LEMMA CallerFacts ==
    ASSUME IInv, NEW p \in Peer, CanCall(p)
    PROVE  /\ app[p] = "run" /\ ~ crashed[p] /\ ~ Closing(p)
           /\ "send" \notin signal[p] /\ "closeSend" \notin signal[p]
           /\ "closeRecv" \notin signal[p]
           /\ SendTotal(p) = Len(sent[p]) /\ RecvTotal(p) = Len(recvs[p])
           /\ SendPopped(p) \in Nat /\ RecvPopped(p) \in Nat
           /\ SendPopped(p) <= Len(sent[p]) /\ RecvPopped(p) <= Len(recvs[p])
<1>1. /\ ChannelTypeOK /\ SendQueueInv(p) /\ RecvQueueInv(p) /\ SignalInv(p)
      /\ app[p] = "run" /\ ~ crashed[p] /\ ~ Closing(p)
  BY DEF IInv, CanCall, Closing
<1>2. /\ "send" \notin signal[p] /\ "closeSend" \notin signal[p]
      /\ "closeRecv" \notin signal[p]
  BY <1>1 DEF SignalInv
<1>3. SendTotal(p) = Len(sent[p]) /\ RecvTotal(p) = Len(recvs[p])
  BY <1>1, EndLengths, SendTotalCases, RecvTotalCases
<1>4. SendPopped(p) \in Nat /\ RecvPopped(p) \in Nat
  BY <1>1, EndLengths DEF SendQueueInv, RecvQueueInv
<1>5. SendPopped(p) <= Len(sent[p]) /\ RecvPopped(p) <= Len(recvs[p])
  <2>. DEFINE a == SendPopped(p)
              b == Len(mSendQueue[p])
              c == Len(sendPosted[p])
              x == RecvPopped(p)
              y == Len(mRecvQueue[p])
              z == Len(recvPosted[p])
  <2>1. Len(sent[p]) = a + b + c /\ Len(recvs[p]) = x + y + z
    BY <1>1, <1>3, SendSplit, RecvSplit
  <2>2. a \in Nat /\ b \in Nat /\ c \in Nat /\ x \in Nat /\ y \in Nat /\ z \in Nat
    BY <1>1, <1>4, EndLengths
  <2>. HIDE DEF a, b, c, x, y, z
  <2>3. a <= a + b + c /\ x <= x + y + z
    BY <2>2
  <2>. QED  BY <2>1, <2>3 DEF a, x
<1>. QED  BY <1>1, <1>2, <1>3, <1>4, <1>5

LEMMA PostSendKeepsIInv ==
    ASSUME IInv, NEW p \in Peer, NEW size \in Size, NEW sync \in BOOLEAN,
           PostSend(p, size, sync),
           app' = [app EXCEPT ![p] = IF sync THEN "sending" ELSE "run"]
    PROVE  IInv'
<1>. DEFINE posted == sendPosted[p]
            popped == SendPopped(p)
            last == Len(sent[p])
            op == SendOp(last + 1, sync)
<1>1. /\ ChannelTypeOK /\ SendQueueInv(p) /\ RecvQueueInv(p) /\ SignalInv(p) /\ GotInv(p)
      /\ CanCall(p)
      /\ posted \in Seq(Op) /\ sent[p] \in Seq(Size) /\ mSendQueue[p] \in Seq(Op)
      /\ last \in Nat /\ Len(posted) \in Nat /\ Len(mSendQueue[p]) \in Nat
  BY EndTypes, EndLengths DEF IInv, PostSend
<1>2. /\ sent' = [sent EXCEPT ![p] = Append(@, size)]
      /\ sendPosted' = [sendPosted EXCEPT ![p] = Append(@, op)]
      /\ UNCHANGED <<waitFor, signal, recvs, mSendQueue, pushing, sender,
                     recvPosted, mRecvQueue, reader, body, got, wire, lost, crashed>>
  BY DEF PostSend, recvVars, netVars
<1>3. op \in Op /\ op.n = last + 1 /\ op.type = "SendData" /\ op.sync = sync
  BY <1>1 DEF SendOp, Op
<1>. HIDE DEF op
<1>4. /\ Append(posted, op) \in Seq(Op) /\ Len(Append(posted, op)) = Len(posted) + 1
      /\ Append(posted, op)[Len(posted) + 1] = op
      /\ \A i \in 1..Len(posted) : Append(posted, op)[i] = posted[i]
      /\ Append(sent[p], size) \in Seq(Size) /\ Len(Append(sent[p], size)) = last + 1
  BY <1>1, <1>3, Appended
<1>5. /\ sent'[p] = Append(sent[p], size) /\ sendPosted'[p] = Append(posted, op)
      /\ app'[p] = (IF sync THEN "sending" ELSE "run")
      /\ UNCHANGED <<sent[Other(p)], sendPosted[Other(p)], app[Other(p)]>>
      /\ sent' \in [Peer -> Seq(Size)] /\ sendPosted' \in [Peer -> Seq(Op)]
  BY <1>1, <1>2, <1>4, OtherPeer DEF ChannelTypeOK
<1>6. ChannelTypeOK'
  BY <1>1, <1>2, <1>5 DEF ChannelTypeOK
<1>7. /\ "send" \notin signal[p] /\ "closeSend" \notin signal[p]
      /\ "closeRecv" \notin signal[p]
      /\ SendTotal(p) = last /\ popped \in Nat /\ popped <= last
      /\ app[p] = "run" /\ ~ crashed[p] /\ ~ Closing(p)
  BY <1>1, CallerFacts
<1>8. Len(sent[p])' = last + 1 /\ SendTotal(p)' = last + 1 /\ ~ Closing(p)'
  <2>1. Len(sent[p])' = last + 1 /\ ~ Closing(p)'
    BY <1>4, <1>5 DEF Closing
  <2>. HIDE DEF last
  <2>2. SendTotal(p)' = (last + 1) + 0
    BY <2>1 DEF SendTotal
  <2>. QED  BY <1>1, <2>1, <2>2
<1>9. SendTotal(p) = popped + Len(mSendQueue[p]) + Len(posted)
  BY <1>1, SendSplit
<1>10. SendPopped(p)' = popped
  <2>1. SendPopped(p)' = (last + 1) - (Len(posted) + 1) - Len(mSendQueue[p])
    BY <1>2, <1>4, <1>5, <1>8 DEF SendPopped
  <2>. DEFINE b == Len(mSendQueue[p])
              c == Len(posted)
  <2>2. last = popped + b + c /\ last \in Nat /\ popped \in Nat /\ b \in Nat /\ c \in Nat
    BY <1>1, <1>7, <1>9
  <2>3. SendPopped(p)' = (last + 1) - (c + 1) - b
    BY <2>1
  <2>. HIDE DEF last, popped, b, c
  <2>. QED  BY <2>2, <2>3
<1>11. Written(p)' = Written(p)
  <2>1. MinOf(popped, last) = popped /\ MinOf(popped, last + 1) = popped
    <3>. HIDE DEF last, popped
    <3>. QED  BY <1>1, <1>7 DEF MinOf
  <2>. QED  BY <1>2, <1>8, <1>10, <2>1 DEF Written
<1>12. SendQueueInv(p)'
  <2>1. /\ Consecutive(mSendQueue[p], popped, last, "SendData")
        /\ Consecutive(posted, popped + Len(mSendQueue[p]), last, "SendData")
        /\ SendDriver(p)
    BY <1>1 DEF SendQueueInv
  <2>2. SendDriver(p)'
    BY <1>1, <1>2, <1>7, <1>8, <1>10, <2>1 DEF SendDriver
  <2>3. /\ popped + Len(mSendQueue[p]) <= last
        /\ popped + Len(mSendQueue[p]) + Len(posted) = last
        /\ popped + Len(mSendQueue[p]) \in Nat
    <3>. HIDE DEF last, popped, posted
    <3>. QED  BY <1>1, <1>7, <1>9
  <2>. DEFINE base == popped + Len(mSendQueue[p])
  <2>. HIDE DEF last, popped, posted
  <2>4. Consecutive(mSendQueue[p], popped, last + 1, "SendData")
    BY <1>1, <1>7, <2>1, <2>3, ConsecutiveGrow
  <2>5. Consecutive(posted, popped + Len(mSendQueue[p]), last + 1, "SendData")
    BY <1>1, <2>1, <2>3, ConsecutiveGrow
  <2>6. Consecutive(Append(posted, op), popped + Len(mSendQueue[p]), last + 1, "SendData")
    <3>1. base + Len(posted) = last /\ base \in Nat
      BY <2>3
    <3>2. Consecutive(posted, base, last + 1, "SendData")
      BY <2>5
    <3>. HIDE DEF base
    <3>3. /\ op.n = base + Len(posted) + 1
          /\ op.type = "SendData" <=> op.n <= last + 1
          /\ base \in Int /\ last + 1 \in Nat
      <4>1. last \in Nat /\ op.n = last + 1 /\ op.type = "SendData"
        BY <1>1, <1>3
      <4>2. op.n = base + Len(posted) + 1
        BY <3>1, <4>1
      <4>3. op.n <= last + 1
        BY <4>1
      <4>. QED  BY <3>1, <4>1, <4>2, <4>3
    <3>4. Consecutive(Append(posted, op), base, last + 1, "SendData")
      BY <1>1, <1>3, <3>2, <3>3, ConsecutiveAppend
    <3>. QED  BY <3>4 DEF base
  <2>7. Consecutive(mSendQueue[p], SendPopped(p), Len(sent[p]), "SendData")'
    BY <1>2, <1>8, <1>10, <2>4
  <2>8. Consecutive(sendPosted[p], SendPopped(p) + Len(mSendQueue[p]),
                    Len(sent[p]), "SendData")'
    BY <1>2, <1>5, <1>8, <1>10, <2>6
  <2>. QED
    BY <1>7, <1>10, <2>2, <2>7, <2>8 DEF SendQueueInv
<1>13. UNCHANGED <<RecvEnd(p), Bystander(p)>>
  BY <1>2, <1>5, <1>7, <1>8 DEF Bystander, SendEnd, RecvEnd, SendTotal, RecvTotal, Closing
<1>14. SignalInv(p)'
  <2>1. \A i \in 1..Len(mSendQueue[p]) :
            i > 1 \/ sender[p] # "fulfilled" =>
              ~ (mSendQueue[p][i].type = "SendData" /\ mSendQueue[p][i].sync)
    BY <1>1, <1>7 DEF SignalInv, AwaitedSend
  <2>2. \A i \in 1..Len(posted) : ~ (posted[i].type = "SendData" /\ posted[i].sync)
    BY <1>1, <1>7 DEF SignalInv, AwaitedSend
  <2>3. ASSUME NEW i \in 1..Len(posted) + 1
        PROVE  AwaitedSend(p, sendPosted[p][i])'
    <3>1. CASE i \in 1..Len(posted)
      BY <1>2, <1>4, <1>5, <2>2, <3>1 DEF AwaitedSend
    <3>2. CASE i = Len(posted) + 1
      BY <1>2, <1>3, <1>4, <1>5, <1>7, <1>8, <3>2 DEF AwaitedSend
    <3>3. Len(posted) \in Nat
      BY <1>1
    <3>. HIDE DEF posted
    <3>. QED  BY <3>1, <3>2, <3>3
  <2>. QED
    BY <1>2, <1>4, <1>5, <1>7, <2>1, <2>2, <2>3 DEF SignalInv, AwaitedSend
<1>15. RecvQueueInv(p)' /\ GotInv(p)' /\ ReadCount(p)' = ReadCount(p)
  BY <1>1, <1>13, RecvFrame
<1>16. Len(sent[p])' >= Len(sent[p]) /\ app[p] # "closed"
  BY <1>1, <1>7, <1>8
<1>. QED
  BY <1>2, <1>6, <1>7, <1>11, <1>12, <1>13, <1>14, <1>15, <1>16, LocalStep

LEMMA SendsKeepIInv ==
    ASSUME IInv, NEW p \in Peer, NEW size \in Size,
           AsyncSend(p, size) \/ Send(p, size)
    PROVE  IInv'
<1>1. CASE AsyncSend(p, size)
  <2>1. app = [app EXCEPT ![p] = "run"]
    BY <1>1 DEF IInv, ChannelTypeOK, AsyncSend, PostSend, CanCall
  <2>2. app' = [app EXCEPT ![p] = IF FALSE THEN "sending" ELSE "run"]
    BY <1>1, <2>1 DEF AsyncSend
  <2>. QED  BY <1>1, <2>2, PostSendKeepsIInv DEF AsyncSend
<1>2. CASE Send(p, size)
  <2>1. app' = [app EXCEPT ![p] = IF TRUE THEN "sending" ELSE "run"]
    BY <1>2 DEF Send
  <2>. QED  BY <1>2, <2>1, PostSendKeepsIInv DEF Send
<1>. QED  BY <1>1, <1>2

LEMMA AsyncRecvKeepsIInv ==
    ASSUME IInv, NEW p \in Peer, NEW size \in Expected, AsyncRecv(p, size)
    PROVE  IInv'
<1>. DEFINE posted == recvPosted[p]
            queue == mRecvQueue[p]
            popped == RecvPopped(p)
            last == Len(recvs[p])
            op == RecvOp(last + 1)
            base == popped + Len(queue)
<1>1. /\ ChannelTypeOK /\ SendQueueInv(p) /\ RecvQueueInv(p) /\ SignalInv(p) /\ GotInv(p)
      /\ CanCall(p)
      /\ posted \in Seq(ROp) /\ recvs[p] \in Seq(Expected) /\ queue \in Seq(ROp)
      /\ last \in Nat /\ Len(posted) \in Nat /\ Len(queue) \in Nat
  BY EndTypes, EndLengths DEF IInv, AsyncRecv
<1>2. /\ recvs' = [recvs EXCEPT ![p] = Append(@, size)]
      /\ recvPosted' = [recvPosted EXCEPT ![p] = Append(@, op)]
      /\ UNCHANGED <<app, waitFor, signal, sent, sendPosted, mSendQueue, pushing, sender,
                     mRecvQueue, reader, body, got, wire, lost, crashed>>
  BY DEF AsyncRecv, appVars, sendVars, netVars
<1>3. op \in ROp /\ op.n = last + 1 /\ op.type = "RecvData"
  BY <1>1 DEF RecvOp, ROp
<1>. HIDE DEF op
<1>4. /\ Append(posted, op) \in Seq(ROp) /\ Len(Append(posted, op)) = Len(posted) + 1
      /\ Append(recvs[p], size) \in Seq(Expected) /\ Len(Append(recvs[p], size)) = last + 1
  BY <1>1, <1>3, Appended
<1>5. /\ recvs'[p] = Append(recvs[p], size) /\ recvPosted'[p] = Append(posted, op)
      /\ UNCHANGED <<recvs[Other(p)], recvPosted[Other(p)]>>
      /\ recvs' \in [Peer -> Seq(Expected)] /\ recvPosted' \in [Peer -> Seq(ROp)]
  BY <1>1, <1>2, <1>4, OtherPeer DEF ChannelTypeOK
<1>6. ChannelTypeOK'
  BY <1>1, <1>2, <1>5 DEF ChannelTypeOK
<1>7. /\ "closeRecv" \notin signal[p]
      /\ RecvTotal(p) = last /\ popped \in Nat /\ popped <= last
      /\ app[p] = "run" /\ ~ crashed[p] /\ ~ Closing(p)
  BY <1>1, CallerFacts
<1>8. Len(recvs[p])' = last + 1 /\ RecvTotal(p)' = last + 1
  <2>1. Len(recvs[p])' = last + 1 /\ ~ Closing(p)'
    BY <1>2, <1>4, <1>5, <1>7 DEF Closing
  <2>. HIDE DEF last
  <2>2. RecvTotal(p)' = (last + 1) + 0
    BY <2>1 DEF RecvTotal
  <2>. QED  BY <1>1, <2>1, <2>2
<1>9. RecvTotal(p) = popped + Len(queue) + Len(posted)
  BY <1>1, RecvSplit
<1>10. RecvPopped(p)' = popped
  <2>1. RecvPopped(p)' = (last + 1) - (Len(posted) + 1) - Len(queue)
    BY <1>2, <1>4, <1>5, <1>8 DEF RecvPopped
  <2>. DEFINE b == Len(queue)
              c == Len(posted)
  <2>2. last = popped + b + c /\ last \in Nat /\ popped \in Nat /\ b \in Nat /\ c \in Nat
    BY <1>1, <1>7, <1>9
  <2>3. RecvPopped(p)' = (last + 1) - (c + 1) - b
    BY <2>1
  <2>. HIDE DEF last, popped, b, c
  <2>. QED  BY <2>2, <2>3
<1>11. MinOf(popped, last) = popped /\ MinOf(popped, last + 1) = popped
  <2>. HIDE DEF last, popped
  <2>. QED  BY <1>1, <1>7 DEF MinOf
<1>12. ReadCount(p)' = ReadCount(p) /\ GotInv(p)'
  BY <1>1, <1>2, <1>8, <1>10, <1>11 DEF ReadCount, GotInv
<1>13. RecvQueueInv(p)'
  <2>1. /\ Consecutive(queue, popped, last, "RecvData")
        /\ Consecutive(posted, base, last, "RecvData")
        /\ RecvDriver(p)
    BY <1>1 DEF RecvQueueInv
  <2>2. RecvDriver(p)'
    BY <1>1, <1>2, <1>7, <1>8, <1>10, <2>1 DEF RecvDriver
  <2>3. base + Len(posted) = last /\ base \in Nat /\ popped + Len(queue) <= last /\ base <= last
    <3>. HIDE DEF last, popped, posted
    <3>. QED  BY <1>1, <1>7, <1>9
  <2>. HIDE DEF last, popped, posted, queue
  <2>4. Consecutive(queue, popped, last + 1, "RecvData")
    BY <1>1, <1>7, <2>1, <2>3, ConsecutiveGrow
  <2>5. Consecutive(Append(posted, op), base, last + 1, "RecvData")
    <3>. HIDE DEF base
    <3>1. Consecutive(posted, base, last + 1, "RecvData")
      BY <1>1, <2>1, <2>3, ConsecutiveGrow
    <3>2. op.n = base + Len(posted) + 1 /\ (op.type = "RecvData" <=> op.n <= last + 1)
          /\ base \in Int /\ last + 1 \in Nat
      BY <1>1, <1>3, <2>3
    <3>. QED  BY <1>1, <1>3, <3>1, <3>2, ConsecutiveAppend
  <2>6. Consecutive(mRecvQueue[p], RecvPopped(p), Len(recvs[p]), "RecvData")'
    BY <1>2, <1>8, <1>10, <2>4 DEF queue
  <2>7. Consecutive(recvPosted[p], RecvPopped(p) + Len(mRecvQueue[p]),
                    Len(recvs[p]), "RecvData")'
    BY <1>2, <1>5, <1>8, <1>10, <2>5 DEF queue
  <2>. QED
    BY <1>7, <1>10, <2>2, <2>6, <2>7 DEF RecvQueueInv
<1>14. UNCHANGED <<SendEnd(p), Bystander(p)>>
  BY <1>2, <1>5 DEF Bystander, SendEnd, RecvEnd, SendTotal, RecvTotal, Closing
<1>15. SendQueueInv(p)' /\ Written(p)' = Written(p) /\ SendPopped(p)' = SendPopped(p)
  BY <1>1, <1>14, SendFrame
<1>16. SignalInv(p)'
  BY <1>1, <1>2, <1>7, <1>14, <1>15 DEF SignalInv, AwaitedSend, Closing, SendEnd
<1>. QED
  BY <1>1, <1>2, <1>6, <1>7, <1>12, <1>13, <1>14, <1>15, <1>16, LocalStep, EndLengths

LEMMA CloseKeepsIInv ==
    ASSUME IInv, NEW p \in Peer, Close(p)
    PROVE  IInv'
<1>. DEFINE sposted == sendPosted[p]
            rposted == recvPosted[p]
            squeue == mSendQueue[p]
            rqueue == mRecvQueue[p]
            spopped == SendPopped(p)
            rpopped == RecvPopped(p)
            slast == Len(sent[p])
            rlast == Len(recvs[p])
            sop == CloseSendOp(slast + 1)
            rop == CloseRecvOp(rlast + 1)
            sbase == spopped + Len(squeue)
            rbase == rpopped + Len(rqueue)
<1>1. /\ ChannelTypeOK /\ SendQueueInv(p) /\ RecvQueueInv(p) /\ SignalInv(p) /\ GotInv(p)
      /\ CanCall(p)
      /\ sposted \in Seq(Op) /\ squeue \in Seq(Op) /\ slast \in Nat
      /\ Len(sposted) \in Nat /\ Len(squeue) \in Nat
      /\ rposted \in Seq(ROp) /\ rqueue \in Seq(ROp) /\ rlast \in Nat
      /\ Len(rposted) \in Nat /\ Len(rqueue) \in Nat
  BY EndTypes, EndLengths DEF IInv, Close
<1>2. /\ app' = [app EXCEPT ![p] = "closing"]
      /\ sendPosted' = [sendPosted EXCEPT ![p] = Append(@, sop)]
      /\ recvPosted' = [recvPosted EXCEPT ![p] = Append(@, rop)]
      /\ UNCHANGED <<waitFor, signal, sent, recvs, mSendQueue, pushing, sender,
                     mRecvQueue, reader, body, got, wire, lost, crashed>>
  BY DEF Close, histVars, netVars
<1>3. /\ sop \in Op /\ sop.n = slast + 1 /\ sop.type = "CloseSend"
      /\ rop \in ROp /\ rop.n = rlast + 1 /\ rop.type = "CloseRecv"
  BY <1>1 DEF CloseSendOp, Op, CloseRecvOp, ROp
<1>. HIDE DEF sop, rop
<1>4. /\ Append(sposted, sop) \in Seq(Op)
      /\ Len(Append(sposted, sop)) = Len(sposted) + 1
      /\ Append(sposted, sop)[Len(sposted) + 1] = sop
      /\ \A i \in 1..Len(sposted) : Append(sposted, sop)[i] = sposted[i]
  BY <1>1, <1>3, Appended
<1>5. /\ Append(rposted, rop) \in Seq(ROp)
      /\ Len(Append(rposted, rop)) = Len(rposted) + 1
  BY <1>1, <1>3, Appended
<1>6. /\ sendPosted'[p] = Append(sposted, sop) /\ recvPosted'[p] = Append(rposted, rop)
      /\ app'[p] = "closing"
      /\ UNCHANGED <<sendPosted[Other(p)], recvPosted[Other(p)], app[Other(p)]>>
      /\ sendPosted' \in [Peer -> Seq(Op)] /\ recvPosted' \in [Peer -> Seq(ROp)]
  BY <1>1, <1>2, <1>4, <1>5, OtherPeer DEF ChannelTypeOK
<1>7. ChannelTypeOK'
  BY <1>1, <1>2, <1>6 DEF ChannelTypeOK
<1>8. /\ "send" \notin signal[p] /\ "closeSend" \notin signal[p]
      /\ "closeRecv" \notin signal[p]
      /\ SendTotal(p) = slast /\ spopped \in Nat /\ spopped <= slast
      /\ RecvTotal(p) = rlast /\ rpopped \in Nat /\ rpopped <= rlast
      /\ app[p] = "run" /\ ~ crashed[p] /\ ~ Closing(p)
  BY <1>1, CallerFacts
<1>9. SendTotal(p)' = slast + 1 /\ RecvTotal(p)' = rlast + 1 /\ Closing(p)'
  BY <1>2, <1>6 DEF SendTotal, RecvTotal, Closing
<1>10. slast = sbase + Len(sposted) /\ rlast = rbase + Len(rposted)
  <2>1. /\ SendTotal(p) = spopped + Len(squeue) + Len(sposted)
        /\ RecvTotal(p) = rpopped + Len(rqueue) + Len(rposted)
    BY <1>1, SendSplit, RecvSplit
  <2>. QED  BY <1>8, <2>1
<1>11. SendPopped(p)' = spopped /\ RecvPopped(p)' = rpopped
  <2>1. /\ SendPopped(p)' = (slast + 1) - (Len(sposted) + 1) - Len(squeue)
        /\ RecvPopped(p)' = (rlast + 1) - (Len(rposted) + 1) - Len(rqueue)
    BY <1>2, <1>4, <1>5, <1>6, <1>9 DEF SendPopped, RecvPopped
  <2>. DEFINE b == Len(squeue)
              c == Len(sposted)
              y == Len(rqueue)
              z == Len(rposted)
  <2>2. /\ slast = spopped + b + c /\ rlast = rpopped + y + z
        /\ spopped \in Nat /\ b \in Nat /\ c \in Nat
        /\ rpopped \in Nat /\ y \in Nat /\ z \in Nat
    BY <1>1, <1>8, <1>10
  <2>3. /\ SendPopped(p)' = (slast + 1) - (c + 1) - b
        /\ RecvPopped(p)' = (rlast + 1) - (z + 1) - y
    BY <2>1
  <2>. HIDE DEF slast, spopped, b, c, rlast, rpopped, y, z
  <2>. QED  BY <2>2, <2>3
<1>12. /\ Written(p)' = Written(p) /\ ReadCount(p)' = ReadCount(p) /\ GotInv(p)'
  BY <1>1, <1>2, <1>11 DEF Written, ReadCount, GotInv
<1>13. SendQueueInv(p)'
  <2>1. /\ Consecutive(squeue, spopped, slast, "SendData")
        /\ Consecutive(sposted, sbase, slast, "SendData")
        /\ SendDriver(p)
    BY <1>1 DEF SendQueueInv
  <2>2. SendDriver(p)'
    BY <1>2, <1>11, <2>1 DEF SendDriver
  <2>3. Consecutive(Append(sposted, sop), sbase, slast, "SendData")
    <3>1. sbase \in Int
      BY <1>1, <1>8
    <3>. HIDE DEF sbase, slast, sposted
    <3>2. sop.n = sbase + Len(sposted) + 1 /\ (sop.type = "SendData" <=> sop.n <= slast)
      BY <1>1, <1>3, <1>10, <3>1
    <3>. QED  BY <1>1, <1>3, <2>1, <3>1, <3>2, ConsecutiveAppend
  <2>. QED
    BY <1>2, <1>6, <1>8, <1>11, <2>1, <2>2, <2>3 DEF SendQueueInv
<1>14. RecvQueueInv(p)'
  <2>1. /\ Consecutive(rqueue, rpopped, rlast, "RecvData")
        /\ Consecutive(rposted, rbase, rlast, "RecvData")
        /\ RecvDriver(p)
    BY <1>1 DEF RecvQueueInv
  <2>2. RecvDriver(p)'
    BY <1>2, <1>11, <2>1 DEF RecvDriver
  <2>3. Consecutive(Append(rposted, rop), rbase, rlast, "RecvData")
    <3>1. rbase \in Int
      BY <1>1, <1>8
    <3>. HIDE DEF rbase, rlast, rposted
    <3>2. rop.n = rbase + Len(rposted) + 1 /\ (rop.type = "RecvData" <=> rop.n <= rlast)
      BY <1>1, <1>3, <1>10, <3>1
    <3>. QED  BY <1>1, <1>3, <2>1, <3>1, <3>2, ConsecutiveAppend
  <2>. QED
    BY <1>2, <1>6, <1>8, <1>11, <2>1, <2>2, <2>3 DEF RecvQueueInv
<1>15. SignalInv(p)'
  <2>1. ASSUME NEW i \in 1..Len(sposted) + 1
        PROVE  AwaitedSend(p, sendPosted[p][i])'
    <3>1. CASE i \in 1..Len(sposted)
      BY <1>1, <1>2, <1>4, <1>6, <1>8, <3>1 DEF SignalInv, AwaitedSend
    <3>2. CASE i = Len(sposted) + 1
      BY <1>3, <1>4, <1>6, <3>2 DEF AwaitedSend
    <3>3. Len(sposted) \in Nat
      BY <1>1
    <3>. HIDE DEF sposted
    <3>. QED  BY <3>1, <3>2, <3>3
  <2>. QED
    BY <1>1, <1>2, <1>4, <1>6, <1>8, <2>1 DEF SignalInv, AwaitedSend
<1>16. UNCHANGED Bystander(p)
  BY <1>2, <1>6 DEF Bystander, SendEnd, RecvEnd, SendTotal, RecvTotal, Closing
<1>. QED
  BY <1>1, <1>2, <1>7, <1>8, <1>12, <1>13, <1>14, <1>15, <1>16, LocalStep, EndLengths

\* An end that has closed has written and read everything it was asked to.
LEMMA ClosedCounts ==
    ASSUME IInv, NEW p \in Peer, app[p] = "closed"
    PROVE  Written(p) = 2 * Len(sent[p]) /\ ReadCount(p) = 2 * Len(recvs[p])
<1>1. ChannelTypeOK /\ SignalInv(p) /\ Closing(p)
  BY DEF IInv, Closing
<1>2. sender[p] = "idle" /\ reader[p] = "idle"
  BY ClosedIsDrained DEF Drained
<1>3. /\ Len(sent[p]) \in Nat /\ Len(recvs[p]) \in Nat
      /\ SendPopped(p) = Len(sent[p]) + 1 /\ RecvPopped(p) = Len(recvs[p]) + 1
  BY <1>1, EndLengths, SendTotalCases, RecvTotalCases DEF SignalInv
<1>4. /\ MinOf(SendPopped(p), Len(sent[p])) = Len(sent[p])
      /\ MinOf(RecvPopped(p), Len(recvs[p])) = Len(recvs[p])
  BY <1>3 DEF MinOf
<1>. QED  BY <1>2, <1>3, <1>4 DEF Written, ReadCount

LEMMA WrittenBound ==
    ASSUME IInv, NEW p \in Peer
    PROVE  Written(p) \in Int /\ ReadCount(p) \in Int /\ Written(p) <= 2 * Len(sent[p])
<1>1. ChannelTypeOK /\ SendQueueInv(p)
  BY DEF IInv
<1>2. /\ Len(sent[p]) \in Nat /\ SendPopped(p) \in Int
      /\ Len(recvs[p]) \in Nat /\ RecvPopped(p) \in Int
  BY <1>1, EndLengths
<1>3. MinOf(SendPopped(p), Len(sent[p])) <= Len(sent[p])
  BY <1>2 DEF MinOf
<1>4. Written(p) \in Int /\ ReadCount(p) \in Int
  <2>1. /\ MinOf(SendPopped(p), Len(sent[p])) \in Int
        /\ MinOf(RecvPopped(p), Len(recvs[p])) \in Int
    BY <1>2 DEF MinOf
  <2>2. Written(p) \in Int
    BY <2>1 DEF Written
  <2>3. ReadCount(p) \in Int
    BY <2>1 DEF ReadCount
  <2>. QED  BY <2>2, <2>3
<1>5. CASE sender[p] = "idle"
  BY <1>2, <1>3, <1>4, <1>5 DEF Written, MinOf
<1>6. CASE sender[p] # "idle"
  <2>1. SendPopped(p) < Len(sent[p])
    BY <1>6, SenderFacts
  <2>2. Written(p) <= 2 * SendPopped(p) + 2
    BY <1>2, <2>1 DEF Written, MinOf
  <2>. QED  BY <1>2, <1>4, <2>1, <2>2
<1>. QED  BY <1>4, <1>5, <1>6

\* A step of the network moves nothing at the ends.
LEMMA NetFrame ==
    ASSUME IInv, NEW p \in Peer,
           UNCHANGED <<app, signal, sent, recvs, sendPosted, mSendQueue, pushing, sender,
                       recvPosted, mRecvQueue, reader, body, got>>
    PROVE  /\ SendQueueInv(p)' /\ RecvQueueInv(p)' /\ SignalInv(p)' /\ GotInv(p)'
           /\ Written(p)' = Written(p) /\ ReadCount(p)' = ReadCount(p)
<1>1. UNCHANGED <<SendEnd(p), RecvEnd(p), app[p], signal[p]>>
  BY DEF SendEnd, RecvEnd, SendTotal, RecvTotal, Closing
<1>. QED  BY <1>1, SendFrame, RecvFrame, SignalFrame DEF IInv

LEMMA ResetKeepsIInv ==
    ASSUME IInv, NEW p \in Peer, Reset(p)
    PROVE  IInv'
<1>. DEFINE o == Other(p)
<1>1. /\ wire[p] # <<>> /\ ~ lost /\ Gone(o)
      /\ lost' = TRUE /\ wire' = [q \in Peer |-> <<>>]
      /\ UNCHANGED <<app, waitFor, signal, sent, recvs, sendPosted, mSendQueue, pushing,
                     sender, recvPosted, mRecvQueue, reader, body, got, crashed>>
  BY DEF Reset, appVars, histVars, sendVars, recvVars
<1>2. o \in Peer /\ Other(o) = p
  BY OtherPeer
<1>3. ChannelTypeOK /\ WireInv(p) /\ CrashInv(o) /\ CrashInv(p)
  BY <1>2 DEF IInv
<1>4. app[o] = "closed"
  BY <1>1, <1>2, <1>3 DEF Gone, CrashInv
<1>5. Len(sent[p]) > Len(recvs[o])
  <2>1. Len(wire[p]) >= 1 /\ Len(wire[p]) \in Nat
    BY <1>1, <1>3, EndTypes, HeadTail
  <2>2. ReadCount(o) + Len(wire[p]) <= Written(p)
    BY <1>3 DEF WireInv
  <2>3. ReadCount(o) = 2 * Len(recvs[o])
    BY <1>2, <1>4, ClosedCounts
  <2>4. Written(p) \in Int /\ Written(p) <= 2 * Len(sent[p])
    BY WrittenBound
  <2>. DEFINE a == Len(sent[p])
              b == Len(recvs[o])
              c == Len(wire[p])
  <2>5. a \in Nat /\ b \in Nat /\ c \in Nat /\ c >= 1
    BY <1>2, <1>3, <2>1, EndLengths
  <2>6. 2 * b + c <= Written(p) /\ Written(p) <= 2 * a
    BY <2>2, <2>3, <2>4
  <2>. HIDE DEF a, b, c
  <2>7. a > b
    BY <2>4, <2>5, <2>6
  <2>. QED  BY <2>7 DEF a, b
<1>6. LostInv'
  BY <1>1, <1>4, <1>5 DEF LostInv
<1>7. ChannelTypeOK'
  BY <1>1, <1>3 DEF ChannelTypeOK
<1>8. ASSUME NEW q \in Peer
      PROVE  /\ SendQueueInv(q)' /\ RecvQueueInv(q)' /\ SignalInv(q)' /\ GotInv(q)'
             /\ WireInv(q)' /\ CrashInv(q)'
  <2>1. /\ SendQueueInv(q)' /\ RecvQueueInv(q)' /\ SignalInv(q)' /\ GotInv(q)'
    BY <1>1, NetFrame
  <2>2. /\ Written(q)' = Written(q) /\ ReadCount(Other(q))' = ReadCount(Other(q))
        /\ Other(q) \in Peer
    BY <1>1, NetFrame, OtherPeer
  <2>3. ReadCount(Other(q)) <= Written(q)
    <3>1. /\ ReadCount(Other(q)) \in Int /\ Written(q) \in Int /\ Len(wire[q]) \in Nat
      BY <1>3, <2>2, WrittenBound, EndLengths
    <3>2. ReadCount(Other(q)) + Len(wire[q]) <= Written(q)
      BY DEF IInv, WireInv
    <3>. QED  BY <3>1, <3>2
  <2>4. WireInv(q)'
    <3>1. wire'[q] = <<>> /\ Len(wire'[q]) = 0 /\ lost'
      BY <1>1
    <3>2. ReadCount(Other(q)) + 0 <= Written(q)
      BY <2>2, <2>3, WrittenBound
    <3>. QED  BY <2>2, <3>1, <3>2 DEF WireInv
  <2>5. CrashInv(q)'
    <3>1. CrashInv(q)
      BY DEF IInv
    <3>. QED  BY <1>1, <2>2, <3>1 DEF CrashInv, Unbalanced
  <2>. QED  BY <2>1, <2>4, <2>5
<1>. QED
  BY <1>6, <1>7, <1>8 DEF IInv

LEMMA IOErrorKeepsIInv ==
    ASSUME IInv, NEW p \in Peer, IOError(p)
    PROVE  IInv'
<1>. DEFINE o == Other(p)
<1>1. /\ ~ crashed[p]
      /\ crashed' = [crashed EXCEPT ![p] = TRUE]
      /\ UNCHANGED <<app, waitFor, signal, sent, recvs, sendPosted, mSendQueue, pushing,
                     sender, recvPosted, mRecvQueue, reader, body, got, wire, lost>>
  BY DEF IOError, appVars, histVars, sendVars, recvVars
<1>2. o \in Peer /\ o # p /\ Other(o) = p /\ \A q \in Peer : q # p => q = o
  BY OtherPeer
<1>3. ChannelTypeOK /\ LostInv /\ WireInv(o) /\ CrashInv(o)
  BY <1>2 DEF IInv
<1>4. crashed'[p] /\ UNCHANGED crashed[o] /\ ChannelTypeOK'
  BY <1>1, <1>2, <1>3 DEF ChannelTypeOK
<1>5. app[p] # "closed"
  BY SenderFacts, ReaderFacts DEF IOError
<1>6. ~ crashed[o]
  BY <1>2, <1>3, <1>5 DEF CrashInv
<1>7. app[o] = "closed" /\ wire[o] = <<>> /\ Unbalanced(p)
  <2>1. CASE lost
    <3>1. PICK q \in Peer : app[Other(q)] = "closed" /\ Len(sent[q]) > Len(recvs[Other(q)])
      BY <1>3, <2>1 DEF LostInv
    <3>2. q = p
      BY <1>2, <1>5, <3>1
    <3>3. app[o] = "closed" /\ Unbalanced(p)
      BY <3>1, <3>2 DEF Unbalanced
    <3>. QED  BY <1>3, <2>1, <3>3 DEF WireInv
  <2>2. CASE ~ lost
    <3>1. reader[p] \in {"header", "body"} /\ wire[o] = <<>> /\ app[o] = "closed"
      BY <1>6, <2>2 DEF IOError, Gone
    <3>2. ReadCount(p) = 2 * Len(sent[o])
      <4>1. Written(o) = 2 * Len(sent[o])
        BY <1>2, <3>1, ClosedCounts
      <4>2. ReadCount(p) + Len(wire[o]) = Written(o) /\ Len(wire[o]) = 0
        BY <1>2, <1>3, <2>2, <3>1 DEF WireInv
      <4>. QED  BY <4>1, <4>2, WrittenBound
    <3>3. /\ RecvPopped(p) \in Nat /\ RecvPopped(p) < Len(recvs[p])
          /\ MinOf(RecvPopped(p), Len(recvs[p])) = RecvPopped(p)
      BY <3>1, ReaderFacts
    <3>4. ReadCount(p) = 2 * RecvPopped(p) \/ ReadCount(p) = 2 * RecvPopped(p) + 1
      BY <3>1, <3>3 DEF ReadCount
    <3>5. Len(sent[o]) \in Nat /\ Len(recvs[p]) \in Nat
      BY <1>2, <1>3, EndLengths
    <3>6. Len(recvs[p]) > Len(sent[o])
      BY <3>2, <3>3, <3>4, <3>5
    <3>. QED  BY <3>1, <3>6 DEF Unbalanced
  <2>. QED  BY <2>1, <2>2
<1>8. CrashInv(p)' /\ CrashInv(o)' /\ LostInv'
  BY <1>1, <1>3, <1>4, <1>6, <1>7 DEF CrashInv, Unbalanced, LostInv
<1>9. ASSUME NEW q \in Peer
       PROVE  /\ SendQueueInv(q)' /\ RecvQueueInv(q)' /\ SignalInv(q)' /\ GotInv(q)'
              /\ WireInv(q)'
  <2>1. /\ SendQueueInv(q)' /\ RecvQueueInv(q)' /\ SignalInv(q)' /\ GotInv(q)'
    BY <1>1, NetFrame
  <2>2. /\ Written(q)' = Written(q) /\ ReadCount(Other(q))' = ReadCount(Other(q))
    BY <1>1, NetFrame, OtherPeer
  <2>3. WireInv(q)
    BY DEF IInv
  <2>. QED  BY <1>1, <2>1, <2>2, <2>3 DEF WireInv, Rank
<1>. QED
  BY <1>2, <1>4, <1>8, <1>9 DEF IInv

LEMMA InitIInv == Init => IInv
<1>. SUFFICES ASSUME Init PROVE IInv
  OBVIOUS
<1>1. ChannelTypeOK
  <2>1. \A S : [p \in Peer |-> <<>>] \in [Peer -> Seq(S)]
    OBVIOUS
  <2>2. /\ sent \in [Peer -> Seq(Size)] /\ recvs \in [Peer -> Seq(Expected)]
        /\ sendPosted \in [Peer -> Seq(Op)] /\ mSendQueue \in [Peer -> Seq(Op)]
        /\ wire \in [Peer -> Seq(Part)]
        /\ recvPosted \in [Peer -> Seq(ROp)] /\ mRecvQueue \in [Peer -> Seq(ROp)]
        /\ got \in [Peer -> Seq(Result)]
    BY <2>1 DEF Init
  <2>. QED  BY <2>2 DEF Init, ChannelTypeOK
<1>2. ASSUME NEW p \in Peer
      PROVE  /\ SendTotal(p) = 0 /\ RecvTotal(p) = 0 /\ SendPopped(p) = 0 /\ RecvPopped(p) = 0
             /\ Written(p) = 0 /\ ReadCount(p) = 0
  <2>1. /\ Len(sent[p]) = 0 /\ Len(recvs[p]) = 0 /\ Len(sendPosted[p]) = 0
        /\ Len(mSendQueue[p]) = 0 /\ Len(recvPosted[p]) = 0 /\ Len(mRecvQueue[p]) = 0
        /\ ~ Closing(p) /\ sender[p] = "idle" /\ reader[p] = "idle"
    BY DEF Init, Closing
  <2>. QED
    BY <2>1 DEF SendTotal, RecvTotal, SendPopped, RecvPopped, Written, ReadCount, MinOf
<1>3. ASSUME NEW p \in Peer
      PROVE  SendQueueInv(p) /\ RecvQueueInv(p) /\ SignalInv(p) /\ WireInv(p) /\ GotInv(p)
  BY <1>2, OtherPeer
     DEF Init, SendQueueInv, SendDriver, RecvQueueInv, RecvDriver, SignalInv, WireInv,
         GotInv, Consecutive, MinOf
<1>. QED
  BY <1>1, <1>3 DEF Init, IInv, LostInv, CrashInv

LEMMA NextKeepsIInv == IInv /\ [Next]_vars => IInv'
<1>. SUFFICES ASSUME IInv, [Next]_vars PROVE IInv'
  OBVIOUS
<1>1. CASE UNCHANGED vars
  <2>1. UNCHANGED <<app, waitFor, signal, sent, recvs, sendPosted, mSendQueue, pushing,
                    sender, recvPosted, mRecvQueue, reader, body, got, wire, lost, crashed>>
    BY <1>1 DEF vars, appVars, histVars, sendVars, recvVars, netVars
  <2>2. ChannelTypeOK' /\ LostInv'
    BY <2>1 DEF IInv, ChannelTypeOK, LostInv
  <2>3. ASSUME NEW q \in Peer
        PROVE  /\ SendQueueInv(q)' /\ RecvQueueInv(q)' /\ SignalInv(q)' /\ GotInv(q)'
               /\ WireInv(q)' /\ CrashInv(q)'
    <3>1. /\ SendQueueInv(q)' /\ RecvQueueInv(q)' /\ SignalInv(q)' /\ GotInv(q)'
          /\ Written(q)' = Written(q) /\ ReadCount(Other(q))' = ReadCount(Other(q))
      BY <2>1, NetFrame, OtherPeer
    <3>2. WireInv(q) /\ CrashInv(q)
      BY DEF IInv
    <3>. QED  BY <2>1, <3>1, <3>2 DEF WireInv, Rank, CrashInv, Unbalanced
  <2>. QED  BY <2>2, <2>3 DEF IInv
<1>2. ASSUME NEW p \in Peer,
             Call(p) \/ Return(p) \/ SendStep(p) \/ RecvStep(p) \/ NetStep(p)
      PROVE  IInv'
  <2>1. CASE Call(p)
    BY <2>1, SendsKeepIInv, AsyncRecvKeepsIInv, FutureAndPollKeepIInv, CloseKeepsIInv DEF Call
  <2>2. CASE Return(p)
    BY <2>2, SendReturnKeepsIInv, FutureAndPollKeepIInv, CloseReturnKeepsIInv DEF Return
  <2>3. CASE SendStep(p)
    BY <2>3, PushSendKeepsIInv, KickSendKeepsIInv, WritesKeepIInv, CompleteSendKeepsIInv,
       PopSendKeepsIInv DEF SendStep
  <2>4. CASE RecvStep(p)
    BY <2>4, PushRecvKeepsIInv, ReadHeaderKeepsIInv, RefuseHeaderKeepsIInv,
       ReadBodyKeepsIInv, CompleteRecvKeepsIInv, PopRecvKeepsIInv DEF RecvStep
  <2>5. CASE NetStep(p)
    BY <2>5, ResetKeepsIInv, IOErrorKeepsIInv DEF NetStep
  <2>. QED  BY <1>2, <2>1, <2>2, <2>3, <2>4, <2>5
<1>. QED  BY <1>1, <1>2 DEF Next

-----------------------------------------------------------------------------
(* The theorems.                                                           *)

\* The inductive invariant holds in every state of the channel.
THEOREM Invariance == Spec => []IInv
BY InitIInv, NextKeepsIInv, PTL DEF Spec

\* Every variable of the channel keeps its type.
THEOREM ChannelTypeCorrect == Spec => []ChannelTypeOK
<1>1. IInv => ChannelTypeOK
  BY DEF IInv
<1>. QED  BY <1>1, Invariance, PTL

\* The k-th receive completes k-th, with message k, or is refused and is the
\* last one.
THEOREM FifoHolds == Spec => []Fifo
<1>1. IInv => Fifo
  <2>. SUFFICES ASSUME IInv, NEW p \in Peer, NEW i \in 1..Len(got[p])
                PROVE  /\ got[p][i].recv = i
                       /\ got[p][i].msg \in {i, Refused}
                       /\ got[p][i].msg = Refused => i = Len(got[p])
    BY DEF Fifo
  <2>1. /\ got[p][i].recv = i
        /\ got[p][i].msg = IF reader[p] = "failed" /\ i = Len(got[p])
                             THEN Refused ELSE i
    BY DEF IInv, GotInv
  <2>2. i # Refused
    BY DEF Refused
  <2>. QED  BY <2>1, <2>2
<1>. QED  BY <1>1, Invariance, PTL

\* No handler, completion or queued operation outlives close().
THEOREM CloseDrainedHolds == Spec => []CloseDrained
<1>1. IInv => CloseDrained
  BY ClosedIsDrained DEF CloseDrained, Drained
<1>. QED  BY <1>1, Invariance, PTL

\* When a synchronous send returns, everything sent before is written.
THEOREM SyncSendFlushesHolds == Spec => []SyncSendFlushes
<1>1. IInv => SyncSendFlushes
  <2>. SUFFICES ASSUME IInv, NEW p \in Peer, "send" \in signal[p]
                PROVE  /\ sendPosted[p] = <<>>
                       /\ Len(mSendQueue[p]) <= 1
                       /\ mSendQueue[p] # <<>> => sender[p] = "fulfilled"
    BY DEF SyncSendFlushes
  <2>1. /\ ChannelTypeOK /\ SendQueueInv(p) /\ app[p] = "sending"
        /\ SendPopped(p) + (IF sender[p] = "fulfilled" THEN 1 ELSE 0) = Len(sent[p])
    BY DEF IInv, SignalInv
  <2>2. /\ Len(sent[p]) = SendPopped(p) + Len(mSendQueue[p]) + Len(sendPosted[p])
    BY <2>1, SendSplit, EndLengths, SendTotalCases DEF Closing
  <2>3. /\ SendPopped(p) \in Int /\ Len(mSendQueue[p]) \in Nat /\ Len(sendPosted[p]) \in Nat
    BY <2>1, EndLengths
  <2>4. sender[p] = "fulfilled" => Len(mSendQueue[p]) >= 1
    BY <2>1, <2>3 DEF SendQueueInv, SendDriver
  <2>. DEFINE a == SendPopped(p)
              b == Len(mSendQueue[p])
              c == Len(sendPosted[p])
  <2>5. /\ b <= 1 /\ c = 0
        /\ sender[p] # "fulfilled" => b = 0
    <3>1. a + (IF sender[p] = "fulfilled" THEN 1 ELSE 0) = a + b + c
      BY <2>1, <2>2
    <3>2. a \in Int /\ b \in Nat /\ c \in Nat /\ (sender[p] = "fulfilled" => b >= 1)
      BY <2>3, <2>4
    <3>. HIDE DEF a, b, c
    <3>3. CASE sender[p] = "fulfilled"
      BY <3>1, <3>2, <3>3
    <3>4. CASE sender[p] # "fulfilled"
      BY <3>1, <3>2, <3>4
    <3>. QED  BY <3>3, <3>4
  <2>. QED  BY <2>1, <2>5, EndTypes, EmptyOrNot
<1>. QED  BY <1>1, Invariance, PTL

\* The process of an end dies only if one end asked for more than was sent,
\* or sent more than was asked for.
THEOREM CloseIsGracefulHolds == Spec => []CloseIsGraceful
<1>1. IInv => CloseIsGraceful
  BY DEF IInv, CrashInv, Unbalanced, CloseIsGraceful
<1>. QED  BY <1>1, Invariance, PTL

-----------------------------------------------------------------------------
(* The refinement of FifoChannel.                                          *)

AbsSent == [p \in Peer |-> Len(sent[p])]
AbsWanted == [p \in Peer |-> Len(recvs[p])]
AbsReceived == [p \in Peer |-> [i \in 1..Len(got[p]) |-> got[p][i].msg]]
AbsOpen == [p \in Peer |-> ~ Gone(p)]

LEMMA AbstractVars ==
    UNCHANGED <<AbsSent, AbsWanted, AbsReceived, AbsOpen>> => UNCHANGED Abstract!vars
BY DEF Abstract!vars, AbsSent, AbsWanted, AbsReceived, AbsOpen

\* A step that issues and completes nothing and loses no end is invisible.
LEMMA Invisible ==
    ASSUME UNCHANGED <<sent, recvs, got, crashed>>,
           \A p \in Peer : app[p] = "closed" <=> app'[p] = "closed"
    PROVE  UNCHANGED <<AbsSent, AbsWanted, AbsReceived, AbsOpen>>
<1>1. \A p \in Peer : Gone(p)' <=> Gone(p)
  BY DEF Gone
<1>2. UNCHANGED AbsOpen
  BY <1>1 DEF AbsOpen
<1>. QED  BY <1>2 DEF AbsSent, AbsWanted, AbsReceived

LEMMA AbstractSends ==
    ASSUME ChannelTypeOK, NEW p \in Peer, NEW size \in Size, NEW sync, PostSend(p, size, sync),
           app'[p] # "closed", \A q \in Peer : q # p => app'[q] = app[q]
    PROVE  Abstract!Send(p)
<1>1. /\ app[p] # "closed" /\ ~ crashed[p] /\ UNCHANGED <<recvs, got, crashed>>
      /\ sent' = [sent EXCEPT ![p] = Append(@, size)]
  BY DEF PostSend, CanCall, recvVars, netVars
<1>2. UNCHANGED <<AbsWanted, AbsReceived>> /\ AbsOpen[p]
  BY <1>1 DEF AbsWanted, AbsReceived, AbsOpen, Gone
<1>3. UNCHANGED AbsOpen
  <2>1. \A q \in Peer : Gone(q)' <=> Gone(q)
    BY <1>1 DEF Gone
  <2>. QED  BY <2>1 DEF AbsOpen
<1>4. AbsSent' = [AbsSent EXCEPT ![p] = @ + 1]
  <2>1. ASSUME NEW q \in Peer
        PROVE  Len(sent'[q]) = [AbsSent EXCEPT ![p] = @ + 1][q]
    <3>1. CASE q = p
      <4>1. sent'[p] = Append(sent[p], size) /\ sent[p] \in Seq(Size)
        BY <1>1, EndTypes DEF ChannelTypeOK
      <4>2. Len(sent'[p]) = Len(sent[p]) + 1
        BY <4>1, Appended
      <4>. QED  BY <3>1, <4>2 DEF AbsSent
    <3>2. CASE q # p
      BY <1>1, <3>2 DEF ChannelTypeOK, AbsSent
    <3>. QED  BY <3>1, <3>2
  <2>. QED  BY <2>1 DEF AbsSent
<1>. QED
  BY <1>2, <1>3, <1>4 DEF Abstract!Send, AbsSent, AbsWanted, AbsReceived, AbsOpen

LEMMA AbstractRequests ==
    ASSUME ChannelTypeOK, NEW p \in Peer, NEW size \in Expected, AsyncRecv(p, size)
    PROVE  Abstract!Request(p)
<1>1. /\ app[p] # "closed" /\ ~ crashed[p] /\ UNCHANGED <<sent, got, app, crashed>>
      /\ recvs' = [recvs EXCEPT ![p] = Append(@, size)]
  BY DEF AsyncRecv, CanCall, appVars, netVars
<1>2. UNCHANGED <<AbsSent, AbsReceived, AbsOpen>> /\ AbsOpen[p]
  BY <1>1 DEF AbsSent, AbsReceived, AbsOpen, Gone
<1>3. AbsWanted' = [AbsWanted EXCEPT ![p] = @ + 1]
  <2>1. ASSUME NEW q \in Peer
        PROVE  Len(recvs'[q]) = [AbsWanted EXCEPT ![p] = @ + 1][q]
    <3>1. CASE q = p
      <4>1. recvs'[p] = Append(recvs[p], size) /\ recvs[p] \in Seq(Expected)
        BY <1>1, EndTypes DEF ChannelTypeOK
      <4>2. Len(recvs'[p]) = Len(recvs[p]) + 1
        BY <4>1, Appended
      <4>. QED  BY <3>1, <4>2 DEF AbsWanted
    <3>2. CASE q # p
      BY <1>1, <3>2 DEF ChannelTypeOK, AbsWanted
    <3>. QED  BY <3>1, <3>2
  <2>. QED  BY <2>1 DEF AbsWanted
<1>. QED
  BY <1>2, <1>3 DEF Abstract!Request, AbsSent, AbsWanted, AbsReceived, AbsOpen

\* An end that is lost or closed leaves.
LEMMA AbstractLeaves ==
    ASSUME ChannelTypeOK, NEW p \in Peer, ~ Gone(p), Gone(p)',
           UNCHANGED <<sent, recvs, got>>,
           \A q \in Peer : q # p => UNCHANGED <<app[q], crashed[q]>>
    PROVE  Abstract!Leave(p)
<1>1. UNCHANGED <<AbsSent, AbsWanted, AbsReceived>> /\ AbsOpen[p]
  BY DEF AbsSent, AbsWanted, AbsReceived, AbsOpen
<1>2. AbsOpen' = [AbsOpen EXCEPT ![p] = FALSE]
  BY DEF AbsOpen, Gone
<1>. QED
  BY <1>1, <1>2 DEF Abstract!Leave, AbsSent, AbsWanted, AbsReceived, AbsOpen

LEMMA MessagesAppend ==
    ASSUME NEW q \in Seq(Result), NEW e \in Result
    PROVE  [i \in 1..Len(Append(q, e)) |-> Append(q, e)[i].msg]
              = Append([i \in 1..Len(q) |-> q[i].msg], e.msg)
<1>. DEFINE msgs == [i \in 1..Len(q) |-> q[i].msg]
<1>1. Len(q) \in Nat /\ \A i \in 1..Len(q) : q[i] \in Result
  OBVIOUS
<1>2. msgs \in Seq(Nat) /\ Len(msgs) = Len(q)
  <2>1. \A i \in 1..Len(q) : q[i].msg \in Nat
    BY <1>1 DEF Result
  <2>. QED  BY <1>1, <2>1
<1>3. e.msg \in Nat
  BY DEF Result
<1>4. /\ Append(msgs, e.msg) \in Seq(Nat)
      /\ Len(Append(msgs, e.msg)) = Len(q) + 1
      /\ Append(msgs, e.msg)[Len(q) + 1] = e.msg
      /\ \A i \in 1..Len(q) : Append(msgs, e.msg)[i] = q[i].msg
  <2>1. \A i \in 1..Len(q) : msgs[i] = q[i].msg
    OBVIOUS
  <2>. HIDE DEF msgs
  <2>. QED  BY <1>1, <1>2, <1>3, <2>1, Appended
<1>5. /\ Len(Append(q, e)) = Len(q) + 1
      /\ Append(q, e)[Len(q) + 1] = e
      /\ \A i \in 1..Len(q) : Append(q, e)[i] = q[i]
  BY Appended
<1>. DEFINE long == Append(msgs, e.msg)
            ext == Append(q, e)
            n == Len(q)
<1>6. long = [i \in 1..n + 1 |-> long[i]]
  <2>1. long \in Seq(Nat) /\ Len(long) = n + 1
    BY <1>4
  <2>. HIDE DEF long, n
  <2>. QED  BY <2>1
<1>7. \A i \in 1..n + 1 : ext[i].msg = long[i]
  <2>1. n \in Nat /\ \A i \in 1..n + 1 : i \in 1..n \/ i = n + 1
    BY <1>1
  <2>. HIDE DEF long, ext
  <2>. QED  BY <1>4, <1>5, <2>1 DEF long, ext
<1>. QED
  <2>1. Len(ext) = n + 1
    BY <1>5
  <2>. HIDE DEF long, ext, n
  <2>2. [i \in 1..Len(ext) |-> ext[i].msg] = long
    BY <1>6, <1>7, <2>1
  <2>. QED  BY <2>2 DEF long, ext

\* A receive completes, or is refused, only after its message was sent.
LEMMA AbstractDelivers ==
    ASSUME IInv, NEW p \in Peer, NEW msg \in {RecvPopped(p) + 1, Refused},
           ~ crashed[p],
           \/ reader[p] = "read"
           \/ reader[p] = "header" /\ wire[Other(p)] # <<>>,
           got' = [got EXCEPT ![p] = Append(@, [recv |-> RecvPopped(p) + 1, msg |-> msg])],
           UNCHANGED <<app, sent, recvs, crashed>>
    PROVE  Abstract!Deliver(p)
<1>. DEFINE o == Other(p)
            popped == RecvPopped(p)
            result == [recv |-> popped + 1, msg |-> msg]
<1>1. /\ ChannelTypeOK /\ GotInv(p) /\ WireInv(o) /\ o \in Peer /\ Other(o) = p
      /\ got[p] \in Seq(Result) /\ Len(wire[o]) \in Nat /\ wire[o] \in Seq(Part)
      /\ Len(sent[o]) \in Nat /\ Len(recvs[p]) \in Nat
  BY OtherPeer, EndTypes, EndLengths DEF IInv
<1>2. /\ popped \in Nat /\ popped < Len(recvs[p]) /\ MinOf(popped, Len(recvs[p])) = popped
      /\ app[p] # "closed"
  BY ReaderFacts
<1>3. Len(got[p]) = popped
  BY <1>2, <1>1 DEF GotInv
<1>4. \A i \in 1..popped : got[p][i].msg = i
  BY <1>1, <1>3 DEF GotInv
<1>5. popped < Len(sent[o])
  <2>1. ReadCount(p) + Len(wire[o]) <= Written(o) /\ Written(o) <= 2 * Len(sent[o])
        /\ Written(o) \in Int
    BY <1>1, WrittenBound DEF WireInv
  <2>2. CASE reader[p] = "read"
    <3>1. ReadCount(p) = 2 * popped + 2
      BY <1>2, <2>2 DEF ReadCount
    <3>. HIDE DEF popped, o
    <3>. QED  BY <1>1, <1>2, <2>1, <3>1
  <2>3. CASE reader[p] = "header" /\ wire[o] # <<>>
    <3>1. ReadCount(p) = 2 * popped
      BY <1>2, <2>3 DEF ReadCount
    <3>2. Len(wire[o]) >= 1
      BY <1>1, <2>3, HeadTail
    <3>. DEFINE a == Len(sent[o])
                b == Len(wire[o])
    <3>3. /\ 2 * popped + b <= Written(o) /\ Written(o) <= 2 * a /\ Written(o) \in Int
          /\ a \in Nat /\ b \in Nat /\ b >= 1 /\ popped \in Nat
      BY <1>1, <1>2, <2>1, <3>1, <3>2
    <3>. HIDE DEF popped, a, b
    <3>4. popped < a
      BY <3>3
    <3>. QED  BY <3>4 DEF a
  <2>. QED  BY <2>2, <2>3
<1>6. result \in Result /\ result.msg = msg
  BY <1>2 DEF Result, Refused
<1>7. AbsOpen[p] /\ UNCHANGED <<AbsSent, AbsWanted, AbsOpen>>
  BY <1>2 DEF AbsSent, AbsWanted, AbsOpen, Gone
<1>8. /\ Len(AbsReceived[p]) = popped
      /\ \A i \in 1..popped : AbsReceived[p][i] = i
      /\ AbsWanted[p] = Len(recvs[p]) /\ AbsSent[o] = Len(sent[o])
  <2>1. AbsReceived[p] = [i \in 1..popped |-> got[p][i].msg]
    BY <1>3 DEF AbsReceived
  <2>. HIDE DEF popped
  <2>. QED  BY <1>1, <1>2, <1>4, <2>1 DEF AbsReceived, AbsWanted, AbsSent
<1>9. AbsReceived' = [AbsReceived EXCEPT ![p] = Append(@, msg)]
  <2>1. ASSUME NEW q \in Peer
        PROVE  [i \in 1..Len(got'[q]) |-> got'[q][i].msg]
                  = [AbsReceived EXCEPT ![p] = Append(@, msg)][q]
    <3>1. CASE q = p
      <4>1. got'[p] = Append(got[p], result)
        BY <1>1 DEF ChannelTypeOK
      <4>2. [i \in 1..Len(Append(got[p], result)) |-> Append(got[p], result)[i].msg]
              = Append([i \in 1..Len(got[p]) |-> got[p][i].msg], msg)
        BY <1>1, <1>6, MessagesAppend
      <4>. QED  BY <3>1, <4>1, <4>2 DEF AbsReceived
    <3>2. CASE q # p
      BY <1>1, <3>2 DEF ChannelTypeOK, AbsReceived
    <3>. QED  BY <3>1, <3>2
  <2>. QED  BY <2>1 DEF AbsReceived
<1>10. Abstract!Far(p) = o
  BY DEF Abstract!Far, Other
<1>11. ~ Abstract!HasFailed(p)
  <2>1. \A i \in 1..Len(AbsReceived[p]) : AbsReceived[p][i] # 0
    <3>. HIDE DEF popped
    <3>. QED  BY <1>8
  <2>. QED  BY <2>1 DEF Abstract!HasFailed, Abstract!Refused, AbsReceived
<1>12. msg \in {Len(AbsReceived[p]) + 1, Abstract!Refused}
  BY <1>8 DEF Abstract!Refused, Refused
<1>. QED
  <2>1. /\ AbsOpen[p] /\ ~ Abstract!HasFailed(p)
        /\ Len(AbsReceived[p]) < AbsWanted[p]
        /\ Len(AbsReceived[p]) < AbsSent[Abstract!Far(p)]
        /\ \E m \in {Len(AbsReceived[p]) + 1, Abstract!Refused} :
              AbsReceived' = [AbsReceived EXCEPT ![p] = Append(@, m)]
        /\ UNCHANGED <<AbsSent, AbsWanted, AbsOpen>>
    BY <1>2, <1>5, <1>7, <1>8, <1>9, <1>10, <1>11, <1>12
  <2>. QED
    BY <2>1 DEF Abstract!Deliver, AbsSent, AbsWanted, AbsReceived, AbsOpen

LEMMA NextRefines ==
    ASSUME IInv, [Next]_vars
    PROVE  [Abstract!Next]_(Abstract!vars)
<1>. DEFINE Unseen == UNCHANGED <<AbsSent, AbsWanted, AbsReceived, AbsOpen>>
<1>1. CASE UNCHANGED vars
  <2>1. Unseen
    BY <1>1, Invisible DEF vars, appVars, histVars, recvVars, netVars
  <2>. QED  BY <2>1, AbstractVars
<1>2. ASSUME NEW p \in Peer,
             Call(p) \/ Return(p) \/ SendStep(p) \/ RecvStep(p) \/ NetStep(p)
      PROVE  \/ Unseen
             \/ Abstract!Send(p) \/ Abstract!Request(p) \/ Abstract!Deliver(p)
             \/ Abstract!Leave(p)
  <2>1. ChannelTypeOK
    BY DEF IInv
  <2>2. ASSUME NEW size \in Size, AsyncSend(p, size) \/ Send(p, size)
        PROVE  Abstract!Send(p)
    <3>1. PostSend(p, size, FALSE) \/ PostSend(p, size, TRUE)
      BY <2>2 DEF AsyncSend, Send
    <3>2. app'[p] # "closed" /\ \A q \in Peer : q # p => app'[q] = app[q]
      BY <2>1, <2>2 DEF ChannelTypeOK, AsyncSend, Send, PostSend, CanCall
    <3>. QED  BY <2>1, <3>1, <3>2, AbstractSends
  <2>3. ASSUME NEW size \in Expected, AsyncRecv(p, size)
        PROVE  Abstract!Request(p)
    BY <2>1, <2>3, AbstractRequests
  <2>4. CASE \/ \E n \in 1..MaxRecv[p] : FutureGet(p, n)
             \/ Close(p) \/ GetTotalLoad(p)
             \/ SendReturn(p) \/ FutureReturn(p) \/ GetTotalClear(p)
    <3>1. UNCHANGED <<sent, recvs, got, crashed>>
      BY <2>4 DEF FutureGet, Close, GetTotalLoad, SendReturn, FutureReturn, GetTotalClear,
                  histVars, recvVars, netVars
    <3>2. \A q \in Peer : app[q] = "closed" <=> app'[q] = "closed"
      BY <2>1, <2>4 DEF ChannelTypeOK, FutureGet, Close, GetTotalLoad, SendReturn,
                        FutureReturn, GetTotalClear, CanCall
    <3>. QED  BY <3>1, <3>2, Invisible
  <2>5. CASE CloseReturn(p)
    <3>1. /\ ~ Gone(p) /\ Gone(p)' /\ UNCHANGED <<sent, recvs, got>>
          /\ \A q \in Peer : q # p => UNCHANGED <<app[q], crashed[q]>>
      BY <2>1, <2>5 DEF ChannelTypeOK, CloseReturn, Gone, histVars, recvVars, netVars
    <3>. QED  BY <2>1, <3>1, AbstractLeaves
  <2>6. CASE SendStep(p) \/ PushRecv(p) \/ ReadHeader(p) \/ ReadBody(p) \/ PopRecv(p) \/ Reset(p)
    <3>1. UNCHANGED <<sent, recvs, got, crashed, app>>
      BY <2>6 DEF SendStep, PushSend, KickSend, WriteHeader, WriteBody, CompleteSend, PopSend,
                  PushRecv, ReadHeader, ReadBody, PopRecv, Reset,
                  appVars, histVars, recvVars, netVars
    <3>. QED  BY <3>1, Invisible
  <2>7. CASE CompleteRecv(p)
    <3>1. /\ reader[p] = "read" /\ ~ crashed[p]
          /\ got' = [got EXCEPT ![p] =
                       Append(@, [recv |-> Head(mRecvQueue[p]).n, msg |-> body[p]])]
          /\ UNCHANGED <<app, sent, recvs, crashed>>
      BY <2>7 DEF CompleteRecv, appVars, histVars, netVars
    <3>2. Head(mRecvQueue[p]).n = RecvPopped(p) + 1 /\ body[p] = RecvPopped(p) + 1
      BY <3>1, ReaderFacts DEF IInv, GotInv
    <3>. QED  BY <3>1, <3>2, AbstractDelivers
  <2>8. CASE RefuseHeader(p)
    <3>1. /\ reader[p] = "header" /\ wire[Other(p)] # <<>> /\ ~ crashed[p]
          /\ got' = [got EXCEPT ![p] =
                       Append(@, [recv |-> Head(mRecvQueue[p]).n, msg |-> Refused])]
          /\ UNCHANGED <<app, sent, recvs, crashed>>
      BY <2>8 DEF RefuseHeader, appVars, histVars
    <3>2. Head(mRecvQueue[p]).n = RecvPopped(p) + 1
      BY <3>1, ReaderFacts
    <3>. QED  BY <3>1, <3>2, AbstractDelivers
  <2>9. CASE IOError(p)
    <3>1. app[p] # "closed" /\ ~ crashed[p]
      BY <2>9, SenderFacts, ReaderFacts DEF IOError
    <3>2. /\ ~ Gone(p) /\ Gone(p)' /\ UNCHANGED <<sent, recvs, got>>
          /\ \A q \in Peer : q # p => UNCHANGED <<app[q], crashed[q]>>
      BY <2>1, <2>9, <3>1 DEF ChannelTypeOK, IOError, Gone, appVars, histVars, recvVars
    <3>. QED  BY <2>1, <3>2, AbstractLeaves
  <2>. QED
    BY <1>2, <2>2, <2>3, <2>4, <2>5, <2>6, <2>7, <2>8, <2>9
       DEF Call, Return, RecvStep, NetStep
<1>3. CASE Next
  <2>1. Unseen \/ Abstract!Next
    BY <1>2, <1>3 DEF Next, Abstract!Next
  <2>. QED  BY <2>1, AbstractVars
<1>. QED  BY <1>1, <1>3

LEMMA InitRefines == Init => Abstract!Init
<1>. SUFFICES ASSUME Init PROVE Abstract!Init
  OBVIOUS
<1>1. ASSUME NEW p \in Peer
      PROVE  /\ Len(sent[p]) = 0 /\ Len(recvs[p]) = 0 /\ ~ Gone(p)
             /\ [i \in 1..Len(got[p]) |-> got[p][i].msg] = <<>>
  <2>1. got[p] = <<>> /\ Len(got[p]) = 0
    BY DEF Init
  <2>2. 1..Len(got[p]) = {}
    BY <2>1
  <2>3. [i \in 1..Len(got[p]) |-> got[p][i].msg] = <<>>
    BY <2>2
  <2>. QED  BY <2>3 DEF Init, Gone
<1>. QED  BY <1>1 DEF Abstract!Init

\* The queues, strands, frames and the connection implement the FIFO channel:
\* every step is one of its steps or invisible to its users.
THEOREM ImplementsChannelSteps == Spec => ChannelSteps
<1>1. IInv /\ [Next]_vars => [Abstract!Next]_(Abstract!vars)
  BY NextRefines
<1>. QED
  BY <1>1, InitRefines, Invariance, PTL DEF Spec, ChannelSteps, Abstract!Spec

-----------------------------------------------------------------------------
(* Totals.  A nonempty set of numbers has a least member; so a statement   *)
(* about the numbers 0..n that fails somewhere fails first somewhere.      *)

LEMMA LeastMember ==
    ASSUME NEW S, S \subseteq Nat, S # {}
    PROVE  \E m \in S : \A k \in S : m <= k
<1>1. PICK m \in S : \A k \in S : ~ (<<k, m>> \in OpToRel(<, Nat))
  BY NatLessThanWellFounded, WFMin
<1>2. \A k \in S : ~ (k < m)
  BY <1>1 DEF OpToRel
<1>. QED  BY <1>2

\* f gives the totals of the first k sizes, for every k up to n.
TotalsUpTo(f, n, sizes) ==
    /\ f \in [0..n -> Nat]
    /\ f[0] = 0
    /\ \A k \in 1..n : f[k] = f[k - 1] + sizes[k]

LEMMA TotalsExist ==
    ASSUME NEW sizes \in Seq(Nat)
    PROVE  \E f : TotalsUpTo(f, Len(sizes), sizes)
<1>. DEFINE Bad == {n \in 0..Len(sizes) : ~ \E f : TotalsUpTo(f, n, sizes)}
<1>1. Len(sizes) \in Nat /\ \A k \in 1..Len(sizes) : sizes[k] \in Nat
  OBVIOUS
<1>2. SUFFICES ASSUME Bad # {} PROVE FALSE
  BY <1>1
<1>3. PICK n \in Bad : \A k \in Bad : n <= k
  <2>1. Bad \subseteq Nat
    BY <1>1
  <2>. HIDE DEF Bad
  <2>. QED  BY <1>2, <2>1, LeastMember
<1>4. n \in 0..Len(sizes) /\ ~ \E f : TotalsUpTo(f, n, sizes)
  OBVIOUS
<1>5. CASE n = 0
  <2>1. TotalsUpTo([k \in 0..0 |-> 0], 0, sizes)
    BY DEF TotalsUpTo
  <2>. QED  BY <1>4, <1>5, <2>1
<1>6. CASE n # 0
  <2>1. n - 1 \in 0..Len(sizes) /\ n - 1 \notin Bad
    BY <1>1, <1>3, <1>4, <1>6
  <2>2. PICK f : TotalsUpTo(f, n - 1, sizes)
    BY <2>1
  <2>. DEFINE g == [k \in 0..n |-> IF k = n THEN f[n - 1] + sizes[n] ELSE f[k]]
  <2>3. /\ n \in Nat /\ n >= 1 /\ n - 1 \in 0..n - 1 /\ sizes[n] \in Nat
        /\ f \in [0..n - 1 -> Nat] /\ f[0] = 0
        /\ \A k \in 1..n - 1 : f[k] = f[k - 1] + sizes[k]
    BY <1>1, <1>4, <1>6, <2>2 DEF TotalsUpTo
  <2>4. g \in [0..n -> Nat] /\ g[0] = 0
    BY <2>3
  <2>5. ASSUME NEW k \in 1..n PROVE g[k] = g[k - 1] + sizes[k]
    <3>1. CASE k = n
      BY <3>1, <2>3
    <3>2. CASE k # n
      <4>1. k \in 1..n - 1 /\ k \in 0..n /\ k - 1 \in 0..n /\ k - 1 # n
        BY <3>2, <2>3
      <4>2. g[k] = f[k] /\ g[k - 1] = f[k - 1]
        BY <4>1, <3>2
      <4>. QED  BY <4>1, <4>2, <2>3
    <3>. QED  BY <3>1, <3>2
  <2>6. TotalsUpTo(g, n, sizes)
    BY <2>4, <2>5 DEF TotalsUpTo
  <2>. QED  BY <2>6, <1>4
<1>. QED  BY <1>5, <1>6

LEMMA TotalsUnique ==
    ASSUME NEW sizes \in Seq(Nat), NEW n \in 0..Len(sizes), NEW f, NEW g,
           NEW m \in n..Len(sizes),
           TotalsUpTo(f, n, sizes), TotalsUpTo(g, m, sizes)
    PROVE  \A k \in 0..n : f[k] = g[k]
<1>. DEFINE Bad == {k \in 0..n : f[k] # g[k]}
<1>1. /\ n \in Nat /\ f[0] = g[0]
      /\ \A k \in 1..n : f[k] = f[k - 1] + sizes[k] /\ g[k] = g[k - 1] + sizes[k]
  <2>1. n \in Nat /\ m \in Nat /\ \A k \in 1..n : k \in 1..m
    OBVIOUS
  <2>. QED  BY <2>1 DEF TotalsUpTo
<1>2. SUFFICES ASSUME Bad # {} PROVE FALSE
  OBVIOUS
<1>3. PICK k \in Bad : \A i \in Bad : k <= i
  <2>1. Bad \subseteq Nat
    BY <1>1
  <2>. HIDE DEF Bad
  <2>. QED  BY <1>2, <2>1, LeastMember
<1>4. k \in 1..n /\ k - 1 \in 0..n /\ k - 1 \notin Bad
  BY <1>1, <1>3
<1>5. f[k - 1] = g[k - 1]
  BY <1>4
<1>6. f[k] = g[k]
  BY <1>1, <1>4, <1>5
<1>. QED  BY <1>3, <1>6

\* Totals is what its recursion says, for every sequence.
LEMMA TotalsAre ==
    ASSUME NEW sizes \in Seq(Nat)
    PROVE  TotalsUpTo(Totals(sizes), Len(sizes), sizes)
<1>. DEFINE Rec(f) == [n \in 0..Len(sizes) |->
                         IF n = 0 THEN 0 ELSE f[n - 1] + sizes[n]]
<1>1. PICK f : TotalsUpTo(f, Len(sizes), sizes)
  BY TotalsExist
<1>2. f = Rec(f)
  BY <1>1 DEF TotalsUpTo
<1>3. Totals(sizes) = Rec(Totals(sizes))
  BY <1>2 DEF Totals
<1>. DEFINE t == Totals(sizes)
            Bad == {n \in 0..Len(sizes) : t[n] \notin Nat}
<1>4. /\ Len(sizes) \in Nat /\ DOMAIN t = 0..Len(sizes) /\ t = [n \in DOMAIN t |-> t[n]]
      /\ t[0] = 0
      /\ \A k \in 1..Len(sizes) : t[k] = t[k - 1] + sizes[k] /\ sizes[k] \in Nat
  <2>. HIDE DEF t
  <2>1. t = Rec(t)
    BY <1>3 DEF t
  <2>. QED  BY <2>1
<1>. HIDE DEF t
<1>5. Bad = {}
  <2>1. SUFFICES ASSUME Bad # {} PROVE FALSE
    OBVIOUS
  <2>2. PICK k \in Bad : \A i \in Bad : k <= i
    <3>1. Bad \subseteq Nat
      BY <1>4
    <3>. HIDE DEF Bad
    <3>. QED  BY <2>1, <3>1, LeastMember
  <2>3. k \in 1..Len(sizes) /\ k - 1 \in 0..Len(sizes) /\ k - 1 \notin Bad
    BY <1>4, <2>2
  <2>. QED  BY <1>4, <2>3
<1>6. t \in [0..Len(sizes) -> Nat]
  BY <1>4, <1>5
<1>. QED  BY <1>4, <1>6 DEF t, TotalsUpTo

LEMMA TotalEmpty == Total(<<>>) = 0
<1>1. TotalsUpTo(Totals(<<>>), Len(<<>>), <<>>)
  <2>1. <<>> \in Seq(Nat)
    OBVIOUS
  <2>. QED  BY <2>1, TotalsAre
<1>2. Len(<<>>) = 0
  OBVIOUS
<1>. QED  BY <1>1, <1>2 DEF Total, TotalsUpTo

LEMMA TotalNat ==
    ASSUME NEW sizes \in Seq(Nat)
    PROVE  Total(sizes) \in Nat
<1>1. TotalsUpTo(Totals(sizes), Len(sizes), sizes)
  BY TotalsAre
<1>2. Len(sizes) \in 0..Len(sizes)
  OBVIOUS
<1>. QED  BY <1>1, <1>2 DEF Total, TotalsUpTo

LEMMA TotalAppend ==
    ASSUME NEW sizes \in Seq(Nat), NEW size \in Nat
    PROVE  Total(Append(sizes, size)) = Total(sizes) + size
<1>. DEFINE n == Len(sizes)
            more == Append(sizes, size)
            f == Totals(sizes)
            g == Totals(more)
<1>1. /\ more \in Seq(Nat) /\ Len(more) = n + 1 /\ more[n + 1] = size
      /\ \A k \in 1..n : more[k] = sizes[k]
      /\ n \in Nat
  BY Appended
<1>2. TotalsUpTo(f, n, sizes) /\ TotalsUpTo(g, n + 1, more)
  BY <1>1, TotalsAre
<1>3. Total(more) = g[n + 1] /\ Total(sizes) = f[n]
  BY <1>1 DEF Total
<1>. HIDE DEF n, more, f, g
<1>4. TotalsUpTo(f, n, more)
  BY <1>1, <1>2 DEF TotalsUpTo
<1>5. n \in 0..Len(more) /\ n + 1 \in n..Len(more)
  BY <1>1
<1>6. \A k \in 0..n : f[k] = g[k]
  BY <1>1, <1>2, <1>4, <1>5, TotalsUnique
<1>7. g[n + 1] = g[n] + more[n + 1]
  <2>1. n + 1 \in 1..n + 1 /\ (n + 1) - 1 = n
    BY <1>1
  <2>. QED  BY <1>2, <2>1 DEF TotalsUpTo
<1>8. f[n] = g[n]
  BY <1>1, <1>6
<1>. QED  BY <1>1, <1>3, <1>7, <1>8 DEF more

LEMMA TotalTail ==
    ASSUME NEW sizes \in Seq(Nat), sizes # <<>>
    PROVE  Total(sizes) = Head(sizes) + Total(Tail(sizes))
<1>. DEFINE n == Len(sizes)
            rest == Tail(sizes)
            h == Head(sizes)
            f == Totals(sizes)
            g == Totals(rest)
<1>1. /\ n \in Nat /\ n >= 1 /\ rest \in Seq(Nat) /\ Len(rest) = n - 1
      /\ h \in Nat /\ h = sizes[1]
      /\ \A k \in 1..n - 1 : rest[k] = sizes[k + 1]
      /\ \A k \in 1..n : sizes[k] \in Nat
  BY HeadTail
<1>2. TotalsUpTo(f, n, sizes) /\ TotalsUpTo(g, n - 1, rest)
  BY <1>1, TotalsAre
<1>3. Total(sizes) = f[n] /\ Total(rest) = g[n - 1]
  BY <1>1 DEF Total
<1>. HIDE DEF n, rest, h, f, g
<1>4. /\ f[0] = 0
      /\ \A k \in 0..n : f[k] \in Nat
      /\ \A k \in 1..n : f[k] = f[k - 1] + sizes[k]
  BY <1>2 DEF TotalsUpTo
\* The totals of the rest are those of the whole, less its head.
<1>. DEFINE Bad == {k \in 0..n - 1 : f[k + 1] # h + g[k]}
<1>5. /\ g[0] = 0 /\ \A k \in 0..n - 1 : g[k] \in Nat
      /\ \A k \in 1..n - 1 : g[k] = g[k - 1] + rest[k]
  BY <1>2 DEF TotalsUpTo
<1>6. Bad = {}
  <2>1. SUFFICES ASSUME Bad # {} PROVE FALSE
    OBVIOUS
  <2>2. PICK k \in Bad : \A i \in Bad : k <= i
    <3>1. Bad \subseteq Nat
      BY <1>1
    <3>. HIDE DEF Bad
    <3>. QED  BY <2>1, <3>1, LeastMember
  <2>3. f[1] = h
    BY <1>1, <1>4
  <2>4. k \in 1..n - 1 /\ k - 1 \in 0..n - 1 /\ k - 1 \notin Bad
    BY <1>1, <1>5, <2>2, <2>3
  <2>5. (k - 1) + 1 = k /\ f[k] = h + g[k - 1]
    BY <2>4
  <2>6. k + 1 \in 1..n /\ (k + 1) - 1 = k /\ f[k + 1] = f[k] + sizes[k + 1]
    BY <1>1, <1>4, <2>4
  <2>7. g[k] = g[k - 1] + sizes[k + 1] /\ sizes[k + 1] \in Nat /\ g[k - 1] \in Nat
    BY <1>1, <1>5, <2>4, <2>6
  <2>8. f[k + 1] = h + g[k]
    BY <1>1, <2>5, <2>6, <2>7
  <2>. QED  BY <2>2, <2>8
<1>7. n - 1 \in 0..n - 1 /\ (n - 1) + 1 = n
  BY <1>1
<1>8. f[n] = h + g[n - 1]
  BY <1>6, <1>7
<1>. QED  BY <1>3, <1>8 DEF rest, h

-----------------------------------------------------------------------------
(* The counters.                                                           *)

\* The sizes of operations, given those of the messages that were issued.
SizeIn(issued, op) == IF op.type = "SendData" THEN issued[op.n] ELSE 0
SizesIn(issued, ops) == [i \in 1..Len(ops) |-> SizeIn(issued, ops[i])]

\* The messages among these operations are among the ones issued.
Among(issued, ops) ==
    /\ ops \in Seq(Op)
    /\ \A i \in 1..Len(ops) : ops[i].type = "SendData" => ops[i].n \in 1..Len(issued)

LEMMA SizesAre ==
    ASSUME NEW p
    PROVE  /\ \A op : SizeOf(p, op) = SizeIn(sent[p], op)
           /\ \A ops : Sizes(p, ops) = SizesIn(sent[p], ops)
BY DEF SizeOf, SizeIn, Sizes, SizesIn

LEMMA SizeInNat ==
    ASSUME NEW issued \in Seq(Nat), NEW op,
           op.type = "SendData" => op.n \in 1..Len(issued)
    PROVE  SizeIn(issued, op) \in Nat
<1>1. CASE op.type = "SendData"
  BY <1>1 DEF SizeIn
<1>2. CASE op.type # "SendData"
  BY <1>2 DEF SizeIn
<1>. QED  BY <1>1, <1>2

LEMMA SizesTyped ==
    ASSUME NEW issued \in Seq(Nat), NEW ops, Among(issued, ops)
    PROVE  /\ SizesIn(issued, ops) \in Seq(Nat) /\ Len(SizesIn(issued, ops)) = Len(ops)
           /\ \A i \in 1..Len(ops) : SizesIn(issued, ops)[i] = SizeIn(issued, ops[i])
           /\ Total(SizesIn(issued, ops)) \in Nat
<1>1. ops \in Seq(Op) /\ Len(ops) \in Nat
  BY EmptyOrNot DEF Among
<1>2. ASSUME NEW i \in 1..Len(ops) PROVE SizeIn(issued, ops[i]) \in Nat
  BY SizeInNat DEF Among
<1>3. /\ SizesIn(issued, ops) \in Seq(Nat) /\ Len(SizesIn(issued, ops)) = Len(ops)
      /\ \A i \in 1..Len(ops) : SizesIn(issued, ops)[i] = SizeIn(issued, ops[i])
  <2>. DEFINE n == Len(ops)
              F(i) == SizeIn(issued, ops[i])
  <2>1. SizesIn(issued, ops) = [i \in 1..n |-> F(i)]
    BY DEF SizesIn
  <2>2. n \in Nat /\ \A i \in 1..n : F(i) \in Nat
    BY <1>1, <1>2
  <2>. HIDE DEF n, F
  <2>3. /\ [i \in 1..n |-> F(i)] \in Seq(Nat) /\ Len([i \in 1..n |-> F(i)]) = n
        /\ \A i \in 1..n : [j \in 1..n |-> F(j)][i] = F(i)
    BY <2>2
  <2>4. \A i \in 1..n : F(i) = SizeIn(issued, ops[i])
    BY DEF F
  <2>. QED  BY <2>1, <2>3, <2>4 DEF n
<1>. QED  BY <1>3, TotalNat

LEMMA SizesAppend ==
    ASSUME NEW issued \in Seq(Nat), NEW ops, Among(issued, ops), NEW op \in Op,
           op.type = "SendData" => op.n \in 1..Len(issued)
    PROVE  /\ Among(issued, Append(ops, op))
           /\ Total(SizesIn(issued, Append(ops, op))) = Total(SizesIn(issued, ops)) + SizeIn(issued, op)
<1>. DEFINE more == Append(ops, op)
            a == SizesIn(issued, ops)
            b == SizesIn(issued, more)
            size == SizeIn(issued, op)
<1>1. /\ ops \in Seq(Op) /\ more \in Seq(Op) /\ Len(more) = Len(ops) + 1 /\ Len(ops) \in Nat
      /\ more[Len(ops) + 1] = op /\ \A i \in 1..Len(ops) : more[i] = ops[i]
  BY Appended, EmptyOrNot DEF Among
<1>2. Among(issued, more)
  <2>1. ASSUME NEW i \in 1..Len(more), more[i].type = "SendData"
        PROVE  more[i].n \in 1..Len(issued)
    <3>1. CASE i = Len(ops) + 1
      BY <1>1, <2>1, <3>1
    <3>2. CASE i # Len(ops) + 1
      <4>1. i \in 1..Len(ops)
        BY <1>1, <3>2
      <4>. QED  BY <4>1, <2>1, <1>1 DEF Among
    <3>. QED  BY <3>1, <3>2
  <2>. QED  BY <1>1, <2>1 DEF Among
<1>3. /\ a \in Seq(Nat) /\ b \in Seq(Nat) /\ size \in Nat
      /\ Len(a) = Len(ops) /\ Len(b) = Len(ops) + 1
      /\ \A i \in 1..Len(ops) : b[i] = a[i]
      /\ b[Len(ops) + 1] = size
  <2>1. a \in Seq(Nat) /\ Len(a) = Len(ops) /\ \A i \in 1..Len(ops) : a[i] = SizeIn(issued, ops[i])
    BY SizesTyped
  <2>2. /\ b \in Seq(Nat) /\ Len(b) = Len(more)
        /\ \A i \in 1..Len(more) : b[i] = SizeIn(issued, more[i])
    BY <1>2, SizesTyped
  <2>3. size \in Nat
    BY SizeInNat
  <2>4. \A i \in 1..Len(ops) : i \in 1..Len(more)
    BY <1>1
  <2>5. Len(ops) + 1 \in 1..Len(more)
    BY <1>1
  <2>. QED  BY <1>1, <2>1, <2>2, <2>3, <2>4, <2>5
<1>4. b = Append(a, size)
  <2>. HIDE DEF a, b, size
  <2>1. /\ Append(a, size) \in Seq(Nat) /\ Len(Append(a, size)) = Len(ops) + 1
        /\ Append(a, size)[Len(ops) + 1] = size
        /\ \A i \in 1..Len(ops) : Append(a, size)[i] = a[i]
    BY <1>3, Appended
  <2>2. \A i \in 1..Len(b) : b[i] = Append(a, size)[i]
    BY <1>1, <1>3, <2>1
  <2>. QED  BY <1>3, <2>1, <2>2, SeqEqual
<1>. QED  BY <1>2, <1>3, <1>4, TotalAppend

LEMMA SizesTail ==
    ASSUME NEW issued \in Seq(Nat), NEW ops, Among(issued, ops), ops # <<>>
    PROVE  /\ Among(issued, Tail(ops))
           /\ Total(SizesIn(issued, ops)) = SizeIn(issued, Head(ops)) + Total(SizesIn(issued, Tail(ops)))
<1>. DEFINE rest == Tail(ops)
            a == SizesIn(issued, ops)
            b == SizesIn(issued, rest)
<1>1. /\ ops \in Seq(Op) /\ rest \in Seq(Op) /\ Len(rest) = Len(ops) - 1
      /\ Len(ops) \in Nat /\ Len(ops) >= 1 /\ Head(ops) = ops[1]
      /\ \A i \in 1..Len(rest) : rest[i] = ops[i + 1]
  BY HeadTail DEF Among
<1>2. Among(issued, rest)
  <2>1. ASSUME NEW i \in 1..Len(rest), rest[i].type = "SendData"
        PROVE  rest[i].n \in 1..Len(issued)
    <3>1. i + 1 \in 1..Len(ops)
      BY <1>1
    <3>. QED  BY <1>1, <2>1, <3>1 DEF Among
  <2>. QED  BY <1>1, <2>1 DEF Among
<1>3. /\ a \in Seq(Nat) /\ b \in Seq(Nat) /\ Len(a) = Len(ops) /\ Len(b) = Len(ops) - 1
      /\ \A i \in 1..Len(b) : b[i] = a[i + 1]
      /\ a[1] = SizeIn(issued, Head(ops))
  <2>1. a \in Seq(Nat) /\ Len(a) = Len(ops) /\ \A i \in 1..Len(ops) : a[i] = SizeIn(issued, ops[i])
    BY SizesTyped
  <2>2. /\ b \in Seq(Nat) /\ Len(b) = Len(rest)
        /\ \A i \in 1..Len(rest) : b[i] = SizeIn(issued, rest[i])
    BY <1>2, SizesTyped
  <2>3. \A i \in 1..Len(rest) : i + 1 \in 1..Len(ops)
    BY <1>1
  <2>4. 1 \in 1..Len(ops)
    BY <1>1
  <2>. QED  BY <1>1, <2>1, <2>2, <2>3, <2>4
<1>4. a # <<>> /\ b = Tail(a) /\ Head(a) = SizeIn(issued, Head(ops))
  <2>. DEFINE h == SizeIn(issued, Head(ops))
  <2>. HIDE DEF a, b, h
  <2>1. a # <<>>
    BY <1>1, <1>3, EmptyOrNot
  <2>2. /\ Tail(a) \in Seq(Nat) /\ Len(Tail(a)) = Len(ops) - 1 /\ Head(a) = a[1]
        /\ \A i \in 1..Len(Tail(a)) : Tail(a)[i] = a[i + 1]
    BY <1>1, <1>3, <2>1, HeadTail
  <2>3. \A i \in 1..Len(b) : b[i] = Tail(a)[i]
    BY <1>1, <1>3, <2>2
  <2>4. b = Tail(a)
    BY <1>3, <2>2, <2>3, SeqEqual
  <2>. QED  BY <1>3, <2>1, <2>2, <2>4
<1>. QED  BY <1>2, <1>3, <1>4, TotalTail

\* The sizes of what is issued do not change when more is issued.
LEMMA SizesKept ==
    ASSUME NEW issued \in Seq(Nat), NEW more \in Seq(Nat), NEW ops, Among(issued, ops),
           Len(more) >= Len(issued),
           \A i \in 1..Len(issued) : more[i] = issued[i]
    PROVE  Among(more, ops) /\ SizesIn(more, ops) = SizesIn(issued, ops)
<1>1. \A i \in 1..Len(ops) : SizeIn(more, ops[i]) = SizeIn(issued, ops[i])
  BY DEF Among, SizeIn
<1>2. Among(more, ops)
  <2>1. 1..Len(issued) \subseteq 1..Len(more)
    BY EmptyOrNot
  <2>. QED  BY <2>1 DEF Among
<1>. QED  BY <1>1, <1>2 DEF SizesIn

LEMMA QueuesIssued ==
    ASSUME IInv, NEW p \in Peer
    PROVE  Among(sent[p], mSendQueue[p]) /\ Among(sent[p], sendPosted[p])
<1>1. /\ mSendQueue[p] \in Seq(Op) /\ sendPosted[p] \in Seq(Op)
      /\ Len(mSendQueue[p]) \in Nat /\ Len(sent[p]) \in Nat
      /\ SendPopped(p) >= 0 /\ SendPopped(p) \in Int /\ SendQueueInv(p)
  BY EndTypes, EndLengths DEF IInv, SendQueueInv
<1>2. ASSUME NEW q \in Seq(Op), NEW base \in Int, base >= 0,
             Consecutive(q, base, Len(sent[p]), "SendData"),
             NEW i \in 1..Len(q), q[i].type = "SendData"
      PROVE  q[i].n \in 1..Len(sent[p])
  <2>1. q[i].n = base + i /\ q[i].n <= Len(sent[p])
    BY <1>2 DEF Consecutive
  <2>2. i \in Nat /\ i >= 1
    OBVIOUS
  <2>. QED  BY <1>1, <1>2, <2>1, <2>2
<1>3. SendPopped(p) + Len(mSendQueue[p]) \in Int /\ SendPopped(p) + Len(mSendQueue[p]) >= 0
  BY <1>1
<1>. QED  BY <1>1, <1>2, <1>3 DEF SendQueueInv, Among

-----------------------------------------------------------------------------
(* The counters of one end, and their inductive invariant.  The value that *)
(* getTotalDataSent has read is at most what it is about to clear.         *)

Counters(p) == <<mOutstandingSendData[p], mMaxOutstandingSendData[p],
                 mTotalSentData[p], loaded[p], reported[p]>>

CountedEnd(p) == <<sent[p], sendPosted[p], mSendQueue[p], sender[p]>>

CounterTypes ==
    /\ mOutstandingSendData \in [Peer -> Nat]
    /\ mMaxOutstandingSendData \in [Peer -> Nat]
    /\ mTotalSentData \in [Peer -> Nat]
    /\ loaded \in [Peer -> Nat]
    /\ reported \in [Peer -> Nat]

OutstandingOf(p) == mOutstandingSendData[p] = Total(SizesIn(sent[p], Unsent(p)))

ReportedOf(p) ==
    reported[p] + mTotalSentData[p] + Total(SizesIn(sent[p], sendPosted[p])) <= Total(sent[p])

CounterInv ==
    /\ CounterTypes
    /\ \A p \in Peer : OutstandingOf(p) /\ ReportedOf(p) /\ loaded[p] <= mTotalSentData[p]

LEMMA InitCounterInv == Init => CounterInv
<1>. SUFFICES ASSUME Init PROVE CounterInv
  OBVIOUS
<1>1. CounterTypes
  BY DEF Init, CounterTypes
<1>2. ASSUME NEW p \in Peer
      PROVE  OutstandingOf(p) /\ ReportedOf(p) /\ loaded[p] <= mTotalSentData[p]
  <2>1. /\ sent[p] = <<>> /\ sendPosted[p] = <<>> /\ mSendQueue[p] = <<>>
        /\ sender[p] = "idle"
        /\ mOutstandingSendData[p] = 0 /\ mTotalSentData[p] = 0
        /\ loaded[p] = 0 /\ reported[p] = 0
    BY DEF Init
  <2>2. SizesIn(sent[p], <<>>) = <<>>
    BY DEF SizesIn
  <2>3. Total(SizesIn(sent[p], Unsent(p))) = 0
    BY <2>1, <2>2, TotalEmpty DEF Unsent
  <2>. QED  BY <2>1, <2>2, <2>3, TotalEmpty DEF OutstandingOf, ReportedOf
<1>. QED  BY <1>1, <1>2 DEF CounterInv

(* What each part looks at.                                                *)

LEMMA OutstandingFrame ==
    ASSUME NEW p \in Peer, OutstandingOf(p),
           UNCHANGED <<sent[p], mSendQueue[p], mOutstandingSendData[p]>>,
           sender'[p] = "fulfilled" <=> sender[p] = "fulfilled"
    PROVE  OutstandingOf(p)'
<1>1. Unsent(p)' = Unsent(p)
  BY DEF Unsent
<1>2. SizesIn(sent[p], Unsent(p))' = SizesIn(sent[p], Unsent(p))
  BY <1>1 DEF SizesIn, SizeIn
<1>. QED  BY <1>2 DEF OutstandingOf

LEMMA ReportedFrame ==
    ASSUME NEW p \in Peer, ReportedOf(p), loaded[p] <= mTotalSentData[p],
           UNCHANGED <<sent[p], sendPosted[p], mTotalSentData[p], loaded[p], reported[p]>>
    PROVE  ReportedOf(p)' /\ (loaded[p] <= mTotalSentData[p])'
<1>1. SizesIn(sent[p], sendPosted[p])' = SizesIn(sent[p], sendPosted[p])
  BY DEF SizesIn, SizeIn
<1>. QED  BY <1>1 DEF ReportedOf

\* A step of one end leaves the counters of the other alone.
LEMMA CounterStep ==
    ASSUME CounterInv, CounterTypes', NEW p \in Peer,
           UNCHANGED <<CountedEnd(Other(p)), Counters(Other(p))>>,
           OutstandingOf(p)', ReportedOf(p)', (loaded[p] <= mTotalSentData[p])'
    PROVE  CounterInv'
<1>1. ASSUME NEW q \in Peer, q # p
      PROVE  OutstandingOf(q)' /\ ReportedOf(q)' /\ (loaded[q] <= mTotalSentData[q])'
  <2>1. UNCHANGED <<CountedEnd(q), Counters(q)>>
    BY <1>1, OtherPeer
  <2>. QED
    BY <2>1, OutstandingFrame, ReportedFrame DEF CounterInv, CountedEnd, Counters
<1>. QED  BY <1>1 DEF CounterInv

\* A step that moves no operation and no counter.
LEMMA UncountedStep ==
    ASSUME CounterInv, UNCHANGED <<sent, sendPosted, mSendQueue, statVars, pollVars>>,
           \A p \in Peer : sender'[p] = "fulfilled" <=> sender[p] = "fulfilled"
    PROVE  CounterInv'
<1>1. CounterTypes'
  BY DEF CounterInv, CounterTypes, statVars, pollVars
<1>2. ASSUME NEW p \in Peer
      PROVE  OutstandingOf(p)' /\ ReportedOf(p)' /\ (loaded[p] <= mTotalSentData[p])'
  BY OutstandingFrame, ReportedFrame DEF CounterInv, statVars, pollVars
<1>. QED  BY <1>1, <1>2 DEF CounterInv

-----------------------------------------------------------------------------
\* The facts that every step of the counters at an end starts from.
LEMMA CounterFacts ==
    ASSUME IInv, CounterInv, NEW p \in Peer
    PROVE  /\ ChannelTypeOK /\ Other(p) \in Peer /\ Other(p) # p
           /\ Among(sent[p], mSendQueue[p]) /\ Among(sent[p], sendPosted[p])
           /\ Among(sent[p], Unsent(p))
           /\ mOutstandingSendData[p] \in Nat /\ mMaxOutstandingSendData[p] \in Nat
           /\ mTotalSentData[p] \in Nat /\ loaded[p] \in Nat /\ reported[p] \in Nat
           /\ mOutstandingSendData[p] = Total(SizesIn(sent[p], Unsent(p)))
           /\ reported[p] + mTotalSentData[p] + Total(SizesIn(sent[p], sendPosted[p]))
                  <= Total(sent[p])
           /\ loaded[p] <= mTotalSentData[p]
           /\ Total(SizesIn(sent[p], sendPosted[p])) \in Nat /\ Total(sent[p]) \in Nat
           /\ sent[p] \in Seq(Nat)
<1>1. ChannelTypeOK /\ Among(sent[p], mSendQueue[p]) /\ Among(sent[p], sendPosted[p])
  BY QueuesIssued DEF IInv
<1>2. sent[p] \in Seq(Nat)
  <2>1. sent[p] \in Seq(Size) /\ Size \subseteq Nat
    BY <1>1, EndTypes, SizeAssumption
  <2>. QED  BY <2>1, SeqMonotonic
<1>3. Among(sent[p], Unsent(p))
  <2>1. CASE sender[p] = "fulfilled"
    <3>1. mSendQueue[p] # <<>>
      BY <2>1, SenderFacts
    <3>2. Among(sent[p], Tail(mSendQueue[p]))
      BY <1>1, <1>2, <3>1, SizesTail
    <3>. QED  BY <2>1, <3>2 DEF Unsent
  <2>2. CASE sender[p] # "fulfilled"
    BY <1>1, <2>2 DEF Unsent
  <2>. QED  BY <2>1, <2>2
<1>4. Total(SizesIn(sent[p], sendPosted[p])) \in Nat /\ Total(sent[p]) \in Nat
  BY <1>1, <1>2, SizesTyped, TotalNat
<1>. QED
  BY <1>1, <1>2, <1>3, <1>4, OtherPeer
     DEF CounterInv, CounterTypes, OutstandingOf, ReportedOf

\* The size of a message that is sent is issued and not counted.
LEMMA PostSendCounts ==
    ASSUME IInv, CounterInv, NEW p \in Peer, NEW size \in Size, NEW sync \in BOOLEAN,
           PostSend(p, size, sync)
    PROVE  CounterInv'
<1>1. PICK op, issued, posted, queue :
          /\ op = SendOp(Len(sent[p]) + 1, sync) /\ issued = sent[p]
          /\ posted = sendPosted[p] /\ queue = Unsent(p)
  OBVIOUS
<1>2. /\ issued \in Seq(Nat) /\ size \in Nat /\ Len(issued) \in Nat
      /\ Among(issued, posted) /\ Among(issued, queue)
  BY <1>1, CounterFacts, SizeAssumption, EmptyOrNot
<1>3. op \in Op /\ op.type = "SendData" /\ op.n = Len(issued) + 1
  BY <1>1, <1>2 DEF SendOp, Op
<1>4. /\ sent'[p] = Append(issued, size) /\ sendPosted'[p] = Append(posted, op)
      /\ Unsent(p)' = queue
      /\ UNCHANGED <<statVars, pollVars>>
  BY <1>1, CounterFacts DEF PostSend, ChannelTypeOK, Unsent
<1>. DEFINE more == Append(issued, size)
<1>5. /\ more \in Seq(Nat) /\ Len(more) = Len(issued) + 1 /\ more[Len(issued) + 1] = size
      /\ \A i \in 1..Len(issued) : more[i] = issued[i]
      /\ Total(more) = Total(issued) + size
  BY <1>2, Appended, TotalAppend
<1>. HIDE DEF more
<1>6. /\ Among(more, posted) /\ SizesIn(more, posted) = SizesIn(issued, posted)
      /\ SizesIn(more, queue) = SizesIn(issued, queue)
  BY <1>2, <1>5, SizesKept
<1>7. Total(SizesIn(more, Append(posted, op))) = Total(SizesIn(issued, posted)) + size
  <2>1. op.n \in 1..Len(more) /\ SizeIn(more, op) = size
    BY <1>2, <1>3, <1>5 DEF SizeIn
  <2>. QED  BY <1>3, <1>5, <1>6, <2>1, SizesAppend
<1>8. OutstandingOf(p)'
  BY <1>1, <1>4, <1>6, CounterFacts DEF OutstandingOf, statVars, more
<1>9. ReportedOf(p)' /\ (loaded[p] <= mTotalSentData[p])'
  <2>. DEFINE r == reported[p]
              t == mTotalSentData[p]
              u == Total(SizesIn(issued, posted))
              v == Total(issued)
  <2>1. r \in Nat /\ t \in Nat /\ u \in Nat /\ v \in Nat /\ r + t + u <= v
    BY <1>1, CounterFacts
  <2>2. r + t + (u + size) <= v + size
    <3>. HIDE DEF r, t, u, v
    <3>. QED  BY <1>2, <2>1
  <2>3. /\ reported'[p] = r /\ mTotalSentData'[p] = t /\ loaded'[p] = loaded[p]
        /\ Total(SizesIn(sent'[p], sendPosted'[p])) = u + size
        /\ Total(sent'[p]) = v + size
    BY <1>4, <1>5, <1>7 DEF more, statVars, pollVars
  <2>. QED  BY <2>2, <2>3, CounterFacts DEF ReportedOf
<1>10. CounterTypes' /\ UNCHANGED <<CountedEnd(Other(p)), Counters(Other(p))>>
  <2>1. UNCHANGED CountedEnd(Other(p))
    BY CounterFacts DEF PostSend, ChannelTypeOK, CountedEnd
  <2>. QED
    BY <1>4, <2>1 DEF CounterInv, CounterTypes, statVars, pollVars, Counters
<1>. QED  BY <1>8, <1>9, <1>10, CounterStep

\* The operation that close() posts has no size.
LEMMA CloseCounts ==
    ASSUME IInv, CounterInv, NEW p \in Peer, Close(p)
    PROVE  CounterInv'
<1>1. PICK op, issued, posted :
          op = CloseSendOp(Len(sent[p]) + 1) /\ issued = sent[p] /\ posted = sendPosted[p]
  OBVIOUS
<1>2. /\ issued \in Seq(Nat) /\ Len(issued) \in Nat /\ Among(issued, posted)
      /\ op \in Op /\ op.type = "CloseSend"
  BY <1>1, CounterFacts, EmptyOrNot DEF CloseSendOp, Op
<1>3. /\ sendPosted'[p] = Append(posted, op)
      /\ UNCHANGED <<sent, mSendQueue, sender, statVars, pollVars>>
  BY <1>1, CounterFacts DEF Close, ChannelTypeOK, histVars
<1>4. Total(SizesIn(issued, Append(posted, op))) = Total(SizesIn(issued, posted)) + 0
  BY <1>2, SizesAppend DEF SizeIn
<1>5. OutstandingOf(p)'
  BY <1>3, OutstandingFrame DEF CounterInv, statVars
<1>6. ReportedOf(p)' /\ (loaded[p] <= mTotalSentData[p])'
  BY <1>1, <1>3, <1>4, CounterFacts DEF ReportedOf, statVars, pollVars
<1>7. CounterTypes' /\ UNCHANGED <<CountedEnd(Other(p)), Counters(Other(p))>>
  <2>1. UNCHANGED CountedEnd(Other(p))
    BY CounterFacts DEF Close, ChannelTypeOK, CountedEnd, histVars
  <2>. QED
    BY <1>3, <2>1 DEF CounterInv, CounterTypes, statVars, pollVars, Counters
<1>. QED  BY <1>5, <1>6, <1>7, CounterStep

\* The handler counts the operation as it moves it into mSendQueue.
LEMMA PushSendCounts ==
    ASSUME IInv, CounterInv, NEW p \in Peer, PushSend(p)
    PROVE  CounterInv'
<1>1. PICK op, issued, posted, queue, waiting :
          /\ op = Head(posted) /\ issued = sent[p] /\ posted = sendPosted[p]
          /\ queue = mSendQueue[p] /\ waiting = Unsent(p)
  OBVIOUS
<1>2. /\ issued \in Seq(Nat) /\ Among(issued, posted) /\ Among(issued, queue)
      /\ Among(issued, waiting) /\ posted # <<>>
      /\ posted \in Seq(Op) /\ queue \in Seq(Op) /\ waiting \in Seq(Op)
  BY <1>1, CounterFacts DEF PushSend, Among
<1>3. /\ op \in Op
      /\ op.type = "SendData" => op.n \in 1..Len(issued)
      /\ SizeIn(issued, op) \in Nat
  <2>1. op \in Op /\ op = posted[1] /\ 1 \in 1..Len(posted)
    BY <1>1, <1>2, HeadTail
  <2>2. op.type = "SendData" => op.n \in 1..Len(issued)
    BY <1>2, <2>1 DEF Among
  <2>. QED  BY <1>2, <2>1, <2>2, SizeInNat
<1>. DEFINE size == SizeIn(issued, op)
<1>4. Counted(p, op) = size
  BY <1>1, SizesAre DEF Counted
<1>5. /\ mSendQueue'[p] = Append(queue, op) /\ sendPosted'[p] = Tail(posted)
      /\ mTotalSentData' = [mTotalSentData EXCEPT ![p] = @ + size]
      /\ mOutstandingSendData' = [mOutstandingSendData EXCEPT ![p] = @ + size]
      /\ UNCHANGED <<sent, sender, mMaxOutstandingSendData, pollVars>>
  BY <1>1, <1>4, CounterFacts DEF PushSend, ChannelTypeOK, histVars
<1>6. Unsent(p)' = Append(waiting, op)
  <2>1. CASE sender[p] = "fulfilled"
    <3>1. queue # <<>> /\ waiting = Tail(queue)
      BY <1>1, <2>1, SenderFacts DEF Unsent
    <3>2. Tail(Append(queue, op)) = Append(Tail(queue), op)
      BY <1>2, <3>1, HeadTailAppend
    <3>. QED  BY <1>5, <2>1, <3>1, <3>2 DEF Unsent
  <2>2. CASE sender[p] # "fulfilled"
    BY <1>1, <1>5, <2>2 DEF Unsent
  <2>. QED  BY <2>1, <2>2
<1>7. /\ Total(SizesIn(issued, Append(waiting, op))) = Total(SizesIn(issued, waiting)) + size
      /\ Total(SizesIn(issued, posted)) = size + Total(SizesIn(issued, Tail(posted)))
      /\ Total(SizesIn(issued, Tail(posted))) \in Nat
  <2>1. Among(issued, Tail(posted))
    BY <1>2, SizesTail
  <2>2. Total(SizesIn(issued, posted)) = size + Total(SizesIn(issued, Tail(posted)))
    BY <1>1, <1>2, SizesTail
  <2>3. Total(SizesIn(issued, Append(waiting, op)))
            = Total(SizesIn(issued, waiting)) + SizeIn(issued, op)
    BY <1>2, <1>3, SizesAppend
  <2>4. Total(SizesIn(issued, Tail(posted))) \in Nat
    BY <1>2, <2>1, SizesTyped
  <2>. QED  BY <2>2, <2>3, <2>4
<1>. DEFINE r == reported[p]
            t == mTotalSentData[p]
            l == loaded[p]
            m == mOutstandingSendData[p]
            u == Total(SizesIn(issued, Tail(posted)))
            v == Total(issued)
<1>8. /\ r \in Nat /\ t \in Nat /\ l \in Nat /\ m \in Nat /\ u \in Nat /\ v \in Nat
      /\ size \in Nat
      /\ r + t + (size + u) <= v /\ l <= t
      /\ m = Total(SizesIn(issued, waiting))
  BY <1>1, <1>3, <1>7, CounterFacts
<1>9. /\ mTotalSentData'[p] = t + size /\ mOutstandingSendData'[p] = m + size
      /\ reported'[p] = r /\ loaded'[p] = l
      /\ CounterTypes' /\ UNCHANGED Counters(Other(p))
  <2>. HIDE DEF size
  <2>1. CounterTypes /\ Other(p) # p /\ t + size \in Nat /\ m + size \in Nat
    <3>1. CounterTypes /\ Other(p) # p
      BY CounterFacts DEF CounterInv
    <3>. HIDE DEF r, t, l, m, u, v
    <3>. QED  BY <1>8, <3>1
  <2>2. CounterTypes'
    BY <1>5, <2>1 DEF CounterTypes, pollVars
  <2>3. UNCHANGED Counters(Other(p))
    BY <1>5, <2>1 DEF CounterTypes, pollVars, Counters
  <2>. QED  BY <1>5, <2>1, <2>2, <2>3 DEF CounterTypes, pollVars
<1>10. r + (t + size) + u <= v /\ l <= t + size
  <2>. HIDE DEF r, t, l, u, v, size
  <2>. QED  BY <1>8
<1>11. OutstandingOf(p)'
  BY <1>1, <1>5, <1>6, <1>7, <1>8, <1>9 DEF OutstandingOf
<1>12. ReportedOf(p)' /\ (loaded[p] <= mTotalSentData[p])'
  BY <1>1, <1>5, <1>9, <1>10 DEF ReportedOf
<1>13. UNCHANGED CountedEnd(Other(p))
  BY <1>5, CounterFacts DEF PushSend, ChannelTypeOK, CountedEnd
<1>. QED  BY <1>9, <1>11, <1>12, <1>13, CounterStep

\* sendOne takes out at most the operation of close(), which has no size.
LEMMA SendOneCounts ==
    ASSUME ChannelTypeOK, NEW p \in Peer, NEW queue, queue # <<>>, SendOne(p, queue),
           NEW issued \in Seq(Nat), Among(issued, queue)
    PROVE  Total(SizesIn(issued, Unsent(p)')) = Total(SizesIn(issued, queue))
<1>1. /\ mSendQueue \in [Peer -> Seq(Op)]
      /\ sender \in [Peer -> {"idle", "header", "body", "written", "fulfilled"}]
  BY DEF ChannelTypeOK
<1>2. CASE Head(queue).type = "SendData"
  BY <1>1, <1>2 DEF SendOne, Unsent
<1>3. CASE Head(queue).type = "CloseSend"
  <2>1. Unsent(p)' = Tail(queue)
    BY <1>1, <1>3 DEF SendOne, Unsent
  <2>2. SizeIn(issued, Head(queue)) = 0
    BY <1>3 DEF SizeIn
  <2>3. Total(SizesIn(issued, Tail(queue))) \in Nat
    BY SizesTail, SizesTyped
  <2>4. Total(SizesIn(issued, queue)) = SizeIn(issued, Head(queue)) + Total(SizesIn(issued, Tail(queue)))
    BY SizesTail
  <2>. QED  BY <2>1, <2>2, <2>3, <2>4
<1>. QED  BY <1>2, <1>3 DEF SendOne

\* KickSend starts sendOne on the queue, when nothing works on it.
LEMMA KickSendCounts ==
    ASSUME IInv, CounterInv, NEW p \in Peer, KickSend(p)
    PROVE  CounterInv'
<1>1. /\ sent' = sent /\ sendPosted' = sendPosted /\ mTotalSentData' = mTotalSentData
      /\ mOutstandingSendData' = mOutstandingSendData
      /\ loaded' = loaded /\ reported' = reported
      /\ mMaxOutstandingSendData' =
           [mMaxOutstandingSendData EXCEPT ![p] = MaxOf(mOutstandingSendData[p], @)]
      /\ pushing[p]
  BY DEF KickSend, histVars, pollVars
<1>2. CounterTypes' /\ UNCHANGED Counters(Other(p))
  <2>1. CounterTypes /\ Other(p) # p
    BY CounterFacts DEF CounterInv
  <2>2. MaxOf(mOutstandingSendData[p], mMaxOutstandingSendData[p]) \in Nat
    BY CounterFacts DEF MaxOf
  <2>. QED  BY <1>1, <2>1, <2>2 DEF CounterTypes, Counters
<1>3. ReportedOf(p)' /\ (loaded[p] <= mTotalSentData[p])'
  BY <1>1, ReportedFrame DEF CounterInv
<1>4. CASE StartSending(mSendQueue[p]) /\ SendOne(p, mSendQueue[p])
  <2>1. PICK issued, queue : issued = sent[p] /\ queue = mSendQueue[p]
    OBVIOUS
  <2>2. /\ issued \in Seq(Nat) /\ Among(issued, queue) /\ queue # <<>>
        /\ ChannelTypeOK /\ SendOne(p, queue) /\ SendQueueInv(p)
        /\ Other(p) # p /\ Other(p) \in Peer
    BY <1>4, <2>1, CounterFacts DEF StartSending, IInv
  <2>3. sender[p] = "idle"
    BY <1>1, <1>4, EndTypes, <2>2 DEF SendQueueInv, SendDriver, StartSending
  <2>4. Total(SizesIn(issued, Unsent(p)')) = Total(SizesIn(issued, queue))
    BY <2>2, SendOneCounts
  <2>5. Unsent(p) = queue
    BY <2>1, <2>3 DEF Unsent
  <2>6. OutstandingOf(p)'
    BY <1>1, <2>1, <2>4, <2>5 DEF CounterInv, OutstandingOf
  <2>7. UNCHANGED CountedEnd(Other(p))
    BY <1>1, <2>2 DEF SendOne, ChannelTypeOK, CountedEnd
  <2>. QED  BY <1>2, <1>3, <2>6, <2>7, CounterStep
<1>5. CASE UNCHANGED <<mSendQueue, sender, signal>>
  <2>1. OutstandingOf(p)'
    BY <1>1, <1>5, OutstandingFrame DEF CounterInv
  <2>2. UNCHANGED CountedEnd(Other(p))
    BY <1>1, <1>5 DEF CountedEnd
  <2>. QED  BY <1>2, <1>3, <2>1, <2>2, CounterStep
<1>. QED  BY <1>4, <1>5 DEF KickSend

\* The completion takes off what the operation in front had added.
LEMMA CompleteSendCounts ==
    ASSUME IInv, CounterInv, NEW p \in Peer, CompleteSend(p)
    PROVE  CounterInv'
<1>1. PICK issued, queue, op : issued = sent[p] /\ queue = mSendQueue[p] /\ op = Head(queue)
  OBVIOUS
<1>2. /\ sender[p] = "written" /\ queue # <<>> /\ Unsent(p) = queue
      /\ issued \in Seq(Nat) /\ Among(issued, queue)
      /\ ChannelTypeOK /\ Other(p) # p
  BY <1>1, CounterFacts, SenderFacts DEF CompleteSend, Unsent
<1>. DEFINE size == SizeIn(issued, op)
            rest == Total(SizesIn(issued, Tail(queue)))
<1>3. size \in Nat /\ rest \in Nat /\ mOutstandingSendData[p] = size + rest
  <2>1. op = queue[1] /\ 1 \in 1..Len(queue)
    BY <1>1, <1>2, HeadTail DEF Among
  <2>2. op.type = "SendData" => op.n \in 1..Len(issued)
    BY <1>2, <2>1 DEF Among
  <2>3. size \in Nat
    BY <1>2, <2>2, SizeInNat
  <2>4. rest \in Nat /\ Total(SizesIn(issued, queue)) = SizeIn(issued, Head(queue)) + rest
    BY <1>2, SizesTail, SizesTyped
  <2>. QED  BY <1>1, <1>2, <2>3, <2>4, CounterFacts
<1>4. /\ mOutstandingSendData' = [mOutstandingSendData EXCEPT ![p] = @ - size]
      /\ sender' = [sender EXCEPT ![p] = "fulfilled"]
      /\ UNCHANGED <<sent, sendPosted, mSendQueue, mMaxOutstandingSendData,
                     mTotalSentData, pollVars>>
  BY <1>1, SizesAre DEF CompleteSend, histVars
<1>. HIDE DEF size, rest
<1>5. mOutstandingSendData'[p] = rest /\ CounterTypes' /\ UNCHANGED Counters(Other(p))
  <2>1. CounterTypes
    BY DEF CounterInv
  <2>2. mOutstandingSendData[p] - size = rest
    BY <1>3
  <2>. QED  BY <1>2, <1>3, <1>4, <2>1, <2>2 DEF CounterTypes, Counters, pollVars
<1>6. OutstandingOf(p)'
  <2>1. Unsent(p)' = Tail(queue)
    BY <1>1, <1>2, <1>4 DEF ChannelTypeOK, Unsent
  <2>. QED  BY <1>1, <1>4, <1>5, <2>1 DEF OutstandingOf, rest
<1>7. ReportedOf(p)' /\ (loaded[p] <= mTotalSentData[p])'
  BY <1>4, ReportedFrame DEF CounterInv, pollVars
<1>8. UNCHANGED CountedEnd(Other(p))
  BY <1>2, <1>4 DEF ChannelTypeOK, CountedEnd
<1>. QED  BY <1>5, <1>6, <1>7, <1>8, CounterStep

LEMMA PopSendCounts ==
    ASSUME IInv, CounterInv, NEW p \in Peer, PopSend(p)
    PROVE  CounterInv'
<1>1. PICK issued, rest : issued = sent[p] /\ rest = Tail(mSendQueue[p])
  OBVIOUS
<1>2. /\ UNCHANGED <<sent, sendPosted, statVars, pollVars>>
      /\ sender[p] = "fulfilled"
  BY DEF PopSend, histVars
<1>3. /\ ChannelTypeOK /\ Other(p) # p /\ Other(p) \in Peer /\ Unsent(p) = rest
      /\ issued \in Seq(Nat) /\ Among(issued, rest)
  BY <1>1, <1>2, CounterFacts DEF Unsent
<1>4. Total(SizesIn(issued, Unsent(p)')) = Total(SizesIn(issued, rest))
      /\ UNCHANGED CountedEnd(Other(p))
  <2>1. CASE HasMore(rest) /\ SendOne(p, rest)
    <3>1. Total(SizesIn(issued, Unsent(p)')) = Total(SizesIn(issued, rest))
      BY <1>3, <2>1, SendOneCounts DEF HasMore
    <3>2. UNCHANGED CountedEnd(Other(p))
      BY <1>2, <1>3, <2>1 DEF SendOne, ChannelTypeOK, CountedEnd
    <3>. QED  BY <3>1, <3>2
  <2>2. CASE /\ mSendQueue' = [mSendQueue EXCEPT ![p] = rest]
             /\ sender' = [sender EXCEPT ![p] = "idle"]
    BY <1>2, <1>3, <2>2 DEF Unsent, ChannelTypeOK, CountedEnd
  <2>. QED  BY <1>1, <2>1, <2>2 DEF PopSend
<1>5. OutstandingOf(p)'
  BY <1>1, <1>2, <1>3, <1>4 DEF CounterInv, OutstandingOf, statVars
<1>6. ReportedOf(p)' /\ (loaded[p] <= mTotalSentData[p])'
  BY <1>2, ReportedFrame DEF CounterInv, statVars, pollVars
<1>7. CounterTypes' /\ UNCHANGED Counters(Other(p))
  BY <1>2 DEF CounterInv, CounterTypes, statVars, pollVars, Counters
<1>. QED  BY <1>4, <1>5, <1>6, <1>7, CounterStep

\* getTotalDataSent reads the counter; what it has read is not counted twice
\* because it reports and clears it before it reads again.
LEMMA GetTotalLoadCounts ==
    ASSUME IInv, CounterInv, NEW p \in Peer, GetTotalLoad(p)
    PROVE  CounterInv'
<1>1. /\ loaded' = [loaded EXCEPT ![p] = mTotalSentData[p]]
      /\ UNCHANGED <<sent, sendPosted, mSendQueue, sender, statVars, reported>>
  BY DEF GetTotalLoad, histVars, sendVars
<1>2. CounterTypes /\ mTotalSentData[p] \in Nat /\ Other(p) # p
  BY CounterFacts DEF CounterInv
<1>3. CounterTypes' /\ UNCHANGED <<CountedEnd(Other(p)), Counters(Other(p))>>
  BY <1>1, <1>2 DEF CounterTypes, statVars, Counters, CountedEnd
<1>4. OutstandingOf(p)'
  BY <1>1, OutstandingFrame DEF CounterInv, statVars
<1>5. ReportedOf(p)' /\ (loaded[p] <= mTotalSentData[p])'
  BY <1>1, <1>2, CounterFacts DEF CounterTypes, ReportedOf, statVars
<1>. QED  BY <1>3, <1>4, <1>5, CounterStep

LEMMA GetTotalClearCounts ==
    ASSUME IInv, CounterInv, NEW p \in Peer, GetTotalClear(p)
    PROVE  CounterInv'
<1>1. /\ mTotalSentData' = [mTotalSentData EXCEPT ![p] = 0]
      /\ reported' = [reported EXCEPT ![p] = @ + loaded[p]]
      /\ loaded' = [loaded EXCEPT ![p] = 0]
      /\ UNCHANGED <<sent, sendPosted, mSendQueue, sender, mOutstandingSendData,
                     mMaxOutstandingSendData>>
  BY DEF GetTotalClear, Cleared, histVars, sendVars
<1>2. CounterTypes /\ reported[p] + loaded[p] \in Nat /\ Other(p) # p
  BY CounterFacts DEF CounterInv
<1>3. CounterTypes' /\ UNCHANGED <<CountedEnd(Other(p)), Counters(Other(p))>>
  BY <1>1, <1>2 DEF CounterTypes, Counters, CountedEnd
<1>4. OutstandingOf(p)'
  BY <1>1, OutstandingFrame DEF CounterInv
<1>5. ReportedOf(p)' /\ (loaded[p] <= mTotalSentData[p])'
  <2>. DEFINE u == Total(SizesIn(sent[p], sendPosted[p]))
              v == Total(sent[p])
              r == reported[p]
              t == mTotalSentData[p]
              l == loaded[p]
  <2>1. /\ u \in Nat /\ v \in Nat /\ r \in Nat /\ t \in Nat /\ l \in Nat
        /\ r + t + u <= v /\ l <= t
    BY CounterFacts
  <2>2. /\ reported'[p] = r + l /\ mTotalSentData'[p] = 0 /\ loaded'[p] = 0
        /\ sent' = sent /\ sendPosted' = sendPosted
    BY <1>1, <1>2 DEF CounterTypes
  <2>3. r + l + 0 + u <= v
    <3>. HIDE DEF u, v, r, t, l
    <3>. QED  BY <2>1
  <2>. QED  BY <2>2, <2>3 DEF ReportedOf
<1>. QED  BY <1>3, <1>4, <1>5, CounterStep

\* The writes move the frame in front, not its operation.
LEMMA WritesCount ==
    ASSUME IInv, CounterInv, NEW p \in Peer, WriteHeader(p) \/ WriteBody(p)
    PROVE  CounterInv'
<1>1. sender \in [Peer -> {"idle", "header", "body", "written", "fulfilled"}]
  BY DEF IInv, ChannelTypeOK
<1>2. \A q \in Peer : sender'[q] = "fulfilled" <=> sender[q] = "fulfilled"
  BY <1>1 DEF WriteHeader, WriteBody
<1>3. UNCHANGED <<sent, sendPosted, mSendQueue, statVars, pollVars>>
  BY DEF WriteHeader, WriteBody, histVars
<1>. QED  BY <1>2, <1>3, UncountedStep

\* Receives, the connection and the calls that return do not count.
LEMMA OthersCount ==
    ASSUME CounterInv, NEW p \in Peer,
           \/ \E s \in Expected : AsyncRecv(p, s)
           \/ \E n \in 1..MaxRecv[p] : FutureGet(p, n)
           \/ SendReturn(p) \/ FutureReturn(p) \/ CloseReturn(p)
           \/ RecvStep(p) \/ NetStep(p)
    PROVE  CounterInv'
<1>1. CASE \/ \E s \in Expected : AsyncRecv(p, s)
           \/ \E n \in 1..MaxRecv[p] : FutureGet(p, n)
           \/ SendReturn(p) \/ FutureReturn(p) \/ CloseReturn(p)
  <2>1. UNCHANGED <<sent, sendPosted, mSendQueue, sender, statVars, pollVars>>
    BY <1>1 DEF AsyncRecv, FutureGet, SendReturn, FutureReturn, CloseReturn, histVars, sendVars
  <2>. QED  BY <2>1, UncountedStep
<1>2. CASE RecvStep(p) \/ NetStep(p)
  <2>1. UNCHANGED <<sent, sendPosted, mSendQueue, sender, statVars, pollVars>>
    BY <1>2 DEF RecvStep, NetStep, PushRecv, ReadHeader, RefuseHeader, ReadBody, CompleteRecv,
                PopRecv, Reset, IOError, histVars, sendVars
  <2>. QED  BY <2>1, UncountedStep
<1>. QED  BY <1>1, <1>2

LEMMA NextKeepsCounterInv == IInv /\ CounterInv /\ [Next]_vars => CounterInv'
<1>. SUFFICES ASSUME IInv, CounterInv, [Next]_vars PROVE CounterInv'
  OBVIOUS
<1>1. CASE UNCHANGED vars
  <2>1. UNCHANGED <<sent, sendPosted, mSendQueue, sender, statVars, pollVars>>
    BY <1>1 DEF vars, histVars, sendVars
  <2>. QED  BY <2>1, UncountedStep
<1>2. ASSUME NEW p \in Peer,
             Call(p) \/ Return(p) \/ SendStep(p) \/ RecvStep(p) \/ NetStep(p)
      PROVE  CounterInv'
  <2>1. CASE Call(p)
    BY <2>1, PostSendCounts, CloseCounts, GetTotalLoadCounts, OthersCount
       DEF Call, AsyncSend, Send
  <2>2. CASE Return(p)
    BY <2>2, GetTotalClearCounts, OthersCount DEF Return
  <2>3. CASE SendStep(p)
    BY <2>3, PushSendCounts, KickSendCounts, WritesCount, CompleteSendCounts, PopSendCounts
       DEF SendStep
  <2>4. CASE RecvStep(p) \/ NetStep(p)
    BY <2>4, OthersCount
  <2>. QED  BY <1>2, <2>1, <2>2, <2>3, <2>4
<1>. QED  BY <1>1, <1>2 DEF Next

\* The counters keep their invariant along every behaviour of the channel.
THEOREM CounterInvariance == Spec => []CounterInv
BY InitCounterInv, NextKeepsCounterInv, Invariance, PTL DEF Spec

\* No counter wraps: every variable keeps its type.
THEOREM TypeCorrect == Spec => []TypeOK
<1>1. IInv /\ CounterInv => TypeOK
  BY DEF IInv, CounterInv, CounterTypes, TypeOK
<1>. QED  BY <1>1, Invariance, CounterInvariance, PTL

\* mOutstandingSendData is the data in the queue whose write has not completed,
\* whatever the order of completions, pushes and pops.
THEOREM OutstandingExactHolds == Spec => []OutstandingExact
<1>1. CounterInv => OutstandingExact
  BY SizesAre DEF CounterInv, OutstandingOf, OutstandingExact
<1>. QED  BY <1>1, CounterInvariance, PTL

\* What getTotalDataSent returns, over all its calls, is at most what was sent.
THEOREM ReportedOnceHolds == Spec => []ReportedOnce
<1>1. CounterInv => ReportedOnce
  BY SizesAre DEF CounterInv, ReportedOf, ReportedOnce
<1>. QED  BY <1>1, CounterInvariance, PTL
============================================================================
