---------------------------- MODULE BtSocketIO ----------------------------
(***************************************************************************)
(* One connected channel: the BtChannel and BtSocket at each of its two    *)
(* ends, the io_service threads that serve them (BtIOService::dispatch,    *)
(* sendOne, receiveOne) and the TCP connection between them.               *)
(*                                                                         *)
(* Operations are posted to a strand; inside the strand they join          *)
(* mSendQueue or mRecvQueue, and the handler that finds the queue empty    *)
(* starts the chain sendOne -> async_write -> completion -> pop ->         *)
(* sendOne ... that drains it.  The completion runs on an io thread        *)
(* outside the strand: it fulfils the promise first and only then has the  *)
(* strand pop the queue.                                                   *)
(*                                                                         *)
(* Message number n of end p is its n-th asyncSend or send; sent[p][n] is  *)
(* its size, which is all of its content the code looks at.  Receives are  *)
(* numbered alike, and recvs[p][n] is the size the n-th one expects.  The  *)
(* operation that close() posts takes the next number.                     *)
(***************************************************************************)
EXTENDS Naturals, Sequences

CONSTANTS
    Peer,       \* the two ends of the channel
    Size,       \* the message sizes in use
    Expected,   \* the sizes receives are issued for, AnySize for a resizable buffer
    MaxSend,    \* bound: MaxSend[p] messages are sent at end p
    MaxRecv,    \* bound: MaxRecv[p] receives are issued at end p
    Room,       \* Room[p]: the bytes the connection holds that come from p
    Pollers     \* the ends whose user calls getTotalDataSent

ASSUME PeerAssumption == \E a, b \in Peer : a # b /\ Peer = {a, b}
ASSUME SizeAssumption == Size \subseteq Nat \ {0} /\ Expected \subseteq Nat
ASSUME RoomAssumption == Room \in [Peer -> Nat]

VARIABLES
    app,            \* app[p]: where the thread that uses the channel is
    waitFor,        \* waitFor[p]: the receive whose future it waits on
    signal,         \* signal[p]: which of the promises on its stack are set
    sent, recvs,    \* the operations issued so far
    sendPosted,     \* handlers posted to mSendStrand, not run yet
    mSendQueue,
    pushing,        \* mSendStrand is between push_back and kicking off sendOne
    sender,         \* progress of the operation at the front of mSendQueue
    wire,           \* wire[p]: parts of frames from p, not read yet
    recvPosted,
    mRecvQueue,
    reader,         \* progress of the operation at the front of mRecvQueue
    body,           \* body[p]: the message whose body was read last
    got,            \* got[p]: completed receives in order of completion
    lost,           \* the connection was reset: what was on it is gone
    crashed,        \* an io thread threw: the process of that end is gone
    mOutstandingSendData, mMaxOutstandingSendData, mTotalSentData,
    loaded,         \* the value getTotalDataSent has read and not yet cleared
    reported        \* the sum of what getTotalDataSent has returned

appVars   == <<app, waitFor>>
histVars  == <<sent, recvs>>
sendVars  == <<sendPosted, mSendQueue, pushing, sender>>
recvVars  == <<recvPosted, mRecvQueue, reader, body, got>>
netVars   == <<wire, lost, crashed>>
statVars  == <<mOutstandingSendData, mMaxOutstandingSendData, mTotalSentData>>
pollVars  == <<loaded, reported>>
vars == <<appVars, signal, histVars, sendVars, recvVars, netVars, statVars,
          pollVars>>

-----------------------------------------------------------------------------
AnySize == 0        \* a receive into a ChannelBuffer, which is resized
Refused == 0        \* no message: the receive ended with an exception

Other(p) == CHOOSE q \in Peer : q # p

\* An operation is its type, its number, and whether a promise is set when
\* the send has completed.
SendOp(n, sync) == [type |-> "SendData", n |-> n, sync |-> sync]
CloseSendOp(n)  == [type |-> "CloseSend", n |-> n, sync |-> TRUE]
RecvOp(n)       == [type |-> "RecvData", n |-> n]
CloseRecvOp(n)  == [type |-> "CloseRecv", n |-> n]

\* The frame of message n is its size, then its bytes.
Header(n) == [part |-> "header", n |-> n]
Body(n)   == [part |-> "body", n |-> n]

HeaderSize == 4     \* sizeof(u32)

PartSize(p, part) == IF part.part = "header" THEN HeaderSize ELSE sent[p][part.n]

\* The running totals of a sequence of sizes, and the last of them.
Totals(sizes) ==
    LET total[n \in 0..Len(sizes)] ==
            IF n = 0 THEN 0 ELSE total[n - 1] + sizes[n]
    IN total
Total(sizes) == Totals(sizes)[Len(sizes)]

Ready(p, n) == \E i \in 1..Len(got[p]) : got[p][i].recv = n

\* The connection has no process at that end any more.
Gone(p) == app[p] = "closed" \/ crashed[p]

\* The user's thread can make a call: mStopped is false and the process lives.
CanCall(p) == app[p] = "run" /\ ~ crashed[p]

\* std::max of the counter and the maximum so far.
MaxOf(x, y) == IF x >= y THEN x ELSE y

Init ==
    /\ app = [p \in Peer |-> "run"]
    /\ waitFor = [p \in Peer |-> 0]
    /\ signal = [p \in Peer |-> {}]
    /\ sent = [p \in Peer |-> <<>>]
    /\ recvs = [p \in Peer |-> <<>>]
    /\ sendPosted = [p \in Peer |-> <<>>]
    /\ mSendQueue = [p \in Peer |-> <<>>]
    /\ pushing = [p \in Peer |-> FALSE]
    /\ sender = [p \in Peer |-> "idle"]
    /\ wire = [p \in Peer |-> <<>>]
    /\ recvPosted = [p \in Peer |-> <<>>]
    /\ mRecvQueue = [p \in Peer |-> <<>>]
    /\ reader = [p \in Peer |-> "idle"]
    /\ body = [p \in Peer |-> 0]
    /\ got = [p \in Peer |-> <<>>]
    /\ lost = FALSE
    /\ crashed = [p \in Peer |-> FALSE]
    /\ mOutstandingSendData = [p \in Peer |-> 0]
    /\ mMaxOutstandingSendData = [p \in Peer |-> 0]
    /\ mTotalSentData = [p \in Peer |-> 0]
    /\ loaded = [p \in Peer |-> 0]
    /\ reported = [p \in Peer |-> 0]

-----------------------------------------------------------------------------
(* The calls of the user's thread.                                         *)

\* Both forms of asyncSend, and send when sync.  (A message of size 0 is
\* refused by dispatch, which throws to the caller and changes nothing.)
PostSend(p, size, sync) ==
    /\ CanCall(p)
    /\ Len(sent[p]) < MaxSend[p]
    /\ sent' = [sent EXCEPT ![p] = Append(@, size)]
    /\ sendPosted' = [sendPosted EXCEPT
                        ![p] = Append(@, SendOp(Len(sent[p]) + 1, sync))]
    /\ UNCHANGED <<waitFor, signal, recvs, mSendQueue, pushing, sender,
                   recvVars, netVars, statVars, pollVars>>

AsyncSend(p, size) ==
    /\ PostSend(p, size, FALSE)
    /\ UNCHANGED app

Send(p, size) ==
    /\ PostSend(p, size, TRUE)
    /\ app' = [app EXCEPT ![p] = "sending"]

SendReturn(p) ==
    /\ app[p] = "sending" /\ ~ crashed[p]
    /\ "send" \in signal[p]
    /\ app' = [app EXCEPT ![p] = "run"]
    /\ signal' = [signal EXCEPT ![p] = @ \ {"send"}]
    /\ UNCHANGED <<waitFor, histVars, sendVars, recvVars, netVars, statVars,
                   pollVars>>

\* Both forms of asyncRecv.  recv is asyncRecv, then FutureGet on its future.
AsyncRecv(p, size) ==
    /\ CanCall(p)
    /\ Len(recvs[p]) < MaxRecv[p]
    /\ recvs' = [recvs EXCEPT ![p] = Append(@, size)]
    /\ recvPosted' = [recvPosted EXCEPT
                        ![p] = Append(@, RecvOp(Len(recvs[p]) + 1))]
    /\ UNCHANGED <<appVars, signal, sent, sendVars, mRecvQueue, reader, body,
                   got, netVars, statVars, pollVars>>

FutureGet(p, n) ==
    /\ CanCall(p)
    /\ n \in 1..Len(recvs[p]) /\ ~ Ready(p, n)
    /\ app' = [app EXCEPT ![p] = "waiting"]
    /\ waitFor' = [waitFor EXCEPT ![p] = n]
    /\ UNCHANGED <<signal, histVars, sendVars, recvVars, netVars, statVars,
                   pollVars>>

FutureReturn(p) ==
    /\ app[p] = "waiting" /\ ~ crashed[p]
    /\ Ready(p, waitFor[p])
    /\ app' = [app EXCEPT ![p] = "run"]
    /\ waitFor' = [waitFor EXCEPT ![p] = 0]
    /\ UNCHANGED <<signal, histVars, sendVars, recvVars, netVars, statVars,
                   pollVars>>

\* close: set mStopped and post an operation to the end of either queue.
Close(p) ==
    /\ CanCall(p)
    /\ app' = [app EXCEPT ![p] = "closing"]
    /\ recvPosted' = [recvPosted EXCEPT
                        ![p] = Append(@, CloseRecvOp(Len(recvs[p]) + 1))]
    /\ sendPosted' = [sendPosted EXCEPT
                        ![p] = Append(@, CloseSendOp(Len(sent[p]) + 1))]
    /\ UNCHANGED <<waitFor, signal, histVars, mSendQueue, pushing, sender,
                   mRecvQueue, reader, body, got, netVars, statVars, pollVars>>

\* What close() waits for.  (CloseAwaitsSends forgets the receives.)
CloseAwaitsSends == {"closeSend"}
CloseAwaits == {"closeSend", "closeRecv"}

\* Both promises are set: close the socket; the endpoint then destroys the
\* channel and its socket.
CloseReturn(p) ==
    /\ app[p] = "closing" /\ ~ crashed[p]
    /\ CloseAwaits \subseteq signal[p]
    /\ app' = [app EXCEPT ![p] = "closed"]
    /\ UNCHANGED <<waitFor, signal, histVars, sendVars, recvVars, netVars,
                   statVars, pollVars>>

\* getTotalDataSent reads the counter and then, in a second access, clears it.
GetTotalLoad(p) ==
    /\ p \in Pollers
    /\ CanCall(p)
    /\ app' = [app EXCEPT ![p] = "polling"]
    /\ loaded' = [loaded EXCEPT ![p] = mTotalSentData[p]]
    /\ UNCHANGED <<waitFor, signal, histVars, sendVars, recvVars, netVars,
                   statVars, reported>>

\* (NotCleared forgets the second access.)
NotCleared(p) == mTotalSentData[p]
Cleared(p) == 0

GetTotalClear(p) ==
    /\ app[p] = "polling" /\ ~ crashed[p]
    /\ app' = [app EXCEPT ![p] = "run"]
    /\ mTotalSentData' = [mTotalSentData EXCEPT ![p] = Cleared(p)]
    /\ reported' = [reported EXCEPT ![p] = @ + loaded[p]]
    /\ loaded' = [loaded EXCEPT ![p] = 0]
    /\ UNCHANGED <<waitFor, signal, histVars, sendVars, recvVars, netVars,
                   mOutstandingSendData, mMaxOutstandingSendData>>

-----------------------------------------------------------------------------
(* mSendStrand and the completion of async_write.                          *)

\* What the size of an operation adds to the counters; close() posts size 0.
SizeOf(p, op) == IF op.type = "SendData" THEN sent[p][op.n] ELSE 0

\* What the posted handler adds to the counters.  (UncountedAsync forgets the
\* sends that have no promise.)
UncountedAsync(p, op) == IF op.sync THEN SizeOf(p, op) ELSE 0
Counted(p, op) == SizeOf(p, op)

\* A completion fulfils the promise of its own operation, if it has one.
\* (FulfilsAny takes any completion for the awaited one.)
FulfilsAny(op) == TRUE
FulfilsSend(op) == op.sync

\* A queue that is not empty after a pop is served further.  (HasTwo is off by
\* one.)
HasTwo(queue) == Len(queue) > 1
HasMore(queue) == queue # <<>>

\* (StartAlways forgets that a chain is running, StartOnEmpty asks before the
\* operation is queued.)
StartAlways(queue) == Len(queue) >= 1
StartOnEmpty(queue) == Len(queue) = 0
\* Only the handler that made the queue non-empty starts the chain.
StartSending(queue) == Len(queue) = 1

\* sendOne: begin the write of the operation in front, or, when it is the one
\* close() posted, take it out and fulfil its promise.
SendOne(p, queue) ==
    \/ /\ Head(queue).type = "SendData"
       /\ mSendQueue' = [mSendQueue EXCEPT ![p] = queue]
       /\ sender' = [sender EXCEPT ![p] = "header"]
       /\ UNCHANGED signal
    \/ /\ Head(queue).type = "CloseSend"
       /\ mSendQueue' = [mSendQueue EXCEPT ![p] = Tail(queue)]
       /\ sender' = [sender EXCEPT ![p] = "idle"]
       /\ signal' = [signal EXCEPT ![p] = @ \cup {"closeSend"}]

\* The posted handler: queue the operation and count it.
PushSend(p) ==
    /\ sendPosted[p] # <<>> /\ ~ pushing[p] /\ ~ crashed[p]
    /\ LET op == Head(sendPosted[p]) IN
         /\ mSendQueue' = [mSendQueue EXCEPT ![p] = Append(@, op)]
         /\ mTotalSentData' = [mTotalSentData EXCEPT ![p] = @ + Counted(p, op)]
         /\ mOutstandingSendData' =
                [mOutstandingSendData EXCEPT ![p] = @ + Counted(p, op)]
    /\ sendPosted' = [sendPosted EXCEPT ![p] = Tail(@)]
    /\ pushing' = [pushing EXCEPT ![p] = TRUE]
    /\ UNCHANGED <<appVars, signal, histVars, sender, recvVars, netVars,
                   mMaxOutstandingSendData, pollVars>>

\* The rest of the handler.  A completion may have lowered the counter
\* between the two.
KickSend(p) ==
    /\ pushing[p] /\ ~ crashed[p]
    /\ pushing' = [pushing EXCEPT ![p] = FALSE]
    /\ mMaxOutstandingSendData' =
           [mMaxOutstandingSendData EXCEPT ![p] = MaxOf(mOutstandingSendData[p], @)]
    /\ \/ StartSending(mSendQueue[p]) /\ SendOne(p, mSendQueue[p])
       \/ ~ StartSending(mSendQueue[p]) /\ UNCHANGED <<mSendQueue, sender, signal>>
    /\ UNCHANGED <<appVars, histVars, sendPosted, recvVars, netVars,
                   mOutstandingSendData, mTotalSentData, pollVars>>

\* The parts the connection has to hold: the one the other end is reading is
\* taken out as it arrives.
Held(p, parts) ==
    IF parts # <<>> /\ reader[Other(p)] = Head(parts).part THEN Tail(parts) ELSE parts

\* The buffers of the two sockets take what there is room for; the rest of a
\* write waits until the other end reads.  A write to an end that has gone
\* does not wait: it is accepted or answered by a reset.
HasRoom(p, part) ==
    LET held == Held(p, Append(wire[p], part)) IN
      \/ Total([i \in 1..Len(held) |-> PartSize(p, held[i])]) <= Room[p]
      \/ Gone(Other(p))

\* async_write hands the frame to the connection, not all at once.
WriteHeader(p) ==
    /\ sender[p] = "header" /\ ~ crashed[p] /\ ~ lost
    /\ HasRoom(p, Header(Head(mSendQueue[p]).n))
    /\ wire' = [wire EXCEPT ![p] = Append(@, Header(Head(mSendQueue[p]).n))]
    /\ sender' = [sender EXCEPT ![p] = "body"]
    /\ UNCHANGED <<appVars, signal, histVars, sendPosted, mSendQueue, pushing,
                   recvVars, lost, crashed, statVars, pollVars>>

WriteBody(p) ==
    /\ sender[p] = "body" /\ ~ crashed[p] /\ ~ lost
    /\ HasRoom(p, Body(Head(mSendQueue[p]).n))
    /\ wire' = [wire EXCEPT ![p] = Append(@, Body(Head(mSendQueue[p]).n))]
    /\ sender' = [sender EXCEPT ![p] = "written"]
    /\ UNCHANGED <<appVars, signal, histVars, sendPosted, mSendQueue, pushing,
                   recvVars, lost, crashed, statVars, pollVars>>

\* The completion, outside the strand: uncount the data, fulfil the promise
\* of a synchronous send.
CompleteSend(p) ==
    /\ sender[p] = "written" /\ ~ crashed[p]
    /\ LET op == Head(mSendQueue[p]) IN
         /\ mOutstandingSendData' =
                [mOutstandingSendData EXCEPT ![p] = @ - SizeOf(p, op)]
         /\ signal' = [signal EXCEPT
                         ![p] = IF FulfilsSend(op) THEN @ \cup {"send"} ELSE @]
    /\ sender' = [sender EXCEPT ![p] = "fulfilled"]
    /\ UNCHANGED <<appVars, histVars, sendPosted, mSendQueue, pushing,
                   recvVars, netVars, mMaxOutstandingSendData, mTotalSentData,
                   pollVars>>

\* The handler the completion dispatches to the strand.  It came from an io
\* thread, so its place among the handlers the user's thread posted is open.
PopSend(p) ==
    /\ sender[p] = "fulfilled" /\ ~ pushing[p] /\ ~ crashed[p]
    /\ LET rest == Tail(mSendQueue[p]) IN
         \/ /\ HasMore(rest)
            /\ SendOne(p, rest)
         \/ /\ ~ HasMore(rest)
            /\ mSendQueue' = [mSendQueue EXCEPT ![p] = rest]
            /\ sender' = [sender EXCEPT ![p] = "idle"]
            /\ UNCHANGED signal
    /\ UNCHANGED <<appVars, histVars, sendPosted, pushing, recvVars, netVars,
                   statVars, pollVars>>

-----------------------------------------------------------------------------
(* mRecvStrand and the completions of async_read.                          *)

StartRecving(queue) == Len(queue) = 1

\* receiveOne: begin the read of a header, or fulfil the promise of close().
ReceiveOne(p, queue) ==
    \/ /\ Head(queue).type = "RecvData"
       /\ mRecvQueue' = [mRecvQueue EXCEPT ![p] = queue]
       /\ reader' = [reader EXCEPT ![p] = "header"]
       /\ UNCHANGED signal
    \/ /\ Head(queue).type = "CloseRecv"
       /\ mRecvQueue' = [mRecvQueue EXCEPT ![p] = Tail(queue)]
       /\ reader' = [reader EXCEPT ![p] = "idle"]
       /\ signal' = [signal EXCEPT ![p] = @ \cup {"closeRecv"}]

PushRecv(p) ==
    /\ recvPosted[p] # <<>> /\ ~ crashed[p]
    /\ LET queue == Append(mRecvQueue[p], Head(recvPosted[p])) IN
         \/ StartRecving(queue) /\ ReceiveOne(p, queue)
         \/ /\ ~ StartRecving(queue)
            /\ mRecvQueue' = [mRecvQueue EXCEPT ![p] = queue]
            /\ UNCHANGED <<reader, signal>>
    /\ recvPosted' = [recvPosted EXCEPT ![p] = Tail(@)]
    /\ UNCHANGED <<appVars, histVars, sendVars, body, got, netVars, statVars,
                   pollVars>>

\* The size in the header at the head of the connection fits the buffer of
\* the receive in front.
Fits(p) ==
    recvs[p][Head(mRecvQueue[p]).n] \in
        {AnySize, sent[Other(p)][Head(wire[Other(p)]).n]}

\* Four bytes have arrived and are taken for a size that fits.
ReadHeader(p) ==
    /\ reader[p] = "header" /\ ~ crashed[p]
    /\ wire[Other(p)] # <<>> /\ Fits(p)
    /\ wire' = [wire EXCEPT ![Other(p)] = Tail(@)]
    /\ reader' = [reader EXCEPT ![p] = "body"]
    /\ UNCHANGED <<appVars, signal, histVars, sendVars, recvPosted, mRecvQueue,
                   body, got, lost, crashed, statVars, pollVars>>

\* It does not fit: the future gets BadReceiveBufferSize, and the completion
\* returns there.  Nothing pops the queue and nothing reads the body.
RefuseHeader(p) ==
    /\ reader[p] = "header" /\ ~ crashed[p]
    /\ wire[Other(p)] # <<>> /\ ~ Fits(p)
    /\ wire' = [wire EXCEPT ![Other(p)] = Tail(@)]
    /\ got' = [got EXCEPT ![p] =
                 Append(@, [recv |-> Head(mRecvQueue[p]).n, msg |-> Refused])]
    /\ reader' = [reader EXCEPT ![p] = "failed"]
    /\ UNCHANGED <<appVars, signal, histVars, sendVars, recvPosted, mRecvQueue,
                   body, lost, crashed, statVars, pollVars>>

ReadBody(p) ==
    /\ reader[p] = "body" /\ ~ crashed[p]
    /\ wire[Other(p)] # <<>>
    /\ body' = [body EXCEPT ![p] = Head(wire[Other(p)]).n]
    /\ wire' = [wire EXCEPT ![Other(p)] = Tail(@)]
    /\ reader' = [reader EXCEPT ![p] = "read"]
    /\ UNCHANGED <<appVars, signal, histVars, sendVars, recvPosted, mRecvQueue,
                   got, lost, crashed, statVars, pollVars>>

\* The completion, outside the strand, fulfils the promise.
CompleteRecv(p) ==
    /\ reader[p] = "read" /\ ~ crashed[p]
    /\ got' = [got EXCEPT ![p] =
                 Append(@, [recv |-> Head(mRecvQueue[p]).n, msg |-> body[p]])]
    /\ reader' = [reader EXCEPT ![p] = "fulfilled"]
    /\ UNCHANGED <<appVars, signal, histVars, sendVars, recvPosted, mRecvQueue,
                   body, netVars, statVars, pollVars>>

PopRecv(p) ==
    /\ reader[p] = "fulfilled" /\ ~ crashed[p]
    /\ LET rest == Tail(mRecvQueue[p]) IN
         \/ /\ HasMore(rest)
            /\ ReceiveOne(p, rest)
         \/ /\ ~ HasMore(rest)
            /\ mRecvQueue' = [mRecvQueue EXCEPT ![p] = rest]
            /\ reader' = [reader EXCEPT ![p] = "idle"]
            /\ UNCHANGED signal
    /\ UNCHANGED <<appVars, histVars, sendVars, recvPosted, body, got, netVars,
                   statVars, pollVars>>

-----------------------------------------------------------------------------
(* The connection, once an end of it is gone.                              *)

\* The end that is gone had not read everything: TCP resets the connection,
\* and what the other end has not read is lost as well.
Reset(p) ==
    /\ Gone(Other(p)) /\ wire[p] # <<>> /\ ~ lost
    /\ lost' = TRUE
    /\ wire' = [q \in Peer |-> <<>>]
    /\ UNCHANGED <<appVars, signal, histVars, sendVars, recvVars, crashed,
                   statVars, pollVars>>

\* A read at the end of the stream, or a write after a reset, completes with
\* an error code; the completion throws on the io thread.
IOError(p) ==
    /\ ~ crashed[p]
    /\ \/ /\ reader[p] \in {"header", "body"}
          /\ Gone(Other(p)) /\ wire[Other(p)] = <<>>
       \/ /\ sender[p] \in {"header", "body"}
          /\ lost
    /\ crashed' = [crashed EXCEPT ![p] = TRUE]
    /\ UNCHANGED <<appVars, signal, histVars, sendVars, recvVars, wire, lost,
                   statVars, pollVars>>

-----------------------------------------------------------------------------
\* What the user's thread decides to call.
Call(p) ==
    \/ \E s \in Size : AsyncSend(p, s)
    \/ \E s \in Size : Send(p, s)
    \/ \E s \in Expected : AsyncRecv(p, s)
    \/ \E n \in 1..MaxRecv[p] : FutureGet(p, n)
    \/ Close(p)
    \/ GetTotalLoad(p)

\* A call that has begun returns once what it waits for has happened.
Return(p) == SendReturn(p) \/ FutureReturn(p) \/ CloseReturn(p) \/ GetTotalClear(p)

\* The io threads.
SendStep(p) ==
    \/ PushSend(p) \/ KickSend(p) \/ WriteHeader(p) \/ WriteBody(p)
    \/ CompleteSend(p) \/ PopSend(p)

RecvStep(p) ==
    \/ PushRecv(p) \/ ReadHeader(p) \/ RefuseHeader(p) \/ ReadBody(p)
    \/ CompleteRecv(p) \/ PopRecv(p)

NetStep(p) == Reset(p) \/ IOError(p)

Next ==
    \E p \in Peer :
        Call(p) \/ Return(p) \/ SendStep(p) \/ RecvStep(p) \/ NetStep(p)

Spec == Init /\ [][Next]_vars

\* The io threads run every handler that is ready (the threads outlive every
\* channel: BtIOService::stop joins them after all channels are removed), the
\* kernel moves data for which there is room and reports errors, and a thread
\* that is woken goes on.  Nobody is bound to make a call: an end may never
\* receive, and a write without room then waits for ever.
Fairness ==
    \A p \in Peer :
        /\ WF_vars(Return(p))
        /\ WF_vars(PushSend(p)) /\ WF_vars(KickSend(p) \/ WriteHeader(p) \/ WriteBody(p)
                                            \/ CompleteSend(p) \/ PopSend(p))
        /\ WF_vars(PushRecv(p)) /\ WF_vars(ReadHeader(p) \/ RefuseHeader(p) \/ ReadBody(p)
                                            \/ CompleteRecv(p) \/ PopRecv(p))
        /\ WF_vars(IOError(p))

FairSpec == Spec /\ Fairness

-----------------------------------------------------------------------------
(* Properties.                                                             *)

Op == [type : {"SendData", "CloseSend"}, n : Nat, sync : BOOLEAN]
ROp == [type : {"RecvData", "CloseRecv"}, n : Nat]
Part == [part : {"header", "body"}, n : Nat]
Result == [recv : Nat, msg : Nat]

\* The types of everything but the counters.
ChannelTypeOK ==
    /\ app \in [Peer -> {"run", "sending", "waiting", "closing", "closed",
                         "polling"}]
    /\ waitFor \in [Peer -> Nat]
    /\ signal \in [Peer -> SUBSET {"send", "closeSend", "closeRecv"}]
    /\ sent \in [Peer -> Seq(Size)]
    /\ recvs \in [Peer -> Seq(Expected)]
    /\ sendPosted \in [Peer -> Seq(Op)]
    /\ mSendQueue \in [Peer -> Seq(Op)]
    /\ pushing \in [Peer -> BOOLEAN]
    /\ sender \in [Peer -> {"idle", "header", "body", "written", "fulfilled"}]
    /\ wire \in [Peer -> Seq(Part)]
    /\ recvPosted \in [Peer -> Seq(ROp)]
    /\ mRecvQueue \in [Peer -> Seq(ROp)]
    /\ reader \in [Peer -> {"idle", "header", "body", "read", "fulfilled",
                            "failed"}]
    /\ body \in [Peer -> Nat]
    /\ got \in [Peer -> Seq(Result)]
    /\ lost \in BOOLEAN
    /\ crashed \in [Peer -> BOOLEAN]

\* Type invariant of every variable; in particular the unsigned counter
\* mOutstandingSendData never wraps below 0.
TypeOK ==
    /\ ChannelTypeOK
    /\ mOutstandingSendData \in [Peer -> Nat]
    /\ mMaxOutstandingSendData \in [Peer -> Nat]
    /\ mTotalSentData \in [Peer -> Nat]
    /\ loaded \in [Peer -> Nat]
    /\ reported \in [Peer -> Nat]

Sizes(p, ops) == [i \in 1..Len(ops) |-> SizeOf(p, ops[i])]

\* The operations in mSendQueue whose write has not completed.
Unsent(p) == IF sender[p] = "fulfilled" THEN Tail(mSendQueue[p]) ELSE mSendQueue[p]

\* mOutstandingSendData is exactly the data in mSendQueue whose write has not
\* completed, so it is 0 when the channel is idle and never wraps.
OutstandingExact ==
    \A p \in Peer : mOutstandingSendData[p] = Total(Sizes(p, Unsent(p)))

\* getTotalDataSent never reports a byte twice: what it has returned, what it
\* would still return and what no handler has counted yet are at most what was
\* sent.  (It may lose bytes: its two accesses are not atomic.)
ReportedOnce ==
    \A p \in Peer :
        reported[p] + mTotalSentData[p] + Total(Sizes(p, sendPosted[p]))
            <= Total(sent[p])

\* The k-th receive issued at an end completes k-th and holds message k of
\* the other end, header and body of the same frame, or it was refused and
\* nothing completed after it (the queues, the strands and the two reads per
\* message of receiveOne keep the order of asyncSend and asyncRecv).
Fifo ==
    \A p \in Peer : \A i \in 1..Len(got[p]) :
        /\ got[p][i].recv = i
        /\ got[p][i].msg \in {i, Refused}
        /\ got[p][i].msg = Refused => i = Len(got[p])

\* When close() destroys the socket no strand handler, completion or queued
\* operation that refers to it is left (BtChannel::close after its promises).
CloseDrained ==
    \A p \in Peer : app[p] = "closed" =>
        /\ sendPosted[p] = <<>> /\ mSendQueue[p] = <<>> /\ recvPosted[p] = <<>>
        /\ mRecvQueue[p] = <<>>
        /\ sender[p] = "idle" /\ reader[p] = "idle" /\ ~ pushing[p]

\* When the promise of a synchronous send is set, that message and all the
\* asynchronous ones before it are written: the buffers may be reused.
SyncSendFlushes ==
    \A p \in Peer : "send" \in signal[p] =>
        /\ sendPosted[p] = <<>>
        /\ Len(mSendQueue[p]) <= 1
        /\ mSendQueue[p] # <<>> => sender[p] = "fulfilled"

\* Closing one end never kills the process of the other when the two issued
\* matching numbers of sends and receives: an io thread throws only if one
\* end asks for more than was sent, or sends more than was asked for.
CloseIsGraceful ==
    \A p \in Peer : crashed[p] =>
        \/ Len(recvs[p]) > Len(sent[Other(p)])
        \/ Len(sent[p]) > Len(recvs[Other(p)])

\* What p asked for was sent: the other end issued a message of the expected
\* size for every receive.
Supplied(p) ==
    /\ Len(sent[Other(p)]) >= Len(recvs[p])
    /\ \A i \in 1..Len(recvs[p]) : recvs[p][i] \in {AnySize, sent[Other(p)][i]}

\* What p sent is asked for, up to a rest for whose frames there is room.
Wanted(p) ==
    \E n \in 0..Len(sent[p]) :
        /\ n <= Len(recvs[Other(p)])
        /\ \A i \in 1..n : recvs[Other(p)][i] \in {AnySize, sent[p][i]}
        /\ Total([i \in 1..(Len(sent[p]) - n) |-> HeaderSize + sent[p][n + i]])
               <= Room[p]

\* close() drains both queues: it returns if what this end asked for was sent
\* and what it sent is asked for or fits the connection, whatever both ends
\* do besides; or the process dies.  (The operations close() posts wait for
\* every async_read and async_write before them.)
CloseReturns ==
    \A p \in Peer : (app[p] = "closing" /\ Supplied(p) /\ Wanted(p)) ~> Gone(p)

\* A synchronous send returns if it and the sends queued before it are asked
\* for or fit the connection, in whatever order receives and sends are
\* issued: its promise is set by the completion of its own async_write.
SendReturns ==
    \A p \in Peer :
        (app[p] = "sending" /\ Wanted(p)) ~> (app[p] # "sending" \/ crashed[p])

\* The comments of dispatch and receiveOne: the recvs behind the first one
\* are kicked off at its completion, an exception being thrown once the recv
\* is done.  So a receive whose message has been sent completes.
EveryRecvCompletes ==
    \A p \in Peer : \A n \in 1..MaxRecv[p] :
        (n <= Len(recvs[p]) /\ n <= Len(sent[Other(p)]))
            ~> (Ready(p, n) \/ crashed[p] \/ crashed[Other(p)])

\* The detailed channel implements the FIFO channel its users see.
Abstract ==
    INSTANCE FifoChannel WITH
        sent <- [p \in Peer |-> Len(sent[p])],
        wanted <- [p \in Peer |-> Len(recvs[p])],
        received <- [p \in Peer |-> [i \in 1..Len(got[p]) |-> got[p][i].msg]],
        open <- [p \in Peer |-> ~ Gone(p)]

\* Every step is a step of the FIFO channel or invisible to the users, also
\* when receives are refused.
ChannelSteps == Abstract!Spec

\* Every step is a step of the FIFO channel or invisible to the users, and
\* the receive whose message was sent completes (or was refused before, or
\* the end is gone).
ImplementsFifoChannel == Abstract!FairSpec
=============================================================================
