----------------------------- MODULE BtEndpoint -----------------------------
(***************************************************************************)
(* The life of channels: BtEndpoint adds, removes and outlives them,       *)
(* BtAcceptor brings the sockets of a host to the channels of their names, *)
(* BtIOService runs everything and is stopped last.                        *)
(*                                                                         *)
(* Each channel has a thread that adds it, uses it and closes it, each     *)
(* endpoint one that stops it, each service one that stops it.  What a     *)
(* channel does in between is BtSocketIO; here it is the number of its     *)
(* operations that have not completed, which keep the io threads at work.  *)
(* An endpoint uses a name, and a pair of names, for one channel.          *)
(***************************************************************************)
EXTENDS Naturals, FiniteSets

CONSTANTS
    Service, Endpoint, Channel,
    ServiceOf,      \* ServiceOf[e]: mIOService
    Host,           \* the endpoints with mHost; those of a service share a port
    Server,         \* Server[e]: for a client, the service of the host it connects to
    Name,           \* Name[e]: mName
    EndpointOf, Local, Remote,  \* of a channel: mEndpoint, mLocalName, mRemoteName
    MaxOps,         \* the most operations a channel has outstanding (a bound)
    EarlyStop,      \* stops do not wait for other threads' calls (see below)
    ShortReads      \* async_receive may deliver less than was asked for

Hosted == {c \in Channel : EndpointOf[c] \in Host}
Client == Channel \ Hosted
ServiceFor(c) == ServiceOf[EndpointOf[c]]
ServerFor(c) == Server[EndpointOf[c]]
ChannelsOf(e) == {c \in Channel : EndpointOf[c] = e}
EndpointsOf(s) == {e \in Endpoint : ServiceOf[e] = s}
Listens(s) == EndpointsOf(s) \cap Host # {}

\* The key of mSocketPromises that getSocket looks for, and the one that the
\* handshake of a client leads to.  (Unswapped does not exchange the names.)
Tag(c) == <<Name[EndpointOf[c]], Local[c], Remote[c]>>
Unswapped(k) == <<Name[EndpointOf[k]], Local[k], Remote[k]>>
HandshakeTag(k) == <<Name[EndpointOf[k]], Remote[k], Local[k]>>

\* A hosted channel and a client that name each other.
Ends(c, k) ==
    /\ ServerFor(k) = ServiceFor(c) /\ Name[EndpointOf[k]] = Name[EndpointOf[c]]
    /\ Local[c] = Remote[k] /\ Remote[c] = Local[k]

ASSUME EndpointAssumption ==
    /\ ServiceOf \in [Endpoint -> Service] /\ Host \subseteq Endpoint
    /\ Server \in [Endpoint -> Service]
    /\ \A e \in Endpoint \ Host : Listens(Server[e])
    /\ EndpointOf \in [Channel -> Endpoint]
    /\ MaxOps \in Nat \ {0}
    /\ EarlyStop \in BOOLEAN /\ ShortReads \in BOOLEAN
ASSUME NamesAssumption ==
    /\ \A c, d \in Channel : EndpointOf[c] = EndpointOf[d] /\ Local[c] = Local[d] => c = d
    /\ \A c \in Hosted : \E k \in Client :
            Ends(c, k) /\ \A m \in Client : Ends(c, m) => m = k
    /\ \A k \in Client : \E c \in Hosted :
            Ends(c, k) /\ \A d \in Hosted : Ends(d, k) => d = c

NoChannel == "none"
ASSUME NoChannelAssumption == {NoChannel, "pending", "ended"} \cap Channel = {}

VARIABLES
    serviceStop,    \* how far BtIOService::stop is
    worker,         \* mWorker: what keeps the io threads in run() when idle
    runs,           \* the io threads are in run()
    accepting,      \* the accept chain: "none", "pending", "ended", or a client
    accStopped,     \* BtAcceptor::mStopped, and its handle closed
    accAlive,       \* the acceptor has not been destroyed
    shake,          \* how far a client's connection is at the acceptor
    given,          \* given[s]: mSocketPromises with a socket, pairs <<tag, client>>
    mStopped,       \* of endpoints
    mChannels,
    done,           \* how often mDoneProm was set
    endpointStop,   \* BtEndpoint::stop: "no", "waits", "returned"
    chan,           \* what the thread of a channel does
    mSocket,        \* of a hosted channel: the client whose connection it got
    ops,            \* the operations outstanding
    named           \* of a client: the handshake has been written

serviceVars == <<serviceStop, worker>>
acceptorVars == <<accepting, accStopped, accAlive, shake, given>>
endpointVars == <<mStopped, mChannels, done, endpointStop>>
channelVars == <<chan, mSocket, ops, named>>
vars == <<serviceVars, runs, acceptorVars, endpointVars, channelVars>>

\* The endpoints have been constructed: acceptors are bound, listen and wait
\* for the first connection.
Init ==
    /\ serviceStop = [s \in Service |-> "no"]
    /\ worker = [s \in Service |-> TRUE]
    /\ runs = [s \in Service |-> TRUE]
    /\ accepting = [s \in Service |-> IF Listens(s) THEN "pending" ELSE "none"]
    /\ accStopped = [s \in Service |-> FALSE]
    /\ accAlive = [s \in Service |-> Listens(s)]
    /\ shake = [k \in Client |-> "no"]
    /\ given = [s \in Service |-> {}]
    /\ mStopped = [e \in Endpoint |-> FALSE]
    /\ mChannels = [e \in Endpoint |-> {}]
    /\ done = [e \in Endpoint |-> 0]
    /\ endpointStop = [e \in Endpoint |-> "no"]
    /\ chan = [c \in Channel |-> "new"]
    /\ mSocket = [c \in Hosted |-> NoChannel]
    /\ ops = [c \in Channel |-> 0]
    /\ named = [k \in Client |-> FALSE]

-----------------------------------------------------------------------------
(* The thread of a channel.                                                *)

ListChannel(c) ==
    LET e == EndpointOf[c] IN
    /\ chan[c] = "new" /\ ~ mStopped[e]
    /\ chan' = [chan EXCEPT ![c] = "listed"]
    /\ mChannels' = [mChannels EXCEPT ![e] = @ \cup {c}]
    /\ UNCHANGED <<serviceVars, runs, acceptorVars, mStopped, done, endpointStop,
                   mSocket, ops, named>>

\* addChannel throws.
RefuseChannel(c) ==
    /\ chan[c] = "new" /\ mStopped[EndpointOf[c]]
    /\ chan' = [chan EXCEPT ![c] = "refused"]
    /\ UNCHANGED <<serviceVars, runs, acceptorVars, endpointVars, mSocket, ops, named>>

\* A host waits for the socket of its name.
GetSocket(c) ==
    /\ c \in Hosted /\ chan[c] = "listed"
    /\ \E k \in Client :
        /\ <<Tag(c), k>> \in given[ServiceFor(c)]
        /\ mSocket' = [mSocket EXCEPT ![c] = k]
    /\ chan' = [chan EXCEPT ![c] = "open"]
    /\ UNCHANGED <<serviceVars, runs, acceptorVars, endpointVars, ops, named>>

\* A client connects, once the other end listens, and sends its names.
Connect(k) ==
    /\ k \in Client /\ chan[k] = "listed"
    /\ accAlive[ServerFor(k)] /\ ~ accStopped[ServerFor(k)]
    /\ shake' = [shake EXCEPT ![k] = "connected"]
    /\ ops' = [ops EXCEPT ![k] = 1]
    /\ chan' = [chan EXCEPT ![k] = "open"]
    /\ UNCHANGED <<serviceVars, runs, accepting, accStopped, accAlive, given,
                   endpointVars, mSocket, named>>

\* Any operation of the channel, BtSocketIO's AsyncSend for one.
Post(c) ==
    /\ chan[c] = "open" /\ ops[c] < MaxOps
    /\ ops' = [ops EXCEPT ![c] = @ + 1]
    /\ UNCHANGED <<serviceVars, runs, acceptorVars, endpointVars, chan, mSocket, named>>

\* The operations of a channel complete in order, on an io thread; a client's
\* first is the handshake.
Complete(c) ==
    /\ runs[ServiceFor(c)] /\ ops[c] > 0
    /\ ops' = [ops EXCEPT ![c] = @ - 1]
    /\ named' = IF c \in Client THEN [named EXCEPT ![c] = TRUE] ELSE named
    /\ UNCHANGED <<serviceVars, runs, acceptorVars, endpointVars, chan, mSocket>>

\* close posts the last operations.
Close(c) ==
    /\ chan[c] = "open"
    /\ ops' = [ops EXCEPT ![c] = @ + 1]
    /\ chan' = [chan EXCEPT ![c] = "closing"]
    /\ UNCHANGED <<serviceVars, runs, acceptorVars, endpointVars, mSocket, named>>

\* Whether the removal of a channel sets the endpoint's promise.  (Eager does
\* not ask whether stop was called, AnyLast not whether others are left.)
Eager(e, left) == left = {}
AnyLast(e, left) == mStopped[e]
RemovesLast(e, left) == mStopped[e] /\ left = {}

\* close continues with removeChannel when all operations have completed.
RemoveChannel(c) ==
    LET e == EndpointOf[c] IN
    /\ chan[c] = "closing" /\ ops[c] = 0
    /\ mChannels' = [mChannels EXCEPT ![e] = @ \ {c}]
    /\ done' = IF RemovesLast(e, mChannels'[e]) THEN [done EXCEPT ![e] = @ + 1] ELSE done
    /\ chan' = [chan EXCEPT ![c] = "closed"]
    /\ UNCHANGED <<serviceVars, runs, acceptorVars, mStopped, endpointStop,
                   mSocket, ops, named>>

-----------------------------------------------------------------------------
(* Stopping an endpoint, when the threads of its channels have added them; *)
(* with EarlyStop, at any time.                                            *)

StopEndpoint(e) ==
    /\ endpointStop[e] = "no"
    /\ EarlyStop \/ \A c \in ChannelsOf(e) : chan[c] \notin {"new", "listed"}
    /\ mStopped' = [mStopped EXCEPT ![e] = TRUE]
    /\ done' = IF ~ mStopped[e] /\ mChannels[e] = {} THEN [done EXCEPT ![e] = @ + 1] ELSE done
    /\ endpointStop' = [endpointStop EXCEPT ![e] = "waits"]
    /\ UNCHANGED <<serviceVars, runs, acceptorVars, mChannels, channelVars>>

StopReturns(e) ==
    /\ endpointStop[e] = "waits" /\ done[e] > 0
    /\ endpointStop' = [endpointStop EXCEPT ![e] = "returned"]
    /\ UNCHANGED <<serviceVars, runs, acceptorVars, mStopped, mChannels, done, channelVars>>

-----------------------------------------------------------------------------
(* Stopping a service, when its endpoints have been stopped; with          *)
(* EarlyStop, as soon as nobody is adding a channel or being accepted.     *)

MayStop(s) ==
    IF EarlyStop
    THEN /\ \A c \in Channel : chan[c] \notin {"new", "listed"}
         /\ \A k \in Client : shake[k] \in {"no", "done", "lost"}
    ELSE \A e \in EndpointsOf(s) : endpointStop[e] = "returned"

\* mWorker is destroyed and the acceptor's handle closed: connections nobody
\* has accepted are reset.
StopService(s) ==
    /\ serviceStop[s] = "no" /\ MayStop(s)
    /\ worker' = [worker EXCEPT ![s] = FALSE]
    /\ accStopped' = [accStopped EXCEPT ![s] = TRUE]
    /\ shake' = [k \in Client |-> IF ServerFor(k) = s /\ shake[k] = "connected"
                                  THEN "reset" ELSE shake[k]]
    /\ serviceStop' = [serviceStop EXCEPT ![s] = "clears"]
    /\ UNCHANGED <<runs, accepting, accAlive, given, endpointVars, channelVars>>

\* mAcceptors.clear: the destructor waits for the end of the accept chain.
\* (Hasty does not wait.)
Hasty(s) == TRUE
AcceptorQuiet(s) == accepting[s] \in {"none", "ended"}

ClearAcceptors(s) ==
    /\ serviceStop[s] = "clears" /\ AcceptorQuiet(s)
    /\ accAlive' = [accAlive EXCEPT ![s] = FALSE]
    /\ serviceStop' = [serviceStop EXCEPT ![s] = "awaits"]
    /\ UNCHANGED <<worker, runs, accepting, accStopped, shake, given, endpointVars, channelVars>>

AwaitEndpoints(s) ==
    /\ serviceStop[s] = "awaits"
    /\ \A e \in EndpointsOf(s) : done[e] > 0
    /\ serviceStop' = [serviceStop EXCEPT ![s] = "joins"]
    /\ UNCHANGED <<worker, runs, acceptorVars, endpointVars, channelVars>>

Join(s) ==
    /\ serviceStop[s] = "joins" /\ ~ runs[s]
    /\ serviceStop' = [serviceStop EXCEPT ![s] = "stopped"]
    /\ UNCHANGED <<worker, runs, acceptorVars, endpointVars, channelVars>>

-----------------------------------------------------------------------------
(* The io threads.                                                         *)

\* io_service::run returns when neither the work object nor an operation or
\* handler is left, and what is posted later is not run.
Busy(s) ==
    \/ worker[s]
    \/ accepting[s] \notin {"none", "ended"}
    \/ \E k \in Client : ServerFor(k) = s /\ shake[k] \in {"header", "names"}
    \/ \E c \in Channel : ServiceFor(c) = s /\ ops[c] > 0

LeaveRun(s) ==
    /\ runs[s] /\ ~ Busy(s)
    /\ runs' = [runs EXCEPT ![s] = FALSE]
    /\ UNCHANGED <<serviceVars, acceptorVars, endpointVars, channelVars>>

\* A connection is accepted.
Accept(k) ==
    LET s == ServerFor(k) IN
    /\ runs[s] /\ accepting[s] = "pending" /\ ~ accStopped[s]
    /\ shake[k] = "connected"
    /\ accepting' = [accepting EXCEPT ![s] = k]
    /\ shake' = [shake EXCEPT ![k] = "accepted"]
    /\ UNCHANGED <<serviceVars, runs, accStopped, accAlive, given, endpointVars, channelVars>>

\* start: goes on accepting, or ends the chain.  (NoRestart accepts once.)
NoRestart(s) == "ended"
Restarted(s) == IF accStopped[s] THEN "ended" ELSE "pending"

\* The completion of the accept: start, and the header of the handshake.
Accepted(k) ==
    LET s == ServerFor(k) IN
    /\ runs[s] /\ accepting[s] = k
    /\ accepting' = [accepting EXCEPT ![s] = Restarted(s)]
    /\ shake' = [shake EXCEPT ![k] = "header"]
    /\ UNCHANGED <<serviceVars, runs, accStopped, accAlive, given, endpointVars, channelVars>>

\* The completion of an accept that the closing of the handle aborted.
AcceptAborted(s) ==
    /\ runs[s] /\ accepting[s] = "pending" /\ accStopped[s]
    /\ accepting' = [accepting EXCEPT ![s] = Restarted(s)]
    /\ UNCHANGED <<serviceVars, runs, accStopped, accAlive, shake, given, endpointVars, channelVars>>

ReadHeader(k) ==
    /\ runs[ServerFor(k)] /\ shake[k] = "header" /\ named[k]
    /\ shake' = [shake EXCEPT ![k] = "names"]
    /\ UNCHANGED <<serviceVars, runs, accepting, accStopped, accAlive, given,
                   endpointVars, channelVars>>

\* The socket is given to the channel of its names.
ReadNames(k) ==
    /\ runs[ServerFor(k)] /\ shake[k] = "names"
    /\ given' = [given EXCEPT ![ServerFor(k)] = @ \cup {<<HandshakeTag(k), k>>}]
    /\ shake' = [shake EXCEPT ![k] = "done"]
    /\ UNCHANGED <<serviceVars, runs, accepting, accStopped, accAlive, endpointVars, channelVars>>

\* Part of a handshake is taken for the whole, and the socket given to names
\* that nobody has.
ReadPart(k) ==
    /\ ShortReads
    /\ runs[ServerFor(k)] /\ shake[k] \in {"header", "names"} /\ named[k]
    /\ shake' = [shake EXCEPT ![k] = "lost"]
    /\ UNCHANGED <<serviceVars, runs, accepting, accStopped, accAlive, given,
                   endpointVars, channelVars>>

-----------------------------------------------------------------------------
Thread(c) ==
    ListChannel(c) \/ RefuseChannel(c) \/ GetSocket(c) \/ Connect(c) \/ Close(c) \/ RemoveChannel(c)

Stopper(e) == StopEndpoint(e) \/ StopReturns(e)

ServiceStopper(s) ==
    StopService(s) \/ ClearAcceptors(s) \/ AwaitEndpoints(s) \/ Join(s)

Handshake(k) == Accept(k) \/ Accepted(k) \/ ReadHeader(k) \/ ReadNames(k)

Next ==
    \/ \E c \in Channel : Thread(c) \/ Post(c) \/ Complete(c)
    \/ \E k \in Client : Handshake(k) \/ ReadPart(k)
    \/ \E e \in Endpoint : Stopper(e)
    \/ \E s \in Service : ServiceStopper(s) \/ AcceptAborted(s) \/ LeaveRun(s)

Spec == Init /\ [][Next]_vars

\* Every thread of the user goes through its calls (main.cpp adds, closes and
\* stops everything), io threads run what is ready.  That what was posted on a
\* channel completes supposes programs that receive what is sent to them and
\* are sent what they receive, the conditions of CloseReturns.
FairSpec ==
    /\ Spec
    /\ \A c \in Channel : WF_vars(Thread(c)) /\ WF_vars(Complete(c))
    /\ \A k \in Client : WF_vars(Handshake(k))
    /\ \A e \in Endpoint : WF_vars(Stopper(e))
    /\ \A s \in Service : WF_vars(ServiceStopper(s)) /\ WF_vars(AcceptAborted(s) \/ LeaveRun(s))

-----------------------------------------------------------------------------
(* Properties.                                                             *)

\* A promise is set at most once: set_value throws the second time.
EndpointTypeOK ==
    /\ serviceStop \in [Service -> {"no", "clears", "awaits", "joins", "stopped"}]
    /\ worker \in [Service -> BOOLEAN] /\ runs \in [Service -> BOOLEAN]
    /\ accepting \in [Service -> {"none", "pending", "ended"} \cup Client]
    /\ accStopped \in [Service -> BOOLEAN] /\ accAlive \in [Service -> BOOLEAN]
    /\ shake \in [Client -> {"no", "connected", "reset", "accepted", "header",
                             "names", "done", "lost"}]
    /\ given \in [Service -> SUBSET ({HandshakeTag(k) : k \in Client} \X Client)]
    /\ mStopped \in [Endpoint -> BOOLEAN]
    /\ mChannels \in [Endpoint -> SUBSET Channel]
    /\ done \in [Endpoint -> 0..1]
    /\ endpointStop \in [Endpoint -> {"no", "waits", "returned"}]
    /\ chan \in [Channel -> {"new", "refused", "listed", "open", "closing", "closed"}]
    /\ mSocket \in [Hosted -> Client \cup {NoChannel}]
    /\ ops \in [Channel -> 0..MaxOps + 1]
    /\ named \in [Client -> BOOLEAN]

\* However connections and additions interleave, a hosted channel is connected
\* to the client that asked for it, and no client to two.
SocketMatches ==
    \A c \in Hosted : chan[c] \in {"open", "closing", "closed"} =>
        /\ mSocket[c] \in Client /\ Ends(c, mSocket[c])
        /\ \A d \in Hosted : mSocket[d] = mSocket[c] => c = d

\* BtEndpoint::stop returns only when all of its channels have closed, and
\* BtIOService::stop only when nothing is left to run.
StopMeansClosed ==
    /\ \A e \in Endpoint : endpointStop[e] = "returned" =>
        \A c \in ChannelsOf(e) : chan[c] \notin {"listed", "open", "closing"}
    /\ \A s \in Service : serviceStop[s] = "stopped" =>
        /\ ~ runs[s] /\ ~ Busy(s)
        /\ \A e \in EndpointsOf(s) : mChannels[e] = {}

\* Nobody uses an acceptor that has been destroyed: neither a handler of its
\* accept chain or of a handshake, nor a channel that waits for its socket.
\* And no connection is lost to an acceptor that stops.
NoDangling ==
    /\ \A s \in Service : ~ accAlive[s] =>
        /\ accepting[s] \in {"none", "ended"}
        /\ \A k \in Client : ServerFor(k) = s => shake[k] \in {"no", "done"}
        /\ \A c \in Hosted : ServiceFor(c) = s => chan[c] # "listed"
    /\ \A k \in Client : shake[k] # "reset"

\* Every channel is connected and closes, and every stop returns.
AllStop ==
    <>(/\ \A c \in Channel : chan[c] = "closed"
       /\ \A e \in Endpoint : endpointStop[e] = "returned"
       /\ \A s \in Service : serviceStop[s] = "stopped")

\* Every connection reaches the channel that waits for it (BtAcceptor.cpp:109:
\* "the WinNetEndpoint that will eventually receive it").
AllConnected == \A c \in Hosted : (chan[c] = "listed") ~> (chan[c] = "open")

\* BtIOService::stop blocks until all channels and endpoints are stopped
\* (BtIOService.h): it may be called before, and then returns after.
ServiceStops == \A s \in Service : (serviceStop[s] = "clears") ~> (serviceStop[s] = "stopped")
=============================================================================
