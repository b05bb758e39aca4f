------------------------- MODULE BtEndpoint_proofs -------------------------
(***************************************************************************)
(* Channels are connected to whom they ask for, stops return when nothing  *)
(* is left, and the acceptor is destroyed when nobody uses it, for any     *)
(* number of services, endpoints and channels.                             *)
(***************************************************************************)
EXTENDS BtEndpoint, TLAPS

InList == {"listed", "open", "closing"}

\* A channel is in the list of its endpoint from addChannel to the end of
\* close, and the promise has been set once the list of a stopped endpoint is
\* empty, and not before.
EndpointInv ==
    \A e \in Endpoint :
        /\ mChannels[e] = {c \in ChannelsOf(e) : chan[c] \in InList}
        /\ done[e] = IF mStopped[e] /\ mChannels[e] = {} THEN 1 ELSE 0
        /\ mStopped[e] <=> endpointStop[e] # "no"
        /\ endpointStop[e] = "returned" => done[e] = 1

\* Only an open channel has operations.
OpsInv ==
    \A c \in Channel :
        /\ chan[c] \notin {"open", "closing"} => ops[c] = 0
        /\ chan[c] # "closing" => ops[c] <= MaxOps

\* Sockets are given by the names of finished handshakes.
SocketInv ==
    /\ \A s \in Service : \A k \in Client, t \in {HandshakeTag(k) : k \in Client} :
        <<t, k>> \in given[s] => ServerFor(k) = s /\ t = HandshakeTag(k) /\ shake[k] = "done"
    /\ \A c \in Hosted : mSocket[c] # NoChannel =>
        Ends(c, mSocket[c]) /\ shake[mSocket[c]] = "done"
    /\ \A c \in Hosted : chan[c] \in {"open", "closing", "closed"} => mSocket[c] # NoChannel
    /\ \A k \in Client : chan[k] \in {"new", "listed", "refused"} => shake[k] = "no"

Quiet(s) == accepting[s] \in {"none", "ended"}
Cleared(s) == serviceStop[s] \in {"awaits", "joins", "stopped"}

\* What has come to an end when a service is being stopped.
ServiceInv ==
    \A s \in Service :
        /\ ~ Listens(s) => Quiet(s)
        /\ \A k \in Client : accepting[s] = k => ServerFor(k) = s /\ shake[k] = "accepted"
        /\ ~ accAlive[s] => Cleared(s) \/ ~ Listens(s)
        /\ Cleared(s) => Quiet(s)
        /\ serviceStop[s] # "no" => ~ worker[s]
        /\ serviceStop[s] \in {"joins", "stopped"} => \A e \in EndpointsOf(s) : done[e] = 1
        /\ serviceStop[s] = "stopped" => ~ runs[s]
        /\ ~ runs[s] =>
            /\ Quiet(s) /\ ~ worker[s]
            /\ \A k \in Client : ServerFor(k) = s => shake[k] \notin {"header", "names"}

IInv == EndpointTypeOK /\ EndpointInv /\ OpsInv /\ SocketInv /\ ServiceInv

-----------------------------------------------------------------------------
LEMMA Facts ==
    /\ ServiceOf \in [Endpoint -> Service] /\ EndpointOf \in [Channel -> Endpoint]
    /\ MaxOps \in Nat /\ MaxOps > 0
    /\ Hosted \subseteq Channel /\ Client \subseteq Channel
    /\ \A c \in Channel : ServiceFor(c) \in Service /\ ServerFor(c) \in Service
    /\ \A k \in Client : Listens(ServerFor(k)) /\ k \notin {"none", "pending", "ended"}
    /\ NoChannel \notin Client
  BY EndpointAssumption, NoChannelAssumption
  DEF Hosted, Client, ServiceFor, ServerFor, NoChannel

\* The names of a handshake lead to the channel that the client names.
LEMMA TagsEnds ==
    ASSUME NEW c \in Hosted, NEW k \in Client,
           Tag(c) = HandshakeTag(k), ServerFor(k) = ServiceFor(c)
    PROVE  Ends(c, k)
  BY DEF Tag, HandshakeTag, Ends

LEMMA InItsList ==
    ASSUME IInv, NEW c \in Channel, chan[c] \in InList
    PROVE  /\ EndpointOf[c] \in Endpoint /\ c \in mChannels[EndpointOf[c]]
           /\ done[EndpointOf[c]] = 0
  BY Facts DEF IInv, EndpointInv, ChannelsOf

LEMMA ListChannelKeepsIInv == IInv => \A c \in Channel : ListChannel(c) => IInv'
  <1> SUFFICES ASSUME IInv, NEW c \in Channel, ListChannel(c) PROVE IInv'
    OBVIOUS
  <1> USE DEF IInv
  <1>1. EndpointTypeOK'
    BY Facts DEF EndpointTypeOK, ListChannel, serviceVars, acceptorVars
  <1>2. EndpointInv'
    BY Facts DEF EndpointInv, EndpointTypeOK, ChannelsOf, InList, ListChannel, serviceVars,
       acceptorVars
  <1>3. OpsInv'
    BY Facts DEF OpsInv, EndpointTypeOK, ListChannel, serviceVars, acceptorVars
  <1>4. SocketInv'
    BY Facts DEF SocketInv, EndpointTypeOK, ListChannel, serviceVars, acceptorVars
  <1>5. ServiceInv'
    BY DEF ServiceInv, Quiet, Cleared, ListChannel, serviceVars, acceptorVars
  <1> QED
    BY <1>1, <1>2, <1>3, <1>4, <1>5

LEMMA RefuseChannelKeepsIInv == IInv => \A c \in Channel : RefuseChannel(c) => IInv'
  <1> SUFFICES ASSUME IInv, NEW c \in Channel, RefuseChannel(c) PROVE IInv'
    OBVIOUS
  <1> USE DEF IInv
  <1>1. EndpointTypeOK'
    BY Facts DEF EndpointTypeOK, RefuseChannel, serviceVars, acceptorVars, endpointVars
  <1>2. EndpointInv'
    BY Facts DEF EndpointInv, EndpointTypeOK, ChannelsOf, InList, RefuseChannel, serviceVars,
       acceptorVars,
       endpointVars
  <1>3. OpsInv'
    BY Facts DEF OpsInv, EndpointTypeOK, RefuseChannel, serviceVars, acceptorVars, endpointVars
  <1>4. SocketInv'
    BY Facts DEF SocketInv, EndpointTypeOK, RefuseChannel, serviceVars, acceptorVars, endpointVars
  <1>5. ServiceInv'
    BY DEF ServiceInv, Quiet, Cleared, RefuseChannel, serviceVars, acceptorVars, endpointVars
  <1> QED
    BY <1>1, <1>2, <1>3, <1>4, <1>5

LEMMA GetSocketKeepsIInv == IInv => \A c \in Channel : GetSocket(c) => IInv'
  <1> SUFFICES ASSUME IInv, NEW c \in Channel, GetSocket(c) PROVE IInv'
    OBVIOUS
  <1> USE DEF IInv
  <1>1. EndpointTypeOK'
    BY Facts DEF EndpointTypeOK, GetSocket, serviceVars, acceptorVars, endpointVars
  <1>2. EndpointInv'
    BY Facts DEF EndpointInv, EndpointTypeOK, ChannelsOf, InList, GetSocket, serviceVars,
       acceptorVars,
       endpointVars
  <1>3. OpsInv'
    BY Facts DEF OpsInv, EndpointTypeOK, GetSocket, serviceVars, acceptorVars, endpointVars
  <1>4. SocketInv'
    <2>1. PICK k \in Client : <<Tag(c), k>> \in given[ServiceFor(c)]
                          /\ mSocket' = [mSocket EXCEPT ![c] = k]
      BY DEF GetSocket
    <2>2. c \in Hosted /\ ServiceFor(c) \in Service /\ Tag(c) \in {HandshakeTag(m) : m \in Client}
      <3>1. given[ServiceFor(c)] \subseteq {HandshakeTag(m) : m \in Client} \X Client
        BY Facts DEF EndpointTypeOK
      <3> QED
        BY <2>1, <3>1, Facts DEF GetSocket
    <2>3. ServerFor(k) = ServiceFor(c) /\ Tag(c) = HandshakeTag(k) /\ shake[k] = "done"
      BY <2>1, <2>2 DEF SocketInv
    <2>4. Ends(c, k)
      BY <2>3, TagsEnds, <2>2
    <2> QED
      BY <2>1, <2>2, <2>3, <2>4, Facts DEF SocketInv, EndpointTypeOK, GetSocket, acceptorVars
  <1>5. ServiceInv'
    BY DEF ServiceInv, Quiet, Cleared, GetSocket, serviceVars, acceptorVars, endpointVars
  <1> QED
    BY <1>1, <1>2, <1>3, <1>4, <1>5

LEMMA ConnectKeepsIInv == IInv => \A k \in Channel : Connect(k) => IInv'
  <1> SUFFICES ASSUME IInv, NEW k \in Channel, Connect(k) PROVE IInv'
    OBVIOUS
  <1> USE DEF IInv
  <1>1. EndpointTypeOK'
    BY Facts DEF EndpointTypeOK, Connect, serviceVars, endpointVars
  <1>2. EndpointInv'
    BY Facts DEF EndpointInv, EndpointTypeOK, ChannelsOf, InList, Connect, serviceVars, endpointVars
  <1>3. OpsInv'
    BY Facts DEF OpsInv, EndpointTypeOK, Connect, serviceVars, endpointVars
  <1>4. SocketInv'
    BY Facts DEF SocketInv, EndpointTypeOK, Connect, Client, serviceVars, endpointVars
  <1>5. ServiceInv'
    BY Facts DEF ServiceInv, EndpointTypeOK, Quiet, Cleared, Connect, SocketInv, serviceVars,
       endpointVars
  <1> QED
    BY <1>1, <1>2, <1>3, <1>4, <1>5

LEMMA PostKeepsIInv == IInv => \A c \in Channel : Post(c) => IInv'
  <1> SUFFICES ASSUME IInv, NEW c \in Channel, Post(c) PROVE IInv'
    OBVIOUS
  <1> USE DEF IInv
  <1>1. EndpointTypeOK'
    BY Facts DEF EndpointTypeOK, Post, serviceVars, acceptorVars, endpointVars
  <1>2. EndpointInv'
    BY DEF EndpointInv, Post, serviceVars, acceptorVars, endpointVars
  <1>3. OpsInv'
    BY Facts DEF OpsInv, EndpointTypeOK, Post, serviceVars, acceptorVars, endpointVars
  <1>4. SocketInv'
    BY DEF SocketInv, Post, serviceVars, acceptorVars, endpointVars
  <1>5. ServiceInv'
    BY DEF ServiceInv, Quiet, Cleared, Post, serviceVars, acceptorVars, endpointVars
  <1> QED
    BY <1>1, <1>2, <1>3, <1>4, <1>5

LEMMA CompleteKeepsIInv == IInv => \A c \in Channel : Complete(c) => IInv'
  <1> SUFFICES ASSUME IInv, NEW c \in Channel, Complete(c) PROVE IInv'
    OBVIOUS
  <1> USE DEF IInv
  <1>1. EndpointTypeOK'
    BY Facts DEF EndpointTypeOK, Complete, serviceVars, acceptorVars, endpointVars
  <1>2. EndpointInv'
    BY DEF EndpointInv, Complete, serviceVars, acceptorVars, endpointVars
  <1>3. OpsInv'
    BY Facts DEF OpsInv, EndpointTypeOK, Complete, serviceVars, acceptorVars, endpointVars
  <1>4. SocketInv'
    BY DEF SocketInv, Complete, serviceVars, acceptorVars, endpointVars
  <1>5. ServiceInv'
    BY DEF ServiceInv, Quiet, Cleared, Complete, serviceVars, acceptorVars, endpointVars
  <1> QED
    BY <1>1, <1>2, <1>3, <1>4, <1>5

LEMMA CloseKeepsIInv == IInv => \A c \in Channel : Close(c) => IInv'
  <1> SUFFICES ASSUME IInv, NEW c \in Channel, Close(c) PROVE IInv'
    OBVIOUS
  <1> USE DEF IInv
  <1>1. EndpointTypeOK'
    BY Facts DEF EndpointTypeOK, Close, OpsInv, serviceVars, acceptorVars, endpointVars
  <1>2. EndpointInv'
    BY Facts DEF EndpointInv, EndpointTypeOK, ChannelsOf, InList, Close, serviceVars, acceptorVars,
       endpointVars
  <1>3. OpsInv'
    BY Facts DEF OpsInv, EndpointTypeOK, Close, serviceVars, acceptorVars, endpointVars
  <1>4. SocketInv'
    BY Facts DEF SocketInv, EndpointTypeOK, Close, serviceVars, acceptorVars, endpointVars
  <1>5. ServiceInv'
    BY DEF ServiceInv, Quiet, Cleared, Close, serviceVars, acceptorVars, endpointVars
  <1> QED
    BY <1>1, <1>2, <1>3, <1>4, <1>5

LEMMA RemoveChannelKeepsIInv == IInv => \A c \in Channel : RemoveChannel(c) => IInv'
  <1> SUFFICES ASSUME IInv, NEW c \in Channel, RemoveChannel(c) PROVE IInv'
    OBVIOUS
  <1> USE DEF IInv
  <1>1. EndpointTypeOK'
    BY Facts, InItsList DEF EndpointTypeOK, RemoveChannel, RemovesLast, InList, serviceVars,
       acceptorVars
  <1>2. EndpointInv'
    BY Facts, InItsList DEF EndpointInv, EndpointTypeOK, ChannelsOf, InList, RemoveChannel,
       RemovesLast,
       serviceVars, acceptorVars
  <1>3. OpsInv'
    BY Facts DEF OpsInv, EndpointTypeOK, RemoveChannel, serviceVars, acceptorVars
  <1>4. SocketInv'
    BY Facts DEF SocketInv, EndpointTypeOK, RemoveChannel, serviceVars, acceptorVars
  <1>5. ServiceInv'
    BY Facts, InItsList DEF ServiceInv, EndpointTypeOK, Quiet, Cleared, RemoveChannel, RemovesLast,
       EndpointsOf, InList, serviceVars, acceptorVars
  <1> QED
    BY <1>1, <1>2, <1>3, <1>4, <1>5

LEMMA StopEndpointKeepsIInv == IInv => \A e \in Endpoint : StopEndpoint(e) => IInv'
  <1> SUFFICES ASSUME IInv, NEW e \in Endpoint, StopEndpoint(e) PROVE IInv'
    OBVIOUS
  <1> USE DEF IInv
  <1>1. EndpointTypeOK'
    BY Facts DEF EndpointTypeOK, StopEndpoint, EndpointInv, serviceVars, acceptorVars, channelVars
  <1>2. EndpointInv'
    BY Facts DEF EndpointInv, EndpointTypeOK, ChannelsOf, InList, StopEndpoint, serviceVars,
       acceptorVars,
       channelVars
  <1>3. OpsInv'
    BY DEF OpsInv, StopEndpoint, serviceVars, acceptorVars, channelVars
  <1>4. SocketInv'
    BY DEF SocketInv, StopEndpoint, serviceVars, acceptorVars, channelVars
  <1>5. ServiceInv'
    BY Facts DEF ServiceInv, EndpointTypeOK, Quiet, Cleared, StopEndpoint, EndpointInv, EndpointsOf,
       serviceVars, acceptorVars, channelVars
  <1> QED
    BY <1>1, <1>2, <1>3, <1>4, <1>5

LEMMA StopReturnsKeepsIInv == IInv => \A e \in Endpoint : StopReturns(e) => IInv'
  <1> SUFFICES ASSUME IInv, NEW e \in Endpoint, StopReturns(e) PROVE IInv'
    OBVIOUS
  <1> USE DEF IInv
  <1>1. EndpointTypeOK'
    BY Facts DEF EndpointTypeOK, StopReturns, serviceVars, acceptorVars, channelVars
  <1>2. EndpointInv'
    BY Facts DEF EndpointInv, EndpointTypeOK, ChannelsOf, InList, StopReturns, serviceVars,
       acceptorVars,
       channelVars
  <1>3. OpsInv'
    BY DEF OpsInv, StopReturns, serviceVars, acceptorVars, channelVars
  <1>4. SocketInv'
    BY DEF SocketInv, StopReturns, serviceVars, acceptorVars, channelVars
  <1>5. ServiceInv'
    BY DEF ServiceInv, Quiet, Cleared, StopReturns, serviceVars, acceptorVars, channelVars
  <1> QED
    BY <1>1, <1>2, <1>3, <1>4, <1>5

LEMMA StopServiceKeepsIInv == IInv => \A s \in Service : StopService(s) => IInv'
  <1> SUFFICES ASSUME IInv, NEW s \in Service, StopService(s) PROVE IInv'
    OBVIOUS
  <1> USE DEF IInv
  <1>1. EndpointTypeOK'
    BY Facts DEF EndpointTypeOK, StopService, endpointVars, channelVars
  <1>2. EndpointInv'
    BY DEF EndpointInv, StopService, endpointVars, channelVars
  <1>3. OpsInv'
    BY DEF OpsInv, StopService, endpointVars, channelVars
  <1>4. SocketInv'
    BY Facts DEF SocketInv, EndpointTypeOK, StopService, endpointVars, channelVars
  <1>5. ServiceInv'
    BY Facts DEF ServiceInv, EndpointTypeOK, Quiet, Cleared, StopService, endpointVars, channelVars
  <1> QED
    BY <1>1, <1>2, <1>3, <1>4, <1>5

LEMMA ClearAcceptorsKeepsIInv == IInv => \A s \in Service : ClearAcceptors(s) => IInv'
  <1> SUFFICES ASSUME IInv, NEW s \in Service, ClearAcceptors(s) PROVE IInv'
    OBVIOUS
  <1> USE DEF IInv
  <1>1. EndpointTypeOK'
    BY Facts DEF EndpointTypeOK, ClearAcceptors, endpointVars, channelVars
  <1>2. EndpointInv'
    BY DEF EndpointInv, ClearAcceptors, endpointVars, channelVars
  <1>3. OpsInv'
    BY DEF OpsInv, ClearAcceptors, endpointVars, channelVars
  <1>4. SocketInv'
    BY DEF SocketInv, ClearAcceptors, endpointVars, channelVars
  <1>5. ServiceInv'
    BY Facts DEF ServiceInv, EndpointTypeOK, Quiet, Cleared, ClearAcceptors, AcceptorQuiet,
       endpointVars,
       channelVars
  <1> QED
    BY <1>1, <1>2, <1>3, <1>4, <1>5

LEMMA AwaitEndpointsKeepsIInv == IInv => \A s \in Service : AwaitEndpoints(s) => IInv'
  <1> SUFFICES ASSUME IInv, NEW s \in Service, AwaitEndpoints(s) PROVE IInv'
    OBVIOUS
  <1> USE DEF IInv
  <1>1. EndpointTypeOK'
    BY Facts DEF EndpointTypeOK, AwaitEndpoints, acceptorVars, endpointVars, channelVars
  <1>2. EndpointInv'
    BY DEF EndpointInv, AwaitEndpoints, acceptorVars, endpointVars, channelVars
  <1>3. OpsInv'
    BY DEF OpsInv, AwaitEndpoints, acceptorVars, endpointVars, channelVars
  <1>4. SocketInv'
    BY DEF SocketInv, AwaitEndpoints, acceptorVars, endpointVars, channelVars
  <1>5. ServiceInv'
    BY Facts DEF ServiceInv, EndpointTypeOK, Quiet, Cleared, AwaitEndpoints, EndpointsOf,
       acceptorVars,
       endpointVars, channelVars
  <1> QED
    BY <1>1, <1>2, <1>3, <1>4, <1>5

LEMMA JoinKeepsIInv == IInv => \A s \in Service : Join(s) => IInv'
  <1> SUFFICES ASSUME IInv, NEW s \in Service, Join(s) PROVE IInv'
    OBVIOUS
  <1> USE DEF IInv
  <1>1. EndpointTypeOK'
    BY Facts DEF EndpointTypeOK, Join, acceptorVars, endpointVars, channelVars
  <1>2. EndpointInv'
    BY DEF EndpointInv, Join, acceptorVars, endpointVars, channelVars
  <1>3. OpsInv'
    BY DEF OpsInv, Join, acceptorVars, endpointVars, channelVars
  <1>4. SocketInv'
    BY DEF SocketInv, Join, acceptorVars, endpointVars, channelVars
  <1>5. ServiceInv'
    BY Facts DEF ServiceInv, EndpointTypeOK, Quiet, Cleared, Join, acceptorVars, endpointVars,
       channelVars
  <1> QED
    BY <1>1, <1>2, <1>3, <1>4, <1>5

LEMMA LeaveRunKeepsIInv == IInv => \A s \in Service : LeaveRun(s) => IInv'
  <1> SUFFICES ASSUME IInv, NEW s \in Service, LeaveRun(s) PROVE IInv'
    OBVIOUS
  <1> USE DEF IInv
  <1>1. EndpointTypeOK'
    BY Facts DEF EndpointTypeOK, LeaveRun, serviceVars, acceptorVars, endpointVars, channelVars
  <1>2. EndpointInv'
    BY DEF EndpointInv, LeaveRun, serviceVars, acceptorVars, endpointVars, channelVars
  <1>3. OpsInv'
    BY DEF OpsInv, LeaveRun, serviceVars, acceptorVars, endpointVars, channelVars
  <1>4. SocketInv'
    BY DEF SocketInv, LeaveRun, serviceVars, acceptorVars, endpointVars, channelVars
  <1>5. ServiceInv'
    BY Facts DEF ServiceInv, EndpointTypeOK, Quiet, Cleared, LeaveRun, Busy, serviceVars,
       acceptorVars,
       endpointVars, channelVars
  <1> QED
    BY <1>1, <1>2, <1>3, <1>4, <1>5

LEMMA AcceptKeepsIInv == IInv => \A k \in Client : Accept(k) => IInv'
  <1> SUFFICES ASSUME IInv, NEW k \in Client, Accept(k) PROVE IInv'
    OBVIOUS
  <1> USE DEF IInv
  <1>1. EndpointTypeOK'
    BY Facts DEF EndpointTypeOK, Accept, serviceVars, endpointVars, channelVars
  <1>2. EndpointInv'
    BY DEF EndpointInv, Accept, serviceVars, endpointVars, channelVars
  <1>3. OpsInv'
    BY DEF OpsInv, Accept, serviceVars, endpointVars, channelVars
  <1>4. SocketInv'
    BY Facts DEF SocketInv, EndpointTypeOK, Accept, serviceVars, endpointVars, channelVars
  <1>5. ServiceInv'
    BY Facts DEF ServiceInv, EndpointTypeOK, Quiet, Cleared, Accept, serviceVars, endpointVars,
       channelVars
  <1> QED
    BY <1>1, <1>2, <1>3, <1>4, <1>5

LEMMA AcceptedKeepsIInv == IInv => \A k \in Client : Accepted(k) => IInv'
  <1> SUFFICES ASSUME IInv, NEW k \in Client, Accepted(k) PROVE IInv'
    OBVIOUS
  <1> USE DEF IInv
  <1>1. EndpointTypeOK'
    BY Facts DEF EndpointTypeOK, Accepted, Restarted, serviceVars, endpointVars, channelVars
  <1>2. EndpointInv'
    BY DEF EndpointInv, Accepted, serviceVars, endpointVars, channelVars
  <1>3. OpsInv'
    BY DEF OpsInv, Accepted, serviceVars, endpointVars, channelVars
  <1>4. SocketInv'
    BY Facts DEF SocketInv, EndpointTypeOK, Accepted, ServiceInv, serviceVars, endpointVars,
       channelVars
  <1>5. ServiceInv'
    BY Facts DEF ServiceInv, EndpointTypeOK, Quiet, Cleared, Accepted, Restarted, serviceVars,
       endpointVars,
       channelVars
  <1> QED
    BY <1>1, <1>2, <1>3, <1>4, <1>5

LEMMA AcceptAbortedKeepsIInv == IInv => \A s \in Service : AcceptAborted(s) => IInv'
  <1> SUFFICES ASSUME IInv, NEW s \in Service, AcceptAborted(s) PROVE IInv'
    OBVIOUS
  <1> USE DEF IInv
  <1>1. EndpointTypeOK'
    BY Facts DEF EndpointTypeOK, AcceptAborted, Restarted, serviceVars, endpointVars, channelVars
  <1>2. EndpointInv'
    BY DEF EndpointInv, AcceptAborted, serviceVars, endpointVars, channelVars
  <1>3. OpsInv'
    BY DEF OpsInv, AcceptAborted, serviceVars, endpointVars, channelVars
  <1>4. SocketInv'
    BY DEF SocketInv, AcceptAborted, serviceVars, endpointVars, channelVars
  <1>5. ServiceInv'
    BY Facts DEF ServiceInv, EndpointTypeOK, Quiet, Cleared, AcceptAborted, Restarted, serviceVars,
       endpointVars, channelVars
  <1> QED
    BY <1>1, <1>2, <1>3, <1>4, <1>5

LEMMA ReadHeaderKeepsIInv == IInv => \A k \in Client : ReadHeader(k) => IInv'
  <1> SUFFICES ASSUME IInv, NEW k \in Client, ReadHeader(k) PROVE IInv'
    OBVIOUS
  <1> USE DEF IInv
  <1>1. EndpointTypeOK'
    BY Facts DEF EndpointTypeOK, ReadHeader, serviceVars, endpointVars, channelVars
  <1>2. EndpointInv'
    BY DEF EndpointInv, ReadHeader, serviceVars, endpointVars, channelVars
  <1>3. OpsInv'
    BY DEF OpsInv, ReadHeader, serviceVars, endpointVars, channelVars
  <1>4. SocketInv'
    BY Facts DEF SocketInv, EndpointTypeOK, ReadHeader, serviceVars, endpointVars, channelVars
  <1>5. ServiceInv'
    BY Facts DEF ServiceInv, EndpointTypeOK, Quiet, Cleared, ReadHeader, serviceVars, endpointVars,
       channelVars
  <1> QED
    BY <1>1, <1>2, <1>3, <1>4, <1>5

LEMMA ReadNamesKeepsIInv == IInv => \A k \in Client : ReadNames(k) => IInv'
  <1> SUFFICES ASSUME IInv, NEW k \in Client, ReadNames(k) PROVE IInv'
    OBVIOUS
  <1> USE DEF IInv
  <1>1. EndpointTypeOK'
    BY Facts DEF EndpointTypeOK, ReadNames, serviceVars, endpointVars, channelVars
  <1>2. EndpointInv'
    BY DEF EndpointInv, ReadNames, serviceVars, endpointVars, channelVars
  <1>3. OpsInv'
    BY DEF OpsInv, ReadNames, serviceVars, endpointVars, channelVars
  <1>4. SocketInv'
    BY Facts DEF SocketInv, EndpointTypeOK, ReadNames, serviceVars, endpointVars, channelVars
  <1>5. ServiceInv'
    BY Facts DEF ServiceInv, EndpointTypeOK, Quiet, Cleared, ReadNames, serviceVars, endpointVars,
       channelVars
  <1> QED
    BY <1>1, <1>2, <1>3, <1>4, <1>5

LEMMA ReadPartKeepsIInv == IInv => \A k \in Client : ReadPart(k) => IInv'
  <1> SUFFICES ASSUME IInv, NEW k \in Client, ReadPart(k) PROVE IInv'
    OBVIOUS
  <1> USE DEF IInv
  <1>1. EndpointTypeOK'
    BY Facts DEF EndpointTypeOK, ReadPart, serviceVars, endpointVars, channelVars
  <1>2. EndpointInv'
    BY DEF EndpointInv, ReadPart, serviceVars, endpointVars, channelVars
  <1>3. OpsInv'
    BY DEF OpsInv, ReadPart, serviceVars, endpointVars, channelVars
  <1>4. SocketInv'
    BY Facts DEF SocketInv, EndpointTypeOK, ReadPart, serviceVars, endpointVars, channelVars
  <1>5. ServiceInv'
    BY Facts DEF ServiceInv, EndpointTypeOK, Quiet, Cleared, ReadPart, serviceVars, endpointVars,
       channelVars
  <1> QED
    BY <1>1, <1>2, <1>3, <1>4, <1>5

-----------------------------------------------------------------------------
LEMMA InitIInv == Init => IInv
  <1> SUFFICES ASSUME Init PROVE IInv
    OBVIOUS
  <1>1. EndpointTypeOK
    <2>1. /\ given \in [Service -> SUBSET ({HandshakeTag(k) : k \in Client} \X Client)]
          /\ mChannels \in [Endpoint -> SUBSET Channel]
      BY DEF Init
    <2>2. /\ accepting \in [Service -> {"none", "pending", "ended"} \cup Client]
          /\ accAlive \in [Service -> BOOLEAN]
      BY DEF Init, Listens
    <2>3. /\ done \in [Endpoint -> 0..1] /\ ops \in [Channel -> 0..MaxOps + 1]
      BY Facts DEF Init
    <2> QED
      BY <2>1, <2>2, <2>3 DEF Init, EndpointTypeOK
  <1>2. EndpointInv
    BY DEF Init, EndpointInv, ChannelsOf, InList
  <1>3. OpsInv
    BY Facts DEF Init, OpsInv
  <1>4. SocketInv
    BY Facts DEF Init, SocketInv
  <1>5. ServiceInv
    BY Facts DEF Init, ServiceInv, Quiet, Cleared
  <1> QED
    BY <1>1, <1>2, <1>3, <1>4, <1>5 DEF IInv

LEMMA NextKeepsIInv == IInv /\ [Next]_vars => IInv'
  <1> SUFFICES ASSUME IInv, [Next]_vars PROVE IInv'
    OBVIOUS
  <1>1. CASE UNCHANGED vars
    BY <1>1 DEF IInv, EndpointTypeOK, EndpointInv, OpsInv, SocketInv, ServiceInv, Quiet, Cleared,
       vars,
                serviceVars, acceptorVars, endpointVars, channelVars
  <1>2. ASSUME NEW c \in Channel, Thread(c) PROVE IInv'
    BY <1>2, ListChannelKeepsIInv, RefuseChannelKeepsIInv, GetSocketKeepsIInv, ConnectKeepsIInv,
       CloseKeepsIInv, RemoveChannelKeepsIInv DEF Thread
  <1>3. ASSUME NEW k \in Client, Handshake(k) PROVE IInv'
    BY <1>3, AcceptKeepsIInv, AcceptedKeepsIInv, ReadHeaderKeepsIInv, ReadNamesKeepsIInv
    DEF Handshake
  <1>4. ASSUME NEW e \in Endpoint, Stopper(e) PROVE IInv'
    BY <1>4, StopEndpointKeepsIInv, StopReturnsKeepsIInv DEF Stopper
  <1>5. ASSUME NEW s \in Service, ServiceStopper(s) PROVE IInv'
    BY <1>5, StopServiceKeepsIInv, ClearAcceptorsKeepsIInv, AwaitEndpointsKeepsIInv, JoinKeepsIInv
    DEF ServiceStopper
  <1> QED
    BY <1>1, <1>2, <1>3, <1>4, <1>5, PostKeepsIInv, CompleteKeepsIInv, ReadPartKeepsIInv,
       AcceptAbortedKeepsIInv, LeaveRunKeepsIInv DEF Next

\* The inductive invariant.
THEOREM Invariance == Spec => []IInv
  BY InitIInv, NextKeepsIInv, PTL DEF Spec

\* No promise of an endpoint is set twice, and the rest has its types.
THEOREM TypeCorrect == Spec => []EndpointTypeOK
  BY Invariance, PTL DEF IInv

\* A hosted channel gets the connection of the client that named it, and no
\* other channel gets that connection.
THEOREM SocketMatchesHolds == Spec => []SocketMatches
  <1>1. IInv => SocketMatches
    <2> SUFFICES ASSUME IInv, NEW c \in Hosted, chan[c] \in {"open", "closing", "closed"}
                 PROVE  /\ mSocket[c] \in Client /\ Ends(c, mSocket[c])
                        /\ \A d \in Hosted : mSocket[d] = mSocket[c] => c = d
      BY DEF SocketMatches
    <2>1. mSocket[c] \in Client /\ Ends(c, mSocket[c])
      BY DEF IInv, SocketInv, EndpointTypeOK
    <2>2. ASSUME NEW d \in Hosted, mSocket[d] = mSocket[c] PROVE c = d
      <3>1. Ends(d, mSocket[c])
        BY <2>1, <2>2, Facts DEF IInv, SocketInv
      <3> QED
        BY <2>1, <3>1, NamesAssumption
    <2> QED
      BY <2>1, <2>2
  <1> QED
    BY <1>1, Invariance, PTL

\* The stops return only when nothing they wait for is left.
THEOREM StopMeansClosedHolds == Spec => []StopMeansClosed
  <1>1. IInv => StopMeansClosed
    <2> SUFFICES ASSUME IInv PROVE StopMeansClosed
      OBVIOUS
    <2>1. ASSUME NEW e \in Endpoint, done[e] = 1, NEW c \in ChannelsOf(e)
          PROVE  /\ mChannels[e] = {} /\ chan[c] \notin {"listed", "open", "closing"}
                 /\ ops[c] = 0
      <3>1. mChannels[e] = {} /\ c \in Channel
        BY <2>1 DEF IInv, EndpointInv, ChannelsOf
      <3>2. chan[c] \notin InList
        BY <3>1 DEF IInv, EndpointInv
      <3> QED
        BY <3>1, <3>2 DEF IInv, OpsInv, InList
    <2>2. \A e \in Endpoint : endpointStop[e] = "returned" => done[e] = 1
      BY DEF IInv, EndpointInv
    <2>3. ASSUME NEW s \in Service, serviceStop[s] = "stopped"
          PROVE  ~ runs[s] /\ ~ Busy(s) /\ \A e \in EndpointsOf(s) : mChannels[e] = {}
      <3>1. ~ runs[s] /\ ~ worker[s] /\ Quiet(s)
            /\ \A k \in Client : ServerFor(k) = s => shake[k] \notin {"header", "names"}
        BY <2>3 DEF IInv, ServiceInv
      <3>2. \A e \in EndpointsOf(s) : e \in Endpoint /\ done[e] = 1
        BY <2>3 DEF IInv, ServiceInv, EndpointsOf
      <3>3. ASSUME NEW c \in Channel, ServiceFor(c) = s PROVE ops[c] = 0
        <4>1. EndpointOf[c] \in EndpointsOf(s) /\ c \in ChannelsOf(EndpointOf[c])
          BY <3>3, Facts DEF ServiceFor, EndpointsOf, ChannelsOf
        <4> QED
          BY <4>1, <3>2, <2>1
      <3>4. ~ Busy(s)
        BY <3>1, <3>3 DEF Busy, Quiet
      <3>5. \A e \in EndpointsOf(s) : mChannels[e] = {}
        BY <3>2 DEF IInv, EndpointInv
      <3> QED
        BY <3>1, <3>4, <3>5
    <2> QED
      BY <2>1, <2>2, <2>3 DEF StopMeansClosed
  <1> QED
    BY <1>1, Invariance, PTL

-----------------------------------------------------------------------------
(* When stops wait for the users, as in main.cpp, and reads are complete.  *)

Ordered == ~ EarlyStop /\ ~ ShortReads

\* A stopped endpoint has no channel that was not added, and a service that is
\* being stopped none that has not closed.
OrderedInv ==
    /\ \A c \in Channel : mStopped[EndpointOf[c]] => chan[c] \notin {"new", "listed"}
    /\ \A c \in Channel : chan[c] # "refused"
    /\ \A s \in Service : serviceStop[s] # "no" =>
        \A e \in EndpointsOf(s) : endpointStop[e] = "returned"

LEMMA OrderedKept ==
    ASSUME Ordered, IInv, OrderedInv, [Next]_vars
    PROVE  OrderedInv'
  <1> USE DEF OrderedInv
  <1>1. CASE UNCHANGED vars
    BY <1>1 DEF vars, serviceVars, acceptorVars, endpointVars, channelVars
  <1>2. ASSUME NEW c \in Channel, Thread(c) \/ Post(c) \/ Complete(c) PROVE OrderedInv'
    BY <1>2, Facts DEF Thread, ListChannel, RefuseChannel, GetSocket, Connect, Close, RemoveChannel,
       Post, Complete, IInv, EndpointTypeOK, serviceVars, acceptorVars, endpointVars, channelVars
  <1>3. ASSUME NEW k \in Client, Handshake(k) \/ ReadPart(k) PROVE OrderedInv'
    BY <1>3 DEF Handshake, Accept, Accepted, ReadHeader, ReadNames, ReadPart,
       serviceVars, acceptorVars, endpointVars, channelVars
  <1>4. ASSUME NEW e \in Endpoint, Stopper(e) PROVE OrderedInv'
    <2>1. CASE StopEndpoint(e)
      BY <2>1, Facts DEF StopEndpoint, Ordered, ChannelsOf, EndpointsOf, IInv, EndpointTypeOK,
         serviceVars, acceptorVars, channelVars
    <2>2. CASE StopReturns(e)
      BY <2>2, Facts DEF StopReturns, EndpointsOf, IInv, EndpointTypeOK,
         serviceVars, acceptorVars, channelVars
    <2> QED
      BY <1>4, <2>1, <2>2 DEF Stopper
  <1>5. ASSUME NEW s \in Service, ServiceStopper(s) \/ AcceptAborted(s) \/ LeaveRun(s)
        PROVE  OrderedInv'
    BY <1>5, Facts DEF ServiceStopper, StopService, MayStop, Ordered, ClearAcceptors,
       AwaitEndpoints,
       Join, AcceptAborted, LeaveRun, IInv, EndpointTypeOK,
       serviceVars, acceptorVars, endpointVars, channelVars
  <1> QED
    BY <1>1, <1>2, <1>3, <1>4, <1>5 DEF Next

\* The channels of a service that is being stopped have closed.
LEMMA AllClosed ==
    ASSUME IInv, OrderedInv, NEW c \in Channel,
           \A e \in EndpointsOf(ServiceFor(c)) : endpointStop[e] = "returned"
    PROVE  chan[c] = "closed"
  <1>1. EndpointOf[c] \in Endpoint /\ EndpointOf[c] \in EndpointsOf(ServiceFor(c))
        /\ ServiceFor(c) \in Service
    BY Facts DEF ServiceFor, EndpointsOf
  <1>2. endpointStop[EndpointOf[c]] = "returned"
    BY <1>1
  <1>3. mChannels[EndpointOf[c]] = {} /\ mStopped[EndpointOf[c]]
    BY <1>1, <1>2 DEF IInv, EndpointInv
  <1>4. chan[c] \notin InList
    BY <1>1, <1>3 DEF IInv, EndpointInv, ChannelsOf
  <1> QED
    BY <1>3, <1>4 DEF OrderedInv, IInv, EndpointTypeOK, InList

\* The connections to a service that is being stopped have been handed over.
LEMMA AllGiven ==
    ASSUME IInv, OrderedInv, NEW k \in Client,
           \A e \in EndpointsOf(ServerFor(k)) : endpointStop[e] = "returned"
    PROVE  shake[k] = "done"
  <1>1. PICK c \in Hosted : Ends(c, k)
    BY NamesAssumption
  <1>2. chan[c] = "closed"
    BY <1>1, AllClosed, Facts DEF Ends
  <1>3. mSocket[c] \in Client /\ Ends(c, mSocket[c]) /\ shake[mSocket[c]] = "done"
    BY <1>2 DEF IInv, SocketInv, EndpointTypeOK
  <1>4. mSocket[c] = k
    BY <1>1, <1>3, NamesAssumption
  <1> QED
    BY <1>3, <1>4

\* No connection is reset.
NoReset == \A k \in Client : shake[k] # "reset"

LEMMA NoResetKept ==
    ASSUME Ordered, IInv, OrderedInv, NoReset, [Next]_vars
    PROVE  NoReset'
  <1> SUFFICES ASSUME NEW k \in Client, shake'[k] = "reset" PROVE FALSE
    BY DEF NoReset
  <1>1. PICK s \in Service : StopService(s)
    BY Facts DEF NoReset, Next, Thread, ListChannel, RefuseChannel, GetSocket, Connect, Close,
       RemoveChannel, Post, Complete, Handshake, Accept, Accepted, ReadHeader, ReadNames, ReadPart,
       Stopper, StopEndpoint, StopReturns, ServiceStopper, ClearAcceptors, AwaitEndpoints, Join,
       AcceptAborted, LeaveRun, IInv, EndpointTypeOK,
       vars, serviceVars, acceptorVars, endpointVars, channelVars
  <1>2. ServerFor(k) = s
    BY <1>1 DEF NoReset, StopService
  <1>3. shake[k] = "done"
    BY <1>1, <1>2, AllGiven DEF StopService, MayStop, Ordered
  <1> QED
    BY <1>1, <1>3 DEF StopService

\* The acceptor is destroyed when neither a handler nor a channel needs it any
\* more, if endpoints are stopped after their channels were added, services
\* after their endpoints, and reads of a handshake are complete.
THEOREM NoDanglingHolds == Ordered => (Spec => []NoDangling)
  <1> SUFFICES ASSUME Ordered PROVE Spec => []NoDangling
    OBVIOUS
  <1>1. Init => OrderedInv /\ NoReset
    BY Facts DEF Init, OrderedInv, NoReset
  <1>2. IInv /\ IInv' /\ OrderedInv /\ NoReset /\ [Next]_vars => OrderedInv' /\ NoReset'
    BY OrderedKept, NoResetKept
  <1>3. IInv /\ OrderedInv /\ NoReset => NoDangling
    <2> SUFFICES ASSUME IInv, OrderedInv, NoReset PROVE NoDangling
      OBVIOUS
    <2>1. ASSUME NEW s \in Service, ~ accAlive[s]
          PROVE  /\ accepting[s] \in {"none", "ended"}
                 /\ \A k \in Client : ServerFor(k) = s => shake[k] \in {"no", "done"}
                 /\ \A c \in Hosted : ServiceFor(c) = s => chan[c] # "listed"
      <3>1. accepting[s] \in {"none", "ended"}
        BY <2>1 DEF IInv, ServiceInv, Quiet
      <3>2. Listens(s) => serviceStop[s] # "no"
        BY <2>1 DEF IInv, ServiceInv, Cleared
      <3>3. \A k \in Client : ServerFor(k) = s => shake[k] = "done"
        BY <3>2, AllGiven, Facts DEF OrderedInv
      <3>4. ASSUME NEW c \in Hosted, ServiceFor(c) = s PROVE chan[c] # "listed"
        <4>1. Listens(s) /\ c \in Channel
          BY <3>4, Facts DEF Listens, EndpointsOf, ServiceFor, Hosted
        <4> QED
          BY <4>1, <3>2, <3>4, AllClosed DEF OrderedInv
      <3> QED
        BY <3>1, <3>3, <3>4
    <2> QED
      BY <2>1 DEF NoDangling, NoReset
  <1> QED
    BY <1>1, <1>2, <1>3, Invariance, PTL DEF Spec
=============================================================================
