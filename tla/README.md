# BaRK-OPRF: specifications, model checking and proofs

BaRK-OPRF computes the intersection of two private sets: the receiver learns which of its items
the sender has too. This directory specifies the program in TLA+, checks the specifications with
TLC on small instances and proves the properties that matter most with TLAPS for all values of
the constants.

## 1. The system

| Part | Code (`src/`) | State | Operations | Correct when |
|---|---|---|---|---|
| Channel data plane | `bOPRFlib/Network/BtChannel.cpp`, `BtSocket.h`, `BtIOService.cpp:97-372` | two operation queues and two strands per socket, three atomic counters, promises | `asyncSend`, `send`, `asyncRecv`, `recv`, `close`, `getTotalDataSent`, `getMaxOutstandingSendData`; on the io threads `dispatch`'s handlers, `sendOne`, `receiveOne` and the completions | messages arrive whole, once and in order; `close` leaves nothing behind; `send` and `close` return when the other end receives |
| IO service, endpoint, acceptor | `BtIOService.cpp:21-95,375-417`, `BtEndpoint.cpp`, `BtAcceptor.cpp` | worker threads, acceptor list, channel list, one promise per endpoint, map of socket promises | `start`, `addChannel`, `removeChannel`, `stop`, accept chain, `getSocket` | a socket reaches the channel of its name; `stop` returns once, after the last channel is gone |
| Hashing | `PSI/CuckooHasher.cpp`, `PSI/SimpleHasher.cpp` | bins, stash | `init`, `insertItems` | no item is lost; each is where the other party will look for it |
| PSI protocol | `PSI/BopPsiReceiver.cpp`, `PSI/BopPsiSender.cpp` | OT messages, masks, intersection | `init`, `sendInput` | the receiver learns exactly the common items |
| OT layers | `OT/` | threads of the base OT, PRG states, base choices | base OT (Naor-Pinkas), IKNP and SSOT extension, `check` | the two ends' outputs are related as an OT promises |
| Parts that stand alone | `Common/mpsc_queue.h`, `Crypto/PRNG.cpp`, `Common/Defines.cpp` | list of nodes, key stream buffer, search state | `enqueue`, `dequeue`; `SetSeed`, `get_u8s`; `get_bin_size` | items come out once and in order, and no node is used after delete; equal seeds give equal streams; the width is the least that suffices |
| Containers | `Common/` | byte and bit buffers, logs, timers | append, resize, iterate | a bit or a byte is read back where it was written |
| Driver | `bOPRFmain/main.cpp` | endpoints and channels | ping test, PSI runs | both sides' calls match; everything is closed and stopped |

The parties talk only through a channel. A user's thread posts an operation to a strand of the
socket; io threads run the posted handlers, the asynchronous reads and writes and their
completions. `close` posts one last operation to either queue, waits for both, closes the
socket and has the endpoint destroy the channel. `BtEndpoint::stop` waits for the last channel,
`BtIOService::stop` for all endpoints and then for the threads. The PSI parties exchange seeds
and OT messages in `init`, where either starts threads for the base OTs, and, in `sendInput`,
corrections one way and masks the other.

What is hard: completions run outside the strands and wake the user before the queue is popped;
promises live on the stacks of the threads that wait for them; one end may leave while the other
still sends or receives, or not read what was sent, so that writes wait; the counters are touched
from three sides; sockets and channels look for each other by name from different threads, while
either stop may be under way; an item may be moved many times before it finds a bin; the two
parties run in lockstep over messages none of which says what it is; their seeds live in variables
of a function that does not wait for them; the threads of a base OT share buffers, a counter and a
promise; nodes of the queue are deleted while producers still point to them. `PROJECT.json` lists
these hazards line by line.

## 2. Modules

| Module | Models | For |
|---|---|---|
| `FifoChannel` | what a channel promises (`Channel.h`) | abstract specification |
| `BtSocketIO` | the channel data plane, both ends and the connection | implements `FifoChannel` |
| `MCBtSocketIO` | instances of it | TLC |
| `BtSocketIO_proofs` | proofs about it | TLAPS |
| `BtEndpoint` | the life of channels: endpoints, acceptors, services | |
| `MCBtEndpoint` | instances of it | TLC |
| `BtEndpoint_proofs` | proofs about it | TLAPS |
| `CuckooHasher` | the receiver's hash table | checked by itself, used by `BopPsi` |
| `CuckooHasher_proofs` | proofs about it | TLAPS |
| `SimpleHasher` | the sender's hash table | used by `BopPsi` |
| `BopPsi` | `sendInput` of both parties, with their tables, over a channel | composition |
| `MCBopPsi` | an instance of it | TLC |
| `BopPsi_proofs` | proofs about it | TLAPS |
| `NaorPinkas` | the base OTs: both calling threads and those they start | used by `PsiInit` |
| `OtExtension` | what IKNP and SSOT compute | used by `PsiInit` |
| `PsiInit` | `init` of both parties, more than once: seeds, base OTs, IKNP, `check`, SSOT | composition |
| `MCPsiInit` | an instance of it | TLC |
| `PsiInit_proofs` | proofs about `OtExtension` and the threads of the base transfers | TLAPS |
| `PsiAligned_proofs` | proofs about both parties of `PsiInit`, on top of these | TLAPS |
| `MpscQueue`, `Prng`, `BinSize` | the lock-free queue, the generator, the search for a bin width | |
| `MCCommon` | one instance of these three, each in behaviours of its own | TLC |
| `MpscQueue_proofs`, `Common_proofs` | proofs about the first, and about the other two | TLAPS |

### BtSocketIO

Each end has a user thread (`app`), a send strand and a receive strand with their queues, and
a connection (`wire`). The actions are the pieces of code that run without another thread
getting in between:

- `AsyncSend`, `Send`, `AsyncRecv`, `FutureGet`, `Close`, `GetTotalLoad` begin a call of the
  user's thread, `SendReturn`, `FutureReturn`, `CloseReturn`, `GetTotalClear` end it.
- `PushSend` and `KickSend` are the handler `dispatch` posts: it queues and counts the
  operation, and then, a completion perhaps having run in between, takes the maximum and starts
  `sendOne` if the queue has one element. `PushRecv` is the same for receives.
- `WriteHeader` and `WriteBody` are `async_write` handing over a frame in pieces, when there is
  room (`HasRoom`): the connection holds `Room[p]` bytes from end `p`, the header being four and
  the body the size of the message, and what the other end is reading is taken out as it
  arrives. So a body of any size gets through to an end that has read its header, and otherwise
  waits, for ever if that end does not receive or its receive chain was refused.
  `CompleteSend` is the completion, on any io thread, and `PopSend` the handler it dispatches.
- `ReadHeader`, `RefuseHeader`, `ReadBody`, `CompleteRecv`, `PopRecv` are `receiveOne`, its two
  completions, the early return for a message that does not fit, and the handler that pops.
- `Reset` and `IOError` are TCP after an end has gone: data that was not read is lost, pending
  operations fail, and the completion throws on an io thread, which ends the process.

A message is its size, all that the code looks at, and its number. A part of a frame is written
at once, when all of it fits: before, the code's `async_write` may have handed over some bytes
of it, which nobody can tell. To an end that has gone a write is accepted without waiting, and
may then be answered by a reset. Left out: the operations'
buffers (`BoostIOOperation` points into memory that the user keeps), messages of size 0
(refused before they are queued), sizes of 2^32 and above (truncated to 32 bits by
`asyncSend`), and what the bytes mean.

### BtEndpoint

The constants give the shape of a program: services, endpoints (those in `Host` listen, the
others connect), and channels with their two names. A channel has a thread that lists, connects,
uses and closes it; `main.cpp` does this from one thread, in one of the orders the model
contains.

- `ListChannel`, `RefuseChannel` are the first half of `addChannel`, under its lock, `GetSocket`
  and `Connect` the second, for a host and a client. `Close` and `RemoveChannel` are the
  beginning and the end of `close`.
- `Post` and `Complete` are what a channel does in between: `BtSocketIO` in detail, here the
  number of operations outstanding, which is what keeps `io_service::run` from returning. With
  fairness they complete, which supposes programs whose ends receive what is sent: the
  conditions of `CloseReturns`.
- `StopEndpoint`, `StopReturns` are `BtEndpoint::stop`; `StopService`, `ClearAcceptors`,
  `AwaitEndpoints`, `Join` the steps of `BtIOService::stop`; `LeaveRun` is `run` returning for
  want of work.
- `Accept`, `Accepted`, `AcceptAborted`, `ReadHeader`, `ReadNames` are the acceptor's chain and
  the three completions of a handshake. A handshake that has been read in part, `ReadPart`,
  passes the acceptor's tests as if it were whole, and goes to a name nobody has.

`EarlyStop` lets endpoints be stopped at any time, and services when nobody is adding a channel;
without it everything is stopped in the order of `main.cpp`. `ShortReads` lets `async_receive`
deliver less than was asked for. Left out: an endpoint that uses a name twice
(`NamesAssumption`), a connect that gives up (after 10^7 attempts), connections by other
programs, and errors of `bind` and `resolve`.

### CuckooHasher and SimpleHasher

An item is its index and a hash function a table of bins. `insertItem` calls itself as its last
statement, so the running call is its arguments (`hand`): `InsertItem` begins one, `Place`,
`Evict` and `PutInStash` are its three branches, and `ResizeStash` is the end of `insertItems`.
In `SimpleHasher`, `Insert` is one turn of the inner loop, and `Overflow` the exception that
access beyond the width of a row throws. Which AES values and modulus a hash function consists
of is left out; that both parties use the same functions is not: the keys are constants in
the code (`BopPsiReceiver.cpp:145-148`, `BopPsiSender.cpp:89-92`).

### BopPsi

The two parties' tables are instances of the modules above. A block is the set of its bits that
are 1, so `^` is the symmetric difference and `&` the intersection, and SHA1 is the tuple of what
goes into it. The channel is two FIFO sequences of messages, which `BtSocketIO_proofs` justifies;
neither party calls `send`, `asyncSend` waits for no room, and every message that is sent is
received, so the sequences need no bound. `init` has left the receiver with messages `T0` and `T1`
for every bin and stash position, and the sender with `Choice` and `Q`, a bitwise selection
between them: `OtsRelate` of `PsiInit`. Both parties use the same hash functions, having the same
fixed keys; the `mHashingSeed` that `init` combines, of which `SeedsAgree` speaks, is not read by
the hashing.

- Receiver: `RHash`, then `SendCorrections` for each batch of `StepSize` bins, `RecvMasks` for
  each hash function, `SendStash`, and `RecvStashMasks` for each stash position.
- Sender: `SHash`, then `RecvCorrections` for each batch and `MaskBin` for each bin,
  `SendMasks`, `RecvStash`, `SendStashMasks`.

A message of an unexpected size makes the parties throw (`ReceiverThrows`, `SenderThrows`). If a
bin of the sender overflows it throws before it has answered, and the receiver waits for
ever; `PsiEnds` says so.

What holds except with small probability is an assumption: the codes of two items differ in a
position the sender chose (`CodeAssumption`), masks for different OTs differ
(`SeparateAssumption`), and the random corrections sent for empty bins match nothing
(`DummyAssumption`). `InputAssumption` says that inputs have no duplicates, as `main.cpp`'s have
not.

### NaorPinkas, OtExtension and PsiInit

`NaorPinkas` has the calling thread of either party and the threads it starts. The receiver's
write their parts of one buffer (`WritePK0`), count down (`Countdown`), the last of them wakes
the caller (`SetPromise`), which sends the buffer (`SendPK0s`) while they go on to the messages
(`HashMessage`); all of the sender's threads write all messages (`Encrypt`). The calls return
when every thread has ended (`RJoin`, `SJoin`). The curve is any group (`GroupAssumption`), SHA1
the tuple of its inputs. `OtExtension` has the matrices of IKNP and SSOT: a block is a set of
bits, a matrix its sequence of blocks, and the generators a function of a seed and a number,
which is what `StreamKept` of `Prng` says of them.

`PsiInit` puts these together: `RBegin` to `RAgain` are `BopPsiReceiver::init`, with the
`SSOtExtReceiver` and the `IknpOtExtSender4k` it calls, `SBegin` to `SAgain`
`BopPsiSender::init`. `init` may be called again, with new OT objects or with those of the time
before, as the benchmarks of `main.cpp` do with new ones. The seeds are sent with `asyncSend` of
a pointer to a variable of `init`, and received into another with `asyncRecv`, and nothing waits
for either: `Posted` is a message whose bytes are read when it is written (`WriteSeedR`,
`WriteSeedS`), which are whatever the stack holds (`Stale`) if `init` has returned by then, and
`RecvSeedR`, `RecvSeedS` write to a variable only if it is still there. A receive waits for those
posted before it. What the properties say and do not say follows from that: an `init` that runs
the base OTs cannot return before the seeds have crossed, because it waits for later messages of
the same channel; one that reuses OT objects may return at once, and the parties may then have
different seeds, and the sender an empty `mSSOtChoice`. No caller in the repository does that.
A base choice (`Deltas`) of zero, for which `check` throws, has probability 2^-128 and is left
out.

### MpscQueue, Prng and BinSize

`MpscQueue` has one action for each access to shared memory in `enqueue` (`Allocate`,
`Exchange`, `Link`) and `dequeue` (`LoadNext`, `Output`, `StoreTail`, `DeleteTail`), and the
destructor. Nodes are addresses, which the allocator gives out again. Accesses are sequentially
consistent: a node is written before the exchange or the link that publishes it, which acquire
and release respect. In `Prng`, `SetSeed` and `Construct` are the two ways to seed a generator,
`GetU8s` begins a request and `CopyBytes` is one turn of its loop. In `BinSize`, `Widen` and
`Narrow` are the two branches of the loop of `get_bin_size`; the overflow probability, a sum in
floating point, is a threshold below which a width is not enough (`BinAssumption`).

## 3. Runs

| Run | Instance | Shows |
|---|---|---|
| `channel_stream` | A sends 2 messages of size 1 or 2 and polls the counters, B issues 2 receives, resizable or of size 1; both may close at any time | `TypeOK`, `Fifo`, `CloseDrained`, `SyncSendFlushes`, `OutstandingExact`, `ReportedOnce`, and `ChannelSteps`: every step is one of `FifoChannel` |
| `channel_duplex` | one message of size 1 each way, over a connection with room for 5 bytes from A, a whole frame, and for 4 from B, a header; fairness | `CloseIsGraceful`, `CloseReturns`, `SendReturns`, `ImplementsFifoChannel` |
| `channel_refused` | as `channel_stream`, receives of size 1 only | `EveryRecvCompletes` is violated |
| `endpoints` | a host and a client in two services, two channels with crossed names, at most 2 operations posted on each; stops in order, fairness | `EndpointTypeOK`, `SocketMatches`, `StopMeansClosed`, `NoDangling`, `AllStop` |
| `endpoints_adverse` | the same with early stops (endpoints at any time, services when nobody is adding a channel) and short reads, at most 1 operation | `SocketMatches`, `StopMeansClosed` |
| `service_stop` | one service, one channel, early stops | `ServiceStops` is violated |
| `short_handshake` | one service, one channel, short reads | `AllConnected` is violated |
| `cuckoo` | 3 items, 3 bins, 3 evictions, a stash of 1, all hash functions | `TypeOK`, `NoneLost`, `NoneTwice`, `AtItsHash`, `InsertReturns` |
| `psi_online` | 3 items against 2, common ones or not, 3 bins in batches of 2, a stash of 1, rows of 5, a family of hash functions | `TypeOK`, `OnlyCommon`, `AllCommon`, `SlotsFilled`, `Lockstep`, `PsiEnds` |
| `psi_init` | two `init`s, the second with new or old OT objects; 3 base OTs by 2 threads a party, blocks of 3 bits, 2 to a code word, 4 messages, the group of residues modulo 5; fairness | `PK0sWhole`, `BaseAgreement`, `OtsRelate`, `SeedsAgree`, `SeedsSettled`, `InitLockstep`, `InitsEnd` |
| `common` | 2 producers with 2 items each and 4 nodes; 2 generators with buffers of 2 blocks of 2 bytes and requests of 1, 2 or 5; averages to 12, thresholds to 60 | `OutInOrder`, `NodesSafe`, `StreamKept`, `BinFits` |
| `prng_ctor` | 2 generators that the constructor made from one seed | `SameSeedSameStream` is violated |

`CHECK_DEADLOCK` is off because all of these come to an end: the ends have closed, the services
have stopped, the table is full, or the protocol is over. That they end where they should is a
liveness property of its own.

**Bounds.** Two messages one way are the fewest that can overtake each other, share a queue,
and have the first one's completion race with the second one's handler; two sizes and a
resizable receive give every outcome of the header's test. There the connection has room for
both frames (12 bytes), so that writes never wait and the safety properties are checked for
every order of writes and reads; less room only removes some. In `channel_duplex` the frame of A
fits, and that of B does not: its body waits until A has read the header, and a B that sends to
an A that does not receive waits for ever. There `SendReturns` and `CloseReturns` are violated if
their conditions are dropped. Two channels with crossed names are
the fewest that a confusion of names or a shared accept chain could mix up, two endpoints the
fewest that a service must wait for; two operations leave room for the handshake and another.
In the hash table three items for three bins collide under every function, evict in cycles of
length two and three, and overflow the stash. In the protocol three bins in batches of two are a
full and a short batch, and rows of five overflow for some of the hash functions and not for
others. In `init` three transfers for two threads divide unevenly, four messages for rows of
three leave the second block of every generator partly used, which the next `Extend` must skip,
and blocks of three bits have choices of either value and matrices that are not symmetric. Four
nodes for two producers leave one to be allocated again while the others are in use. Requests of
five bytes span two refills of a buffer of four.

**Fairness.** Every handler that is ready is run and every operation the kernel can complete is
completed, which a write for which there is no room is not: the io threads do nothing else
(`BtIOService`'s workers are in `io_service::run`), weakly fair for each strand, completion and
handshake. A thread that is woken goes on. Users are fair only where a property needs it: in
`BtEndpoint` each adds, closes and stops what it has, as `main.cpp` does; in `BtSocketIO` nobody
has to call anything. What others must do for a call to return is therefore a condition of the
property: `SendReturns` asks that the messages sent so far are asked for by the other end, in
sizes that fit, up to a rest for which there is room (`Wanted`); `CloseReturns` asks that, and
that the other end sends what was asked for (`Supplied`). A PSI party is one thread that waits for
nothing but messages; `insertItems` waits for nothing. In `PsiInit` the calling threads, the
threads of the base OTs and the io threads that move the seeds are each fair.

**Violations.** Four runs show where the code does less than its comments, tests or callers say.

- `channel_refused`: a receive whose buffer does not fit the message ends with an exception as
  promised, but the queue is not popped and the body not read, so all later receives, and
  `close`, wait for ever.
- `service_stop`: `BtIOService::stop` destroys the object that keeps the io threads at work
  before it waits for the endpoints. If a channel is open but idle at that time, the threads
  leave, its `close` is never served, and `stop` does not return. In the order of `main.cpp`
  (`endpoints`) this cannot happen.
- `short_handshake`: the acceptor's tests of the two reads of a handshake accept a short read,
  and the channel that waits for that socket waits for ever.
- `prng_ctor`: the constructor of `PRNG` that takes a seed does not initialise `mBlockIdx`, so two
  generators of the same seed may deliver different streams. `main.cpp` makes the items that both
  parties share with that constructor; `SetSeed` is not affected (`StreamKept`).

## 4. Proofs

All theorems are for every value of the constants that the named assumptions allow. Each
follows from an inductive invariant `IInv`, with one lemma for each action.

- `BtSocketIO_proofs` (from `PeerAssumption`, two distinct ends, and the assumptions on sizes;
  for any room of the connection).
  `Fifo` by itself does not say where the messages are that have not arrived. `IInv` says that
  the operations posted, queued, being transferred and completed at each end are the calls made
  so far, in order and without a gap, that the counts of frame parts written, on the wire, and
  read agree, and that a close is the last operation of its queue. From it: `FifoHolds`,
  `CloseDrainedHolds`, `SyncSendFlushesHolds`, `CloseIsGracefulHolds`, and
  `ImplementsChannelSteps`, where every action is either one of `FifoChannel`'s or changes
  nothing its users see. The counters are about sums, so `Total` is a recursive function and the
  proofs first show, by the least number for which it fails, that it exists and what it does to
  `Append` and `Tail` (`TotalsAre`, `TotalAppend`, `TotalTail`). `CounterInv` then says what each
  counter is the sum of, and that the value `getTotalDataSent` holds between its two accesses is
  at most what it will clear: `OutstandingExactHolds`, `ReportedOnceHolds`, and, as a consequence,
  that no counter wraps (`TypeCorrect`).
- `BtEndpoint_proofs`. `IInv` relates the list of an endpoint to the states of its channels, its
  promise to its list, the sockets given to the handshakes that have ended, and the steps of
  `BtIOService::stop` to what has ended by then. From it `TypeCorrect` (`EndpointTypeOK`, with it:
  no promise is set twice), `SocketMatchesHolds` and `StopMeansClosedHolds`, whatever `EarlyStop`
  and `ShortReads` are. `NoDanglingHolds` is for programs that stop everything in the order of
  `main.cpp`, without short reads: it needs two more invariants, that stops come in order and that
  no connection was reset.
- `CuckooHasher_proofs`. The three properties hold together or not at all: that an eviction
  duplicates nothing needs that the item in hand is nowhere else, which for a new item needs
  `Fresh`, that inputs not yet taken are in no place.
- `BopPsi_proofs` (from `SizeAssumption`, `InputAssumption`, `BlockAssumption`,
  `PermuteAssumption`, and the three cryptographic assumptions `CodeAssumption`,
  `SeparateAssumption`, `DummyAssumption`). The receiver's table is an instance of
  `CuckooHasher`, and `C`, an instance of `CuckooHasher_proofs`, brings its invariant. `IInv` adds
  that the sender's table has every item and function up to the running insertion once, in its
  bin; it then describes everything by position, a bin or a place of the stash: which
  corrections have been sent, are under way and have been received (`Corrections`: each message
  begins where the one before ends, so both parties cut batches alike), where the mask of each
  item stands in the buffer of its function, and that the counter is the number of items whose
  bin has been masked (`Masks`), which messages of masks are under way (`ToReceiver`), and that
  the result counts exactly the common items at the positions compared so far (`Result`). Three
  arguments carry it: a mask of the sender at a position equals one of the receiver exactly if
  position and item are the same (`MasksMeet`); the slots of the permuted counters never collide
  (`MaskBinStep`), so that in the end all are filled (`AllMasked`, from which `SlotsFilledHolds`);
  and a message then contains the mask of an item once or never (`CountIsOne`). From it:
  `OnlyCommonHolds`, `AllCommonHolds` (with `NoneLost` of the table), `LockstepHolds` and
  `TypeCorrect`.
- `MpscQueue_proofs`. `OutInOrder` says nothing of the nodes, so `QueueInv` says that from the
  tail a chain of nodes leads to the head, in the order of the exchanges of the head, in which
  the link after a node is missing exactly while the push that will write it is between its
  exchange and its store. Then a push appends to the chain wherever the other threads are, and a
  pop takes the value after the tail, which is the oldest not yet taken (`OutInOrderHolds`), and
  frees a node that no push will write to (`NodesSafeHolds`).
- `Common_proofs`, of `Prng`. The bytes handed out so far are a prefix of the keystream, and what
  is left of the buffer, if it has been filled, is what comes next (`StreamKeptHolds`): whatever
  the sizes of the requests and of the buffer. An object that was constructed without a seed is
  outside it.
- `Common_proofs`, of `BinSize`. The invariant of the search is that a width that is enough is the
  start or becomes too small by one step back, that one that is not becomes enough by one step on
  when steps are being halved, and that the step is a power of two, which is what `Steps` says
  without a recursive definition (`BinFitsHolds`).
- `PsiInit_proofs`. Blocks are sets of bits, so that what IKNP and SSOT promise of a row or a
  column is a statement about set differences for each bit: `IknpColumn` and `IknpAgree` (the
  receiver has one of the sender's two messages, the one it chose) and `SsotRelate` (a
  block of the sender's message is the receiver's `t0`, with `t0 ^ t1` added under the sender's
  choice bits: the relation `Q` that `BopPsi` takes `init` to have left). Of the threads of the
  base transfers it shows that the buffer of PK0s is complete when it is sent, in every `init`
  (`PK0sWholeHolds`, from `CountAssumption`, `GroupAssumption`, `RandomAssumption` and
  `ElementAssumption`): `Latch` says that the counter is the number of threads still writing and
  that a thread past the countdown has written all of its share, `PartsCover` that the shares
  leave no gap even if the threads do not divide the transfers, and `UnderWay` what is in the
  messages, which also other steps append and take.
- `PsiAligned_proofs` (from the same assumptions, `InitAssumption`, `WidthAssumption` and
  `DeltaAssumption`). No message says what it is, seeds are sent and received beside the calling
  threads, and an `init` whose OT objects were set before sends nothing but its seed; so what has
  to be said is which message is the next. An `init` sends its seed and, if it runs the base
  transfers, a fixed number of messages more. `Start` is where its messages begin, from the number
  of earlier such `init`s, and `Lies` says of a place in a stream which message of which `init` it
  is. How far a party has come in its code tells what it has got and put (`RGot`, `RPut`, `SGot`,
  `SPut`), and the receives of seeds that wait are always those of its last `init`s (`Waits`).
  `ToRInv` and `ToSInv` are the heart: what one party has written is what the other has read and
  what is under way, and each message under way is the one its place calls for (`FitsR`, `FitsS`).
  Since the place decides `n` and `j` (`LiesUnique`), the message a party receives is the one it
  expects, which gives `InitLockstepHolds`; and since a party can be past the base transfers only
  when the other has put all of them, what the parties hold is of the same base transfers
  (`Holds`, `Same`), so that `Links`, `RPairs` and `SKeys` can say that the values correspond: the
  elements of the group (`BaseAgreementHolds`), the pairs that pass `check` (by `IknpAgree`), and
  the keys with which both extend. `Used` counts the blocks that either generator has given by the
  `init`s since, and so they are level (`OtsRelateHolds`, the relation that `BopPsi` begins with).
  `RSeeds` and `SSeeds` say that when no receive is left the variable has the seed
  (`SeedsAgreeHolds`); that none is left, and the party's own seed has been read, when an `init`
  with base transfers returns is a matter of places again (`SeedsSettledHolds`): the other party
  has answered a message written after it. Of the cryptography this assumes the laws of the group
  that the two parties' computations meet by (`GroupAssumption`), hashes without collisions, and
  that the choices of IKNP are not all zero (`DeltaAssumption`), for which `check` would throw.

TLC evaluated the invariant of `PsiAligned_proofs` before it was proved, on the instance of the
run and with three and five calls of `init`; it is not in the run, since it quantifies over all
places of a stream.

Only model-checked: the liveness properties (`CloseReturns`, `SendReturns`, `InsertReturns`,
`AllStop`, `PsiEnds`, `InitsEnd` and the liveness half of `ImplementsFifoChannel`) and with them
whatever depends on fairness, which is out of the prover's reach. All the invariants of the passing
runs and the safety half of the refinement are proved.

## 5. Not modelled

- Ciphers, hashes, elliptic curves, commitments: single deterministic functions on bits. Where
  their results matter they are functions without collisions.
- The tables and floating-point formulas of `Common/Defines.cpp`, other than the search of
  `get_bin_size`, and the choice of parameters that they feed.
- `PvwBaseOT`, which is compiled but which nothing calls.
- A second `sendInput`, or a second `init` with other sizes, on the same PSI object: `mIntersection`
  and the hash tables are not cleared. The drivers make new objects for every trial.
- The containers (`ByteStream`, `BitVector`, `BitIterator`, `MatrixView`, `ArrayView`): their
  contents are values in the models that use them.
- The driver: command lines, the timing it prints, and the ping test, which is commented out.
- Logging, timing, and third-party and vendored code. Nearly all of the lines under `src/` are
  copies of Miracl and MPIR for two platforms; the program's own code is `src/bOPRFlib` and
  `src/bOPRFmain`, about ten thousand lines with the tables.

## 6. Plan

1. Channel data plane: `FifoChannel`, `BtSocketIO`, proofs. Done.
2. Hashing and the online PSI: `CuckooHasher`, `SimpleHasher`, `BopPsi`, proofs. Done.
3. Endpoints, acceptors, services: `BtEndpoint`, proofs. Done.
4. `PsiInit` and the OT layers, proofs: the algebra of the two extensions, the countdown of the base
   transfers, and the joint invariant of both parties over repeated `init`s. Done.
5. `MpscQueue`, `Prng`, `BinSize`, with proofs. Done. Left: `BitVector` as a data type.
