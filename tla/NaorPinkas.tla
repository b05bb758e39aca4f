----------------------------- MODULE NaorPinkas -----------------------------
(***************************************************************************)
(* The base oblivious transfers: NaorPinkas::Receiver and ::Sender, each   *)
(* called by one thread that starts NumThread more and waits for them.     *)
(*                                                                         *)
(* The elliptic curve is any group in which GroupAssumption holds.  SHA1   *)
(* is the tuple of its inputs.  toR and toS are the two directions of the  *)
(* channel; what is a message's kind here is its length there.             *)
(***************************************************************************)
EXTENDS Integers, Sequences

CONSTANTS
    NumOt,              \* messages.size(), BASE_OT_COUNT
    NumThread,          \* numThreads
    Elem, Exp,          \* the group and its exponents
    Gen,                \* the generator
    Pow(_, _), Div(_, _),
    SecretSets,         \* the sender's random numbers considered
    RndSeqs             \* the receiver's

Ot == 0..NumOt - 1
Thread == 0..NumThread - 1

ASSUME CountAssumption == NumOt \in Nat \ {0} /\ NumThread \in Nat \ {0}

ASSUME GroupAssumption ==
    /\ Gen \in Elem
    /\ \A x, y \in Elem : Div(x, y) \in Elem /\ Div(x, Div(x, y)) = y
    /\ \A x \in Elem : \A a \in Exp : Pow(x, a) \in Elem
    /\ \A x, y \in Elem : \A a \in Exp : Pow(Div(x, y), a) = Div(Pow(x, a), Pow(y, a))
    /\ \A a, b \in Exp : Pow(Pow(Gen, a), b) = Pow(Pow(Gen, b), a)

ASSUME RandomAssumption ==
    /\ SecretSets \subseteq [alpha : Exp, tmp : Exp]
    /\ RndSeqs \subseteq [Ot -> Exp]

VARIABLES
    toR, toS,           \* messages under way, [kind, body]
    rMain, sMain,       \* where the calling threads are
    choices,            \* the receiver's choices, the set of OTs with a 1
    rnd,                \* the numbers a thread of the receiver draws
    secrets,            \* the sender's exponents
    cBuff, sendBuff,    \* what the receiver has received, and will send
    remainingPK0s, PK0Prom,
    rAt, rIdx,          \* the receiver's threads and their loop variable i
    rMessages,
    buff,               \* the sender's PK0s
    sIdx,               \* the loop variable i of the sender's threads
    sMessages

rBaseVars == <<rMain, choices, rnd, cBuff, sendBuff, remainingPK0s, PK0Prom,
               rAt, rIdx, rMessages>>
sBaseVars == <<sMain, secrets, buff, sIdx, sMessages>>

\* What a buffer holds before it is written; elements are told from it.
Unset == <<>>
ASSUME ElementAssumption == Unset \notin Elem

NoPairs == [i \in Ot |-> <<Unset, Unset>>]

Message(kind, body) == [kind |-> kind, body |-> body]
\* The next message of a direction, if it has been written to the socket.
Arrived(queue) == queue # <<>> /\ Head(queue).body # Unset

\* The OTs of a thread of the receiver; (Rounded loses the last of them.)
Rounded(t) == t * (NumOt \div NumThread)
First(t) == (t * NumOt) \div NumThread
End(t) == First(t + 1)

Sha(i, element) == <<i, element>>

BaseIdle ==
    /\ rMain = "idle" /\ choices = {} /\ rnd = Unset
    /\ cBuff = Unset /\ sendBuff = [i \in Ot |-> Unset]
    /\ remainingPK0s = NumThread /\ PK0Prom = FALSE
    /\ rAt = [t \in Thread |-> "idle"] /\ rIdx = [t \in Thread |-> 0]
    /\ rMessages = [i \in Ot |-> Unset]
    /\ sMain = "idle" /\ secrets = Unset /\ buff = Unset
    /\ sIdx = [t \in Thread |-> 0]
    /\ sMessages = NoPairs

-----------------------------------------------------------------------------
(* Receiver.                                                               *)

\* The call, with the choices ch: the receive of C is posted and the threads
\* started.  Each seeds a generator of its own with the same seed, so that all
\* draw the same numbers, and computes g^pK, which nobody else sees.
CallReceiver(ch) ==
    /\ rMain' = "started" /\ choices' = ch
    /\ rnd' \in RndSeqs
    /\ cBuff' = Unset /\ sendBuff' = [i \in Ot |-> Unset]
    /\ remainingPK0s' = NumThread /\ PK0Prom' = FALSE
    /\ rAt' = [t \in Thread |-> "pk0"]
    /\ rIdx' = [t \in Thread |-> First(t)]
    /\ rMessages' = [i \in Ot |-> Unset]

\* The future that the threads share.
RecvC ==
    /\ rMain = "started" /\ cBuff = Unset /\ Arrived(toR)
    /\ IF Head(toR).kind = "C"
       THEN cBuff' = Head(toR).body /\ UNCHANGED rMain
       ELSE rMain' = "failed" /\ UNCHANGED cBuff
    /\ toR' = Tail(toR)
    /\ UNCHANGED <<choices, rnd, sendBuff, remainingPK0s, PK0Prom, rAt, rIdx,
                   rMessages, sBaseVars, toS>>

PK(t, i) == rnd[i - First(t)]

PK0(t, i) ==
    IF i \in choices THEN Div(cBuff[2], Pow(Gen, PK(t, i))) ELSE Pow(Gen, PK(t, i))

WritePK0(t) ==
    /\ rAt[t] = "pk0" /\ cBuff # Unset /\ rIdx[t] < End(t)
    /\ sendBuff' = [sendBuff EXCEPT ![rIdx[t]] = PK0(t, rIdx[t])]
    /\ rIdx' = [rIdx EXCEPT ![t] = @ + 1]
    /\ UNCHANGED <<rMain, choices, rnd, cBuff, remainingPK0s, PK0Prom, rAt,
                   rMessages, sBaseVars, toR, toS>>

\* What --remainingPK0s, one atomic operation, tells the thread.  (With
\* remainingPK0s-- the test would be of the value before.)
PostDecrement(left) == left + 1 = 0
Reports(left) == left = 0

Countdown(t) ==
    /\ rAt[t] = "pk0" /\ cBuff # Unset /\ rIdx[t] = End(t)
    /\ remainingPK0s' = remainingPK0s - 1
    /\ rAt' = [rAt EXCEPT ![t] = IF Reports(remainingPK0s') THEN "promise" ELSE "hash"]
    /\ rIdx' = [rIdx EXCEPT ![t] = First(t)]
    /\ UNCHANGED <<rMain, choices, rnd, cBuff, sendBuff, PK0Prom, rMessages,
                   sBaseVars, toR, toS>>

SetPromise(t) ==
    /\ rAt[t] = "promise"
    /\ PK0Prom' = TRUE
    /\ rAt' = [rAt EXCEPT ![t] = "hash"]
    /\ UNCHANGED <<rMain, choices, rnd, cBuff, sendBuff, remainingPK0s, rIdx,
                   rMessages, sBaseVars, toR, toS>>

HashMessage(t) ==
    /\ rAt[t] = "hash" /\ rIdx[t] < End(t)
    /\ rMessages' = [rMessages EXCEPT ![rIdx[t]] =
                        Sha(rIdx[t], Pow(cBuff[1], PK(t, rIdx[t])))]
    /\ rIdx' = [rIdx EXCEPT ![t] = @ + 1]
    /\ UNCHANGED <<rMain, choices, rnd, cBuff, sendBuff, remainingPK0s, PK0Prom,
                   rAt, sBaseVars, toR, toS>>

SendPK0s ==
    /\ rMain = "started" /\ PK0Prom
    /\ toS' = Append(toS, Message("PK0", sendBuff))
    /\ rMain' = "joining"
    /\ UNCHANGED <<choices, rnd, cBuff, sendBuff, remainingPK0s, PK0Prom, rAt,
                   rIdx, rMessages, sBaseVars, toR>>

\* A thread has ended.  (Counted is too early to return.)
Counted(t) == rAt[t] = "hash"
RHashed(t) == rAt[t] = "hash" /\ rIdx[t] = End(t)

RJoin ==
    /\ rMain = "joining" /\ \A t \in Thread : RHashed(t)
    /\ rMain' = "done"
    /\ UNCHANGED <<choices, rnd, cBuff, sendBuff, remainingPK0s, PK0Prom, rAt,
                   rIdx, rMessages, sBaseVars, toR, toS>>

ReceiverThread(t) ==
    WritePK0(t) \/ Countdown(t) \/ SetPromise(t) \/ HashMessage(t)

-----------------------------------------------------------------------------
(* Sender.                                                                 *)

\* The call: C is sent, the receive of the PK0s posted, the threads started.
CallSender ==
    /\ sMain' = "started"
    /\ secrets' \in SecretSets
    /\ toR' = Append(toR, Message("C",
                <<Pow(Gen, secrets'.alpha), Pow(Gen, secrets'.tmp)>>))
    /\ buff' = Unset
    /\ sIdx' = [t \in Thread |-> 0]
    /\ sMessages' = NoPairs

RecvPK0s ==
    /\ sMain = "started" /\ buff = Unset /\ Arrived(toS)
    /\ IF Head(toS).kind = "PK0"
       THEN buff' = Head(toS).body /\ UNCHANGED sMain
       ELSE sMain' = "failed" /\ UNCHANGED buff
    /\ toS' = Tail(toS)
    /\ UNCHANGED <<rBaseVars, secrets, sIdx, sMessages, toR>>

Pair(i) ==
    LET PK0a == Pow(buff[i], secrets.alpha)
        pC == Pow(Pow(Gen, secrets.tmp), secrets.alpha)
    IN <<Sha(i, PK0a), Sha(i, Div(pC, PK0a))>>

\* Every thread computes all messages, in the same array.
Encrypt(t) ==
    /\ sMain = "started" /\ buff # Unset /\ sIdx[t] < NumOt
    /\ sMessages' = [sMessages EXCEPT ![sIdx[t]] = Pair(sIdx[t])]
    /\ sIdx' = [sIdx EXCEPT ![t] = @ + 1]
    /\ UNCHANGED <<rBaseVars, sMain, secrets, buff, toR, toS>>

\* A thread has ended.  (Begun is too early to return.)
Begun(t) == sIdx[t] \in Nat
SHashed(t) == sIdx[t] = NumOt

SJoin ==
    /\ sMain = "started" /\ \A t \in Thread : SHashed(t)
    /\ sMain' = "done"
    /\ UNCHANGED <<rBaseVars, secrets, buff, sIdx, sMessages, toR, toS>>

-----------------------------------------------------------------------------
(* Properties.                                                             *)

\* The buffer of PK0s is sent when every thread has written its part of it,
\* though only one of them reports.
PK0sWhole ==
    /\ rMain \in {"joining", "done"} => \A i \in Ot : sendBuff[i] # Unset
    /\ \A k \in 1..Len(toS) :
         toS[k].kind = "PK0" => \A i \in Ot : toS[k].body[i] \in Elem

\* When both parties have returned, the receiver has of each pair the message
\* it chose.
BaseAgreement ==
    rMain = "done" /\ sMain = "done" =>
        \A i \in Ot : rMessages[i] = sMessages[i][IF i \in choices THEN 2 ELSE 1]
=============================================================================
