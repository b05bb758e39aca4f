---------------------------- MODULE FifoChannel ----------------------------
(***************************************************************************)
(* What a named channel promises its two users (Network/Channel.h): the    *)
(* k-th receive issued at one end is completed with the k-th message sent  *)
(* at the other end, whole, once and in order, until the end closes; a     *)
(* receive whose buffer does not fit its message is refused and is the     *)
(* last one to complete.  Queues, strands, frames and TCP are not visible. *)
(***************************************************************************)
EXTENDS Naturals, Sequences

CONSTANTS Peer      \* the two ends

VARIABLES
    sent,       \* sent[p]: number of messages sent so far at end p
    wanted,     \* wanted[p]: number of receives issued so far at end p
    received,   \* received[p]: for each completed receive, in order, the
                \* number of the message it was completed with; Refused if none
    open        \* open[p]: end p is neither closed nor lost

vars == <<sent, wanted, received, open>>

Refused == 0

Far(p) == CHOOSE q \in Peer : q # p

HasFailed(p) == \E i \in 1..Len(received[p]) : received[p][i] = Refused

Init ==
    /\ sent = [p \in Peer |-> 0]
    /\ wanted = [p \in Peer |-> 0]
    /\ received = [p \in Peer |-> <<>>]
    /\ open = [p \in Peer |-> TRUE]

\* A message is accepted for transmission.
Send(p) ==
    /\ open[p]
    /\ sent' = [sent EXCEPT ![p] = @ + 1]
    /\ UNCHANGED <<wanted, received, open>>

\* A receive is issued.
Request(p) ==
    /\ open[p]
    /\ wanted' = [wanted EXCEPT ![p] = @ + 1]
    /\ UNCHANGED <<sent, received, open>>

\* The oldest outstanding receive completes with the message of its rank.
Deliver(p) ==
    /\ open[p]
    /\ ~ HasFailed(p)
    /\ Len(received[p]) < wanted[p]
    /\ Len(received[p]) < sent[Far(p)]
    /\ \E m \in {Len(received[p]) + 1, Refused} :
          received' = [received EXCEPT ![p] = Append(@, m)]
    /\ UNCHANGED <<sent, wanted, open>>

\* The end is closed by its user, or lost.
Leave(p) ==
    /\ open[p]
    /\ open' = [open EXCEPT ![p] = FALSE]
    /\ UNCHANGED <<sent, wanted, received>>

Next == \E p \in Peer : Send(p) \/ Request(p) \/ Deliver(p) \/ Leave(p)

Spec == Init /\ [][Next]_vars

\* A receive that has its message does not wait forever.
FairSpec == Spec /\ \A p \in Peer : WF_vars(Deliver(p))
=============================================================================
