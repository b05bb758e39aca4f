------------------------------ MODULE PsiInit ------------------------------
(***************************************************************************)
(* BopPsiReceiver::init and BopPsiSender::init, NumInit times on one       *)
(* channel: the hash seeds, the base transfers (NaorPinkas), IKNP and the  *)
(* check of BaseSSOT, and the extension.  The receiver of the set          *)
(* intersection, R, is the sender of all oblivious transfers but           *)
(* Naor-Pinkas's, and S, its sender, the receiver.                         *)
(*                                                                         *)
(* The seeds are sent from, and received into, variables on the stack of   *)
(* init, by operations that init does not wait for.                        *)
(***************************************************************************)
EXTENDS NaorPinkas, OtExtension, FiniteSets

CONSTANTS
    NumInit,            \* how often init is called
    NumMsg,             \* mBinCount + mNumStash
    RSeed, SSeed,       \* the parties' seeds, blocks
    Stale,              \* what an unwritten or abandoned stack slot may hold
    Deltas,             \* the baseChoices of IKNP considered
    Inputs              \* the receiver_inputs considered

ASSUME WidthAssumption == NumOt = Width

ASSUME InitAssumption ==
    /\ NumBlk \in Nat \ {0} /\ NumInit \in Nat \ {0} /\ NumMsg \in Nat
    /\ RSeed \in Block /\ SSeed \in Block /\ Stale \subseteq Block
    /\ Inputs \subseteq [Blk -> Block]

\* A delta of zero, for which check throws, has probability 2^-128.
ASSUME DeltaAssumption == Deltas \subseteq Block \ {{}}

VARIABLES
    fresh,              \* fresh[n]: the n-th init has new OT objects
    rInit, sInit,       \* the number of a party's running or last init
    rPhase, sPhase,     \* where it is in it
    rStep, sStep,       \* loop variables: block, or message of check
    rTheirs, sTheirs,   \* theirHashingSeeds
    rWaiting, sWaiting, \* the inits whose receive of a seed is outstanding
    mHashingSeed,       \* of either party
    senderInputs,       \* R's BaseSSOT::sender_inputs
    receiverInputs,     \* S's BaseSSOT::receiver_inputs
    receiverOutputs,    \* S's BaseSSOT::receiver_outputs
    rOt, sOt,           \* the SSOtExtReceiver and the SSOtExtSender
    mSSOtChoice,
    rMsgs, sMsgs        \* mSSOtMessages and mPsiRecvSSOtMessages

rInitVars == <<rInit, rPhase, rStep, rTheirs, rWaiting, senderInputs, rOt, rMsgs>>
sInitVars == <<sInit, sPhase, sStep, sTheirs, sWaiting, receiverInputs,
               receiverOutputs, sOt, mSSOtChoice, sMsgs>>
vars == <<rBaseVars, sBaseVars, rInitVars, sInitVars, toR, toS, fresh, mHashingSeed>>

NoBase == [has |-> FALSE]
\* The k-th of the base transfers is one of a block and a column.
PairAt(k) == <<k \div Width, k % Width>>

Init ==
    /\ fresh \in {f \in [1..NumInit -> BOOLEAN] : f[1]}
    /\ rInit = 1 /\ sInit = 1 /\ rPhase = "begin" /\ sPhase = "begin"
    /\ rStep = 0 /\ sStep = 0 /\ rTheirs = {} /\ sTheirs = {}
    /\ rWaiting = <<>> /\ sWaiting = <<>>
    /\ mHashingSeed = [p \in {"R", "S"} |-> {}]
    /\ senderInputs = Unset /\ receiverInputs = Unset /\ receiverOutputs = Unset
    /\ rOt = NoBase /\ sOt = NoBase /\ mSSOtChoice = Unset
    /\ rMsgs = Unset /\ sMsgs = Unset
    /\ toR = <<>> /\ toS = <<>>
    /\ BaseIdle

-----------------------------------------------------------------------------
(* Seeds.                                                                  *)

\* A seed that has been posted; its bytes are read when it is written to the
\* socket, with the messages behind it.
Posted(n) == [kind |-> "seed", body |-> Unset, from |-> n]

IsPosted(m) == m.kind = "seed" /\ m.body = Unset

\* The init whose variables are there: it has begun and not returned.
RAlive == IF rPhase \in {"begin", "done"} THEN {} ELSE {rInit}
SAlive == IF sPhase \in {"begin", "done"} THEN {} ELSE {sInit}

\* The first seed posted is written, or what is in its place by now.
Written(queue, alive, seed) ==
    LET k == CHOOSE j \in DOMAIN queue :
                /\ IsPosted(queue[j])
                /\ \A i \in 1..j - 1 : ~ IsPosted(queue[i])
    IN {[queue EXCEPT ![k].body = <<b>>] :
            b \in IF queue[k].from \in alive THEN {seed} ELSE Stale}

WriteSeedR ==
    /\ \E k \in DOMAIN toS : IsPosted(toS[k])
    /\ toS' \in Written(toS, RAlive, RSeed)
    /\ UNCHANGED <<rBaseVars, sBaseVars, rInitVars, sInitVars, toR, fresh, mHashingSeed>>

WriteSeedS ==
    /\ \E k \in DOMAIN toR : IsPosted(toR[k])
    /\ toR' \in Written(toR, SAlive, SSeed)
    /\ UNCHANGED <<rBaseVars, sBaseVars, rInitVars, sInitVars, toS, fresh, mHashingSeed>>

\* The oldest receive that is posted takes the next message.
RecvSeedR ==
    /\ rWaiting # <<>> /\ Arrived(toR)
    /\ IF Head(toR).kind # "seed" THEN rPhase' = "failed" /\ UNCHANGED rTheirs
       ELSE /\ UNCHANGED rPhase
            /\ rTheirs' = IF Head(rWaiting) \in RAlive THEN Head(toR).body[1] ELSE rTheirs
    /\ rWaiting' = Tail(rWaiting)
    /\ toR' = Tail(toR)
    /\ UNCHANGED <<rBaseVars, sBaseVars, sInitVars, rInit, rStep, senderInputs,
                   rOt, rMsgs, toS, fresh, mHashingSeed>>

RecvSeedS ==
    /\ sWaiting # <<>> /\ Arrived(toS)
    /\ IF Head(toS).kind # "seed" THEN sPhase' = "failed" /\ UNCHANGED sTheirs
       ELSE /\ UNCHANGED sPhase
            /\ sTheirs' = IF Head(sWaiting) \in SAlive THEN Head(toS).body[1] ELSE sTheirs
    /\ sWaiting' = Tail(sWaiting)
    /\ toS' = Tail(toS)
    /\ UNCHANGED <<rBaseVars, sBaseVars, rInitVars, sInit, sStep, receiverInputs,
                   receiverOutputs, sOt, mSSOtChoice, sMsgs, toR, fresh, mHashingSeed>>

\* (Mine forgets the other party's seed.)
Mine(mine, theirs) == mine
Combined(mine, theirs) == SymDiff(mine, theirs)

-----------------------------------------------------------------------------
(* R.                                                                      *)

\* A new BopPsiReceiver, and perhaps a new SSOtExtReceiver, and the first
\* lines of init; rTheirs is not initialised.
RBegin ==
    /\ rPhase = "begin"
    /\ toS' = Append(toS, Posted(rInit))
    /\ rWaiting' = Append(rWaiting, rInit)
    /\ rTheirs' \in Stale
    /\ rOt' = IF fresh[rInit] THEN NoBase ELSE rOt
    /\ rPhase' = IF rOt'.has THEN "extend" ELSE "base"
    /\ rMsgs' = Unset
    /\ mHashingSeed' = [mHashingSeed EXCEPT !["R"] = {}]
    /\ UNCHANGED <<rBaseVars, sBaseVars, sInitVars, rInit, rStep, senderInputs, toR, fresh>>

RBase ==
    /\ rPhase = "base"
    /\ \E delta \in Deltas : CallReceiver(delta)
    /\ rPhase' = "baseOts"
    /\ UNCHANGED <<sBaseVars, sInitVars, rInit, rStep, rTheirs, rWaiting,
                   senderInputs, rOt, rMsgs, toR, toS, fresh, mHashingSeed>>

\* Base transfers done: IknpOtExtSender4k has its keys, rMessages, and its
\* choices.
RBaseDone ==
    /\ rPhase = "baseOts" /\ rMain = "done"
    /\ rPhase' = "iknp" /\ rStep' = 0
    /\ senderInputs' = [blk \in Blk |-> Unset]
    /\ UNCHANGED <<rBaseVars, sBaseVars, sInitVars, rInit, rTheirs, rWaiting,
                   rOt, rMsgs, toR, toS, fresh, mHashingSeed>>

RIknp ==
    /\ rPhase = "iknp" /\ Arrived(toR) /\ rWaiting = <<>>
    /\ LET m == Head(toR) IN
         \/ m.kind # "u" /\ rPhase' = "failed" /\ UNCHANGED <<senderInputs, rStep>>
         \/ /\ m.kind = "u"
            /\ senderInputs' = [senderInputs EXCEPT ![rStep] =
                    IknpSendMessages(rMessages, choices, rStep, m.body)]
            /\ rStep' = rStep + 1
            /\ rPhase' = IF rStep' = NumBlk THEN "check" ELSE "iknp"
    /\ toR' = Tail(toR)
    /\ UNCHANGED <<rBaseVars, sBaseVars, sInitVars, rInit, rTheirs, rWaiting,
                   rOt, rMsgs, toS, fresh, mHashingSeed>>

\* check sends the pairs in turn, which nothing makes it wait for.
RCheck ==
    /\ rPhase = "check"
    /\ LET At(k) == senderInputs[PairAt(k)[1]][PairAt(k)[2]]
           equal == {k \in 0..NumBlk * Width - 1 : At(k)[1] = At(k)[2]}
       IN \/ equal # {} /\ rPhase' = "failed" /\ UNCHANGED toS
          \/ /\ equal = {} /\ rPhase' = "extend"
             /\ toS' = toS \o [k \in 1..NumBlk * Width |-> Message("check", At(k - 1))]
    /\ rOt' = [has |-> TRUE, keys |-> senderInputs, used |-> 0]
    /\ UNCHANGED <<rBaseVars, sBaseVars, sInitVars, rInit, rStep, rTheirs, rWaiting,
                   senderInputs, rMsgs, toR, fresh, mHashingSeed>>

\* (Swapped takes the pairs the other way round.)
Swapped(j) == [blk \in Blk |-> [c \in Bit |-> rOt.keys[blk][c][3 - j]]]
RKeys(j) == [blk \in Blk |-> [c \in Bit |-> rOt.keys[blk][c][j]]]

\* The rest of init, and its return.
RExtend ==
    /\ rPhase = "extend"
    /\ mHashingSeed' = [mHashingSeed EXCEPT !["R"] = Combined(RSeed, rTheirs)]
    /\ rMsgs' = [i \in 0..NumMsg - 1 |->
            <<SsotMessage(RKeys(1), rOt.used, i), SsotMessage(RKeys(2), rOt.used, i)>>]
    /\ rOt' = [rOt EXCEPT !.used = @ + Rounds(NumMsg)]
    /\ rPhase' = "done"
    /\ UNCHANGED <<rBaseVars, sBaseVars, sInitVars, rInit, rStep, rTheirs, rWaiting,
                   senderInputs, toR, toS, fresh>>

RAgain ==
    /\ rPhase = "done" /\ rInit < NumInit
    /\ rInit' = rInit + 1 /\ rPhase' = "begin"
    /\ UNCHANGED <<rBaseVars, sBaseVars, sInitVars, rStep, rTheirs, rWaiting,
                   senderInputs, rOt, rMsgs, toR, toS, fresh, mHashingSeed>>

-----------------------------------------------------------------------------
(* S.                                                                      *)

SBegin ==
    /\ sPhase = "begin"
    /\ toR' = Append(toR, Posted(sInit))
    /\ sWaiting' = Append(sWaiting, sInit)
    /\ sTheirs' \in Stale
    /\ sOt' = IF fresh[sInit] THEN NoBase ELSE sOt
    /\ sPhase' = IF sOt'.has THEN "extend" ELSE "base"
    /\ mSSOtChoice' = Unset /\ sMsgs' = Unset
    /\ mHashingSeed' = [mHashingSeed EXCEPT !["S"] = {}]
    /\ UNCHANGED <<rBaseVars, sBaseVars, rInitVars, sInit, sStep, receiverInputs,
                   receiverOutputs, toS, fresh>>

SBase ==
    /\ sPhase = "base"
    /\ receiverInputs' \in Inputs
    /\ CallSender
    /\ sPhase' = "baseOts"
    /\ UNCHANGED <<rBaseVars, rInitVars, sInit, sStep, sTheirs, sWaiting,
                   receiverOutputs, sOt, mSSOtChoice, sMsgs, toS, fresh, mHashingSeed>>

SBaseDone ==
    /\ sPhase = "baseOts" /\ sMain = "done"
    /\ sPhase' = "iknp" /\ sStep' = 0
    /\ receiverOutputs' = [blk \in Blk |-> Unset]
    /\ UNCHANGED <<rBaseVars, sBaseVars, rInitVars, sInit, sTheirs, sWaiting,
                   receiverInputs, sOt, mSSOtChoice, sMsgs, toR, toS, fresh, mHashingSeed>>

SIknp ==
    /\ sPhase = "iknp"
    /\ toR' = Append(toR, Message("u", IknpU(sMessages, sStep, receiverInputs[sStep])))
    /\ receiverOutputs' = [receiverOutputs EXCEPT ![sStep] =
                                IknpRecvMessages(sMessages, sStep)]
    /\ sStep' = (sStep + 1) % NumBlk
    /\ sPhase' = IF sStep + 1 < NumBlk THEN "iknp" ELSE "check"
    /\ UNCHANGED <<rBaseVars, sBaseVars, rInitVars, sInit, sTheirs, sWaiting,
                   receiverInputs, sOt, mSSOtChoice, sMsgs, toS, fresh, mHashingSeed>>

Chosen(pair, bits, c) == pair[IF c \in bits THEN 2 ELSE 1]

SCheck ==
    /\ sPhase = "check" /\ Arrived(toS) /\ sWaiting = <<>>
    /\ LET m == Head(toS)
           blk == PairAt(sStep)[1]
           c == PairAt(sStep)[2]
       IN IF /\ m.kind = "check"
             /\ Chosen(m.body, receiverInputs[blk], c) = receiverOutputs[blk][c]
          THEN /\ sStep' = sStep + 1
               /\ sPhase' = IF sStep' = NumBlk * Width THEN "set" ELSE "check"
          ELSE sPhase' = "failed" /\ UNCHANGED sStep
    /\ toS' = Tail(toS)
    /\ UNCHANGED <<rBaseVars, sBaseVars, rInitVars, sInit, sTheirs, sWaiting,
                   receiverInputs, receiverOutputs, sOt, mSSOtChoice, sMsgs,
                   toR, fresh, mHashingSeed>>

SSetBase ==
    /\ sPhase = "set"
    /\ sOt' = [has |-> TRUE, key |-> receiverOutputs, choice |-> receiverInputs, used |-> 0]
    /\ mSSOtChoice' = receiverInputs
    /\ sPhase' = "extend"
    /\ UNCHANGED <<rBaseVars, sBaseVars, rInitVars, sInit, sStep, sTheirs, sWaiting,
                   receiverInputs, receiverOutputs, sMsgs, toR, toS, fresh, mHashingSeed>>

SExtend ==
    /\ sPhase = "extend"
    /\ mHashingSeed' = [mHashingSeed EXCEPT !["S"] = Combined(SSeed, sTheirs)]
    /\ sMsgs' = [i \in 0..NumMsg - 1 |-> SsotMessage(sOt.key, sOt.used, i)]
    /\ sOt' = [sOt EXCEPT !.used = @ + Rounds(NumMsg)]
    /\ sPhase' = "done"
    /\ UNCHANGED <<rBaseVars, sBaseVars, rInitVars, sInit, sStep, sTheirs, sWaiting,
                   receiverInputs, receiverOutputs, mSSOtChoice, toR, toS, fresh>>

SAgain ==
    /\ sPhase = "done" /\ sInit < NumInit
    /\ sInit' = sInit + 1 /\ sPhase' = "begin"
    /\ UNCHANGED <<rBaseVars, sBaseVars, rInitVars, sStep, sTheirs, sWaiting,
                   receiverInputs, receiverOutputs, sOt, mSSOtChoice, sMsgs,
                   toR, toS, fresh, mHashingSeed>>

-----------------------------------------------------------------------------
\* The threads and receives of the base transfers; a receive waits for those
\* posted before it.
BaseStep ==
    /\ \/ RecvC /\ rWaiting = <<>>
       \/ RecvPK0s /\ sWaiting = <<>>
       \/ \E t \in Thread : ReceiverThread(t) \/ Encrypt(t)
       \/ SendPK0s \/ RJoin \/ SJoin
    /\ UNCHANGED <<rInitVars, sInitVars, fresh, mHashingSeed>>

RStepOn == RBegin \/ RBase \/ RBaseDone \/ RIknp \/ RCheck \/ RExtend \/ RAgain
SStepOn == SBegin \/ SBase \/ SBaseDone \/ SIknp \/ SCheck \/ SSetBase \/ SExtend \/ SAgain
SeedStep == WriteSeedR \/ WriteSeedS \/ RecvSeedR \/ RecvSeedS

Next == BaseStep \/ RStepOn \/ SStepOn \/ SeedStep

Spec == Init /\ [][Next]_vars

\* Every thread goes on when it can, and the io threads do nothing else.
FairSpec ==
    /\ Spec
    /\ WF_vars(BaseStep) /\ WF_vars(RStepOn) /\ WF_vars(SStepOn) /\ WF_vars(SeedStep)

-----------------------------------------------------------------------------
(* Properties.                                                             *)

BothDone == rPhase = "done" /\ sPhase = "done" /\ rInit = sInit

\* What the online phase relies on (Q in BopPsi): the sender's message is, bit
\* by bit, the one of the receiver's two that the sender's choice selects,
\* after every init, whether or not it ran the base transfers.
OtsRelate ==
    BothDone =>
        /\ \A i \in 0..NumMsg - 1 : \A blk \in Blk :
             LET t0 == rMsgs[i][1][blk]
                 t1 == rMsgs[i][2][blk]
             IN sMsgs[i][blk] = SymDiff(t0, SymDiff(t0, t1) \cap sOt.choice[blk])
        /\ fresh[sInit] => mSSOtChoice = sOt.choice

\* After an init that ran the base transfers, both parties have combined the
\* same seeds.
SeedsAgree ==
    BothDone /\ fresh[rInit] =>
        \A p \in {"R", "S"} : mHashingSeed[p] = SymDiff(RSeed, SSeed)

\* Such an init returns when the seeds it sends from and receives into its
\* stack have been sent and received.
SeedsSettled ==
    /\ rPhase = "done" /\ fresh[rInit] =>
        /\ rInit \notin {rWaiting[k] : k \in DOMAIN rWaiting}
        /\ \A k \in DOMAIN toS : IsPosted(toS[k]) => toS[k].from # rInit
    /\ sPhase = "done" /\ fresh[sInit] =>
        /\ sInit \notin {sWaiting[k] : k \in DOMAIN sWaiting}
        /\ \A k \in DOMAIN toR : IsPosted(toR[k]) => toR[k].from # sInit

\* Neither party receives another message than it expects, and every pair
\* passes the check of BaseSSOT.
InitLockstep ==
    /\ rPhase # "failed" /\ sPhase # "failed"
    /\ rMain # "failed" /\ sMain # "failed"

\* All inits return.
InitsEnd == <>[](BothDone /\ rInit = NumInit)
=============================================================================
