------------------------------ MODULE MCCommon ------------------------------
(***************************************************************************)
(* The parts that stand alone, one in each behaviour: the queue, the       *)
(* generator and the search for a bin size.                                *)
(***************************************************************************)
EXTENDS MpscQueue, Prng, BinSize

VARIABLE part

vars == <<part, queueVars, prngVars, binVars>>

Init ==
    /\ part \in {"queue", "prng", "bins"}
    /\ QueueInit /\ PrngInit /\ BinInit
    /\ part # "queue" => head = CHOOSE n \in Node : TRUE
    /\ part # "prng" => mSeed = [g \in Gen |-> CHOOSE s \in Seed : TRUE]
    /\ part # "bins" => start = 1 /\ threshold = 1

Next ==
    \/ part = "queue" /\ QueueNext /\ UNCHANGED <<part, prngVars, binVars>>
    \/ part = "prng" /\ PrngNext /\ UNCHANGED <<part, queueVars, binVars>>
    \/ part = "bins" /\ BinNext /\ UNCHANGED <<part, queueVars, prngVars>>

Spec == Init /\ [][Next]_vars

StartRange == 1..12
ThresholdRange == 1..60
=============================================================================
