------------------------------ MODULE BinSize ------------------------------
(***************************************************************************)
(* get_bin_size: the width of the sender's bins, searched for with steps   *)
(* that double until the width is enough, and then are halved.             *)
(***************************************************************************)
EXTENDS Naturals

CONSTANTS
    Starts,         \* the averages numBalls / numBins considered
    Thresholds      \* the least widths with getBinOverflowProb >= statSecParam

\* Any threshold may come with any start: a width of numBalls always suffices,
\* and wider bins overflow less.
ASSUME BinAssumption == Starts \subseteq Nat \ {0} /\ Thresholds \subseteq Nat

VARIABLES
    start, threshold,
    B, step, doubling,
    enough,         \* currentProb >= statSecParam
    returned

binVars == <<start, threshold, B, step, doubling, enough, returned>>

BinInit ==
    /\ start \in Starts /\ threshold \in Thresholds
    /\ B = start /\ step = 1 /\ doubling = TRUE /\ enough = FALSE
    /\ returned = FALSE

Halved(n) == IF n > 1 THEN n \div 2 ELSE 1

\* The loop goes on.  (Coarse stops at steps of two.)
Coarse == ~ enough \/ step > 2
Searching == ~ enough \/ step > 1

Widen ==
    /\ ~ returned /\ Searching /\ ~ enough
    /\ step' = IF doubling THEN 2 * step ELSE Halved(step)
    /\ B' = B + step'
    /\ enough' = (B' >= threshold)
    /\ UNCHANGED <<start, threshold, doubling, returned>>

Narrow ==
    /\ ~ returned /\ Searching /\ enough
    /\ doubling' = FALSE
    /\ step' = Halved(step)
    /\ B' = B - step'
    /\ enough' = (B' >= threshold)
    /\ UNCHANGED <<start, threshold, returned>>

BinReturn ==
    /\ ~ returned /\ ~ Searching
    /\ returned' = TRUE
    /\ UNCHANGED <<start, threshold, B, step, doubling, enough>>

BinNext == Widen \/ Narrow \/ BinReturn

BinSpec == BinInit /\ [][BinNext]_binVars

-----------------------------------------------------------------------------
\* The width returned is enough and, among those above the average, the least.
\* (The average itself is never tried.)
BinFits ==
    returned => B >= threshold /\ (B > threshold => B = start + 1)
=============================================================================
