----------------------------- MODULE MCPsiInit -----------------------------
(***************************************************************************)
(* Three transfers by two threads, blocks of three bits, the group of the  *)
(* residues modulo 5 written additively.                                   *)
(***************************************************************************)
EXTENDS PsiInit

Exponents == 0..4
Elements == {<<x>> : x \in Exponents}
One == <<1>>
Times(x, a) == <<(x[1] * a) % 5>>
Minus(x, y) == <<(x[1] + 5 - y[1]) % 5>>

SecretChoice == {[alpha |-> 2, tmp |-> 3]}
RndChoice == {<<4, 1, 2>>, <<3, 0, 3>>}
Rnds == {[i \in Ot |-> s[i + 1]] : s \in RndChoice}

Weight(block) == Cardinality(block) + 3 * Cardinality(block \cap {0, 2})
Number(seed) ==
    IF seed = Unset THEN 0
    ELSE IF Len(seed) = 2 THEN 7 * seed[1] + 3 * seed[2][1] ELSE 2 + 5 * Weight(seed[1])
Stream(seed, n) ==
    {b \in Bit : (Number(seed) * (b + 2) + n * (b + 3) + Number(seed) * Number(seed)) % 7 < 4}

StaleBlocks == {{}, {2}}
R0 == {0}
S0 == {1}
DeltaChoice == {{0, 2}, {1}}
InputChoice ==
    {[blk \in Blk |-> IF blk = 0 THEN b ELSE {0}] : b \in {{}, {1, 2}}}
=============================================================================
