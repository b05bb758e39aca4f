------------------------------ MODULE MCBopPsi ------------------------------
(***************************************************************************)
(* Four items; the receiver has three of them and the sender two.  Bits 1  *)
(* and 2 tell the codes apart, bit 3 is beyond codeWordSize, and bits from *)
(* 10 on tell the OT messages apart.                                       *)
(***************************************************************************)
EXTENDS BopPsi

Receivers == {<<1, 2, 3>>}
Senders == {<<3, 1>>, <<4, 2>>}

\* Items hashed to the same bin by several functions, and by all, included.
Hashes ==
    {f \in [HashIdx -> [Value -> Bin]] :
        f[2] = f[0] /\ f[0][4] = 0 /\ f[1][4] = f[1][2]}

Codes == <<{1}, {2}, {1, 2, 3}, {3}>>
Bits == {1, 2, 3} \cup (10..20)
CodeBits == Bits \ {3}
Msg0 == [ot \in Ot |-> {10 + ot} \cup IF ot = 0 THEN {1, 3} ELSE {2}]
Msg1 == [ot \in Ot |-> {10 + ot, 20} \cup IF ot = 0 THEN {} ELSE {1, 2, 3}]
Choices == {1, 2, 10, 15, 20}
Dummies == [ot \in Ot |-> {15, 20}]
Shuffled == [h \in 0..2 |-> IF h = 1 THEN <<1, 2>> ELSE <<2, 1>>]
=============================================================================
