--------------------------- MODULE MCBtSocketIO ---------------------------
(***************************************************************************)
(* Two ends and small numbers of messages.                                 *)
(***************************************************************************)
EXTENDS BtSocketIO, TLC

CONSTANTS A, B

TwoPeers == {A, B}

\* One way: A sends two messages, B receives two.
StreamSends == (A :> 2) @@ (B :> 0)
StreamRecvs == (A :> 0) @@ (B :> 2)

\* Room for all frames of the two messages, which take 4 + 2 bytes at most: no
\* write ever waits, and every order of writes and reads occurs.
StreamRoom == (A :> 12) @@ (B :> 12)

\* Both ways: one message each.
DuplexSends == (A :> 1) @@ (B :> 1)
DuplexRecvs == (A :> 1) @@ (B :> 1)

\* The frame of A, 4 + 1 bytes, fits; that of B does not, and its body waits
\* until A reads the header.
DuplexRoom == (A :> 5) @@ (B :> 4)
===========================================================================
