---------------------------- MODULE MCBtEndpoint ----------------------------
(***************************************************************************)
(* A host and a client in two processes, as main.cpp's sender and          *)
(* receiver, or in one, as its test, with two channels whose names are     *)
(* each other's reverse.                                                   *)
(***************************************************************************)
EXTENDS BtEndpoint

OneServiceOf == [e \in {"ep0", "ep1"} |-> "ios"]
TwoServicesOf == [e \in {"ep0", "ep1"} |-> IF e = "ep0" THEN "ios0" ELSE "ios1"]
OneServer == [e \in {"ep0", "ep1"} |-> "ios"]
TwoServer == [e \in {"ep0", "ep1"} |-> "ios0"]
SameName == [e \in {"ep0", "ep1"} |-> "psi"]

EndOf == [c \in {"h1", "h2", "k1", "k2"} |-> IF c \in {"h1", "h2"} THEN "ep0" ELSE "ep1"]
LocalNames == [c \in {"h1", "h2", "k1", "k2"} |-> IF c \in {"h1", "k2"} THEN "a" ELSE "b"]
RemoteNames == [c \in {"h1", "h2", "k1", "k2"} |-> IF c \in {"h1", "k2"} THEN "b" ELSE "a"]
OneEnd == [c \in {"h1", "k1"} |-> EndOf[c]]
OneLocal == [c \in {"h1", "k1"} |-> LocalNames[c]]
OneRemote == [c \in {"h1", "k1"} |-> RemoteNames[c]]
=============================================================================
