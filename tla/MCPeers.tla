-------------------------------- MODULE MCPeers --------------------------------
(* Instances of Peers: two connections of one address, as when it is      *)
(* connected to again and again; everything in Peers is by address.         *)
EXTENDS Peers, TLC

CONSTANTS h, c1, c2

MCAddrOf == [c \in {c1, c2} |-> h]
=============================================================================
