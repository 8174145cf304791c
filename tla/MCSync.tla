-------------------------------- MODULE MCSync --------------------------------
(* Instances of Sync.  One tree: a trunk block t, the branch a2, a3 of one  *)
(* miner and the branch c2, c3, c4 of another.                              *)
EXTENDS Sync

CONSTANTS g, t, a2, a3, c2, c3, c4, na, nb, nc

MCParent ==
  [b \in Block \ Root |->
     ((t :> g) @@ (a2 :> t) @@ (a3 :> a2) @@ (c2 :> t) @@ (c3 :> c2) @@ (c4 :> c3))[b]]
MCWork == [b \in Block |-> 1]
MCTxs == [b \in Block |-> <<>>]
MCMiner == [b \in Block \ Root |-> IF b \in {c2, c3, c4} THEN nc ELSE na]

(* Two of the nodes are on one host, with a port each. *)
MCHost == (na :> 1) @@ (nb :> 2) @@ (nc :> 2)
Apart == (na :> 1) @@ (nb :> 2) @@ (nc :> 3)
OneHost == (na :> 1) @@ (nb :> 1) @@ (nc :> 1)

(* Three nodes in a line: each starts on its own side of a fork of two      *)
(* blocks, or before it; the shorter branch overtakes the other, and its    *)
(* second block is too long to be sent.                                     *)
LineBlocks == {g, t, a2, a3, c2, c3, c4}
LineDial == {<<na, nb>>, <<nc, nb>>}
LineTips == (na :> a3) @@ (nb :> t) @@ (nc :> c2)

(* A new node meets one whose chain is longer than what it lists.           *)
NewcomerBlocks == {g, t, a2, a3}
NewcomerTips == (na :> a3) @@ (nc :> g)
PairDial == {<<nc, na>>}

(* Two nodes on two branches, of which the shorter one grows.               *)
PairTips == (na :> a3) @@ (nc :> c2)

(* A node connects to two others that have the same block and have not      *)
(* met; one of them goes on mining.                                         *)
ReleaseBlocks == {g, t, a2, a3}
ReleaseTips == (na :> a2) @@ (nb :> t) @@ (nc :> a2)
ReleaseDial == {<<nb, na>>, <<nb, nc>>}
=============================================================================
