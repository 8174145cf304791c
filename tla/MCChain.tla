------------------------------- MODULE MCChain -------------------------------
(* An instance of Chain: a fork with a transaction on both of its sides,    *)
(* and a second root with a child.                                          *)
EXTENDS Chain

CONSTANTS g, a1, a2, a3, b2, b3, c1, r, t1, t2

MCBlock == {g, a1, a2, a3, b2, b3, r, c1}
MCRoot == {g, r}
MCParent ==
  (a1 :> g) @@ (a2 :> a1) @@ (a3 :> a2) @@ (b2 :> a1) @@ (b3 :> b2) @@ (c1 :> r)
MCWork == [b \in MCBlock |-> 1]
MCTxs ==
  [b \in MCBlock |-> CASE b \in {a2, b3} -> <<t1>>
                       [] b = b2 -> <<t2>>
                       [] OTHER -> <<>>]
=============================================================================
