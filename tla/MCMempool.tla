------------------------------ MODULE MCMempool ------------------------------
(* An instance of Mempool.  alice pays with nonce 0 and 1; one block holds  *)
(* the first payment, and so does the heavier branch beside it.             *)
EXTENDS Mempool

CONSTANTS g, a1, b1, b2, t0, t1, p, q, alice, bob, mine

MCBlock == {g, a1, b1, b2}
MCParent == [b \in Block \ {g} |-> IF b = b2 THEN b1 ELSE g]
MCWork == [b \in Block |-> 1]
MCTxs == [b \in Block |-> IF b \in {a1, b2} THEN <<t0>> ELSE <<>>]
MCFrom == [t \in {t0, t1} |-> alice]
MCTo == [t \in {t0, t1} |-> bob]
MCAmount == [t \in {t0, t1} |-> 2]
MCFee == [t \in {t0, t1} |-> 1]
MCNonce == (t0 :> 0) @@ (t1 :> 1)
MCCoinbases ==
  [b \in Block |-> <<[to |-> IF b = g THEN alice ELSE mine, amount |-> 6]>>]
MCPrecheck == [t \in {t0, t1} |-> TRUE]

(* p sends both, q sends the first once more. *)
MCSubmission == {[tx |-> t0, from |-> p], [tx |-> t1, from |-> p], [tx |-> t0, from |-> q]}

(* The premises of the theorems of MempoolProofs, on this tree. *)
ASSUME MCBlocksApply == BlocksApply /\ NoMinerPays
=============================================================================
