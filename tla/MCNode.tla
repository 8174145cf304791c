-------------------------------- MODULE MCNode --------------------------------
(* Instances of Node.  One tree serves all runs: a trunk a1, a2, the branch *)
(* a3, and the branch b3, b4.  The cfg says which transactions the blocks   *)
(* hold and who sends which block.                                          *)
EXTENDS Node

CONSTANTS g, a1, a2, a3, b3, b4, bogus, p, q, alice, bob, mine, t0, t1, t2

MCBlock == {g, a1, a2, a3, b3, b4, bogus}
MCParent ==
  (a1 :> g) @@ (a2 :> a1) @@ (a3 :> a2) @@ (b3 :> a2) @@ (b4 :> b3) @@ (bogus :> a1)
MCWork == [b \in MCBlock |-> 1]
MCWellFormed == [b \in MCBlock |-> b # bogus]

(* bob pays alice 2 with fee 1, three times. *)
MCFrom == [t \in TxId |-> bob]
MCTo == [t \in TxId |-> alice]
MCAmount == [t \in TxId |-> 2]
MCFee == [t \in TxId |-> 1]
MCNonce == (t0 :> 0) @@ (t1 :> 1) @@ (t2 :> 2)

(* The genesis block pays bob, every other block its miner. *)
CoinbasesFor(txs) ==
  [b \in MCBlock |->
     IF b = g THEN <<[to |-> bob, amount |-> 9]>>
     ELSE <<[to |-> IF b \in {a3, b3} THEN alice ELSE mine, amount |-> 5 + Len(txs[b])]>>]

(* bob pays twice in the trunk and once on the heavier branch.  A block of  *)
(* the trunk is sent a second time.                                         *)
TrunkTxs ==
  [b \in MCBlock |-> CASE b = a1 -> <<t0>> [] b = a2 -> <<t1>> [] b = b4 -> <<t2>>
                       [] OTHER -> <<>>]
TrunkCoinbases == CoinbasesFor(TrunkTxs)
TrunkSends == ({p} \X {a1, a2, a3, b3, b4}) \cup {<<q, bogus>>, <<q, a2>>}

(* The two branches hold the same payment. *)
ForkTxs == [b \in MCBlock |-> IF b \in {a3, b3} THEN <<t0>> ELSE <<>>]
ForkCoinbases == CoinbasesFor(ForkTxs)
ForkSends == {p} \X {a1, a2, a3, b3, b4}

(* The premises of LedgerAccounts, on these trees. *)
ASSUME MCBlocksApply == BlocksApply
ASSUME MCNoMinerPays == NoMinerPays
=============================================================================
