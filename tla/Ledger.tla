-------------------------------- MODULE Ledger --------------------------------
(***************************************************************************)
(* p2p/app/ledger.py as operators: a ledger is the pair of maps _bal and   *)
(* _nonce, and applying, rolling back and projecting map ledgers to        *)
(* ledgers.  Every operation works on copies and commits both maps under   *)
(* _lock, so each is one atomic change of the ledger.                      *)
(*                                                                         *)
(* Amounts are whole numbers (the code uses floats).                       *)
(*                                                                         *)
(* validate_tx also looks at the chain.  COINBASE_MATURITY is 1, so no     *)
(* coinbase should be immature; but _ensure_immature_cache reads the       *)
(* height of the tip and then the main chain, without a lock over both and *)
(* into a cache that all threads share.  When the chain grows in between,  *)
(* the coinbases of the new blocks count as immature.                      *)
(***************************************************************************)
EXTENDS BlockTree

CONSTANTS
  Account,     \* addresses
  TxFrom,      \* txin of a transaction
  TxTo,        \* txout
  TxAmount,    \* amount
  TxFee,       \* fee
  TxNonce,     \* nonce
  Coinbases    \* the coinbases of a block: records [to, amount]

ASSUME LedgerAssumption ==
  /\ TxFrom \in [TxId -> Account] /\ TxTo \in [TxId -> Account]
  /\ TxAmount \in [TxId -> Int] /\ TxFee \in [TxId -> Int]
  /\ TxNonce \in [TxId -> Nat]
  /\ Coinbases \in [Block -> Seq([to : Account, amount : Nat])]

LedgerState == [bal : [Account -> Int], nonce : [Account -> Nat]]

EmptyLedger == [bal |-> [a \in Account |-> 0], nonce |-> [a \in Account |-> 0]]

(* validate_tx: the nonce is the next one of the sender, who can pay       *)
(* without the coinbases held back as immature.                            *)
ValidTx(l, t, held) ==
  /\ TxAmount[t] >= 0 /\ TxFee[t] >= 0
  /\ TxNonce[t] = l.nonce[TxFrom[t]]
  /\ l.bal[TxFrom[t]] - held >= TxAmount[t] + TxFee[t]

(* The same with an empty cache: what the ledger alone says. *)
FitsTx(l, t) == ValidTx(l, t, 0)

(* What apply_block does for a transaction, and what rollback_block undoes. *)
Spend(l, t) ==
  [bal   |-> [l.bal EXCEPT ![TxFrom[t]] = @ - (TxAmount[t] + TxFee[t]),
                           ![TxTo[t]] = @ + TxAmount[t]],
   nonce |-> [l.nonce EXCEPT ![TxFrom[t]] = @ + 1]]

(* Mutation: the fee is not given back. *)
UnspendAmount(l, t) ==
  [bal   |-> [l.bal EXCEPT ![TxFrom[t]] = @ + TxAmount[t], ![TxTo[t]] = @ - TxAmount[t]],
   nonce |-> [l.nonce EXCEPT ![TxFrom[t]] = IF @ > 0 THEN @ - 1 ELSE 0]]

Unspend(l, t) ==
  [bal   |-> [l.bal EXCEPT ![TxFrom[t]] = @ + (TxAmount[t] + TxFee[t]),
                           ![TxTo[t]] = @ - TxAmount[t]],
   nonce |-> [l.nonce EXCEPT ![TxFrom[t]] = IF @ > 0 THEN @ - 1 ELSE 0]]

Credit(l, c) == [l EXCEPT !.bal[c.to] = @ + c.amount]
Uncredit(l, c) == [l EXCEPT !.bal[c.to] = @ - c.amount]

(* The transactions of a block in order, stopping at the first that does   *)
(* not fit where it stands.                                                *)
RunTx(r, t) == IF r.ok /\ FitsTx(r.ledger, t)
               THEN [ok |-> TRUE, ledger |-> Spend(r.ledger, t)]
               ELSE [r EXCEPT !.ok = FALSE]

RunTxs(l, txs) == FoldLeft(RunTx, [ok |-> TRUE, ledger |-> l], txs)

(* _ensure_immature_cache: the first coinbase of a block is held back from *)
(* its miner, for each block above the height that was read before.        *)
Earns(b, a) == Coinbases[b] # <<>> /\ Coinbases[b][1].to = a

Held(blocks, a) ==
  FoldLeft(LAMBDA n, b : n + (IF Earns(b, a) THEN Coinbases[b][1].amount ELSE 0), 0, blocks)

(* What a chain that ends at b may have grown by between the two reads;    *)
(* numer_bloku 0 is passed over.                                           *)
GrownBy(b) == {SubSeq(Lineage[b], h, Len(Lineage[b])) : h \in 2..Len(Lineage[b])}

(* A list of transactions can be refused only because, after chains grew   *)
(* by the given blocks, one of its payers seems to lack what he mined.     *)
SeemsShort(l, txs, grown) ==
  \E i \in DOMAIN txs, blocks \in grown :
     /\ \E b \in Range(blocks) : Earns(b, TxFrom[txs[i]])
     /\ ~ValidTx(RunTxs(l, SubSeq(txs, 1, i - 1)).ledger, txs[i],
                 Held(blocks, TxFrom[txs[i]]))

(* Nobody whose payments are in blocks mines: the premise under which no   *)
(* block is refused for that.                                              *)
NoMinerPays ==
  \A b \in Block \ Root, c \in Block : \A t \in Range(Txs[c]) : ~Earns(b, TxFrom[t])

(* apply_block returns True, if nobody seems short. *)
Applies(l, b) ==
  /\ b \notin Root => Len(Coinbases[b]) = 1
  /\ RunTxs(l, Txs[b]).ok

(* apply_block: a block that does not apply leaves the ledger as it was. *)
ApplyBlock(l, b) ==
  IF Applies(l, b) THEN FoldLeft(Credit, RunTxs(l, Txs[b]).ledger, Coinbases[b])
  ELSE l

(* rollback_block undoes whatever it is given, applied before or not. *)
RollbackBlock(l, b) ==
  FoldLeft(Unspend, FoldLeft(Uncredit, l, Reverse(Coinbases[b])), Reverse(Txs[b]))

(* rebuild_from_chain: replay from nothing, ending at a block that fails. *)
ReplayBlock(r, b) == IF r.ok /\ Applies(r.ledger, b)
                     THEN [ok |-> TRUE, ledger |-> ApplyBlock(r.ledger, b)]
                     ELSE [r EXCEPT !.ok = FALSE]

Rebuild(blocks) ==
  FoldLeft(ReplayBlock, [ok |-> TRUE, ledger |-> EmptyLedger], blocks).ledger

(* project_with_txs: the ledger after the listed transactions, those that  *)
(* do not fit where they stand being passed over.                          *)
ProjectTxs(l, txs) ==
  FoldLeft(LAMBDA r, t : IF /\ TxNonce[t] = r.nonce[TxFrom[t]]
                            /\ r.bal[TxFrom[t]] >= TxAmount[t] + TxFee[t]
                         THEN Spend(r, t) ELSE r,
           l, txs)
-----------------------------------------------------------------------------
(* The effect of a block on a ledger that accepts it.                      *)
Do(l, b) == FoldLeft(Credit, FoldLeft(Spend, l, Txs[b]), Coinbases[b])

(* Rolling a block back right after it was applied restores every balance  *)
(* and nonce, including transfers to oneself, several transactions of one  *)
(* sender and a miner who spends in his own block.                         *)
UndoesItself(l, b) == Applies(l, b) => RollbackBlock(ApplyBlock(l, b), b) = l

(* Every block is valid after the blocks it builds on: what miners that    *)
(* follow one branch make, and the premise of some theorems.               *)
BlocksApply == \A b \in Block : Applies(Rebuild(Front(Lineage[b])), b)
=============================================================================
