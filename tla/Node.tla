--------------------------------- MODULE Node ---------------------------------
(***************************************************************************)
(* How a block becomes part of the ledger: the receive threads fill the    *)
(* inbox queue (inbox.py add), the validator thread judges blocks against  *)
(* the ledger and hands the good ones to the chain (_validator_loop), and  *)
(* the reactor thread carries what left and what joined the main chain     *)
(* over to the ledger (mining_ctrl.py _reactor_loop).                      *)
(*                                                                         *)
(* Three locks order these threads.  The validator judges with none held,  *)
(* keeps the inbox lock through the whole accept_block, and publishes the  *)
(* entered blocks after releasing it.  The reactor takes removed_main      *)
(* under the chain lock and entered under the inbox lock, at two different *)
(* times.                                                                  *)
(***************************************************************************)
EXTENDS Chain, Ledger, FiniteSets

CONSTANTS
  Peer,         \* where blocks come from: neighbours, and "self" for the miner
  Sendable,     \* bound of the model: which peer sends which block, once each
  WellFormed,   \* header, Merkle root, proof of work, coinbase position, and
                \* the form and signatures of the transactions
  Reward        \* BASE_REWARD

ASSUME NodeAssumption ==
  /\ Sendable \subseteq Peer \X (Block \ {Genesis})
  /\ WellFormed \in [Block -> BOOLEAN] /\ Reward \in Nat

VARIABLES
  sent,        \* the deliveries made so far
  inbox,       \* _queue, with the sender of every block
  bad,         \* _bad_block_hashes
  validator,   \* where _validator_loop is, and with what
  enteredQ,    \* _entered
  ledger,      \* the Ledger object
  reactor,     \* where _reactor_loop is, and with what
  points       \* _misbehavior, per peer

inboxVars == <<sent, inbox, bad, points>>
nodeVars == <<vars, inboxVars, validator, enteredQ, ledger, reactor>>

Idle == [at |-> "idle"]
Undoing(blocks) == [at |-> "undo", todo |-> blocks]
Applying(blocks) == [at |-> "apply", todo |-> blocks]
-----------------------------------------------------------------------------
(* block_validator: what can be said of a block without the ledger. *)
BlockValid(b) == WellFormed[b]

(* Mempool.block_txs_validator: the block's transactions run on a snapshot *)
(* of the CURRENT ledger.                                                  *)
TxsValid(l, b) == RunTxs(l, Txs[b]).ok

(* Inbox.block_txs_validator: the coinbase is alone, and pays no more than *)
(* the reward and the fees.                                                *)
FeesOf(b) == FoldLeft(LAMBDA n, t : n + TxFee[t], 0, Txs[b])

BlockTxsValid(l, b) ==
  /\ TxsValid(l, b)
  /\ Len(Coinbases[b]) = IF b \in Root THEN 0 ELSE 1
  /\ \A c \in Range(Coinbases[b]) : c.amount <= Reward + FeesOf(b)
  /\ Len(Txs[b]) + Len(Coinbases[b]) > 0

(* bootstrap_genesis: set_genesis, then rebuild_from_chain. *)
NodeInit ==
  /\ Init
  /\ sent = {} /\ inbox = <<>> /\ bad = {} /\ points = [p \in Peer |-> 0]
  /\ validator = Idle
  /\ enteredQ = <<>>
  /\ ledger = Rebuild(<<Genesis>>)
  /\ reactor = Applying(<<>>)

(* Inbox.add: a block whose hash is known to be bad is not queued again.   *)
(* Sendable is far smaller than the queue, which never fills up here.      *)
Deliver(p, b) ==
  /\ <<p, b>> \in Sendable \ sent
  /\ sent' = sent \cup {<<p, b>>}
  /\ inbox' = IF b \in bad THEN inbox ELSE Append(inbox, [peer |-> p, block |-> b])
  /\ UNCHANGED <<vars, bad, points, validator, enteredQ, ledger, reactor>>

-----------------------------------------------------------------------------
(* What the main chain may have grown by, at any time so far, between the  *)
(* two reads of _ensure_immature_cache by any thread.                      *)
Grown == UNION {GrownBy(b) : b \in index}

(* Mutation: the block stays in the queue. *)
JudgeHead ==
  /\ validator = Idle /\ inbox # <<>>
  /\ LET it == Head(inbox) IN
       validator' = [at |-> "judged", item |-> it,
                     ok |-> BlockValid(it.block) /\ BlockTxsValid(ledger, it.block)]
  /\ inbox' = inbox
  /\ UNCHANGED <<vars, sent, bad, points, enteredQ, ledger, reactor>>

(* The validator takes the next block and judges it, no lock held. *)
Judge ==
  /\ validator = Idle /\ inbox # <<>>
  /\ \E short \in BOOLEAN :
       LET it == Head(inbox) IN
       /\ short => SeemsShort(ledger, Txs[it.block], Grown)
       /\ validator' = [at |-> "judged", item |-> it,
                        ok |-> /\ BlockValid(it.block) /\ BlockTxsValid(ledger, it.block)
                               /\ ~short]
  /\ inbox' = Tail(inbox)
  /\ UNCHANGED <<vars, sent, bad, points, enteredQ, ledger, reactor>>

(* A bad block: remember its hash for good and report its sender. *)
Reject ==
  /\ validator.at = "judged" /\ ~validator.ok
  /\ bad' = bad \cup {validator.item.block}
  /\ points' = [points EXCEPT ![validator.item.peer] = @ + 1]
  /\ validator' = Idle
  /\ UNCHANGED <<vars, sent, inbox, enteredQ, ledger, reactor>>

(* A good block: accept_block, in the steps of Chain, under the inbox lock. *)
Accept ==
  /\ validator.at = "judged" /\ validator.ok
  /\ AcceptBlock(validator.item.block)
  /\ validator' = [at |-> "accepting"]
  /\ UNCHANGED <<inboxVars, enteredQ, ledger, reactor>>

AcceptStep ==
  /\ validator.at = "accepting"
  /\ TakeOrphan \/ TakeDuplicate \/ TakeSide \/ TakeTip
  /\ UNCHANGED <<inboxVars, validator, enteredQ, ledger, reactor>>

(* Mutation: only the new tip is published. *)
AcceptEndTip ==
  /\ validator.at = "accepting"
  /\ AcceptReturn
  /\ validator' = [at |-> "publishing",
                   todo |-> IF entered = <<>> THEN <<>> ELSE <<Last(entered)>>]
  /\ UNCHANGED <<inboxVars, enteredQ, ledger, reactor>>

AcceptEnd ==
  /\ validator.at = "accepting"
  /\ AcceptReturn
  /\ validator' = [at |-> "publishing", todo |-> entered]
  /\ UNCHANGED <<inboxVars, enteredQ, ledger, reactor>>

(* The lock is free again; the entered blocks are published one by one. *)
Publish ==
  /\ validator.at = "publishing" /\ validator.todo # <<>>
  /\ enteredQ' = Append(enteredQ, Head(validator.todo))
  /\ validator' = [validator EXCEPT !.todo = Tail(@)]
  /\ UNCHANGED <<vars, inboxVars, ledger, reactor>>

Published ==
  /\ validator.at = "publishing" /\ validator.todo = <<>>
  /\ validator' = Idle
  /\ UNCHANGED <<vars, inboxVars, enteredQ, ledger, reactor>>

Validator ==
  Judge \/ Reject \/ Accept \/ AcceptStep \/ AcceptEnd \/ Publish \/ Published
-----------------------------------------------------------------------------
(* The reactor takes the removed blocks and rolls them back one by one ... *)
DrainRemoved ==
  /\ reactor = Applying(<<>>)
  /\ IF removedMain = <<>> THEN UNCHANGED vars ELSE DrainRemovedMain
  /\ reactor' = Undoing(removedMain)
  /\ UNCHANGED <<inboxVars, validator, enteredQ, ledger>>

Undo ==
  /\ reactor.at = "undo" /\ reactor.todo # <<>>
  /\ ledger' = RollbackBlock(ledger, Head(reactor.todo))
  /\ reactor' = Undoing(Tail(reactor.todo))
  /\ UNCHANGED <<vars, inboxVars, validator, enteredQ>>

(* Mutation: the queue is read and not emptied. *)
CopyEntered ==
  /\ reactor = Undoing(<<>>) /\ validator.at # "accepting"
  /\ reactor' = Applying(enteredQ)
  /\ UNCHANGED <<vars, inboxVars, validator, enteredQ, ledger>>

(* ... then takes the entered blocks and applies them one by one.  Whether *)
(* apply_block succeeded is not looked at.                                 *)
DrainEntered ==
  /\ reactor = Undoing(<<>>) /\ validator.at # "accepting"
  /\ reactor' = Applying(enteredQ)
  /\ enteredQ' = <<>>
  /\ UNCHANGED <<vars, inboxVars, validator, ledger>>

Apply ==
  /\ reactor.at = "apply" /\ reactor.todo # <<>>
  /\ \E short \in BOOLEAN :
       LET b == Head(reactor.todo) IN
       /\ short => SeemsShort(ledger, Txs[b], Grown)
       /\ ledger' = IF short THEN ledger ELSE ApplyBlock(ledger, b)
  /\ reactor' = Applying(Tail(reactor.todo))
  /\ UNCHANGED <<vars, inboxVars, validator, enteredQ>>

Reactor == DrainRemoved \/ Undo \/ DrainEntered \/ Apply

NodeNext == Validator \/ Reactor \/ \E p \in Peer, b \in Block : Deliver(p, b)

NodeSpec == NodeInit /\ [][NodeNext]_nodeVars

(* Both are loops of daemon threads that nothing suspends for ever.  The   *)
(* reactor may find the inbox lock taken again and again: with weak        *)
(* fairness it is only certain to get it once the validator leaves it free.*)
NodeFairSpec ==
  NodeSpec /\ WF_nodeVars(Validator) /\ WF_nodeVars(Reactor)
-----------------------------------------------------------------------------
(* Blocks that joined the main chain and are yet to be applied, and blocks *)
(* that left it and are yet to be rolled back, wherever they are.          *)
ToApply ==
  (IF reactor.at = "apply" THEN reactor.todo ELSE <<>>) \o enteredQ
    \o (IF validator.at = "publishing" THEN validator.todo ELSE <<>>) \o entered
ToUndo == (IF reactor.at = "undo" THEN reactor.todo ELSE <<>>) \o removedMain

(* Nothing is on its way from the network to the ledger.                   *)
Quiet ==
  inbox = <<>> /\ validator = Idle /\ ToApply = <<>> /\ ToUndo = <<>>

(* A block that deserves to be accepted where it stands: well formed, and  *)
(* valid after the blocks it builds on.                                    *)
ValidInPlace(b) == BlockValid(b) /\ BlockTxsValid(Rebuild(Front(Lineage[b])), b)

(* A branch is good if every block of it is. *)
Good(b) == \A c \in Ancestry(b) \ {Genesis} : ValidInPlace(c)

(* What the reactor does next to the ledger takes effect: the block is not *)
(* refused by apply_block, whose result nobody looks at, and none of the   *)
(* nonces that rollback_block lowers is at zero, where it would stay.      *)
NothingRefused ==
  /\ reactor.at = "apply" /\ reactor.todo # <<>> => Applies(ledger, Head(reactor.todo))
  /\ reactor.at = "undo" /\ reactor.todo # <<>> =>
       Do(RollbackBlock(ledger, Head(reactor.todo)), Head(reactor.todo)) = ledger

(* README "Chain reorganizations trigger ledger rollback": at every moment *)
(* the ledger, once the blocks on their way to it are applied and those on *)
(* their way out undone, is what a replay of the main chain gives.  This   *)
(* is what the two queues owe the ledger across races of the validator and *)
(* the reactor and cascades of orphans that reorganise more than once.     *)
LedgerAccountsForChain ==
  LET applied == FoldLeft(Do, ledger, ToApply)
  IN  FoldLeft(RollbackBlock, applied, ToUndo) = Rebuild(blockchain)

(* The same at rest only: what a client that reads balances after the node *)
(* settled relies on.                                                      *)
LedgerMatchesChain == Quiet => ledger = Rebuild(blockchain)

(* A verdict is reached on whatever ledger there is at that moment.  When  *)
(* nothing is on its way to it and the block extends the main chain, the   *)
(* verdict is the one the block deserves where it stands, whatever was     *)
(* reorganised, rolled back and applied before.                            *)
CalmVerdictRight ==
  [][ (/\ validator = Idle /\ validator'.at = "judged"
       /\ ToApply = <<>> /\ ToUndo = <<>>
       /\ Front(Lineage[validator'.item.block]) = blockchain)
      => (validator'.ok <=> ValidInPlace(validator'.item.block)) ]_nodeVars

(* README "a penalty system for misbehaving peers": a peer gets no more    *)
(* points than it sent blocks that are remembered as bad, however often a  *)
(* block is sent by however many, and whenever its hash becomes known.     *)
OncePerBadBlock ==
  \A p \in Peer : points[p] <= Cardinality({b \in bad : <<p, b>> \in sent})

(* README "Best chain selection based on total work": once the node rests, *)
(* no good branch that it was given whole is heavier than its main chain.  *)
Given(b) == \A c \in Ancestry(b) \ {Genesis} : \E p \in Peer : <<p, c>> \in sent

HeaviestGoodAdopted ==
  Quiet => \A b \in Block :
             Good(b) /\ Given(b) => ChainWork[b] <= ChainWork[bestTip]

(* The same of the branches on which no block was refused every time it    *)
(* was judged: through orphans, copies and races none is passed over.      *)
HeaviestUnrefusedAdopted ==
  Quiet => \A b \in Block :
             Given(b) /\ Ancestry(b) \cap bad \subseteq index
               => ChainWork[b] <= ChainWork[bestTip]

(* Whatever is delivered is dealt with: with the threads running, the node *)
(* comes to rest with the ledger of its main chain.                        *)
Settles == <>[](Quiet /\ ledger = Rebuild(blockchain))

(* apply_block and rollback_block are exact inverses on the ledgers the    *)
(* node goes through.                                                      *)
RollbackIsInverse == \A b \in Block : UndoesItself(ledger, b)
=============================================================================
