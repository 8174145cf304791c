-------------------------------- MODULE Chain --------------------------------
(***************************************************************************)
(* p2p/app/chain.py: the block DAG, the orphan pool, the choice of the     *)
(* best tip and the reorganisation of the main chain.                      *)
(*                                                                         *)
(* accept_block takes _lock once per block of its work list and releases   *)
(* it in between, so the reactor can drain removed_main in the middle of a *)
(* cascade of orphans.  One call of accept_block is therefore a run of     *)
(* atomic steps over toProcess, between AcceptBlock and AcceptReturn.      *)
(* Only the inbox validator calls it, one call at a time.                  *)
(***************************************************************************)
EXTENDS BlockTree

CONSTANT OrphanBound   \* bound of the model: copies of orphans kept per parent
ASSUME OrphanBoundAssumption == OrphanBound \in Nat

VARIABLES
  blockchain,   \* _blockchain: the main chain, genesis first
  index,        \* the keys of _index, _parent and _work
  height,       \* _height
  totalWork,    \* _total_work
  orphans,      \* _orphans_by_parent: missing parent -> blocks, oldest first
  bestTip,      \* _best_tip
  txIndex,      \* _tx_index
  removedMain,  \* _removed_main
  toProcess,    \* to_process of the running accept_block
  entered,      \* entered_main of the running accept_block
  accepting     \* an accept_block is running

dag == <<index, height, totalWork>>
main == <<blockchain, bestTip, txIndex>>
call == <<toProcess, entered, accepting>>
vars == <<dag, main, orphans, removedMain, call>>

-----------------------------------------------------------------------------
(* _tx_index of a chain to which blocks are appended: _index_block on each. *)
TxsOf(blocks) == UNION {Range(Txs[b]) : b \in Range(blocks)}

(* A later block overwrites the entry an earlier one made.                 *)
Entry(t, blocks, hts) ==
  LET b == blocks[SelectLastInSeq(blocks, LAMBDA x : t \in Range(Txs[x]))]
  IN  [block |-> b, height |-> hts[b]]

IndexTxs(idx, blocks, hts) ==
  [t \in DOMAIN idx \cup TxsOf(blocks) |->
     IF t \in TxsOf(blocks) THEN Entry(t, blocks, hts) ELSE idx[t]]

(* Mutation: nothing is popped. *)
UnindexNothing(idx, blocks) == idx

(* tx_index after the transactions of a cut tail were popped from it. *)
UnindexTxs(idx, blocks) == [t \in DOMAIN idx \ TxsOf(blocks) |-> idx[t]]

(* Mutation: the walks go on to the lowest common ancestor. *)
FindLowest(a, b, hts) ==
  LET common == Ancestry(a) \cap Ancestry(b)
  IN  IF common = {} THEN NoBlock
      ELSE CHOOSE x \in common : \A y \in common : hts[y] >= hts[x]

(* The two walks down _parent meet at the highest common ancestor. *)
FindAncestor(a, b, hts) ==
  LET common == Ancestry(a) \cap Ancestry(b)
  IN  IF common = {} THEN NoBlock
      ELSE CHOOSE x \in common : \A y \in common : hts[y] <= hts[x]

(* Mutation: one block too high. *)
PathAbove(ancestor, tip, hts) ==
  IF ancestor = NoBlock THEN Lineage[tip]
  ELSE SubSeq(Lineage[tip], hts[ancestor] + 3, Len(Lineage[tip]))

(* The walk from tip down _parent to the ancestor, in chain order; to the *)
(* root when there is no ancestor.                                        *)
PathFrom(ancestor, tip, hts) ==
  IF ancestor = NoBlock THEN Lineage[tip]
  ELSE SubSeq(Lineage[tip], hts[ancestor] + 2, Len(Lineage[tip]))

(* _reorg_to_tip_locked.  A chain that shares nothing with the new tip, or  *)
(* that is shorter than the ancestor's height, is dropped whole and listed  *)
(* from the root up; otherwise what is dropped is listed from the tip down. *)
ReorgToTip(tip, hts) ==
  LET ancestor == FindAncestor(bestTip, tip, hts)
      whole    == ancestor = NoBlock \/ hts[ancestor] >= Len(blockchain)
      kept     == IF whole THEN <<>>
                  ELSE SubSeq(blockchain, 1, hts[ancestor] + 1)
      tail     == IF whole THEN blockchain
                  ELSE SubSeq(blockchain, hts[ancestor] + 2, Len(blockchain))
      removed  == IF whole THEN blockchain
                  ELSE Reverse(PathFrom(ancestor, bestTip, hts))
      path     == PathFrom(ancestor, tip, hts)
  IN  /\ blockchain' = kept \o path
      /\ txIndex' = IndexTxs(UnindexTxs(txIndex, tail), path, hts)
      /\ bestTip' = tip
      /\ removedMain' = removedMain \o removed
      /\ entered' = entered \o path
-----------------------------------------------------------------------------
(* main.py and MinerController.bootstrap_genesis: set_genesis comes first. *)
Init ==
  /\ blockchain = <<Genesis>>
  /\ index = {Genesis}
  /\ height = [b \in {Genesis} |-> 0]
  /\ totalWork = [b \in {Genesis} |-> Work[Genesis]]
  /\ orphans = [p \in Block |-> <<>>]
  /\ bestTip = Genesis
  /\ txIndex = IndexTxs(<<>>, <<Genesis>>, [b \in {Genesis} |-> 0])
  /\ removedMain = <<>>
  /\ toProcess = <<>>
  /\ entered = <<>>
  /\ accepting = FALSE

(* Mutation: only a parent on the main chain is looked for. *)
KnownOnMain(b) == b \notin Root => Parent[b] \in Range(blockchain)

Known(b) == b \notin Root => Parent[b] \in index

(* The validator hands over a block it found valid, for the first time or  *)
(* again.  The code keeps every copy of an orphan; the model stops at      *)
(* OrphanBound for each missing parent.                                    *)
AcceptBlock(b) ==
  /\ ~accepting
  /\ ~Known(b) => Len(orphans[Parent[b]]) < OrphanBound
  /\ accepting' = TRUE
  /\ toProcess' = <<b>>
  /\ entered' = <<>>
  /\ UNCHANGED <<dag, main, orphans, removedMain>>

(* Mutation: one orphan is kept for each parent. *)
TakeLastOrphan ==
  /\ toProcess # <<>>
  /\ LET b == Head(toProcess) IN
       /\ ~Known(b)
       /\ orphans' = [orphans EXCEPT ![Parent[b]] = <<b>>]
  /\ toProcess' = Tail(toProcess)
  /\ UNCHANGED <<dag, main, removedMain, entered, accepting>>

(* The parent is not indexed: keep the block until it is. *)
TakeOrphan ==
  /\ toProcess # <<>>
  /\ LET b == Head(toProcess) IN
       /\ ~Known(b)
       /\ orphans' = [orphans EXCEPT ![Parent[b]] = Append(@, b)]
  /\ toProcess' = Tail(toProcess)
  /\ UNCHANGED <<dag, main, removedMain, entered, accepting>>

TakeDuplicate ==
  /\ toProcess # <<>>
  /\ LET b == Head(toProcess) IN Known(b) /\ b \in index
  /\ toProcess' = Tail(toProcess)
  /\ UNCHANGED <<dag, main, orphans, removedMain, entered, accepting>>

(* Mutations: a root is below height 0; a block is as high as its parent.  *)
HeightBelow(b) == IF b \in Root THEN -1 ELSE height[Parent[b]] + 1
HeightSame(b) == IF b \in Root THEN 0 ELSE height[Parent[b]]

(* A new block whose parent is indexed enters the DAG, the orphans that    *)
(* waited for it join the work list, and the main chain moves to it if it  *)
(* carries strictly more work than the best tip.                           *)
HeightOn(b) == IF b \in Root THEN 0 ELSE height[Parent[b]] + 1
WorkOn(b) == IF b \in Root THEN Work[b] ELSE totalWork[Parent[b]] + Work[b]

(* Mutations: as much work is enough; the work of the block alone counts.  *)
ReorgsOnTie(b) == WorkOn(b) >= totalWork[bestTip]
ReorgsOnOwn(b) == Work[b] > totalWork[bestTip]
Reorgs(b) == WorkOn(b) > totalWork[bestTip]

TakeNew(b) ==
  /\ Known(b) /\ b \notin index
  /\ index' = index \cup {b}
  /\ height' = [x \in index \cup {b} |-> IF x = b THEN HeightOn(b) ELSE height[x]]
  /\ totalWork' =
       [x \in index \cup {b} |-> IF x = b THEN WorkOn(b) ELSE totalWork[x]]
  /\ toProcess' = Tail(toProcess) \o orphans[b]
  /\ orphans' = [orphans EXCEPT ![b] = <<>>]
  /\ UNCHANGED accepting

TakeSide ==
  /\ toProcess # <<>>
  /\ LET b == Head(toProcess) IN TakeNew(b) /\ ~Reorgs(b)
  /\ UNCHANGED <<main, removedMain, entered>>

TakeTip ==
  /\ toProcess # <<>>
  /\ LET b == Head(toProcess) IN
       TakeNew(b) /\ Reorgs(b) /\ ReorgToTip(b, height')

AcceptReturn ==
  /\ accepting /\ toProcess = <<>>
  /\ accepting' = FALSE
  /\ entered' = <<>>
  /\ UNCHANGED <<dag, main, orphans, removedMain, toProcess>>

(* The reactor takes what reorganisations dropped. *)
DrainRemovedMain ==
  /\ removedMain # <<>>
  /\ removedMain' = <<>>
  /\ UNCHANGED <<dag, main, orphans, call>>

Process == TakeOrphan \/ TakeDuplicate \/ TakeSide \/ TakeTip \/ AcceptReturn

Next == Process \/ DrainRemovedMain \/ \E b \in Block : AcceptBlock(b)

Spec == Init /\ [][Next]_vars

-----------------------------------------------------------------------------
OrphanBlocks == UNION {Range(orphans[p]) : p \in Block}
Pending == OrphanBlocks \cup Range(toProcess)

(* Every variable holds a value of its kind. *)
TypeOK ==
  /\ blockchain \in Seq(Block)
  /\ index \subseteq Block
  /\ height \in [index -> Nat]
  /\ totalWork \in [index -> Nat]
  /\ orphans \in [Block -> Seq(Block)]
  /\ bestTip \in index
  /\ DOMAIN txIndex \subseteq TxId
  /\ \A t \in DOMAIN txIndex : txIndex[t] \in [block : Block, height : Nat]
  /\ removedMain \in Seq(Block)
  /\ toProcess \in Seq(Block)
  /\ entered \in Seq(Block)
  /\ accepting \in BOOLEAN

(* The height and total work that accept_block adds up block by block are  *)
(* those of the whole branch, and no block is indexed without all of its   *)
(* ancestors, also when orphans arrive children first.                     *)
DagIsConsistent ==
  /\ Genesis \in index
  /\ \A b \in index : /\ Ancestry(b) \subseteq index
                       /\ height[b] = HeightOf(b)
                       /\ totalWork[b] = ChainWork[b]

(* _reorg_to_tip_locked cuts and extends one list, block by block, yet the *)
(* main chain is at every moment the whole history of the best tip: no     *)
(* block twice, none missing, none of the branch that was left.            *)
MainChainIsLineage == blockchain = Lineage[bestTip]

(* README "Best chain selection based on total work": no indexed block, on *)
(* any branch, carries more work than the tip, whatever the order in which *)
(* blocks, orphans and duplicates came.                                    *)
BestTipIsHeaviest == \A b \in index : ChainWork[b] <= ChainWork[bestTip]

(* No block waits as an orphan for a parent that is already indexed, where *)
(* nothing would ever fetch it: the orphan test and the indexing of the    *)
(* parent are in one critical section.                                     *)
NoStrandedOrphan == \A p \in Block : orphans[p] # <<>> => p \notin index

(* /api/tx/status answers from _tx_index: it holds exactly the             *)
(* transactions of the main chain, each at the block and height where it   *)
(* is, also after a reorganisation that moved a transaction from one       *)
(* branch to the other.  Stated for trees in which no branch holds a       *)
(* transaction twice, which the nonce check of the validator is for.       *)
TxsOnceOnBranch ==
  \A b \in Block : \A c, d \in Ancestry(b) :
     c # d => Range(Txs[c]) \cap Range(Txs[d]) = {}

TxIndexIsExact ==
  TxsOnceOnBranch =>
    /\ DOMAIN txIndex = TxsOf(blockchain)
    /\ \A t \in DOMAIN txIndex : \E i \in 1..Len(blockchain) :
         /\ t \in Range(Txs[blockchain[i]])
         /\ txIndex[t] = [block |-> blockchain[i], height |-> i - 1]

(* A block that accept_block was given is indexed, waits for its parent or *)
(* is on the work list; it never drops out of all three.                   *)
NoBlockForgotten == [][index \cup Pending \subseteq index' \cup Pending']_vars

(* What the reactor learns of a reorganisation is what happened: the       *)
(* blocks reported removed are those that left the main chain, the blocks  *)
(* reported entered are those that joined it, and each is reported once.   *)
ReorgIsReported ==
  [][TakeTip =>
       LET added   == SubSeq(entered', Len(entered) + 1, Len(entered'))
           dropped == SubSeq(removedMain', Len(removedMain) + 1, Len(removedMain'))
       IN  /\ Range(added) = Range(blockchain') \ Range(blockchain)
           /\ Range(dropped) = Range(blockchain) \ Range(blockchain')
           /\ IsInjective(added) /\ IsInjective(dropped)]_vars

(* The tip moves only to a strictly heavier one: of two equal branches the *)
(* first one seen stays, so equal branches cannot make a node flap.        *)
TipMovesUp == [][bestTip' # bestTip => ChainWork[bestTip'] > ChainWork[bestTip]]_vars

(* Chain implements the abstract chain: its work list, orphan pool and     *)
(* stepwise reorganisation never show a reader under _lock anything but a  *)
(* heaviest known history.                                                 *)
Abstract == INSTANCE HeaviestChain WITH known <- index, chain <- blockchain
ImplementsHeaviestChain == Abstract!AbstractSpec
=============================================================================
