------------------------------ MODULE BlockTree ------------------------------
(***************************************************************************)
(* The blocks a node may be sent, and what their headers say.              *)
(*                                                                         *)
(* A block is a model value standing for its hash.  prev_hash is the       *)
(* constant Parent; a hash commits to prev_hash, so the tree of blocks is  *)
(* fixed before any of them arrives and has no cycle.  miner.py computes   *)
(* the work of a block from nBits and stamps its transactions.             *)
(***************************************************************************)
EXTENDS Integers, Sequences, SequencesExt

CONSTANTS
  Block,      \* every block that can reach the node
  Root,       \* the blocks with numer_bloku = 0 and an all-zero prev_hash
  Genesis,    \* the root every node builds for itself (miner.genesis_block)
  NoBlock,    \* "no such block": Python's None for a hash
  Parent,     \* prev_hash of a block that is not a root
  Work,       \* chainwork_of_block
  TxId,       \* identifiers of the transactions that are not coinbases
  Txs         \* the identifiers in a block, in block order

(* Root to b along prev_hash. *)
Lineage[b \in Block] ==
  IF b \in Root THEN <<b>> ELSE Append(Lineage[Parent[b]], b)

(* What total_work adds up to along Lineage[b]. *)
ChainWork[b \in Block] ==
  IF b \in Root THEN Work[b] ELSE ChainWork[Parent[b]] + Work[b]

ASSUME BlockAssumption ==
  /\ Genesis \in Root /\ Root \subseteq Block /\ NoBlock \notin Block
  /\ Parent \in [Block \ Root -> Block]
  /\ Work \in [Block -> Nat \ {0}]
  /\ Txs \in [Block -> Seq(TxId)]

(* Following prev_hash ends at a root: every hash has a finite lineage.    *)
ASSUME LineageAssumption ==
  /\ Lineage \in [Block -> Seq(Block)]
  /\ \A b \in Root : Lineage[b] = <<b>>
  /\ \A b \in Block \ Root : Lineage[b] = Append(Lineage[Parent[b]], b)

ASSUME ChainWorkAssumption ==
  /\ ChainWork \in [Block -> Nat]
  /\ \A b \in Root : ChainWork[b] = Work[b]
  /\ \A b \in Block \ Root : ChainWork[b] = ChainWork[Parent[b]] + Work[b]

(* b and the blocks below it. *)
Ancestry(b) == Range(Lineage[b])

(* Where a block stands in its lineage: the genesis block has height 0. *)
HeightOf(b) == Len(Lineage[b]) - 1
=============================================================================
