----------------------------- MODULE NodeProofs -----------------------------
(***************************************************************************)
(* Proofs about Chain and about Node, which composes it with the inbox,    *)
(* the validator and the reactor, for every tree of blocks, every order of *)
(* their arrival and every interleaving of the threads.                    *)
(***************************************************************************)
EXTENDS Node, LedgerProofs

-----------------------------------------------------------------------------
(* _find_ancestor: nothing in common, or a highest common ancestor.        *)
LEMMA FindAncestorFinds ==
  ASSUME NEW a \in Block, NEW t \in Block, NEW hts,
         \A x \in Ancestry(a) : hts[x] = HeightOf(x)
  PROVE  LET anc == FindAncestor(a, t, hts)
         IN  \/ anc = NoBlock /\ Ancestry(a) \cap Ancestry(t) = {}
             \/ /\ anc # NoBlock /\ anc \in Ancestry(a) \cap Ancestry(t)
                /\ \A y \in Ancestry(a) \cap Ancestry(t) : hts[y] <= hts[anc]
<1> DEFINE common == Ancestry(a) \cap Ancestry(t)
           hs == {hts[x] : x \in common}
<1>1. CASE common = {}
  BY <1>1 DEF FindAncestor
<1>2. CASE common # {}
  <2>1. Len(Lineage[a]) - 1 \in Nat
    BY LineageEnds
  <2>2. \A x \in common : hts[x] \in 0..(Len(Lineage[a]) - 1)
    <3>1. TAKE x \in common
    <3>2. Len(Lineage[x]) \in 1..Len(Lineage[a])
      BY AncestorPosition
    <3>3. hts[x] = Len(Lineage[x]) - 1
      BY DEF HeightOf
    <3>4. QED BY <3>2, <3>3, <2>1
  <2>3. hs \subseteq 0..(Len(Lineage[a]) - 1) /\ hs # {}
    BY <1>2, <2>2
  <2>4. \E h \in hs : \A k \in hs : k <= h
    <3> HIDE DEF hs
    <3>1. QED BY <2>1, <2>3, HasGreatest
  <2>5. \E x \in common : \A y \in common : hts[y] <= hts[x]
    BY <2>4
  <2>6. FindAncestor(a, t, hts) = CHOOSE x \in common : \A y \in common : hts[y] <= hts[x]
    BY <1>2 DEF FindAncestor
  <2>7. /\ FindAncestor(a, t, hts) \in common
        /\ \A y \in common : hts[y] <= hts[FindAncestor(a, t, hts)]
    <3> HIDE DEF common
    <3>1. QED BY <2>5, <2>6
  <2>8. FindAncestor(a, t, hts) # NoBlock
    BY <2>7, AncestryStep, BlockAssumption
  <2>9. QED BY <2>7, <2>8
<1>3. QED BY <1>1, <1>2

(* The path that enters is a list of blocks of the new tip's branch.       *)
LEMMA PathFromIsInBranch ==
  ASSUME NEW a \in Block, NEW t \in Block, NEW hts,
         \A x \in Ancestry(a) : hts[x] = HeightOf(x),
         NEW b \in {a, t}
  PROVE  LET path == PathFrom(FindAncestor(a, t, hts), b, hts)
         IN  path \in Seq(Block) /\ Range(path) \subseteq Ancestry(b)
<1> DEFINE anc == FindAncestor(a, t, hts)
<1>1. b \in Block /\ Lineage[b] \in Seq(Block) /\ Len(Lineage[b]) \in Nat \ {0}
  BY LineageEnds
<1>2. \A i \in 1..Len(Lineage[b]) : Lineage[b][i] \in Ancestry(b)
  BY <1>1, RangeEquality DEF Ancestry
<1>3. CASE anc = NoBlock
  BY <1>1, <1>3 DEF PathFrom, Ancestry
<1>4. CASE anc # NoBlock
  <2> DEFINE n == Len(Lineage[anc])
             m == Len(Lineage[b])
             s == SubSeq(Lineage[b], n + 1, m)
  <2>1. anc \in Ancestry(a) \cap Ancestry(t) /\ hts[anc] = HeightOf(anc)
    BY <1>4, FindAncestorFinds
  <2>2. n \in 1..m
    BY <2>1, AncestorPosition
  <2>3. PathFrom(anc, b, hts) = s
    <3>1. hts[anc] + 2 = n + 1
      BY <2>1, <2>2, <1>1 DEF HeightOf
    <3>2. QED BY <1>4, <3>1 DEF PathFrom
  <2>4. \A i \in n + 1..m : Lineage[b][i] \in Ancestry(b)
    BY <1>1, <1>2, <2>2
  <2>5. s \in Seq(Ancestry(b))
    BY <1>1, <2>2, <2>4, SubSeqProperties
  <2>6. s \in Seq(Block)
    BY <2>5, <1>1, AncestryStep, SeqMonotonic
  <2>7. Range(s) \subseteq Ancestry(b)
    BY <2>5, RangeOfSeq
  <2>8. QED BY <2>3, <2>6, <2>7
<1>5. QED BY <1>3, <1>4

(* _reorg_to_tip_locked on a main chain that is the lineage of its tip     *)
(* leaves one that is the lineage of the new tip.                          *)
LEMMA ReorgGivesLineage ==
  ASSUME NEW t \in Block, NEW hts, bestTip \in Block,
         MainChainIsLineage,
         \A x \in Ancestry(bestTip) : hts[x] = HeightOf(x),
         ReorgToTip(t, hts)
  PROVE  blockchain' = Lineage[t] /\ bestTip' = t
<1> DEFINE anc == FindAncestor(bestTip, t, hts)
<1>1. bestTip' = t
  BY DEF ReorgToTip
<1>2. CASE anc = NoBlock
  <2>1. blockchain' = <<>> \o Lineage[t]
    BY <1>2 DEF ReorgToTip, PathFrom
  <2>2. QED BY <1>1, <2>1, LineageEnds, ConcatEmptySeq
<1>3. CASE anc # NoBlock
  <2> DEFINE n == Len(Lineage[anc])
  <2>1. /\ anc \in Ancestry(bestTip) /\ anc \in Ancestry(t)
        /\ hts[anc] = HeightOf(anc)
    BY <1>3, FindAncestorFinds
  <2>2. /\ n \in 1..Len(Lineage[bestTip])
        /\ SubSeq(Lineage[bestTip], 1, n) = Lineage[anc]
    BY <2>1, AncestorPosition
  <2>3. Len(Lineage[bestTip]) \in Nat
    BY LineageEnds
  <2>4. hts[anc] + 1 = n /\ hts[anc] + 2 = n + 1 /\ ~(hts[anc] >= Len(blockchain))
    BY <2>1, <2>2, <2>3 DEF HeightOf, MainChainIsLineage
  <2>5. blockchain' = SubSeq(blockchain, 1, n) \o SubSeq(Lineage[t], n + 1, Len(Lineage[t]))
    BY <1>3, <2>4 DEF ReorgToTip, PathFrom
  <2>6. blockchain' = Lineage[anc] \o SubSeq(Lineage[t], n + 1, Len(Lineage[t]))
    BY <2>2, <2>5 DEF MainChainIsLineage
  <2>7. QED BY <1>1, <2>1, <2>6, LineageSplits
<1>4. QED BY <1>2, <1>3

-----------------------------------------------------------------------------
(* The transactions of a chain made of two parts.                          *)
LEMMA TxsOfConcat ==
  ASSUME NEW s \in Seq(Block), NEW t \in Seq(Block)
  PROVE  TxsOf(s \o t) = TxsOf(s) \cup TxsOf(t)
<1>1. Range(s \o t) = Range(s) \cup Range(t)
  BY RangeConcatenation
<1>2. QED BY <1>1 DEF TxsOf

(* A transaction of a list is in the block at some place of it.            *)
LEMMA TxsOfPlaces ==
  ASSUME NEW s \in Seq(Block), NEW t
  PROVE  t \in TxsOf(s) <=> \E i \in 1..Len(s) : t \in Range(Txs[s[i]])
<1>1. Range(s) = {s[i] : i \in 1..Len(s)}
  BY RangeEquality
<1>2. QED BY <1>1 DEF TxsOf

(* _index_block on each block of a list: the entry left for a transaction  *)
(* is a block of the list that holds it.                                   *)
LEMMA EntryIsPlace ==
  ASSUME NEW blocks \in Seq(Block), NEW hts, NEW t \in TxsOf(blocks)
  PROVE  \E i \in 1..Len(blocks) :
            /\ t \in Range(Txs[blocks[i]])
            /\ Entry(t, blocks, hts) = [block |-> blocks[i], height |-> hts[blocks[i]]]
<1> DEFINE I == {i \in 1..Len(blocks) : t \in Range(Txs[blocks[i]])}
           last == SelectLastInSeq(blocks, LAMBDA x : t \in Range(Txs[x]))
<1>1. Len(blocks) \in Nat /\ I \subseteq 1..Len(blocks)
  BY LenProperties
<1>2. I # {}
  BY TxsOfPlaces
<1>3. last = Max(I)
  BY <1>2 DEF SelectLastInSeq
<1>4. last \in I
  <2> HIDE DEF I
  <2>1. I \in SUBSET (1..Len(blocks))
    BY <1>1
  <2>2. QED BY <2>1, <1>1, <1>2, <1>3, MaxInRange
<1>5. QED BY <1>4 DEF Entry

(* _tx_index maps transactions to places in the chain.                     *)
TxIndexOK(idx) ==
  DOMAIN idx \subseteq TxId
  /\ \A t \in DOMAIN idx : idx[t] \in [block : Block, height : Nat]

(* _index_block and the popping of a tail keep _tx_index a map from        *)
(* transactions to places in the chain.                                    *)
LEMMA IndexTxsType ==
  ASSUME NEW idx, TxIndexOK(idx), NEW blocks \in Seq(Block), NEW hts,
         \A b \in Range(blocks) : hts[b] \in Nat
  PROVE  TxIndexOK(IndexTxs(idx, blocks, hts))
<1>1. TxsOf(blocks) \subseteq TxId
  <2>1. \A b \in Range(blocks) : Txs[b] \in Seq(TxId)
    BY RangeOfSeq, BlockAssumption
  <2>2. \A b \in Range(blocks) : Range(Txs[b]) \subseteq TxId
    BY <2>1, RangeOfSeq
  <2>3. QED BY <2>2 DEF TxsOf
<1>2. ASSUME NEW t \in TxsOf(blocks)
      PROVE  Entry(t, blocks, hts) \in [block : Block, height : Nat]
  <2>1. PICK i \in 1..Len(blocks) :
           Entry(t, blocks, hts) = [block |-> blocks[i], height |-> hts[blocks[i]]]
    BY EntryIsPlace
  <2>2. blocks[i] \in Block /\ blocks[i] \in Range(blocks)
    BY RangeEquality, ElementOfSeq
  <2>3. QED BY <2>1, <2>2
<1>3. QED BY <1>1, <1>2 DEF IndexTxs, TxIndexOK

(* Popping the transactions of a tail leaves such a map. *)
LEMMA UnindexTxsType ==
  ASSUME NEW idx, TxIndexOK(idx), NEW blocks
  PROVE  TxIndexOK(UnindexTxs(idx, blocks))
  BY DEF UnindexTxs, TxIndexOK

-----------------------------------------------------------------------------
(* The inductive invariant.  A reorganisation finds the fork point through *)
(* the heights it recorded, so that the main chain is a lineage needs the  *)
(* heights right; and heights and works are right only because a block is  *)
(* never indexed before its parent.                                        *)
IInv ==
  TypeOK /\ DagIsConsistent /\ MainChainIsLineage /\ BestTipIsHeaviest /\ NoStrandedOrphan

(* A block put on an indexed parent has one more than its height, and its  *)
(* total work is that of the whole branch.                                 *)
LEMMA NewBlockValues ==
  ASSUME IInv, NEW b \in Block, Known(b)
  PROVE  HeightOn(b) = HeightOf(b) /\ WorkOn(b) = ChainWork[b]
         /\ Ancestry(b) \subseteq index \cup {b}
<1>1. CASE b \in Root
  <2>1. Lineage[b] = <<b>> /\ Len(<<b>>) = 1
    BY <1>1, LineageAssumption
  <2>2. QED BY <1>1, <2>1, AncestryStep, ChainWorkAssumption DEF HeightOn, WorkOn, HeightOf
<1>2. CASE b \notin Root
  <2> DEFINE p == Parent[b]
  <2>1. p \in index /\ p \in Block
    BY <1>2 DEF Known, IInv, TypeOK
  <2>2. height[p] = Len(Lineage[p]) - 1 /\ totalWork[p] = ChainWork[p]
        /\ Ancestry(p) \subseteq index
    BY <2>1 DEF IInv, DagIsConsistent, HeightOf
  <2>3. Lineage[p] \in Seq(Block) /\ Len(Lineage[p]) \in Nat
        /\ Lineage[b] = Append(Lineage[p], b)
    BY <1>2, <2>1, LineageAssumption, LineageEnds
  <2>4. Len(Lineage[b]) = Len(Lineage[p]) + 1
    BY <2>3, AppendProperties
  <2>5. HeightOn(b) = HeightOf(b)
    BY <1>2, <2>2, <2>3, <2>4 DEF HeightOn, HeightOf
  <2>6. WorkOn(b) = ChainWork[b]
    BY <1>2, <2>2, ChainWorkAssumption DEF WorkOn
  <2>7. Ancestry(b) \subseteq index \cup {b}
    BY <1>2, <2>2, AncestryStep
  <2>8. QED BY <2>5, <2>6, <2>7
<1>3. QED BY <1>1, <1>2

(* Indexing a block keeps the DAG consistent and strands no orphan.        *)
LEMMA TakeNewKeepsDag ==
  ASSUME IInv, NEW b \in Block, toProcess # <<>>, TakeNew(b)
  PROVE  /\ DagIsConsistent' /\ NoStrandedOrphan'
         /\ index' \subseteq Block /\ height' \in [index' -> Nat]
         /\ totalWork' \in [index' -> Nat]
         /\ orphans' \in [Block -> Seq(Block)] /\ toProcess' \in Seq(Block)
<1>1. HeightOn(b) = HeightOf(b) /\ WorkOn(b) = ChainWork[b]
      /\ Ancestry(b) \subseteq index \cup {b}
  BY NewBlockValues DEF TakeNew
<1>2. HeightOf(b) \in Nat /\ ChainWork[b] \in Nat
  BY LineageEnds, ChainWorkAssumption DEF HeightOf
<1>3. DagIsConsistent'
  BY <1>1 DEF TakeNew, IInv, DagIsConsistent
<1>4. index' \subseteq Block /\ height' \in [index' -> Nat] /\ totalWork' \in [index' -> Nat]
  BY <1>1, <1>2 DEF TakeNew, IInv, TypeOK
<1>5. orphans' \in [Block -> Seq(Block)] /\ toProcess' \in Seq(Block)
  <2>1. Tail(toProcess) \in Seq(Block)
    BY HeadTailProperties DEF IInv, TypeOK
  <2>2. orphans[b] \in Seq(Block) /\ <<>> \in Seq(Block)
    BY DEF IInv, TypeOK
  <2>3. QED BY <2>1, <2>2, ConcatProperties DEF TakeNew, IInv, TypeOK
<1>6. NoStrandedOrphan'
  BY DEF TakeNew, IInv, TypeOK, NoStrandedOrphan
<1>7. QED BY <1>3, <1>4, <1>5, <1>6

(* A reorganisation leaves values of the right kinds.                      *)
LEMMA ReorgTypes ==
  ASSUME IInv, NEW t \in Block, NEW hts, ReorgToTip(t, hts),
         \A x \in Ancestry(bestTip) \cup Ancestry(t) : hts[x] = HeightOf(x)
  PROVE  TxIndexOK(txIndex') /\ removedMain' \in Seq(Block) /\ entered' \in Seq(Block)
<1> DEFINE anc  == FindAncestor(bestTip, t, hts)
           path == PathFrom(anc, t, hts)
           old  == PathFrom(anc, bestTip, hts)
<1>1. bestTip \in Block /\ TxIndexOK(txIndex) /\ blockchain \in Seq(Block)
      /\ removedMain \in Seq(Block) /\ entered \in Seq(Block)
  BY DEF IInv, TypeOK, TxIndexOK
<1>2. /\ path \in Seq(Block) /\ Range(path) \subseteq Ancestry(t)
      /\ old \in Seq(Block)
  BY <1>1, PathFromIsInBranch
<1>3. \A b \in Range(path) : hts[b] \in Nat
  BY <1>2, AncestryStep, LineageEnds DEF HeightOf
<1>4. \A blocks : TxIndexOK(UnindexTxs(txIndex, blocks))
  BY <1>1, UnindexTxsType
<1>5. TxIndexOK(txIndex')
  <2>1. PICK tail : txIndex' = IndexTxs(UnindexTxs(txIndex, tail), path, hts)
    BY DEF ReorgToTip
  <2> HIDE DEF path
  <2>2. QED BY <1>2, <1>3, <1>4, <2>1, IndexTxsType
<1>6. Reverse(old) \in Seq(Block)
  <2> HIDE DEF old
  <2>1. QED BY <1>2, ReverseInSeq
<1>7. entered' = entered \o path
  BY DEF ReorgToTip
<1>8. removedMain' = removedMain \o blockchain \/ removedMain' = removedMain \o Reverse(old)
  BY DEF ReorgToTip
<1>9. QED
  <2> HIDE DEF path, old
  <2>1. QED BY <1>1, <1>2, <1>5, <1>6, <1>7, <1>8, ConcatProperties

(* The block that becomes the tip is heavier than all the others.          *)
LEMMA TakeTipKeeps ==
  ASSUME IInv, TakeTip PROVE IInv'
<1> DEFINE b == Head(toProcess)
<1>1. b \in Block /\ toProcess # <<>> /\ TakeNew(b) /\ Reorgs(b)
      /\ ReorgToTip(b, height')
  BY HeadTailProperties DEF TakeTip, IInv, TypeOK
<1>2. /\ DagIsConsistent' /\ NoStrandedOrphan'
      /\ index' \subseteq Block /\ height' \in [index' -> Nat]
      /\ totalWork' \in [index' -> Nat]
      /\ orphans' \in [Block -> Seq(Block)] /\ toProcess' \in Seq(Block)
  <2> HIDE DEF b
  <2>1. QED BY <1>1, TakeNewKeepsDag
<1>3. bestTip \in index /\ bestTip \in Block /\ index' = index \cup {b}
  BY <1>1 DEF TakeNew, IInv, TypeOK
<1>4. \A x \in Ancestry(bestTip) \cup Ancestry(b) : height'[x] = HeightOf(x)
  BY <1>2, <1>3 DEF DagIsConsistent, HeightOf, Ancestry
<1>5. blockchain' = Lineage[b] /\ bestTip' = b
  <2> HIDE DEF b
  <2>1. MainChainIsLineage
    BY DEF IInv
  <2>2. QED BY <1>1, <1>3, <1>4, <2>1, ReorgGivesLineage
<1>6. MainChainIsLineage'
  BY <1>5 DEF MainChainIsLineage
<1>7. TxIndexOK(txIndex') /\ removedMain' \in Seq(Block) /\ entered' \in Seq(Block)
  <2> HIDE DEF b
  <2>1. QED BY <1>1, <1>4, ReorgTypes
<1>8. TypeOK'
  <2>1. blockchain' \in Seq(Block)
    BY <1>1, <1>5, LineageEnds
  <2>2. bestTip' \in index'
    BY <1>3, <1>5
  <2>3. accepting' \in BOOLEAN
    BY <1>1 DEF TakeNew, IInv, TypeOK
  <2>4. QED BY <1>2, <1>7, <2>1, <2>2, <2>3 DEF TypeOK, TxIndexOK
<1>9. BestTipIsHeaviest'
  <2>1. ChainWork[b] > ChainWork[bestTip]
    BY <1>1, <1>3, NewBlockValues DEF Reorgs, TakeNew, IInv, DagIsConsistent
  <2>2. \A x \in index : ChainWork[x] \in Nat /\ ChainWork[x] <= ChainWork[bestTip]
    BY ChainWorkAssumption DEF IInv, BestTipIsHeaviest, TypeOK
  <2>3. ChainWork[b] \in Nat /\ ChainWork[bestTip] \in Nat
    BY <1>1, <1>3, ChainWorkAssumption
  <2>4. \A x \in index \cup {b} : ChainWork[x] <= ChainWork[b]
    BY <2>1, <2>2, <2>3
  <2>5. QED BY <1>3, <1>5, <2>4 DEF BestTipIsHeaviest
<1>10. QED BY <1>2, <1>6, <1>8, <1>9 DEF IInv

(* A block that is not heavier than the tip leaves the main chain alone.   *)
LEMMA TakeSideKeeps ==
  ASSUME IInv, TakeSide PROVE IInv'
<1> DEFINE b == Head(toProcess)
<1>1. b \in Block /\ toProcess # <<>> /\ TakeNew(b) /\ ~Reorgs(b)
      /\ UNCHANGED <<main, removedMain, entered>>
  BY HeadTailProperties DEF TakeSide, IInv, TypeOK
<1>2. /\ DagIsConsistent' /\ NoStrandedOrphan'
      /\ index' \subseteq Block /\ height' \in [index' -> Nat]
      /\ totalWork' \in [index' -> Nat]
      /\ orphans' \in [Block -> Seq(Block)] /\ toProcess' \in Seq(Block)
  <2> HIDE DEF b
  <2>1. QED BY <1>1, TakeNewKeepsDag
<1>3. bestTip \in index /\ bestTip \in Block /\ index' = index \cup {b}
  BY <1>1 DEF TakeNew, IInv, TypeOK
<1>4. TypeOK'
  BY <1>1, <1>2, <1>3 DEF TakeNew, IInv, TypeOK, main
<1>5. MainChainIsLineage'
  BY <1>1 DEF IInv, MainChainIsLineage, main
<1>6. BestTipIsHeaviest'
  <2>1. ChainWork[b] <= ChainWork[bestTip]
    <3>1. ~(ChainWork[b] > ChainWork[bestTip])
      BY <1>1, <1>3, NewBlockValues DEF Reorgs, TakeNew, IInv, DagIsConsistent
    <3>2. QED BY <3>1, <1>1, <1>3, ChainWorkAssumption
  <2>2. QED BY <1>1, <1>3, <2>1 DEF IInv, BestTipIsHeaviest, main
<1>7. QED BY <1>2, <1>4, <1>5, <1>6 DEF IInv

(* The remaining steps leave the DAG and the main chain alone.             *)
LEMMA OtherStepsKeep ==
  ASSUME IInv,
         \/ TakeOrphan \/ TakeDuplicate \/ AcceptReturn \/ DrainRemovedMain
         \/ \E b \in Block : AcceptBlock(b)
         \/ UNCHANGED vars
  PROVE  IInv'
<1>1. UNCHANGED <<index, height, totalWork, blockchain, bestTip, txIndex>>
  BY DEF TakeOrphan, TakeDuplicate, AcceptReturn, DrainRemovedMain, AcceptBlock,
         vars, dag, main
<1>2. DagIsConsistent' /\ MainChainIsLineage' /\ BestTipIsHeaviest'
  BY <1>1 DEF IInv, DagIsConsistent, MainChainIsLineage, BestTipIsHeaviest
<1>3. toProcess # <<>> => Head(toProcess) \in Block /\ Tail(toProcess) \in Seq(Block)
  BY HeadTailProperties DEF IInv, TypeOK
<1>4. CASE TakeOrphan
  <2> DEFINE b == Head(toProcess)
  <2>1. b \in Block /\ b \notin Root /\ Parent[b] \in Block /\ Parent[b] \notin index
        /\ Tail(toProcess) \in Seq(Block)
    BY <1>3, <1>4, BlockAssumption DEF TakeOrphan, Known
  <2>2. orphans' = [orphans EXCEPT ![Parent[b]] = Append(@, b)]
    BY <1>4 DEF TakeOrphan
  <2>3. orphans' \in [Block -> Seq(Block)]
    <3>1. Append(orphans[Parent[b]], b) \in Seq(Block)
      BY <2>1, AppendProperties DEF IInv, TypeOK
    <3>2. QED BY <2>2, <3>1 DEF IInv, TypeOK
  <2>4. TypeOK'
    BY <1>1, <1>4, <2>1, <2>3 DEF TakeOrphan, IInv, TypeOK
  <2>5. NoStrandedOrphan'
    BY <1>1, <2>1, <2>2 DEF IInv, TypeOK, NoStrandedOrphan
  <2>6. QED BY <1>2, <2>4, <2>5 DEF IInv
<1>5. CASE \E b \in Block : AcceptBlock(b)
  <2>1. TypeOK' /\ NoStrandedOrphan'
    BY <1>1, <1>5 DEF AcceptBlock, IInv, TypeOK, NoStrandedOrphan
  <2>2. QED BY <1>2, <2>1 DEF IInv
<1>6. CASE TakeDuplicate \/ AcceptReturn \/ DrainRemovedMain \/ UNCHANGED vars
  <2>1. TypeOK' /\ NoStrandedOrphan'
    BY <1>1, <1>3, <1>6
    DEF TakeDuplicate, AcceptReturn, DrainRemovedMain, vars, call, main, dag,
        IInv, TypeOK, NoStrandedOrphan
  <2>2. QED BY <1>2, <2>1 DEF IInv
<1>7. QED BY <1>4, <1>5, <1>6

(* After bootstrap_genesis.                                                *)
LEMMA InitHolds == Init => IInv
<1> SUFFICES ASSUME Init PROVE IInv
  OBVIOUS
<1>1. Genesis \in Root /\ Genesis \in Block /\ Lineage[Genesis] = <<Genesis>>
      /\ Ancestry(Genesis) = {Genesis} /\ ChainWork[Genesis] = Work[Genesis]
      /\ Work[Genesis] \in Nat
  BY BlockAssumption, LineageAssumption, ChainWorkAssumption, AncestryStep
<1>2. TxIndexOK(txIndex)
  <2> DEFINE hts == [b \in {Genesis} |-> 0]
  <2>1. <<Genesis>> \in Seq(Block) /\ Len(<<Genesis>>) = 1 /\ <<Genesis>>[1] = Genesis
    BY <1>1
  <2>2. \A b \in Range(<<Genesis>>) : hts[b] \in Nat
    <3>1. Range(<<Genesis>>) = {<<Genesis>>[i] : i \in 1..Len(<<Genesis>>)}
      BY <2>1, RangeEquality
    <3>2. QED BY <3>1, <2>1
  <2>3. TxIndexOK(<<>>)
    BY DEF TxIndexOK
  <2> HIDE DEF hts
  <2>4. TxIndexOK(IndexTxs(<<>>, <<Genesis>>, hts))
    BY <2>1, <2>2, <2>3, IndexTxsType
  <2>5. QED BY <2>4 DEF Init, hts
<1>3. TypeOK
  <2>1. blockchain \in Seq(Block) /\ index \subseteq Block /\ bestTip \in index
    BY <1>1 DEF Init
  <2>2. height \in [index -> Nat] /\ totalWork \in [index -> Nat]
    BY <1>1 DEF Init
  <2>3. orphans \in [Block -> Seq(Block)] /\ removedMain \in Seq(Block)
        /\ toProcess \in Seq(Block) /\ entered \in Seq(Block)
    BY DEF Init
  <2>4. accepting \in BOOLEAN
    BY DEF Init
  <2>5. QED BY <1>2, <2>1, <2>2, <2>3, <2>4 DEF TypeOK, TxIndexOK
<1>4. DagIsConsistent
  <2>1. Len(<<Genesis>>) = 1
    OBVIOUS
  <2>2. QED BY <1>1, <2>1 DEF Init, DagIsConsistent, HeightOf
<1>5. MainChainIsLineage /\ BestTipIsHeaviest /\ NoStrandedOrphan
  BY <1>1 DEF Init, MainChainIsLineage, BestTipIsHeaviest, NoStrandedOrphan
<1>6. QED BY <1>3, <1>4, <1>5 DEF IInv

(* Every step of Chain keeps the inductive invariant. *)
LEMMA StepHolds == IInv /\ [Next]_vars => IInv'
<1> SUFFICES ASSUME IInv, [Next]_vars PROVE IInv'
  OBVIOUS
<1>1. CASE TakeTip
  BY <1>1, TakeTipKeeps
<1>2. CASE TakeSide
  BY <1>2, TakeSideKeeps
<1>3. CASE TakeOrphan \/ TakeDuplicate \/ AcceptReturn \/ DrainRemovedMain
           \/ (\E b \in Block : AcceptBlock(b)) \/ UNCHANGED vars
  BY <1>3, OtherStepsKeep
<1>4. QED BY <1>1, <1>2, <1>3 DEF Next, Process

(* The inductive invariant holds in every reachable state.                 *)
THEOREM InductiveInvariant == Spec => []IInv
  BY InitHolds, StepHolds, PTL DEF Spec

(* Every variable of Chain keeps to its type.                              *)
THEOREM TypeCorrect == Spec => []TypeOK
<1>1. IInv => TypeOK
  BY DEF IInv
<1>2. QED BY <1>1, InductiveInvariant, PTL

(* The list that _reorg_to_tip_locked cuts and extends is always the whole *)
(* history of the best tip, over DAGs that record every branch's height    *)
(* and work right.                                                         *)
THEOREM MainChainCorrect == Spec => [](MainChainIsLineage /\ DagIsConsistent)
<1>1. IInv => MainChainIsLineage /\ DagIsConsistent
  BY DEF IInv
<1>2. QED BY <1>1, InductiveInvariant, PTL

(* No indexed block is heavier than the best tip.                          *)
THEOREM TipCorrect == Spec => []BestTipIsHeaviest
<1>1. IInv => BestTipIsHeaviest
  BY DEF IInv
<1>2. QED BY <1>1, InductiveInvariant, PTL

(* No orphan waits for a parent that is indexed.                           *)
THEOREM OrphansCorrect == Spec => []NoStrandedOrphan
<1>1. IInv => NoStrandedOrphan
  BY DEF IInv
<1>2. QED BY <1>1, InductiveInvariant, PTL

-----------------------------------------------------------------------------
(* The instance sees the same tree and the same tip.                       *)
LEMMA SameTree ==
  /\ Abstract!Lineage = Lineage /\ Abstract!ChainWork = ChainWork
  /\ Abstract!Tip = Last(blockchain)
<1>1. Abstract!Lineage = Lineage
  BY DEF Abstract!Lineage, Lineage
<1>2. Abstract!ChainWork = ChainWork
  BY DEF Abstract!ChainWork, ChainWork
<1>3. Abstract!Tip = Last(blockchain)
  BY DEF Abstract!Tip, Abstract!Last, Last
<1>4. QED BY <1>1, <1>2, <1>3

(* A step of Chain is a step of the abstract chain or changes nothing      *)
(* there: only TakeTip and TakeSide are visible.                           *)
LEMMA StepRefines ==
  ASSUME IInv, [Next]_vars
  PROVE  [Abstract!Advance]_<<index, blockchain>>
<1>0. IInv'
  BY StepHolds
<1>1. blockchain = Lineage[bestTip] /\ bestTip \in Block
  BY DEF IInv, TypeOK, MainChainIsLineage
<1>2. Last(blockchain) = bestTip
  BY <1>1, LineageEnds DEF Last
<1>3. CASE TakeTip
  <2> DEFINE b == Head(toProcess)
  <2>1. b \in Block /\ TakeNew(b) /\ Reorgs(b) /\ ReorgToTip(b, height')
    BY <1>3, HeadTailProperties DEF TakeTip, IInv, TypeOK
  <2>2. bestTip' = b /\ blockchain' = Lineage[b]
    BY <1>0, <2>1 DEF ReorgToTip, IInv, MainChainIsLineage
  <2>3. ChainWork[b] > ChainWork[bestTip]
    BY <2>1, NewBlockValues DEF Reorgs, TakeNew, IInv, DagIsConsistent, TypeOK
  <2>4. Abstract!Extend(b)
    BY <1>2, <2>1, <2>2, <2>3, SameTree DEF Abstract!Extend, TakeNew, Known
  <2>5. QED BY <2>1, <2>4 DEF Abstract!Advance
<1>4. CASE TakeSide
  <2> DEFINE b == Head(toProcess)
  <2>1. b \in Block /\ TakeNew(b) /\ ~Reorgs(b) /\ blockchain' = blockchain
    BY <1>4, HeadTailProperties DEF TakeSide, IInv, TypeOK, main
  <2>2. ~(ChainWork[b] > ChainWork[bestTip])
    BY <2>1, NewBlockValues DEF Reorgs, TakeNew, IInv, DagIsConsistent, TypeOK
  <2>3. Abstract!Extend(b)
    BY <1>2, <2>1, <2>2, SameTree DEF Abstract!Extend, TakeNew, Known
  <2>4. QED BY <2>1, <2>3 DEF Abstract!Advance
<1>5. CASE TakeOrphan \/ TakeDuplicate \/ AcceptReturn \/ DrainRemovedMain
           \/ (\E b \in Block : AcceptBlock(b)) \/ UNCHANGED vars
  BY <1>5 DEF TakeOrphan, TakeDuplicate, AcceptReturn, DrainRemovedMain, AcceptBlock,
              vars, dag, main
<1>6. QED BY <1>3, <1>4, <1>5 DEF Next, Process

(* chain.py implements the abstract chain.                                 *)
THEOREM Refinement == Spec => ImplementsHeaviestChain
<1>1. Init => Abstract!Start
  BY DEF Init, Abstract!Start
<1>2. IInv /\ [Next]_vars => [Abstract!Advance]_(Abstract!abstractVars)
  BY StepRefines DEF Abstract!abstractVars
<1>3. QED BY <1>1, <1>2, InductiveInvariant, PTL
          DEF Spec, ImplementsHeaviestChain, Abstract!AbstractSpec

(* The best tip is left only for a strictly heavier one.                   *)
THEOREM TipCorrectMoves == Spec => TipMovesUp
<1>1. IInv /\ [Next]_vars =>
        [bestTip' # bestTip => ChainWork[bestTip'] > ChainWork[bestTip]]_vars
  <2> SUFFICES ASSUME IInv, [Next]_vars, bestTip' # bestTip
               PROVE  ChainWork[bestTip'] > ChainWork[bestTip]
    OBVIOUS
  <2>1. TakeTip
    BY DEF Next, Process, TakeOrphan, TakeDuplicate, TakeSide, AcceptReturn,
           DrainRemovedMain, AcceptBlock, vars, main
  <2> DEFINE b == Head(toProcess)
  <2>2. b \in Block /\ TakeNew(b) /\ Reorgs(b) /\ bestTip' = b
    BY <2>1, HeadTailProperties DEF TakeTip, ReorgToTip, IInv, TypeOK
  <2>3. QED BY <2>2, NewBlockValues DEF Reorgs, TakeNew, IInv, DagIsConsistent, TypeOK
<1>2. QED BY <1>1, InductiveInvariant, PTL DEF Spec, TipMovesUp

-----------------------------------------------------------------------------
(* accept_block returns only when its work list is empty. *)
IdleIsEmpty == ~accepting => toProcess = <<>>

(* So a call of accept_block never overwrites what an earlier one left.    *)
LEMMA IdleStep ==
  ASSUME IdleIsEmpty, [Next]_vars PROVE IdleIsEmpty'
  BY DEF IdleIsEmpty, Next, Process, TakeOrphan, TakeDuplicate, TakeSide, TakeTip, TakeNew,
         AcceptReturn, DrainRemovedMain, AcceptBlock, vars, call

(* Indexing a block releases its orphans to the work list: nothing that    *)
(* was indexed, waiting or listed is lost.                                 *)
LEMMA TakeNewForgetsNothing ==
  ASSUME IInv, toProcess # <<>>, TakeNew(Head(toProcess))
  PROVE  index \cup Pending \subseteq index' \cup Pending'
<1> DEFINE b == Head(toProcess)
<1>1. b \in Block /\ Tail(toProcess) \in Seq(Block) /\ toProcess \in Seq(Block)
      /\ orphans \in [Block -> Seq(Block)]
  BY HeadTailProperties DEF IInv, TypeOK
<1>2. /\ index' = index \cup {b} /\ toProcess' = Tail(toProcess) \o orphans[b]
      /\ orphans' = [orphans EXCEPT ![b] = <<>>]
  BY DEF TakeNew
<1>3. Range(toProcess) = {b} \cup Range(Tail(toProcess))
  BY <1>1, RangeHeadTail
<1>4. Range(toProcess') = Range(Tail(toProcess)) \cup Range(orphans[b])
  BY <1>1, <1>2, RangeConcatenation
<1>5. \A p \in Block : Range(orphans[p]) \subseteq Range(orphans'[p]) \cup Range(toProcess')
  BY <1>1, <1>2, <1>4
<1>6. OrphanBlocks \subseteq OrphanBlocks' \cup Range(toProcess')
  BY <1>5 DEF OrphanBlocks
<1>7. QED BY <1>2, <1>3, <1>4, <1>6 DEF Pending

(* An orphan goes from the work list to the pool. *)
LEMMA TakeOrphanForgetsNothing ==
  ASSUME IInv, TakeOrphan
  PROVE  index \cup Pending \subseteq index' \cup Pending'
<1> DEFINE b == Head(toProcess)
<1>1. b \in Block /\ Tail(toProcess) \in Seq(Block) /\ toProcess \in Seq(Block)
      /\ orphans \in [Block -> Seq(Block)] /\ toProcess # <<>>
  BY HeadTailProperties DEF TakeOrphan, IInv, TypeOK
<1>2. b \notin Root /\ Parent[b] \in Block
  BY <1>1, BlockAssumption DEF TakeOrphan, Known
<1>3. /\ index' = index /\ toProcess' = Tail(toProcess)
      /\ orphans' = [orphans EXCEPT ![Parent[b]] = Append(@, b)]
  BY DEF TakeOrphan, dag
<1>4. Range(toProcess) = {b} \cup Range(Tail(toProcess))
  BY <1>1, RangeHeadTail
<1>5. Range(orphans'[Parent[b]]) = Range(orphans[Parent[b]]) \cup {b}
  <2>1. orphans'[Parent[b]] = Append(orphans[Parent[b]], b)
    BY <1>1, <1>2, <1>3
  <2>2. QED BY <1>1, <1>2, <2>1, RangeAppend
<1>6. \A p \in Block : Range(orphans[p]) \subseteq Range(orphans'[p])
  BY <1>1, <1>3, <1>5
<1>7. b \in OrphanBlocks' /\ OrphanBlocks \subseteq OrphanBlocks'
  BY <1>2, <1>5, <1>6 DEF OrphanBlocks
<1>8. QED BY <1>3, <1>4, <1>7 DEF Pending

(* What is in the DAG or on its way there stays. *)
LEMMA NothingForgottenStep ==
  ASSUME IInv, IdleIsEmpty, [Next]_vars
  PROVE  index \cup Pending \subseteq index' \cup Pending'
<1>1. CASE TakeOrphan
  BY <1>1, TakeOrphanForgetsNothing
<1>2. CASE TakeSide \/ TakeTip
  BY <1>2, TakeNewForgetsNothing DEF TakeSide, TakeTip
<1>3. CASE TakeDuplicate
  <2>1. Range(toProcess) = {Head(toProcess)} \cup Range(Tail(toProcess))
    BY <1>3, RangeHeadTail DEF TakeDuplicate, IInv, TypeOK
  <2>2. QED BY <1>3, <2>1 DEF TakeDuplicate, Pending, OrphanBlocks, dag
<1>4. CASE \E b \in Block : AcceptBlock(b)
  <2>1. index' = index /\ orphans' = orphans /\ toProcess = <<>>
    BY <1>4 DEF AcceptBlock, IdleIsEmpty, dag
  <2>2. Range(<<>>) = {}
    BY DEF Range
  <2>3. QED BY <2>1, <2>2 DEF Pending, OrphanBlocks
<1>5. CASE AcceptReturn \/ DrainRemovedMain \/ UNCHANGED vars
  BY <1>5 DEF AcceptReturn, DrainRemovedMain, vars, dag, call, Pending, OrphanBlocks
<1>6. QED BY <1>1, <1>2, <1>3, <1>4, <1>5 DEF Next, Process

(* A block that accept_block was given is indexed, waits for its parent or *)
(* is on the work list for ever after, through cascades of orphans that    *)
(* come children first.                                                    *)
THEOREM NothingForgotten == Spec => NoBlockForgotten
<1>1. Init => IdleIsEmpty
  BY DEF Init, IdleIsEmpty
<1>2. IInv /\ IdleIsEmpty /\ [Next]_vars
        => [index \cup Pending \subseteq index' \cup Pending']_vars
  BY NothingForgottenStep
<1>3. IdleIsEmpty /\ [Next]_vars => IdleIsEmpty'
  BY IdleStep
<1>4. Spec => []IdleIsEmpty
  BY <1>1, <1>3, PTL DEF Spec
<1>5. QED BY <1>2, <1>4, InductiveInvariant, PTL DEF Spec, NoBlockForgotten

-----------------------------------------------------------------------------
(* The walks of _find_ancestor pass every block of one branch that the     *)
(* other has not, and no other, each once.                                 *)
LEMMA PathFromIsDifference ==
  ASSUME NEW a \in Block, NEW t \in Block, NEW hts,
         \A x \in Ancestry(a) : hts[x] = HeightOf(x),
         NEW b \in {a, t}, NEW o \in {a, t}, Ancestry(a) \cap Ancestry(t) = Ancestry(b) \cap Ancestry(o)
  PROVE  LET path == PathFrom(FindAncestor(a, t, hts), b, hts)
         IN  /\ path \in Seq(Block) /\ IsInjective(path)
             /\ Range(path) = Ancestry(b) \ Ancestry(o)
<1> DEFINE anc == FindAncestor(a, t, hts)
           path == PathFrom(anc, b, hts)
           m == Len(Lineage[b])
<1>1. /\ b \in Block /\ o \in Block /\ Lineage[b] \in Seq(Block) /\ m \in Nat \ {0}
      /\ Ancestry(b) = {Lineage[b][i] : i \in 1..m}
      /\ \A i \in 1..m : Lineage[b][i] \in Block
  BY LineageEnds, RangeEquality, ElementOfSeq DEF Ancestry
<1>2. path \in Seq(Block)
  BY PathFromIsInBranch
<1>3. CASE anc = NoBlock
  <2>1. path = Lineage[b] /\ Ancestry(b) \cap Ancestry(o) = {}
    BY <1>3, FindAncestorFinds DEF PathFrom
  <2>2. \A i \in 1..m, j \in 1..m : Lineage[b][i] = Lineage[b][j] => i = j
    BY <1>1, LineagePosition
  <2>3. DOMAIN Lineage[b] = 1..m
    BY <1>1, LenProperties
  <2>4. IsInjective(Lineage[b])
    BY <2>2, <2>3 DEF IsInjective
  <2>5. Range(path) = Ancestry(b)
    BY <2>1 DEF Ancestry
  <2>6. QED BY <1>2, <2>1, <2>4, <2>5
<1>4. CASE anc # NoBlock
  <2> DEFINE n == Len(Lineage[anc])
             s == SubSeq(Lineage[b], n + 1, m)
  <2>1. /\ anc \in Ancestry(b) /\ anc \in Ancestry(o) /\ hts[anc] = HeightOf(anc)
        /\ \A y \in Ancestry(b) \cap Ancestry(o) : hts[y] <= hts[anc] /\ hts[y] = HeightOf(y)
    BY <1>4, FindAncestorFinds
  <2>2. /\ n \in 1..m /\ SubSeq(Lineage[b], 1, n) = Lineage[anc] /\ anc \in Block
        /\ n \in Nat
    BY <1>1, <2>1, AncestorPosition, LineageEnds
  <2>3. path = s
    <3>1. hts[anc] + 2 = n + 1
      BY <2>1, <2>2, <1>1 DEF HeightOf
    <3>2. QED BY <1>4, <3>1 DEF PathFrom
  <2>4. /\ s \in Seq(Block) /\ Len(s) = m - n
        /\ \A i \in 1..m - n : s[i] = Lineage[b][n + i]
    <3>1. n \in 0..m
      BY <2>2, <1>1
    <3>2. QED BY <3>1, <1>1, CutList
  <2>5. \A i \in 1..m - n : n + i \in 1..m /\ Len(Lineage[s[i]]) = n + i /\ s[i] \in Ancestry(b)
    <3>1. \A i \in 1..m - n : n + i \in 1..m
      BY <1>1, <2>2
    <3>2. QED BY <3>1, <2>4, <1>1, LineagePosition
  <2>6. IsInjective(s)
    <3>1. DOMAIN s = 1..m - n
      BY <2>4, LenProperties
    <3> HIDE DEF s
    <3>2. \A i \in 1..m - n, j \in 1..m - n : s[i] = s[j] => i = j
      BY <2>5, <2>2
    <3>3. QED BY <3>1, <3>2 DEF IsInjective
  <2>7. Range(s) = {s[i] : i \in 1..m - n}
    BY <2>4, RangeEquality
  <2>8. ASSUME NEW i \in 1..m - n PROVE s[i] \in Ancestry(b) \ Ancestry(o)
    <3>1. SUFFICES ASSUME s[i] \in Ancestry(o) PROVE FALSE
      BY <2>5
    <3>2. s[i] \in Ancestry(b) /\ Len(Lineage[s[i]]) = n + i
      BY <2>5
    <3>3. HeightOf(s[i]) <= HeightOf(anc)
      BY <3>1, <3>2, <2>1
    <3>4. QED BY <3>2, <3>3, <2>2 DEF HeightOf
  <2>9. ASSUME NEW x \in Ancestry(b) \ Ancestry(o) PROVE x \in Range(s)
    <3>1. PICK k \in 1..m : Lineage[b][k] = x
      BY <1>1
    <3>2. CASE k <= n
      <4>1. k \in 1..n
        BY <3>2
      <4>2. SubSeq(Lineage[b], 1, n)[k] = Lineage[b][k]
        <5>1. n \in 0..m
          BY <2>2, <1>1
        <5>2. QED BY <5>1, <4>1, <1>1, CutList
      <4>3. x \in Ancestry(anc)
        BY <4>1, <4>2, <3>1, <2>2, LineagePosition
      <4>4. QED BY <4>3, <1>1, <2>1, AncestryTransitive
    <3>3. CASE ~(k <= n)
      <4>1. k - n \in 1..m - n /\ n + (k - n) = k
        <5>1. k \in Nat /\ n \in Nat /\ m \in Nat /\ n < k /\ k <= m
          BY <3>3, <1>1, <2>2
        <5>2. QED BY <5>1
      <4>2. s[k - n] = x
        BY <4>1, <2>4, <3>1
      <4>3. QED BY <4>1, <4>2, <2>7
    <3>4. QED BY <3>2, <3>3
  <2>10. Range(s) = Ancestry(b) \ Ancestry(o)
    <3> HIDE DEF s
    <3>1. Range(s) \subseteq Ancestry(b) \ Ancestry(o)
      BY <2>7, <2>8
    <3>2. QED BY <3>1, <2>9
  <2>11. QED BY <1>2, <2>3, <2>6, <2>10
<1>5. QED BY <1>3, <1>4

(* A reversed list holds the same blocks, each as often.                   *)
LEMMA ReverseSame ==
  ASSUME NEW s \in Seq(Block)
  PROVE  /\ Range(Reverse(s)) = Range(s)
         /\ IsInjective(s) => IsInjective(Reverse(s))
<1> DEFINE r == Reverse(s)
           n == Len(s)
<1>1. /\ n \in Nat /\ r \in Seq(Block) /\ Len(r) = n
      /\ \A k \in 1..n : r[k] = s[(n - k) + 1]
      /\ DOMAIN r = 1..n /\ DOMAIN s = 1..n
  BY LenProperties, ReverseInSeq
<1>2. Range(r) = {r[i] : i \in 1..n} /\ Range(s) = {s[i] : i \in 1..n}
  BY <1>1, RangeEquality
<1> HIDE DEF r
<1>3. \A k \in 1..n : (n - k) + 1 \in 1..n /\ (n - ((n - k) + 1)) + 1 = k
  BY <1>1
<1>4. Range(r) = Range(s)
  BY <1>1, <1>2, <1>3
<1>5. ASSUME IsInjective(s) PROVE IsInjective(r)
  <2>1. ASSUME NEW i \in 1..n, NEW j \in 1..n, r[i] = r[j] PROVE i = j
    <3>1. s[(n - i) + 1] = s[(n - j) + 1]
      BY <1>1, <2>1
    <3>2. (n - i) + 1 = (n - j) + 1
      BY <3>1, <1>1, <1>3, <1>5 DEF IsInjective
    <3>3. QED BY <3>2, <1>1
  <2>2. QED BY <1>1, <2>1 DEF IsInjective
<1>6. QED BY <1>4, <1>5 DEF r

(* What a reorganisation reports, on a main chain that is a lineage.       *)
LEMMA ReorgReports ==
  ASSUME NEW t \in Block, NEW hts, bestTip \in Block, MainChainIsLineage,
         \A x \in Ancestry(bestTip) : hts[x] = HeightOf(x),
         ReorgToTip(t, hts)
  PROVE  \E path \in Seq(Block), out \in Seq(Block) :
           /\ entered' = entered \o path /\ removedMain' = removedMain \o out
           /\ IsInjective(path) /\ IsInjective(out)
           /\ Range(path) = Ancestry(t) \ Ancestry(bestTip)
           /\ Range(out) = Ancestry(bestTip) \ Ancestry(t)
<1> DEFINE anc == FindAncestor(bestTip, t, hts)
           path == PathFrom(anc, t, hts)
           old == PathFrom(anc, bestTip, hts)
<1>1. /\ path \in Seq(Block) /\ IsInjective(path)
      /\ Range(path) = Ancestry(t) \ Ancestry(bestTip)
  BY PathFromIsDifference
<1>2. /\ old \in Seq(Block) /\ IsInjective(old)
      /\ Range(old) = Ancestry(bestTip) \ Ancestry(t)
  BY PathFromIsDifference
<1>3. entered' = entered \o path
  BY DEF ReorgToTip
<1>4. CASE anc = NoBlock
  <2>1. removedMain' = removedMain \o old
    BY <1>4 DEF ReorgToTip, MainChainIsLineage, PathFrom
  <2>2. QED BY <1>1, <1>2, <1>3, <2>1
<1>5. CASE anc # NoBlock
  <2>1. anc \in Ancestry(bestTip) /\ hts[anc] = HeightOf(anc)
    BY <1>5, FindAncestorFinds
  <2>2. Len(Lineage[anc]) \in 1..Len(Lineage[bestTip]) /\ Len(Lineage[bestTip]) \in Nat
    BY <2>1, AncestorPosition, LineageEnds
  <2>3. ~(hts[anc] >= Len(blockchain))
    BY <2>1, <2>2 DEF HeightOf, MainChainIsLineage
  <2>4. removedMain' = removedMain \o Reverse(old)
    BY <1>5, <2>3 DEF ReorgToTip
  <2>5. /\ Reverse(old) \in Seq(Block) /\ IsInjective(Reverse(old))
        /\ Range(Reverse(old)) = Ancestry(bestTip) \ Ancestry(t)
    <3> HIDE DEF old
    <3>1. QED BY <1>2, ReverseSame, ReverseInSeq
  <2>6. QED
    <3> HIDE DEF old, path
    <3>1. QED BY <1>1, <1>3, <2>4, <2>5
<1>6. QED BY <1>4, <1>5

(* The reactor is told of every reorganisation what happened: the blocks   *)
(* that left the main chain and those that joined it, each once.           *)
THEOREM ReorgReported == Spec => ReorgIsReported
<1> DEFINE added == SubSeq(entered', Len(entered) + 1, Len(entered'))
           dropped == SubSeq(removedMain', Len(removedMain) + 1, Len(removedMain'))
<1>1. ASSUME IInv, TakeTip
      PROVE  /\ Range(added) = Range(blockchain') \ Range(blockchain)
             /\ Range(dropped) = Range(blockchain) \ Range(blockchain')
             /\ IsInjective(added) /\ IsInjective(dropped)
  <2> DEFINE b == Head(toProcess)
  <2>1. b \in Block /\ TakeNew(b) /\ ReorgToTip(b, height')
    BY <1>1, HeadTailProperties DEF TakeTip, IInv, TypeOK
  <2>2. IInv'
    BY <1>1, TakeTipKeeps
  <2>3. /\ bestTip \in Block /\ bestTip \in index /\ MainChainIsLineage
        /\ entered \in Seq(Block) /\ removedMain \in Seq(Block)
    BY <1>1 DEF IInv, TypeOK
  <2>4. \A x \in Ancestry(bestTip) : height'[x] = HeightOf(x)
    BY <2>1, <2>2, <2>3 DEF TakeNew, IInv, DagIsConsistent, HeightOf, Ancestry
  <2>5. PICK path \in Seq(Block), out \in Seq(Block) :
           /\ entered' = entered \o path /\ removedMain' = removedMain \o out
           /\ IsInjective(path) /\ IsInjective(out)
           /\ Range(path) = Ancestry(b) \ Ancestry(bestTip)
           /\ Range(out) = Ancestry(bestTip) \ Ancestry(b)
    <3> HIDE DEF b
    <3>1. QED BY <2>1, <2>3, <2>4, ReorgReports
  <2>6. added = path /\ dropped = out
    BY <2>3, <2>5, SuffixOfConcat
  <2>7. Range(blockchain) = Ancestry(bestTip) /\ Range(blockchain') = Ancestry(b)
    BY <2>1, <2>2, <2>3 DEF IInv, MainChainIsLineage, ReorgToTip, Ancestry
  <2>8. QED BY <2>5, <2>6, <2>7
<1>2. IInv /\ [Next]_vars =>
        [TakeTip => /\ Range(added) = Range(blockchain') \ Range(blockchain)
                    /\ Range(dropped) = Range(blockchain) \ Range(blockchain')
                    /\ IsInjective(added) /\ IsInjective(dropped)]_vars
  BY <1>1
<1>3. QED BY <1>2, InductiveInvariant, PTL DEF Spec, ReorgIsReported

-----------------------------------------------------------------------------
(* _tx_index describes a list of blocks.                                   *)
Describes(idx, blocks) ==
  /\ DOMAIN idx = TxsOf(blocks)
  /\ \A t \in DOMAIN idx : \E i \in 1..Len(blocks) :
       /\ t \in Range(Txs[blocks[i]])
       /\ idx[t] = [block |-> blocks[i], height |-> i - 1]

(* Popping the transactions of a tail and indexing what is put in its      *)
(* place: exact when no transaction of the tail is also below it.          *)
LEMMA ReindexDescribes ==
  ASSUME NEW kept \in Seq(Block), NEW tail \in Seq(Block), NEW path \in Seq(Block),
         NEW idx, Describes(idx, kept \o tail), NEW hts,
         TxsOf(kept) \cap TxsOf(tail) = {},
         \A i \in 1..Len(path) : hts[path[i]] = Len(kept) + i - 1
  PROVE  Describes(IndexTxs(UnindexTxs(idx, tail), path, hts), kept \o path)
<1> DEFINE mid == UnindexTxs(idx, tail)
           new == IndexTxs(mid, path, hts)
           old == kept \o tail
           blocks == kept \o path
           k == Len(kept)
           p == Len(path)
<1>1. /\ k \in Nat /\ p \in Nat /\ Len(tail) \in Nat
      /\ Len(blocks) = k + p /\ Len(old) = k + Len(tail)
      /\ \A i \in 1..k + p : blocks[i] = IF i <= k THEN kept[i] ELSE path[i - k]
      /\ \A i \in 1..k + Len(tail) : old[i] = IF i <= k THEN kept[i] ELSE tail[i - k]
  BY LenProperties, ConcatProperties
<1>2. DOMAIN mid = TxsOf(kept) /\ \A t \in DOMAIN mid : mid[t] = idx[t]
  <2>1. DOMAIN mid = TxsOf(old) \ TxsOf(tail) /\ \A t \in DOMAIN mid : mid[t] = idx[t]
    BY DEF UnindexTxs, Describes
  <2>2. QED BY <2>1, TxsOfConcat
<1>3. /\ DOMAIN new = TxsOf(kept) \cup TxsOf(path)
      /\ \A t \in DOMAIN new : new[t] = IF t \in TxsOf(path) THEN Entry(t, path, hts) ELSE mid[t]
  BY <1>2 DEF IndexTxs
<1>4. DOMAIN new = TxsOf(blocks)
  BY <1>3, TxsOfConcat
<1>5. ASSUME NEW t \in TxsOf(path)
      PROVE  \E i \in 1..Len(blocks) :
               /\ t \in Range(Txs[blocks[i]])
               /\ new[t] = [block |-> blocks[i], height |-> i - 1]
  <2>1. PICK i \in 1..p : /\ t \in Range(Txs[path[i]])
                          /\ Entry(t, path, hts) = [block |-> path[i], height |-> hts[path[i]]]
    BY EntryIsPlace
  <2>2. /\ k + i \in 1..k + p /\ ~(k + i <= k) /\ (k + i) - k = i
        /\ hts[path[i]] = (k + i) - 1
    BY <1>1
  <2>3. blocks[k + i] = path[i] /\ k + i \in 1..Len(blocks)
    BY <2>2, <1>1
  <2> HIDE DEF new, blocks
  <2>4. new[t] = Entry(t, path, hts)
    BY <1>3
  <2>5. new[t] = [block |-> blocks[k + i], height |-> (k + i) - 1]
    BY <2>1, <2>2, <2>3, <2>4
  <2>6. QED BY <2>1, <2>3, <2>5
<1>6. ASSUME NEW t \in TxsOf(kept), t \notin TxsOf(path)
      PROVE  \E i \in 1..Len(blocks) :
               /\ t \in Range(Txs[blocks[i]])
               /\ new[t] = [block |-> blocks[i], height |-> i - 1]
  <2>1. new[t] = idx[t] /\ t \in DOMAIN idx
    BY <1>2, <1>3, <1>6, TxsOfConcat DEF Describes
  <2>2. PICK i \in 1..Len(old) : /\ t \in Range(Txs[old[i]])
                                 /\ idx[t] = [block |-> old[i], height |-> i - 1]
    BY <2>1 DEF Describes
  <2>3. i <= k
    <3>1. SUFFICES ASSUME ~(i <= k) PROVE FALSE
      OBVIOUS
    <3>2. i \in 1..k + Len(tail) /\ i - k \in 1..Len(tail)
      <4>1. i \in Nat /\ i <= k + Len(tail) /\ k < i
        BY <3>1, <1>1
      <4>2. QED BY <4>1, <1>1
    <3>3. old[i] = tail[i - k]
      BY <3>1, <3>2, <1>1
    <3>4. t \in TxsOf(tail)
      BY <2>2, <3>2, <3>3, TxsOfPlaces
    <3>5. QED BY <3>4
  <2>4. i \in 1..Len(blocks) /\ old[i] = kept[i] /\ blocks[i] = kept[i]
    BY <2>3, <1>1
  <2> HIDE DEF new, blocks, old
  <2>5. QED BY <2>1, <2>2, <2>4
<1> HIDE DEF new, blocks
<1>7. \A t \in DOMAIN new : \E i \in 1..Len(blocks) :
        /\ t \in Range(Txs[blocks[i]])
        /\ new[t] = [block |-> blocks[i], height |-> i - 1]
  BY <1>3, <1>5, <1>6
<1>8. Describes(new, blocks)
  BY <1>4, <1>7 DEF Describes
<1>9. QED BY <1>8 DEF new, blocks

(* On a branch that holds no transaction twice, two parts of its lineage   *)
(* have none in common.                                                    *)
LEMMA PartsShareNoTx ==
  ASSUME TxsOnceOnBranch, NEW b \in Block, NEW n \in 0..Len(Lineage[b])
  PROVE  TxsOf(SubSeq(Lineage[b], 1, n)) \cap TxsOf(SubSeq(Lineage[b], n + 1, Len(Lineage[b]))) = {}
<1> DEFINE s == Lineage[b]
           front == SubSeq(s, 1, n)
           back == SubSeq(s, n + 1, Len(s))
<1>1. s \in Seq(Block) /\ Len(s) \in Nat /\ n \in Nat
  BY LineageEnds
<1>2. /\ front \in Seq(Block) /\ Len(front) = n /\ \A i \in 1..n : front[i] = s[i]
      /\ back \in Seq(Block) /\ Len(back) = Len(s) - n
      /\ \A i \in 1..Len(s) - n : back[i] = s[n + i]
  BY <1>1, CutList
<1>3. SUFFICES ASSUME NEW t \in TxsOf(front), t \in TxsOf(back) PROVE FALSE
  OBVIOUS
<1> HIDE DEF front, back
<1>4. PICK i \in 1..n : t \in Range(Txs[front[i]])
  BY <1>2, <1>3, TxsOfPlaces
<1>5. PICK j \in 1..Len(s) - n : t \in Range(Txs[back[j]])
  BY <1>2, <1>3, TxsOfPlaces
<1>6. i \in 1..Len(s) /\ n + j \in 1..Len(s) /\ i # n + j
  BY <1>1
<1>7. /\ s[i] \in Ancestry(b) /\ s[n + j] \in Ancestry(b) /\ s[i] # s[n + j]
  BY <1>6, LineagePosition
<1>8. t \in Range(Txs[s[i]]) \cap Range(Txs[s[n + j]])
  BY <1>2, <1>4, <1>5
<1>9. QED BY <1>7, <1>8 DEF TxsOnceOnBranch

(* The whole of the reorganisation, on a main chain that is a lineage.     *)
LEMMA ReorgReindexes ==
  ASSUME NEW t \in Block, NEW hts, bestTip \in Block, MainChainIsLineage, TxsOnceOnBranch,
         \A x \in Ancestry(bestTip) \cup Ancestry(t) : hts[x] = HeightOf(x),
         Describes(txIndex, blockchain), ReorgToTip(t, hts)
  PROVE  Describes(txIndex', blockchain')
<1> DEFINE anc == FindAncestor(bestTip, t, hts)
           L == Lineage[bestTip]
           M == Lineage[t]
<1>1. L \in Seq(Block) /\ M \in Seq(Block) /\ Len(L) \in Nat /\ Len(M) \in Nat
      /\ blockchain = L /\ <<>> \in Seq(Block) /\ Len(<<>>) = 0
  BY LineageEnds DEF MainChainIsLineage
<1>2. CASE anc = NoBlock
  <2>1. /\ blockchain' = <<>> \o M
        /\ txIndex' = IndexTxs(UnindexTxs(txIndex, L), M, hts)
    BY <1>1, <1>2 DEF ReorgToTip, PathFrom
  <2>2. Describes(txIndex, <<>> \o L)
    BY <1>1, ConcatEmptySeq
  <2>3. TxsOf(<<>>) \cap TxsOf(L) = {}
    BY DEF TxsOf, Range
  <2>4. \A i \in 1..Len(M) : hts[M[i]] = Len(<<>>) + i - 1
    <3>1. TAKE i \in 1..Len(M)
    <3>2. M[i] \in Ancestry(t) /\ Len(Lineage[M[i]]) = i
      BY LineagePosition
    <3>3. hts[M[i]] = i - 1
      BY <3>2 DEF HeightOf
    <3>4. Len(<<>>) + i - 1 = i - 1
      BY <1>1
    <3>5. QED BY <3>3, <3>4
  <2> HIDE DEF L, M
  <2>5. QED BY <1>1, <2>1, <2>2, <2>3, <2>4, ReindexDescribes
<1>3. CASE anc # NoBlock
  <2> DEFINE n == Len(Lineage[anc])
             kept == SubSeq(L, 1, n)
             tail == SubSeq(L, n + 1, Len(L))
             path == SubSeq(M, n + 1, Len(M))
  <2>1. anc \in Ancestry(bestTip) /\ anc \in Ancestry(t) /\ hts[anc] = HeightOf(anc)
    BY <1>3, FindAncestorFinds
  <2>2. n \in 1..Len(L) /\ n \in 1..Len(M) /\ n \in 0..Len(L) /\ n \in 0..Len(M) /\ n \in Nat
    <3>1. n \in 1..Len(L) /\ n \in 1..Len(M)
      BY <2>1, AncestorPosition
    <3>2. QED BY <3>1, <1>1
  <2>3. hts[anc] + 1 = n /\ hts[anc] + 2 = n + 1 /\ ~(hts[anc] >= Len(blockchain))
    BY <2>1, <2>2, <1>1 DEF HeightOf
  <2>4. /\ blockchain' = kept \o path
        /\ txIndex' = IndexTxs(UnindexTxs(txIndex, tail), path, hts)
    BY <1>1, <1>3, <2>3 DEF ReorgToTip, PathFrom
  <2>5. kept \in Seq(Block) /\ tail \in Seq(Block) /\ kept \o tail = L /\ Len(kept) = n
    <3> HIDE DEF L, M
    <3>1. L \in Seq(Block) /\ M \in Seq(Block) /\ n \in 0..Len(L) /\ n \in 0..Len(M)
      BY <1>1, <2>2
    <3> HIDE DEF n
    <3>2. QED BY <3>1, CutList
  <2>6. path \in Seq(Block) /\ Len(path) = Len(M) - n
        /\ \A i \in 1..Len(M) - n : path[i] = M[n + i]
    <3> HIDE DEF L, M
    <3>1. L \in Seq(Block) /\ M \in Seq(Block) /\ n \in 0..Len(L) /\ n \in 0..Len(M)
      BY <1>1, <2>2
    <3> HIDE DEF n
    <3>2. QED BY <3>1, CutList
  <2>7. TxsOf(kept) \cap TxsOf(tail) = {}
    BY <2>2, PartsShareNoTx
  <2>8. \A i \in 1..Len(path) : hts[path[i]] = Len(kept) + i - 1
    <3> HIDE DEF kept, path
    <3>1. TAKE i \in 1..Len(path)
    <3>2. n + i \in 1..Len(M) /\ path[i] = M[n + i]
      BY <1>1, <2>2, <2>6
    <3>3. M[n + i] \in Ancestry(t) /\ Len(Lineage[M[n + i]]) = n + i
      BY <3>2, LineagePosition
    <3>4. hts[M[n + i]] = n + i - 1
      BY <3>3 DEF HeightOf
    <3>5. QED BY <3>2, <3>4, <2>5
  <2>9. Describes(txIndex, kept \o tail)
    BY <1>1, <2>5
  <2> HIDE DEF kept, tail, path
  <2>10. QED BY <2>4, <2>5, <2>6, <2>7, <2>8, <2>9, ReindexDescribes
<1>4. QED BY <1>2, <1>3

(* Where no branch holds a transaction twice, /api/tx/status finds exactly *)
(* the transactions of the main chain, at their block and height, after    *)
(* any number of reorganisations.                                          *)
THEOREM TxIndexCorrect == Spec => []TxIndexIsExact
<1>1. TxIndexIsExact <=> (TxsOnceOnBranch => Describes(txIndex, blockchain))
  BY DEF TxIndexIsExact, Describes
<1>2. TxIndexIsExact' <=> (TxsOnceOnBranch => Describes(txIndex', blockchain'))
  BY DEF TxIndexIsExact, Describes, TxsOnceOnBranch, TxsOf, Range, Ancestry
<1>3. Init => TxIndexIsExact
  <2> SUFFICES ASSUME Init, TxsOnceOnBranch PROVE Describes(txIndex, blockchain)
    BY <1>1
  <2> DEFINE hts == [b \in {Genesis} |-> 0]
             g == <<Genesis>>
  <2>1. g \in Seq(Block) /\ Len(g) = 1 /\ g[1] = Genesis /\ <<>> \in Seq(Block) /\ Len(<<>>) = 0
    BY BlockAssumption
  <2>2. UnindexTxs(<<>>, <<>>) = <<>>
    BY DEF UnindexTxs
  <2>3. TxsOf(<<>>) = {}
    BY DEF TxsOf, Range
  <2>4. Describes(<<>>, <<>> \o <<>>)
    <3>1. <<>> \o <<>> = <<>>
      BY <2>1, ConcatEmptySeq
    <3>2. DOMAIN <<>> = {}
      OBVIOUS
    <3>3. QED BY <3>1, <3>2, <2>3 DEF Describes
  <2>5. \A i \in 1..Len(g) : hts[g[i]] = Len(<<>>) + i - 1
    BY <2>1
  <2>6. Describes(IndexTxs(UnindexTxs(<<>>, <<>>), g, hts), <<>> \o g)
    <3> HIDE DEF g, hts
    <3>1. QED BY <2>1, <2>3, <2>4, <2>5, ReindexDescribes
  <2>7. <<>> \o g = g
    BY <2>1, ConcatEmptySeq
  <2>8. QED BY <2>2, <2>6, <2>7 DEF Init
<1>4. ASSUME IInv, TxIndexIsExact, [Next]_vars PROVE TxIndexIsExact'
  <2>1. SUFFICES ASSUME TxsOnceOnBranch, Describes(txIndex, blockchain)
                 PROVE  Describes(txIndex', blockchain')
    BY <1>1, <1>2, <1>4
  <2>2. CASE TakeTip
    <3> DEFINE b == Head(toProcess)
    <3>1. b \in Block /\ TakeNew(b) /\ ReorgToTip(b, height') /\ index' = index \cup {b}
      <4>1. b \in Block /\ TakeNew(b) /\ ReorgToTip(b, height')
        BY <2>2, <1>4, HeadTailProperties DEF TakeTip, IInv, TypeOK
      <4>2. QED BY <4>1 DEF TakeNew
    <3>2. IInv'
      BY <2>2, <1>4, TakeTipKeeps
    <3>3. bestTip \in Block /\ bestTip \in index /\ MainChainIsLineage
      BY <1>4 DEF IInv, TypeOK
    <3>4. \A x \in Ancestry(bestTip) \cup Ancestry(b) : height'[x] = HeightOf(x)
      BY <3>1, <3>2, <3>3 DEF IInv, DagIsConsistent, HeightOf, Ancestry
    <3> HIDE DEF b
    <3>5. QED BY <2>1, <3>1, <3>3, <3>4, ReorgReindexes
  <2>3. CASE TakeOrphan \/ TakeDuplicate \/ TakeSide \/ AcceptReturn \/ DrainRemovedMain
             \/ (\E b \in Block : AcceptBlock(b)) \/ UNCHANGED vars
    <3>1. UNCHANGED <<txIndex, blockchain>>
      BY <2>3 DEF TakeOrphan, TakeDuplicate, TakeSide, AcceptReturn, DrainRemovedMain,
                  AcceptBlock, vars, main
    <3>2. QED BY <3>1, <2>1
  <2>4. QED BY <2>2, <2>3, <1>4 DEF Next, Process
<1>5. IInv /\ TxIndexIsExact /\ [Next]_vars => TxIndexIsExact'
  BY <1>4
<1>6. QED BY <1>3, <1>5, InductiveInvariant, PTL DEF Spec


-----------------------------------------------------------------------------
(* What the inbox queues: a block and who sent it. *)
Item == [peer : Peer, block : Block \ {Genesis}]

(* The states of _validator_loop, and of _reactor_loop.                    *)
ValidatorStates ==
  {Idle, [at |-> "accepting"]} \cup [at : {"judged"}, item : Item, ok : BOOLEAN]
    \cup [at : {"publishing"}, todo : Seq(Block)]
ReactorStates == [at : {"undo", "apply"}, todo : Seq(Block)]

(* Every variable of Node that is not one of Chain holds a value of its    *)
(* kind.                                                                   *)
NodeTypeOK ==
  /\ sent \subseteq Peer \X (Block \ {Genesis}) /\ IsFiniteSet(sent)
  /\ inbox \in Seq(Item)
  /\ bad \subseteq Block
  /\ points \in [Peer -> Nat]
  /\ validator \in ValidatorStates
  /\ enteredQ \in Seq(Block)
  /\ ledger \in LedgerState
  /\ reactor \in ReactorStates

(* A judged block is one of the queue. *)
LEMMA JudgedIsItem ==
  ASSUME NodeTypeOK, validator.at = "judged"
  PROVE  /\ validator.item \in Item /\ validator.ok \in BOOLEAN
         /\ validator.item.block \in Block /\ validator.item.peer \in Peer
         /\ validator.item.block # Genesis
<1>1. validator \in [at : {"judged"}, item : Item, ok : BOOLEAN]
  BY DEF NodeTypeOK, ValidatorStates, Idle
<1>2. QED BY <1>1 DEF Item

(* Of the node's steps, only those of accept_block and the draining of     *)
(* removed_main change the chain, and they are steps of Chain.             *)
LEMMA NodeStepIsChainStep ==
  ASSUME NodeTypeOK, [NodeNext]_nodeVars PROVE [Next]_vars
<1>1. CASE UNCHANGED nodeVars
  BY <1>1 DEF nodeVars
<1>2. CASE \E p \in Peer, b \in Block : Deliver(p, b)
  BY <1>2 DEF Deliver
<1>3. CASE Judge \/ Reject \/ Publish \/ Published \/ Undo \/ DrainEntered \/ Apply
  BY <1>3 DEF Judge, Reject, Publish, Published, Undo, DrainEntered, Apply
<1>4. CASE Accept
  <2>1. validator.item.block \in Block
    BY <1>4, JudgedIsItem DEF Accept
  <2>2. QED BY <1>4, <2>1 DEF Accept, Next
<1>5. CASE AcceptStep \/ AcceptEnd
  BY <1>5 DEF AcceptStep, AcceptEnd, Next, Process
<1>6. CASE DrainRemoved
  BY <1>6 DEF DrainRemoved, Next
<1>7. QED BY <1>1, <1>2, <1>3, <1>4, <1>5, <1>6 DEF NodeNext, Validator, Reactor

(* The first block of a list is one, and so is what is left a list.        *)
LEMMA TodoType ==
  ASSUME NEW s \in Seq(Block), s # <<>>
  PROVE  Head(s) \in Block /\ Tail(s) \in Seq(Block)
  BY HeadTailProperties

(* The steps of the validator keep the types. *)
LEMMA ValidatorKeepsType ==
  ASSUME IInv, NodeTypeOK, Validator PROVE NodeTypeOK'
<1>1. CASE Judge
  <2> DEFINE it == Head(inbox)
  <2>0. PICK short \in BOOLEAN :
          validator' = [at |-> "judged", item |-> it,
                        ok |-> /\ BlockValid(it.block) /\ BlockTxsValid(ledger, it.block)
                               /\ ~short]
    BY <1>1 DEF Judge
  <2> DEFINE verdict == BlockValid(it.block) /\ BlockTxsValid(ledger, it.block) /\ ~short
  <2>1. it \in Item /\ Tail(inbox) \in Seq(Item)
    BY <1>1, HeadTailProperties DEF Judge, NodeTypeOK
  <2>2. inbox' = Tail(inbox) /\ UNCHANGED <<sent, bad, points, enteredQ, ledger, reactor>>
        /\ validator' = [at |-> "judged", item |-> it, ok |-> verdict]
    BY <1>1, <2>0 DEF Judge
  <2>3. verdict \in BOOLEAN
    OBVIOUS
  <2> HIDE DEF it, verdict
  <2>4. validator' \in ValidatorStates
    BY <2>1, <2>2, <2>3 DEF ValidatorStates
  <2>5. QED BY <2>1, <2>2, <2>4 DEF NodeTypeOK
<1>2. CASE Reject
  <2>1. /\ validator.item.block \in Block /\ validator.item.peer \in Peer
        /\ points' = [points EXCEPT ![validator.item.peer] = @ + 1]
        /\ bad' = bad \cup {validator.item.block} /\ validator' = Idle
        /\ UNCHANGED <<sent, inbox, enteredQ, ledger, reactor>>
    BY <1>2, JudgedIsItem DEF Reject
  <2>2. QED BY <2>1 DEF NodeTypeOK, ValidatorStates
<1>3. CASE Accept \/ AcceptStep \/ Published
  <2>1. UNCHANGED <<inboxVars, ledger, reactor, enteredQ>> /\ validator' \in ValidatorStates
    BY <1>3 DEF Accept, AcceptStep, Published, NodeTypeOK, ValidatorStates
  <2>2. QED BY <2>1 DEF NodeTypeOK, inboxVars
<1>4. CASE AcceptEnd
  <2>1. /\ UNCHANGED <<inboxVars, ledger, reactor, enteredQ>>
        /\ validator' = [at |-> "publishing", todo |-> entered] /\ entered \in Seq(Block)
    BY <1>4 DEF AcceptEnd, IInv, TypeOK
  <2>2. QED BY <2>1 DEF NodeTypeOK, inboxVars, ValidatorStates
<1>5. CASE Publish
  <2>1. validator \in [at : {"publishing"}, todo : Seq(Block)] /\ validator.todo # <<>>
    BY <1>5 DEF Publish, NodeTypeOK, ValidatorStates, Idle
  <2>2. Head(validator.todo) \in Block /\ Tail(validator.todo) \in Seq(Block)
    BY <2>1, TodoType
  <2>3. /\ UNCHANGED <<inboxVars, ledger, reactor>>
        /\ enteredQ' = Append(enteredQ, Head(validator.todo))
        /\ validator' = [validator EXCEPT !.todo = Tail(@)]
    BY <1>5 DEF Publish
  <2>4. enteredQ' \in Seq(Block)
    BY <2>2, <2>3, AppendProperties DEF NodeTypeOK
  <2>5. validator' \in ValidatorStates
    BY <2>1, <2>2, <2>3 DEF ValidatorStates
  <2>6. QED BY <2>3, <2>4, <2>5 DEF NodeTypeOK, inboxVars
<1>6. QED BY <1>1, <1>2, <1>3, <1>4, <1>5 DEF Validator

(* So do those of the reactor. *)
LEMMA ReactorKeepsType ==
  ASSUME IInv, NodeTypeOK, Reactor PROVE NodeTypeOK'
<1>1. reactor.at \in {"undo", "apply"} /\ reactor.todo \in Seq(Block)
      /\ (reactor.todo # <<>> => /\ Head(reactor.todo) \in Block
                                 /\ Tail(reactor.todo) \in Seq(Block))
  <2>1. reactor.at \in {"undo", "apply"} /\ reactor.todo \in Seq(Block)
    BY DEF NodeTypeOK, ReactorStates
  <2>2. QED BY <2>1, TodoType
<1>2. CASE DrainRemoved
  <2>1. removedMain \in Seq(Block)
    BY DEF IInv, TypeOK
  <2>2. QED BY <1>2, <2>1 DEF DrainRemoved, NodeTypeOK, inboxVars, ReactorStates, Undoing
<1>3. CASE DrainEntered
  BY <1>3 DEF DrainEntered, NodeTypeOK, inboxVars, ReactorStates, Applying
<1>4. CASE Undo
  <2>1. RollbackBlock(ledger, Head(reactor.todo)) \in LedgerState
    BY <1>1, <1>4, RollbackType DEF Undo, NodeTypeOK
  <2>2. QED BY <1>1, <1>4, <2>1 DEF Undo, NodeTypeOK, inboxVars, ReactorStates, Undoing
<1>5. CASE Apply
  <2>1. ApplyBlock(ledger, Head(reactor.todo)) \in LedgerState
    BY <1>1, <1>5, ApplyType DEF Apply, NodeTypeOK
  <2>2. QED BY <1>1, <1>5, <2>1 DEF Apply, NodeTypeOK, inboxVars, ReactorStates, Applying
<1>6. QED BY <1>2, <1>3, <1>4, <1>5 DEF Reactor

(* So does a delivery. *)
LEMMA DeliverKeepsType ==
  ASSUME NodeTypeOK, NEW p \in Peer, NEW b \in Block, Deliver(p, b) PROVE NodeTypeOK'
<1>1. <<p, b>> \in Peer \X (Block \ {Genesis}) /\ b # Genesis
  BY NodeAssumption DEF Deliver
<1>2. sent' = sent \cup {<<p, b>>} /\ IsFiniteSet(sent')
  <2>1. sent' = sent \cup {<<p, b>>}
    BY DEF Deliver
  <2>2. QED BY <2>1, FS_AddElement DEF NodeTypeOK
<1>3. inbox' \in Seq(Item)
  <2>1. [peer |-> p, block |-> b] \in Item
    BY <1>1 DEF Item
  <2>2. Append(inbox, [peer |-> p, block |-> b]) \in Seq(Item)
    BY <2>1, AppendProperties DEF NodeTypeOK
  <2>3. QED BY <2>2 DEF Deliver, NodeTypeOK
<1>4. QED BY <1>1, <1>2, <1>3 DEF Deliver, NodeTypeOK

(* The types of Chain and of Node together are inductive: the lists that   *)
(* pass from one thread to the other are lists of blocks.                  *)
LEMMA NodeStepHolds ==
  IInv /\ NodeTypeOK /\ [NodeNext]_nodeVars => IInv' /\ NodeTypeOK' /\ [Next]_vars
<1> SUFFICES ASSUME IInv, NodeTypeOK, [NodeNext]_nodeVars
             PROVE  IInv' /\ NodeTypeOK' /\ [Next]_vars
  OBVIOUS
<1>1. [Next]_vars
  BY NodeStepIsChainStep
<1>2. IInv'
  BY <1>1, StepHolds
<1>3. CASE UNCHANGED nodeVars
  BY <1>1, <1>2, <1>3 DEF nodeVars, inboxVars, NodeTypeOK
<1>4. CASE NodeNext
  BY <1>1, <1>2, <1>4, ValidatorKeepsType, ReactorKeepsType, DeliverKeepsType DEF NodeNext
<1>5. QED BY <1>3, <1>4

(* They hold after bootstrap_genesis. *)
LEMMA NodeInitHolds == NodeInit => IInv /\ NodeTypeOK
<1> SUFFICES ASSUME NodeInit PROVE IInv /\ NodeTypeOK
  OBVIOUS
<1>1. IInv
  BY InitHolds DEF NodeInit
<1>2. ledger \in LedgerState
  <2>1. <<Genesis>> \in Seq(Block)
    BY BlockAssumption
  <2>2. QED BY <2>1, RebuildType DEF NodeInit
<1>3. IsFiniteSet({})
  BY FS_EmptySet
<1>4. QED BY <1>1, <1>2, <1>3
          DEF NodeInit, NodeTypeOK, ValidatorStates, ReactorStates, Applying

(* The node drives the chain only through its operations, in an order that *)
(* Chain allows: all that is proved of Chain holds of the node, whatever   *)
(* the receive threads, the validator and the reactor do in between.       *)
THEOREM NodeDrivesChain == NodeSpec => Spec
<1>1. NodeInit => Init
  BY DEF NodeInit
<1>2. IInv /\ NodeTypeOK /\ [NodeNext]_nodeVars => [Next]_vars
  BY NodeStepHolds
<1>3. QED BY <1>1, <1>2, NodeInitHolds, NodeStepHolds, PTL DEF NodeSpec, Spec

(* Every variable of the node keeps to its type.                           *)
THEOREM NodeTypeCorrect == NodeSpec => []NodeTypeOK
  BY NodeInitHolds, NodeStepHolds, PTL DEF NodeSpec

(* rollback_block is the exact inverse of apply_block on every ledger the  *)
(* node goes through, whatever was applied and rolled back before, also in *)
(* the states that LedgerMatchesChain does not hold in.                    *)
THEOREM RollbackCorrect == NodeSpec => []RollbackIsInverse
<1>1. NodeTypeOK => RollbackIsInverse
  BY RollbackUndoesApply DEF NodeTypeOK, RollbackIsInverse
<1>2. QED BY <1>1, NodeTypeCorrect, PTL

-----------------------------------------------------------------------------
(* What was delivered and has not been dealt with.                         *)
InFlight ==
  Range(inbox) \cup (IF validator.at = "judged" THEN {validator.item} ELSE {})

(* A delivery is in flight once.  This is what a point for each bad block  *)
(* rests on: the sender is charged when an item leaves the validator.      *)
FlownOnce ==
  /\ IsInjective(inbox)
  /\ validator.at = "judged" => validator.item \notin Range(inbox)
  /\ \A it \in InFlight : <<it.peer, it.block>> \in sent

(* The blocks that p can have been charged for.                            *)
Charged(p) ==
  {b \in bad : <<p, b>> \in sent /\ [peer |-> p, block |-> b] \notin InFlight}
ChargedOnce == \A p \in Peer : points[p] <= Cardinality(Charged(p))

(* A list without repetitions, with one more at its end or one less at its *)
(* head.                                                                   *)
LEMMA InjectiveList ==
  ASSUME NEW S, NEW s \in Seq(S), IsInjective(s)
  PROVE  /\ \A x \in S \ Range(s) : IsInjective(Append(s, x))
         /\ s # <<>> => IsInjective(Tail(s)) /\ Head(s) \notin Range(Tail(s))
<1>1. /\ Len(s) \in Nat /\ DOMAIN s = 1..Len(s) /\ Range(s) = {s[i] : i \in 1..Len(s)}
      /\ \A i \in 1..Len(s), j \in 1..Len(s) : s[i] = s[j] => i = j
  BY LenProperties, RangeEquality DEF IsInjective
<1>2. ASSUME NEW x \in S \ Range(s) PROVE IsInjective(Append(s, x))
  <2> DEFINE a == Append(s, x)
  <2>1. /\ a \in Seq(S) /\ Len(a) = Len(s) + 1 /\ a[Len(s) + 1] = x
        /\ \A i \in 1..Len(s) : a[i] = s[i]
    BY AppendProperties
  <2>2. DOMAIN a = 1..Len(s) + 1
    BY <2>1, LenProperties
  <2> HIDE DEF a
  <2>3. ASSUME NEW i \in 1..Len(s) + 1, NEW j \in 1..Len(s) + 1, a[i] = a[j] PROVE i = j
    <3>1. (i \in 1..Len(s) \/ i = Len(s) + 1) /\ (j \in 1..Len(s) \/ j = Len(s) + 1)
      BY <1>1
    <3>2. \A k \in 1..Len(s) : a[k] # x
      BY <1>1, <2>1
    <3>3. QED BY <1>1, <2>1, <2>3, <3>1, <3>2
  <2>4. IsInjective(a)
    BY <2>2, <2>3 DEF IsInjective
  <2>5. QED BY <2>4 DEF a
<1>3. ASSUME s # <<>> PROVE IsInjective(Tail(s)) /\ Head(s) \notin Range(Tail(s))
  <2> DEFINE r == Tail(s)
  <2>1. /\ r \in Seq(S) /\ Len(r) = Len(s) - 1 /\ \A i \in 1..Len(r) : r[i] = s[i + 1]
        /\ Len(s) # 0 /\ Head(s) = s[1]
    BY <1>3, HeadTailProperties, EmptySeq
  <2>2. DOMAIN r = 1..Len(r) /\ Range(r) = {r[i] : i \in 1..Len(r)}
    BY <2>1, LenProperties, RangeEquality
  <2> HIDE DEF r
  <2>3. \A i \in 1..Len(r) : i + 1 \in 1..Len(s) /\ i + 1 # 1 /\ 1 \in 1..Len(s)
    BY <1>1, <2>1
  <2>4. \A i \in 1..Len(r), j \in 1..Len(r) : r[i] = r[j] => i = j
    <3>1. TAKE i \in 1..Len(r), j \in 1..Len(r)
    <3>2. HAVE r[i] = r[j]
    <3>3. i + 1 = j + 1
      BY <3>2, <1>1, <2>1, <2>3
    <3>4. QED BY <3>3
  <2>5. IsInjective(r)
    BY <2>2, <2>4 DEF IsInjective
  <2>6. \A i \in 1..Len(r) : r[i] # Head(s)
    BY <1>1, <2>1, <2>3
  <2>7. QED BY <2>2, <2>5, <2>6 DEF r
<1>4. QED BY <1>2, <1>3

(* Charging grows with what it is measured by. *)
LEMMA ChargedGrows ==
  ASSUME NEW S, NEW T, IsFiniteSet(T), S \subseteq T
  PROVE  Cardinality(S) <= Cardinality(T) /\ IsFiniteSet(S)
  BY FS_Subset

(* Of finitely many pairs, finitely many begin with p. *)
LEMMA PairsFinite ==
  ASSUME NEW S, IsFiniteSet(S), NEW p
  PROVE  IsFiniteSet({b \in Block : <<p, b>> \in S})
<1> DEFINE f == [s \in S |-> s[2]]
           T == {f[s] : s \in S}
<1>1. f \in Surjection(S, T)
  <2>1. DOMAIN f = S /\ f = [s \in S |-> f[s]]
    OBVIOUS
  <2> HIDE DEF f
  <2>2. QED BY <2>1 DEF Surjection
<1>2. ASSUME NEW b \in Block, <<p, b>> \in S PROVE b \in T
  <2>1. f[<<p, b>>] = b
    BY <1>2
  <2>2. QED BY <1>2, <2>1
<1>3. {b \in Block : <<p, b>> \in S} \subseteq T
  BY <1>2
<1> HIDE DEF f, T
<1>4. IsFiniteSet(T)
  BY <1>1, FS_Surjection
<1>5. QED BY <1>3, <1>4, FS_Subset

(* Only finitely many blocks were sent by one peer. *)
LEMMA ChargedFinite ==
  ASSUME NodeTypeOK, NEW p
  PROVE  IsFiniteSet({b \in Block : <<p, b>> \in sent})
  BY PairsFinite DEF NodeTypeOK


(* Between two states of the node, more was sent or dealt with: a peer can *)
(* have been charged for no fewer blocks.                                  *)
LEMMA ChargedOnceStays ==
  ASSUME NodeTypeOK', ChargedOnce, points' = points, sent \subseteq sent', bad' = bad,
         \A it \in Item : it \in InFlight' /\ <<it.peer, it.block>> \in sent => it \in InFlight,
         NodeTypeOK
  PROVE  ChargedOnce'
<1>1. ASSUME NEW p \in Peer PROVE points'[p] <= Cardinality(Charged(p)')
  <2> DEFINE old == Charged(p)
             new == Charged(p)'
             all == {b \in Block : <<p, b>> \in sent'}
  <2>1. IsFiniteSet(all)
    <3>1. IsFiniteSet(sent')
      BY DEF NodeTypeOK
    <3>2. QED BY <3>1, PairsFinite
  <2>2. new \subseteq all
    BY DEF Charged, NodeTypeOK
  <2>3. ASSUME NEW b \in old PROVE b \in new
    <3>1. /\ b \in Block /\ <<p, b>> \in sent /\ b \in bad'
          /\ [peer |-> p, block |-> b] \notin InFlight
      BY DEF Charged, NodeTypeOK
    <3>2. [peer |-> p, block |-> b] \in Item
      <4>1. b # Genesis
        BY <3>1 DEF NodeTypeOK
      <4>2. QED BY <3>1, <4>1 DEF Item
    <3>3. [peer |-> p, block |-> b] \notin InFlight'
      BY <3>1, <3>2
    <3>4. QED BY <3>1, <3>3 DEF Charged
  <2>4. points[p] <= Cardinality(old)
    BY DEF ChargedOnce
  <2>5. IsFiniteSet(new) /\ Cardinality(old) <= Cardinality(new) /\ IsFiniteSet(old)
    <3> HIDE DEF all, new, old
    <3>1. IsFiniteSet(new)
      BY <2>1, <2>2, ChargedGrows
    <3>2. old \subseteq new
      BY <2>3
    <3>3. QED BY <3>1, <3>2, ChargedGrows
  <2>6. Cardinality(old) \in Nat /\ Cardinality(new) \in Nat /\ points[p] \in Nat
    <3> HIDE DEF all, new, old
    <3>1. QED BY <2>5, FS_CardinalityType DEF NodeTypeOK
  <2>7. points'[p] = points[p]
    OBVIOUS
  <2> HIDE DEF old, new
  <2>8. points[p] <= Cardinality(new)
    BY <2>4, <2>5, <2>6
  <2>9. QED BY <2>7, <2>8 DEF new
<1>2. QED BY <1>1 DEF ChargedOnce

(* The validator takes an item from the queue: it stays in flight.         *)
LEMMA JudgeKeepsFlown ==
  ASSUME NodeTypeOK, NodeTypeOK', FlownOnce, ChargedOnce, Judge
  PROVE  FlownOnce' /\ ChargedOnce'
<1> DEFINE it == Head(inbox)
<1>1. /\ inbox \in Seq(Item) /\ inbox # <<>> /\ inbox' = Tail(inbox)
      /\ validator.at # "judged" /\ validator'.at = "judged" /\ validator'.item = it
      /\ sent' = sent /\ points' = points /\ bad' = bad
  BY DEF Judge, NodeTypeOK, Idle
<1>2. Range(inbox) = {it} \cup Range(Tail(inbox))
  BY <1>1, RangeHeadTail
<1>3. InFlight = Range(inbox) /\ InFlight' = Range(Tail(inbox)) \cup {it}
  BY <1>1 DEF InFlight
<1>4. IsInjective(Tail(inbox)) /\ it \notin Range(Tail(inbox))
  <2>1. IsInjective(inbox)
    BY DEF FlownOnce
  <2>2. QED BY <1>1, <2>1, InjectiveList
<1> HIDE DEF it
<1>5. FlownOnce'
  BY <1>1, <1>2, <1>3, <1>4 DEF FlownOnce
<1>6. QED BY <1>1, <1>2, <1>3, <1>5, ChargedOnceStays

(* A delivery is in flight, unless the block is known to be bad.           *)
LEMMA DeliverKeepsFlown ==
  ASSUME NodeTypeOK, NodeTypeOK', FlownOnce, ChargedOnce,
         NEW p \in Peer, NEW b \in Block, Deliver(p, b)
  PROVE  FlownOnce' /\ ChargedOnce'
<1> DEFINE it == [peer |-> p, block |-> b]
<1>1. /\ <<p, b>> \notin sent /\ sent' = sent \cup {<<p, b>>} /\ points' = points
      /\ validator' = validator /\ bad' = bad
      /\ inbox' = inbox \/ inbox' = Append(inbox, it)
      /\ inbox \in Seq(Item)
  BY DEF Deliver, NodeTypeOK
<1>2. it \in Item /\ it.peer = p /\ it.block = b
  BY NodeAssumption DEF Deliver, Item
<1>3. it \notin InFlight
  BY <1>1, <1>2 DEF FlownOnce
<1>4. Range(Append(inbox, it)) = Range(inbox) \cup {it} /\ IsInjective(Append(inbox, it))
  <2> HIDE DEF it
  <2>1. it \notin Range(inbox) /\ IsInjective(inbox)
    BY <1>3 DEF InFlight, FlownOnce
  <2>2. QED BY <1>1, <1>2, <2>1, RangeAppend, InjectiveList
<1> HIDE DEF it
<1>5. InFlight' \subseteq InFlight \cup {it}
  BY <1>1, <1>4 DEF InFlight
<1>6. FlownOnce'
  <2>1. IsInjective(inbox')
    BY <1>1, <1>4 DEF FlownOnce
  <2>2. validator'.at = "judged" => validator'.item \notin Range(inbox')
    BY <1>1, <1>3, <1>4 DEF FlownOnce, InFlight
  <2>3. \A x \in InFlight' : <<x.peer, x.block>> \in sent'
    BY <1>1, <1>2, <1>5 DEF FlownOnce
  <2>4. QED BY <2>1, <2>2, <2>3 DEF FlownOnce
<1>7. \A x \in Item : x \in InFlight' /\ <<x.peer, x.block>> \in sent => x \in InFlight
  BY <1>1, <1>2, <1>5
<1>8. QED BY <1>1, <1>6, <1>7, ChargedOnceStays

(* The sender of a refused block is charged for a block that was in flight *)
(* until now.                                                              *)
LEMMA RejectKeepsFlown ==
  ASSUME NodeTypeOK, NodeTypeOK', FlownOnce, ChargedOnce, Reject
  PROVE  FlownOnce' /\ ChargedOnce'
<1> DEFINE it == validator.item
           q == it.peer
           b == it.block
<1>1. /\ validator.at = "judged" /\ ~validator.ok /\ validator' = Idle
      /\ inbox' = inbox /\ sent' = sent
      /\ points' = [points EXCEPT ![q] = @ + 1] /\ bad' = bad \cup {b}
      /\ points \in [Peer -> Nat]
  BY DEF Reject, NodeTypeOK
<1>2. it \in Item /\ q \in Peer /\ b \in Block /\ it = [peer |-> q, block |-> b]
  <2>1. it \in Item /\ q \in Peer /\ b \in Block
    BY <1>1, JudgedIsItem
  <2>2. QED BY <2>1 DEF Item
<1>3. bad \subseteq Block /\ b \in bad' /\ bad' \subseteq Block
  BY <1>1, <1>2 DEF NodeTypeOK
<1>4. InFlight' = Range(inbox) /\ InFlight = Range(inbox) \cup {it} /\ it \notin Range(inbox)
  BY <1>1 DEF InFlight, FlownOnce, Idle
<1> HIDE DEF it, q, b
<1>5. FlownOnce'
  BY <1>1, <1>4 DEF FlownOnce, Idle
<1>6. <<q, b>> \in sent
  BY <1>4 DEF FlownOnce, q, b
<1>7. ASSUME NEW p \in Peer PROVE points'[p] <= Cardinality(Charged(p)')
  <2> DEFINE old == Charged(p)
             new == Charged(p)'
             all == {c \in Block : <<p, c>> \in sent}
  <2>1. IsFiniteSet(all) /\ old \subseteq all /\ new \subseteq all /\ old \subseteq new
    <3>1. IsFiniteSet(all)
      BY ChargedFinite
    <3>2. QED BY <3>1, <1>1, <1>3, <1>4 DEF Charged
  <2>2. p = q => b \in new /\ b \notin old
    BY <1>1, <1>2, <1>3, <1>4, <1>6 DEF Charged
  <2>3. points[p] <= Cardinality(old) /\ points[p] \in Nat
    BY <1>1 DEF ChargedOnce
  <2> HIDE DEF old, new, all
  <2>4. IsFiniteSet(old) /\ IsFiniteSet(new)
    BY <2>1, ChargedGrows
  <2>5. Cardinality(old) \in Nat /\ Cardinality(new) \in Nat
        /\ Cardinality(old) <= Cardinality(new)
    BY <2>1, <2>4, ChargedGrows, FS_CardinalityType
  <2>6. CASE p = q
    <3>1. old \cup {b} \subseteq new /\ b \notin old
      BY <2>1, <2>2, <2>6
    <3>2. Cardinality(old \cup {b}) = Cardinality(old) + 1
      BY <2>4, <3>1, FS_AddElement
    <3>3. Cardinality(old \cup {b}) <= Cardinality(new)
      BY <2>4, <3>1, ChargedGrows
    <3>4. points'[p] = points[p] + 1
      BY <1>1, <2>6
    <3>5. points'[p] <= Cardinality(new)
      BY <2>3, <2>5, <3>2, <3>3, <3>4
    <3>6. QED BY <3>5 DEF new
  <2>7. CASE p # q
    <3>1. points'[p] = points[p]
      BY <1>1, <2>7
    <3>2. points'[p] <= Cardinality(new)
      BY <2>3, <2>5, <3>1
    <3>3. QED BY <3>2 DEF new
  <2>8. QED BY <2>6, <2>7
<1>8. ChargedOnce'
  BY <1>7 DEF ChargedOnce
<1>9. QED BY <1>5, <1>8

(* No other step adds to what is in flight. *)
LEMMA FlownStep ==
  ASSUME IInv, NodeTypeOK, FlownOnce, ChargedOnce, [NodeNext]_nodeVars
  PROVE  FlownOnce' /\ ChargedOnce'
<1>1. NodeTypeOK'
  BY NodeStepHolds
<1>2. CASE Judge
  BY <1>1, <1>2, JudgeKeepsFlown
<1>3. CASE Reject
  BY <1>1, <1>3, RejectKeepsFlown
<1>4. CASE \E p \in Peer, b \in Block : Deliver(p, b)
  BY <1>1, <1>4, DeliverKeepsFlown
<1>5. CASE Accept \/ AcceptStep \/ AcceptEnd \/ Publish \/ Published \/ Reactor
           \/ UNCHANGED nodeVars
  <2>1. /\ inbox' = inbox /\ sent' = sent /\ points' = points /\ bad' = bad
        /\ validator'.at = "judged" => validator' = validator
    BY <1>5 DEF Accept, AcceptStep, AcceptEnd, Publish, Published, Reactor, DrainRemoved,
                Undo, DrainEntered, Apply, nodeVars, inboxVars, Idle, NodeTypeOK, ValidatorStates
  <2>2. InFlight' \subseteq InFlight
    BY <2>1 DEF InFlight
  <2>3. FlownOnce'
    BY <2>1, <2>2 DEF FlownOnce
  <2>4. QED BY <1>1, <2>1, <2>2, <2>3, ChargedOnceStays
<1>6. QED BY <1>2, <1>3, <1>4, <1>5 DEF NodeNext, Validator

(* A peer is charged at most one point for each remembered bad block that  *)
(* it sent: the node charges nobody twice for a block, or for what another *)
(* sent, whatever is delivered how often by whom, and whatever the ledger  *)
(* was when verdicts were reached.                                         *)
THEOREM PointsCounted == NodeSpec => []OncePerBadBlock
<1>1. NodeInit => FlownOnce /\ ChargedOnce
  <2> SUFFICES ASSUME NodeInit PROVE FlownOnce /\ ChargedOnce
    OBVIOUS
  <2>1. NodeTypeOK
    BY NodeInitHolds
  <2>2. inbox = <<>> /\ validator.at # "judged" /\ points = [p \in Peer |-> 0]
    BY DEF NodeInit, Idle
  <2>3. InFlight = {}
    BY <2>2 DEF InFlight, Range
  <2>4. \A p \in Peer : IsFiniteSet(Charged(p))
    <3>1. TAKE p \in Peer
    <3>2. IsFiniteSet({b \in Block : <<p, b>> \in sent})
      BY <2>1, ChargedFinite
    <3>3. Charged(p) \subseteq {b \in Block : <<p, b>> \in sent}
      BY <2>1 DEF Charged, NodeTypeOK
    <3>4. QED BY <3>2, <3>3, ChargedGrows
  <2>5. \A p \in Peer : Cardinality(Charged(p)) \in Nat
    BY <2>4, FS_CardinalityType
  <2>6. ChargedOnce
    BY <2>2, <2>5 DEF ChargedOnce
  <2>7. FlownOnce
    BY <2>2, <2>3 DEF FlownOnce, IsInjective
  <2>8. QED BY <2>6, <2>7
<1>2. IInv /\ NodeTypeOK /\ FlownOnce /\ ChargedOnce /\ [NodeNext]_nodeVars
        => FlownOnce' /\ ChargedOnce'
  BY FlownStep
<1>3. NodeTypeOK /\ ChargedOnce => OncePerBadBlock
  <2> SUFFICES ASSUME NodeTypeOK, ChargedOnce, NEW p \in Peer
               PROVE points[p] <= Cardinality({b \in bad : <<p, b>> \in sent})
    BY DEF OncePerBadBlock
  <2> DEFINE bads == {b \in bad : <<p, b>> \in sent}
  <2>1. IsFiniteSet(bads)
    <3>1. bads \subseteq {b \in Block : <<p, b>> \in sent}
      BY DEF NodeTypeOK
    <3> HIDE DEF bads
    <3>2. QED BY <3>1, ChargedFinite, ChargedGrows
  <2>2. Charged(p) \subseteq bads
    BY DEF Charged
  <2> HIDE DEF bads
  <2>3. Cardinality(Charged(p)) <= Cardinality(bads) /\ IsFiniteSet(Charged(p))
    BY <2>1, <2>2, ChargedGrows
  <2>4. Cardinality(Charged(p)) \in Nat /\ Cardinality(bads) \in Nat
    BY <2>1, <2>3, FS_CardinalityType
  <2>5. points[p] \in Nat /\ points[p] <= Cardinality(Charged(p))
    BY DEF ChargedOnce, NodeTypeOK
  <2>6. points[p] <= Cardinality(bads)
    BY <2>3, <2>4, <2>5
  <2>7. QED BY <2>6 DEF bads
<1>4. NodeSpec => [](IInv /\ NodeTypeOK)
  BY NodeInitHolds, NodeStepHolds, PTL DEF NodeSpec
<1>5. QED BY <1>1, <1>2, <1>3, <1>4, PTL DEF NodeSpec

-----------------------------------------------------------------------------
(* An orphan is kept under its parent, and a root is never one.            *)
OrphansFiled ==
  \A p \in Block : \A x \in Range(orphans[p]) : x \notin Root /\ Parent[x] = p

(* accept_block runs exactly while the validator is in it. *)
OneAccept == accepting <=> validator.at = "accepting"

(* A delivery that left the validator was accepted, or refused for good:   *)
(* the validator drops nothing on the way.                                 *)
DealtWith ==
  \A p \in Peer, b \in Block :
     <<p, b>> \in sent => \/ [peer |-> p, block |-> b] \in InFlight
                          \/ b \in bad \/ b \in index \cup Pending

(* The pool of orphans stays in order. *)
LEMMA OrphansFiledStep ==
  ASSUME IInv, OrphansFiled, [Next]_vars PROVE OrphansFiled'
<1>1. CASE TakeOrphan
  <2> DEFINE b == Head(toProcess)
  <2>1. b \in Block /\ orphans \in [Block -> Seq(Block)]
    BY <1>1, HeadTailProperties DEF TakeOrphan, IInv, TypeOK
  <2>2. b \notin Root /\ Parent[b] \in Block
        /\ orphans' = [orphans EXCEPT ![Parent[b]] = Append(@, b)]
    BY <1>1, <2>1, BlockAssumption DEF TakeOrphan, Known
  <2> HIDE DEF b
  <2>3. orphans'[Parent[b]] = Append(orphans[Parent[b]], b)
        /\ \A p \in Block : p # Parent[b] => orphans'[p] = orphans[p]
    BY <2>1, <2>2
  <2>4. Range(orphans'[Parent[b]]) = Range(orphans[Parent[b]]) \cup {b}
    BY <2>1, <2>2, <2>3, RangeAppend
  <2>5. QED BY <2>2, <2>3, <2>4 DEF OrphansFiled
<1>2. CASE TakeSide \/ TakeTip
  <2>1. orphans' = [orphans EXCEPT ![Head(toProcess)] = <<>>]
    BY <1>2 DEF TakeSide, TakeTip, TakeNew
  <2>2. \A p \in Block : orphans'[p] = orphans[p] \/ orphans'[p] = <<>>
    BY <2>1 DEF IInv, TypeOK
  <2>3. Range(<<>>) = {}
    BY DEF Range
  <2>4. QED BY <2>2, <2>3 DEF OrphansFiled
<1>3. CASE TakeDuplicate \/ AcceptReturn \/ DrainRemovedMain
           \/ (\E b \in Block : AcceptBlock(b)) \/ UNCHANGED vars
  BY <1>3 DEF TakeDuplicate, AcceptReturn, DrainRemovedMain, AcceptBlock, vars, OrphansFiled
<1>4. QED BY <1>1, <1>2, <1>3 DEF Next, Process

(* accept_block begins and ends with the validator's step. *)
LEMMA OneAcceptStep ==
  ASSUME NodeTypeOK, OneAccept, [NodeNext]_nodeVars PROVE OneAccept'
<1>1. CASE Accept \/ AcceptEnd
  BY <1>1 DEF Accept, AcceptBlock, AcceptEnd, AcceptReturn, OneAccept
<1>2. CASE AcceptStep
  BY <1>2 DEF AcceptStep, TakeOrphan, TakeDuplicate, TakeSide, TakeTip, TakeNew, OneAccept
<1>3. CASE Judge \/ Reject \/ Publish \/ Published
  <2>1. accepting' = accepting /\ validator.at # "accepting"
    BY <1>3 DEF Judge, Reject, Publish, Published, vars, call, Idle
  <2>2. validator'.at # "accepting"
    BY <1>3 DEF Judge, Reject, Publish, Published, Idle, NodeTypeOK, ValidatorStates
  <2>3. QED BY <2>1, <2>2 DEF OneAccept
<1>4. CASE Reactor \/ (\E p \in Peer, b \in Block : Deliver(p, b)) \/ UNCHANGED nodeVars
  <2>1. accepting' = accepting /\ validator' = validator
    BY <1>4 DEF Reactor, DrainRemoved, DrainRemovedMain, Undo, DrainEntered, Apply, Deliver,
                nodeVars, vars, call
  <2>2. QED BY <2>1 DEF OneAccept
<1>5. QED BY <1>1, <1>2, <1>3, <1>4 DEF NodeNext, Validator

(* A delivery moves from the queue to the validator, and from there to the *)
(* chain or to the hashes that are bad.                                    *)
LEMMA DealtWithStep ==
  ASSUME IInv, NodeTypeOK, IdleIsEmpty, DealtWith, [NodeNext]_nodeVars
  PROVE  DealtWith'
<1>1. index \cup Pending \subseteq index' \cup Pending'
  BY NodeStepHolds, NothingForgottenStep
<1>2. SUFFICES ASSUME NEW p \in Peer, NEW b \in Block, <<p, b>> \in sent'
               PROVE  \/ [peer |-> p, block |-> b] \in InFlight'
                      \/ b \in bad' \/ b \in index' \cup Pending'
  BY DEF DealtWith
<1> DEFINE it == [peer |-> p, block |-> b]
<1>3. it.peer = p /\ it.block = b
  OBVIOUS
<1> HIDE DEF it
<1>4. <<p, b>> \in sent => it \in InFlight \/ b \in bad \/ b \in index' \cup Pending'
  BY <1>1 DEF DealtWith, it
<1>5. CASE Judge
  <2>1. /\ inbox \in Seq(Item) /\ inbox # <<>> /\ inbox' = Tail(inbox) /\ validator.at # "judged"
        /\ validator'.at = "judged" /\ validator'.item = Head(inbox)
        /\ sent' = sent /\ bad' = bad
    BY <1>5 DEF Judge, NodeTypeOK, Idle
  <2>2. InFlight = {Head(inbox)} \cup Range(Tail(inbox))
    BY <2>1, RangeHeadTail DEF InFlight
  <2>3. InFlight' = InFlight
    BY <2>1, <2>2 DEF InFlight
  <2>4. QED BY <1>2, <1>4, <2>1, <2>3 DEF it
<1>6. CASE Reject
  <2>1. /\ validator.at = "judged" /\ validator' = Idle /\ inbox' = inbox /\ sent' = sent
        /\ bad' = bad \cup {validator.item.block}
    BY <1>6 DEF Reject
  <2>2. InFlight = InFlight' \cup {validator.item}
    BY <2>1 DEF InFlight, Idle
  <2>3. QED BY <1>2, <1>3, <1>4, <2>1, <2>2 DEF it
<1>7. CASE Accept
  <2>1. /\ validator.at = "judged" /\ validator'.at = "accepting" /\ inbox' = inbox
        /\ sent' = sent /\ bad' = bad /\ toProcess' = <<validator.item.block>>
        /\ validator.item.block \in Block
    BY <1>7, JudgedIsItem DEF Accept, AcceptBlock, inboxVars
  <2>2. InFlight = InFlight' \cup {validator.item}
    BY <2>1 DEF InFlight
  <2>3. validator.item.block \in Pending'
    <3>1. Range(<<validator.item.block>>) = {<<validator.item.block>>[i] : i \in 1..Len(<<validator.item.block>>)}
      <4>1. <<validator.item.block>> \in Seq(Block)
        BY <2>1
      <4>2. QED BY <4>1, RangeEquality
    <3>2. validator.item.block \in Range(<<validator.item.block>>)
      BY <3>1
    <3>3. QED BY <2>1, <3>2 DEF Pending
  <2>4. QED BY <1>2, <1>3, <1>4, <2>1, <2>2, <2>3 DEF it
<1>8. CASE \E q \in Peer, c \in Block : Deliver(q, c)
  <2>1. PICK q \in Peer, c \in Block : Deliver(q, c)
    BY <1>8
  <2>2. /\ sent' = sent \cup {<<q, c>>} /\ bad' = bad /\ validator' = validator
        /\ inbox' = IF c \in bad THEN inbox ELSE Append(inbox, [peer |-> q, block |-> c])
        /\ inbox \in Seq(Item)
    BY <2>1 DEF Deliver, NodeTypeOK
  <2>3. [peer |-> q, block |-> c] \in Item
    BY <2>1, NodeAssumption DEF Deliver, Item
  <2>4. Range(Append(inbox, [peer |-> q, block |-> c])) = Range(inbox) \cup {[peer |-> q, block |-> c]}
    BY <2>2, <2>3, RangeAppend
  <2>5. c \in bad \/ InFlight' = InFlight \cup {[peer |-> q, block |-> c]}
    BY <2>2, <2>4 DEF InFlight
  <2>6. c \in bad => InFlight' = InFlight
    BY <2>2 DEF InFlight
  <2>7. CASE <<p, b>> \in sent
    BY <1>4, <2>2, <2>5, <2>6, <2>7 DEF it
  <2>8. CASE <<p, b>> \notin sent
    <3>1. p = q /\ b = c
      BY <1>2, <2>2, <2>8
    <3>2. QED BY <3>1, <2>2, <2>5
  <2>9. QED BY <2>7, <2>8
<1>9. CASE AcceptStep \/ AcceptEnd \/ Publish \/ Published \/ Reactor \/ UNCHANGED nodeVars
  <2>1. /\ inbox' = inbox /\ sent' = sent /\ bad' = bad
        /\ validator.at = "judged" => validator' = validator
    BY <1>9 DEF AcceptStep, AcceptEnd, Publish, Published, Reactor, DrainRemoved,
                Undo, DrainEntered, Apply, nodeVars, inboxVars
  <2>2. InFlight \subseteq InFlight'
    BY <2>1 DEF InFlight
  <2>3. QED BY <1>2, <1>4, <2>1, <2>2 DEF it
<1>10. QED BY <1>5, <1>6, <1>7, <1>8, <1>9 DEF NodeNext, Validator

(* At rest a branch that was delivered whole, and on which no block was    *)
(* refused every time, is indexed whole: from its root up, each block was  *)
(* accepted, is no orphan as its parent is indexed, and so is indexed.     *)
LEMMA UnrefusedIsIndexed ==
  ASSUME IInv, NodeTypeOK, IdleIsEmpty, OrphansFiled, OneAccept, DealtWith, Quiet,
         NEW b \in Block, Given(b), Ancestry(b) \cap bad \subseteq index
  PROVE  b \in index
<1> DEFINE n == Len(Lineage[b])
           Done(k) == \A c \in Ancestry(b) : Len(Lineage[c]) <= k => c \in index
           S == {k \in 0..n : Done(k)}
<1>1. n \in Nat /\ \A c \in Ancestry(b) : Len(Lineage[c]) \in 1..n /\ c \in Block
  BY LineageEnds, AncestorPosition
<1>2. InFlight = {} /\ toProcess = <<>>
  <2>1. inbox = <<>> /\ validator = Idle /\ validator.at # "judged" /\ ~accepting
    BY DEF Quiet, Idle, OneAccept
  <2>2. QED BY <2>1 DEF InFlight, Range, IdleIsEmpty
<1>3. ASSUME NEW c \in Ancestry(b), \A a \in Ancestry(b) : Len(Lineage[a]) < Len(Lineage[c]) => a \in index
      PROVE  c \in index
  <2>1. CASE c = Genesis
    BY <2>1 DEF IInv, DagIsConsistent
  <2>2. CASE c # Genesis
    <3>1. c \in Block /\ (c \in bad => c \in index)
      BY <1>1
    <3>2. PICK p \in Peer : <<p, c>> \in sent
      BY <2>2 DEF Given
    <3>3. c \in index \cup Pending
      BY <1>2, <3>1, <3>2 DEF DealtWith
    <3>4. Range(<<>>) = {}
      BY DEF Range
    <3>5. SUFFICES ASSUME c \in OrphanBlocks PROVE FALSE
      BY <1>2, <3>3, <3>4 DEF Pending
    <3>6. PICK q \in Block : c \in Range(orphans[q])
      BY <3>5 DEF OrphanBlocks
    <3>7. c \notin Root /\ Parent[c] = q
      BY <3>6 DEF OrphansFiled
    <3>8. q \in Ancestry(c) /\ q \in Ancestry(b)
      BY <3>1, <3>7, AncestryStep, AncestryTransitive
    <3>9. Len(Lineage[q]) < Len(Lineage[c])
      <4>1. Lineage[c] = Append(Lineage[q], c) /\ Lineage[q] \in Seq(Block)
        BY <3>1, <3>7, LineageAssumption
      <4>2. Len(Lineage[c]) = Len(Lineage[q]) + 1 /\ Len(Lineage[q]) \in Nat
        BY <3>1, <4>1, AppendProperties, LenProperties
      <4>3. QED BY <4>2
    <3>10. q \in index
      BY <3>8, <3>9, <1>3
    <3>11. orphans[q] # <<>>
      BY <3>6, <3>4
    <3>12. QED BY <3>10, <3>11 DEF IInv, NoStrandedOrphan
  <2>3. QED BY <2>1, <2>2
<1>4. 0 \in S
  BY <1>1
<1>5. \A k \in 0..n : k \in S /\ k < n => k + 1 \in S
  <2>1. SUFFICES ASSUME NEW k \in 0..n, Done(k), k < n PROVE k + 1 \in 0..n /\ Done(k + 1)
    OBVIOUS
  <2>2. k + 1 \in 0..n /\ k \in Nat
    BY <1>1, <2>1
  <2>3. ASSUME NEW c \in Ancestry(b), Len(Lineage[c]) <= k + 1 PROVE c \in index
    <3>1. \A a \in Ancestry(b) : Len(Lineage[a]) < Len(Lineage[c]) => Len(Lineage[a]) <= k
      BY <1>1, <2>2, <2>3
    <3>2. QED BY <3>1, <2>1, <1>3
  <2>4. QED BY <2>2, <2>3
<1> HIDE DEF S
<1>6. 0..n \subseteq S
  <2> HIDE DEF n
  <2>1. QED BY <1>1, <1>4, <1>5, SetInduction
<1>7. Done(n)
  BY <1>1, <1>6 DEF S
<1>8. b \in Ancestry(b)
  BY AncestryStep
<1>9. QED BY <1>1, <1>7, <1>8

(* README "Best chain selection based on total work": at rest the main     *)
(* chain is as heavy as every branch that the node was given whole and did *)
(* not refuse, in whatever order its blocks came, from whom and how often. *)
(* So only a verdict can keep a node from the heaviest chain, as the run   *)
(* node_heaviest shows it does.                                            *)
THEOREM UnrefusedAdopted == NodeSpec => []HeaviestUnrefusedAdopted
<1> DEFINE DInv == IInv /\ NodeTypeOK /\ IdleIsEmpty /\ OrphansFiled /\ OneAccept /\ DealtWith
<1>1. NodeInit => DInv
  <2> SUFFICES ASSUME NodeInit PROVE DInv
    OBVIOUS
  <2>1. IInv /\ NodeTypeOK
    BY NodeInitHolds
  <2>2. Range(<<>>) = {}
    BY DEF Range
  <2>3. IdleIsEmpty /\ OrphansFiled /\ OneAccept /\ DealtWith
    BY <2>2 DEF NodeInit, Init, IdleIsEmpty, OrphansFiled, OneAccept, DealtWith, Idle
  <2>4. QED BY <2>1, <2>3
<1>2. DInv /\ [NodeNext]_nodeVars => DInv'
  <2> SUFFICES ASSUME DInv, [NodeNext]_nodeVars PROVE DInv'
    OBVIOUS
  <2>1. IInv' /\ NodeTypeOK' /\ [Next]_vars
    BY NodeStepHolds
  <2>2. QED BY <2>1, IdleStep, OrphansFiledStep, OneAcceptStep, DealtWithStep
<1>3. DInv => HeaviestUnrefusedAdopted
  <2> SUFFICES ASSUME DInv, Quiet, NEW b \in Block, Given(b), Ancestry(b) \cap bad \subseteq index
               PROVE  ChainWork[b] <= ChainWork[bestTip]
    BY DEF HeaviestUnrefusedAdopted
  <2>1. b \in index
    BY UnrefusedIsIndexed
  <2>2. QED BY <2>1 DEF IInv, BestTipIsHeaviest
<1> HIDE DEF DInv
<1>4. QED BY <1>1, <1>2, <1>3, PTL DEF NodeSpec

-----------------------------------------------------------------------------
(* Between two calls of accept_block nothing is listed as entered.         *)
IdleEntersNothing == ~accepting => entered = <<>>

(* So the list that accept_block starts from is empty. *)
LEMMA IdleEntersStep ==
  ASSUME IdleIsEmpty, IdleEntersNothing, [Next]_vars PROVE IdleEntersNothing'
  BY DEF IdleIsEmpty, IdleEntersNothing, Next, Process, TakeOrphan, TakeDuplicate, TakeSide,
         TakeTip, TakeNew, AcceptReturn, DrainRemovedMain, AcceptBlock, vars, call

(* The parts of ToApply and ToUndo. *)
InHand(at) == IF reactor.at = at THEN reactor.todo ELSE <<>>
InPrint == IF validator.at = "publishing" THEN validator.todo ELSE <<>>

(* They are lists of blocks. *)
LEMMA QueuesType ==
  ASSUME IInv, NodeTypeOK
  PROVE  /\ InHand("apply") \in Seq(Block) /\ InHand("undo") \in Seq(Block)
         /\ InPrint \in Seq(Block) /\ enteredQ \in Seq(Block) /\ ledger \in LedgerState
         /\ entered \in Seq(Block) /\ removedMain \in Seq(Block) /\ blockchain \in Seq(Block)
         /\ ToApply = ((InHand("apply") \o enteredQ) \o InPrint) \o entered
         /\ ToUndo = InHand("undo") \o removedMain
         /\ ToApply \in Seq(Block) /\ ToUndo \in Seq(Block)
<1>1. InHand("apply") \in Seq(Block) /\ InHand("undo") \in Seq(Block)
  <2>1. reactor.todo \in Seq(Block)
    BY DEF NodeTypeOK, ReactorStates
  <2>2. QED BY <2>1, EmptySeq DEF InHand
<1>2. InPrint \in Seq(Block)
  <2>1. CASE validator.at = "publishing"
    <3>1. validator \in [at : {"publishing"}, todo : Seq(Block)]
      BY <2>1 DEF NodeTypeOK, ValidatorStates, Idle
    <3>2. QED BY <2>1, <3>1 DEF InPrint
  <2>2. CASE validator.at # "publishing"
    BY <2>2, EmptySeq DEF InPrint
  <2>3. QED BY <2>1, <2>2
<1>3. /\ enteredQ \in Seq(Block) /\ ledger \in LedgerState /\ entered \in Seq(Block)
      /\ removedMain \in Seq(Block) /\ blockchain \in Seq(Block)
  BY DEF IInv, TypeOK, NodeTypeOK
<1>4. /\ ToApply = ((InHand("apply") \o enteredQ) \o InPrint) \o entered
      /\ ToUndo = InHand("undo") \o removedMain
  BY DEF ToApply, ToUndo, InHand, InPrint
<1>5. ToUndo \in Seq(Block)
  BY <1>1, <1>3, <1>4, ConcatProperties
<1>6. ToApply \in Seq(Block)
  <2>1. InHand("apply") \o enteredQ \in Seq(Block)
    BY <1>1, <1>3, ConcatProperties
  <2>2. (InHand("apply") \o enteredQ) \o InPrint \in Seq(Block)
    BY <1>2, <2>1, ConcatProperties
  <2>3. QED BY <1>3, <1>4, <2>2, ConcatProperties
<1>7. QED BY <1>1, <1>2, <1>3, <1>4, <1>5, <1>6

(* The ledger's books: doing what is to be applied gives what doing what   *)
(* is to be undone gives on the replay of the main chain.  As the effects  *)
(* of blocks add up in any order, this holds through any interleaving.     *)
Books == DoAll(ledger, ToApply) = DoAll(Rebuild(blockchain), ToUndo)

(* The steps that pass blocks on keep every list as it is. *)
LEMMA PassedOn ==
  ASSUME IInv, NodeTypeOK, IdleEntersNothing,
         \/ Judge \/ Reject \/ Accept \/ AcceptEnd \/ Publish \/ Published
         \/ DrainRemoved \/ DrainEntered \/ UNCHANGED nodeVars
         \/ (AcceptStep /\ ~TakeTip) \/ (\E p \in Peer, b \in Block : Deliver(p, b))
  PROVE  UNCHANGED <<ledger, blockchain, ToApply, ToUndo>>
<1>0. /\ \A s \in Seq(Block) : s \o <<>> = s /\ <<>> \o s = s
      /\ <<>> \in Seq(Block)
  BY ConcatEmptySeq, EmptySeq
<1>01. /\ ToApply' = ((InHand("apply")' \o enteredQ') \o InPrint') \o entered'
       /\ ToUndo' = InHand("undo")' \o removedMain'
  BY DEF ToApply, ToUndo, InHand, InPrint
<1>1. CASE \/ Reject \/ Published \/ Judge \/ UNCHANGED nodeVars
           \/ (AcceptStep /\ ~TakeTip) \/ (\E p \in Peer, b \in Block : Deliver(p, b))
  <2>1. UNCHANGED <<ledger, blockchain, entered, removedMain, enteredQ, reactor>>
    BY <1>1 DEF Reject, Published, Judge, nodeVars, vars, call, main, AcceptStep, TakeOrphan,
                TakeDuplicate, TakeSide, Deliver
  <2>2. UNCHANGED validator \/ (/\ InPrint = <<>> /\ InPrint' = <<>>)
    <3>1. CASE Judge
      BY <3>1 DEF Judge, InPrint, Idle
    <3>2. CASE Reject
      BY <3>2 DEF Reject, InPrint, Idle
    <3>3. CASE Published
      BY <3>3 DEF Published, InPrint, Idle
    <3>4. CASE UNCHANGED nodeVars \/ AcceptStep \/ (\E p \in Peer, b \in Block : Deliver(p, b))
      BY <3>4 DEF nodeVars, AcceptStep, Deliver
    <3>5. QED BY <1>1, <3>1, <3>2, <3>3, <3>4
  <2>3. InPrint' = InPrint
    BY <2>2 DEF InPrint
  <2>4. InHand("apply")' = InHand("apply") /\ InHand("undo")' = InHand("undo")
    BY <2>1 DEF InHand
  <2>5. QED BY <2>1, <2>3, <2>4, <1>01, QueuesType
<1>2. CASE Accept
  <2>1. UNCHANGED <<ledger, blockchain, removedMain, enteredQ, reactor>> /\ entered' = <<>>
        /\ entered = <<>> /\ InPrint = <<>> /\ InPrint' = <<>>
    BY <1>2 DEF Accept, AcceptBlock, main, IdleEntersNothing, InPrint
  <2>2. InHand("apply")' = InHand("apply") /\ InHand("undo")' = InHand("undo")
    BY <2>1 DEF InHand
  <2>3. QED BY <2>1, <2>2, <1>01, QueuesType
<1>3. CASE AcceptEnd
  <2>1. /\ UNCHANGED <<ledger, blockchain, removedMain, enteredQ, reactor>> /\ entered' = <<>>
        /\ InPrint = <<>> /\ InPrint' = entered
    BY <1>3 DEF AcceptEnd, AcceptReturn, main, InPrint
  <2>2. InHand("apply")' = InHand("apply") /\ InHand("undo")' = InHand("undo")
    BY <2>1 DEF InHand
  <2> DEFINE s == InHand("apply") \o enteredQ
  <2>3. s \in Seq(Block) /\ entered \in Seq(Block) /\ s \o entered \in Seq(Block)
    BY QueuesType, ConcatProperties
  <2>4. ToApply = (s \o <<>>) \o entered /\ ToApply' = (s \o entered) \o <<>>
    BY <2>1, <2>2, <1>01, QueuesType
  <2> HIDE DEF s
  <2>5. ToApply' = ToApply
    BY <2>3, <2>4, <1>0
  <2>6. QED BY <2>1, <2>2, <2>5, <1>01, QueuesType
<1>4. CASE Publish
  <2> DEFINE h == Head(validator.todo)
             t == Tail(validator.todo)
             a == InHand("apply")
  <2>1. /\ UNCHANGED <<ledger, blockchain, entered, removedMain, reactor>>
        /\ enteredQ' = Append(enteredQ, h) /\ InPrint = validator.todo /\ InPrint # <<>>
        /\ validator.at = "publishing" /\ validator' = [validator EXCEPT !.todo = Tail(@)]
    BY <1>4 DEF Publish, vars, call, main, InPrint
  <2>2. validator \in [at : {"publishing"}, todo : Seq(Block)]
    BY <2>1 DEF NodeTypeOK, ValidatorStates, Idle
  <2>3. InPrint' = t
    BY <2>1, <2>2 DEF InPrint
  <2>4. /\ h \in Block /\ t \in Seq(Block) /\ InPrint = <<h>> \o t /\ <<h>> \in Seq(Block)
        /\ a \in Seq(Block) /\ enteredQ \in Seq(Block) /\ a \o enteredQ \in Seq(Block)
    BY <2>1, QueuesType, HeadTailProperties, ConcatProperties
  <2>5. InHand("apply")' = a /\ InHand("undo")' = InHand("undo")
    BY <2>1 DEF InHand
  <2> HIDE DEF h, t, a
  <2>6. enteredQ' = enteredQ \o <<h>>
    BY <2>1, <2>4, AppendIsConcat
  <2>7. (a \o (enteredQ \o <<h>>)) \o t = (a \o enteredQ) \o (<<h>> \o t)
    <3>1. a \o (enteredQ \o <<h>>) = (a \o enteredQ) \o <<h>>
      BY <2>4, ConcatAssociative
    <3>2. ((a \o enteredQ) \o <<h>>) \o t = (a \o enteredQ) \o (<<h>> \o t)
      BY <2>4, ConcatAssociative
    <3>3. QED BY <3>1, <3>2
  <2>8. ToApply' = ToApply
    <3>1. ToApply' = ((a \o (enteredQ \o <<h>>)) \o t) \o entered
      BY <2>1, <2>3, <2>5, <2>6, <1>01, QueuesType
    <3>2. ToApply = ((a \o enteredQ) \o (<<h>> \o t)) \o entered
      BY <2>4, <1>01, QueuesType DEF a
    <3>3. QED BY <2>7, <3>1, <3>2
  <2>9. ToUndo' = ToUndo
    BY <2>1, <2>5, <1>01, QueuesType
  <2>10. QED BY <2>1, <2>8, <2>9
<1>5. CASE DrainRemoved
  <2>1. /\ UNCHANGED <<ledger, blockchain, entered, enteredQ, validator>>
        /\ reactor = Applying(<<>>) /\ reactor' = Undoing(removedMain) /\ removedMain' = <<>>
    BY <1>5 DEF DrainRemoved, DrainRemovedMain, vars, main, call
  <2>2. /\ InHand("apply") = <<>> /\ InHand("undo") = <<>>
        /\ InHand("apply")' = <<>> /\ InHand("undo")' = removedMain /\ InPrint' = InPrint
    BY <2>1 DEF InHand, Applying, Undoing, InPrint
  <2>3. ToUndo' = ToUndo
    BY <1>0, <2>1, <2>2, <1>01, QueuesType
  <2>4. QED BY <2>1, <2>2, <2>3, <1>01, QueuesType
<1>6. CASE DrainEntered
  <2>1. /\ UNCHANGED <<ledger, blockchain, entered, removedMain, validator>>
        /\ reactor = Undoing(<<>>) /\ reactor' = Applying(enteredQ) /\ enteredQ' = <<>>
    BY <1>6 DEF DrainEntered, vars, main, call
  <2>2. /\ InHand("apply") = <<>> /\ InHand("undo") = <<>>
        /\ InHand("apply")' = enteredQ /\ InHand("undo")' = <<>> /\ InPrint' = InPrint
    BY <2>1 DEF InHand, Applying, Undoing, InPrint
  <2>3. InHand("apply")' \o enteredQ' = InHand("apply") \o enteredQ
    BY <1>0, <2>1, <2>2, <1>01, QueuesType
  <2>4. QED BY <2>1, <2>2, <2>3, <1>01, QueuesType
<1>7. QED BY <1>1, <1>2, <1>3, <1>4, <1>5, <1>6

(* What a reorganisation does to the lists. *)
LEMMA ReorgMoves ==
  ASSUME NEW t \in Block, NEW hts, bestTip \in Block, MainChainIsLineage,
         \A x \in Ancestry(bestTip) : hts[x] = HeightOf(x),
         ReorgToTip(t, hts)
  PROVE  \E kept \in Seq(Block), tail \in Seq(Block), path \in Seq(Block), out \in Seq(Block) :
           /\ blockchain = kept \o tail /\ blockchain' = kept \o path
           /\ entered' = entered \o path /\ removedMain' = removedMain \o out
           /\ out \in {tail, Reverse(tail)}
<1> DEFINE anc == FindAncestor(bestTip, t, hts)
           path == PathFrom(anc, t, hts)
           old == PathFrom(anc, bestTip, hts)
           whole == anc = NoBlock \/ hts[anc] >= Len(blockchain)
           front == SubSeq(blockchain, 1, hts[anc] + 1)
           back == SubSeq(blockchain, hts[anc] + 2, Len(blockchain))
<1>1. path \in Seq(Block) /\ old \in Seq(Block) /\ blockchain = Lineage[bestTip]
  BY PathFromIsInBranch DEF MainChainIsLineage
<1>2. /\ blockchain' = (IF whole THEN <<>> ELSE front) \o path
      /\ removedMain' = removedMain \o (IF whole THEN blockchain ELSE Reverse(old))
      /\ entered' = entered \o path
  BY DEF ReorgToTip
<1>3. blockchain \in Seq(Block) /\ Len(blockchain) \in Nat
  BY <1>1, LineageEnds
<1>4. CASE whole
  <2>1. blockchain = <<>> \o blockchain /\ <<>> \in Seq(Block)
    BY <1>3, ConcatEmptySeq, EmptySeq
  <2>2. blockchain' = <<>> \o path /\ removedMain' = removedMain \o blockchain
    BY <1>2, <1>4
  <2> HIDE DEF path, whole, old
  <2>3. QED BY <1>1, <1>2, <1>3, <2>1, <2>2
<1>5. CASE ~whole
  <2> DEFINE n == Len(Lineage[anc])
  <2>1. anc \in Ancestry(bestTip) /\ hts[anc] = HeightOf(anc)
    BY <1>5, FindAncestorFinds
  <2>2. n \in 1..Len(blockchain)
    BY <1>1, <2>1, AncestorPosition
  <2>3. hts[anc] + 1 = n /\ hts[anc] + 2 = n + 1 /\ n \in 0..Len(blockchain)
    BY <1>3, <2>1, <2>2 DEF HeightOf
  <2>4. old = back
    BY <1>1, <1>5 DEF PathFrom
  <2>5. front = SubSeq(blockchain, 1, n) /\ back = SubSeq(blockchain, n + 1, Len(blockchain))
    BY <2>3
  <2>6. blockchain' = front \o path /\ removedMain' = removedMain \o Reverse(back)
    BY <1>2, <1>5, <2>4
  <2> HIDE DEF n, front, back, old, path, whole
  <2>7. front \in Seq(Block) /\ back \in Seq(Block) /\ blockchain = front \o back
    BY <1>3, <2>3, <2>5, CutList
  <2>8. Reverse(back) \in Seq(Block)
    BY <2>7, ReverseInSeq
  <2>9. QED BY <1>1, <1>2, <2>6, <2>7, <2>8
<1>6. QED BY <1>4, <1>5

(* A reorganisation balances the books: what it takes from the main chain  *)
(* it lists for undoing, and what it adds for applying.                    *)
LEMMA ReorgBalances ==
  ASSUME NEW L \in LedgerState, NEW K \in LedgerState,
         NEW A \in Seq(Block), NEW U \in Seq(Block), NEW tail \in Seq(Block),
         NEW path \in Seq(Block), NEW out \in Seq(Block), out \in {tail, Reverse(tail)},
         DoAll(L, A) = DoAll(DoAll(K, tail), U)
  PROVE  DoAll(L, A \o path) = DoAll(DoAll(K, path), U \o out)
<1> DEFINE M == DoAll(K, tail)
           N == DoAll(K, path)
<1>1. M \in LedgerState /\ N \in LedgerState
  BY DoAllType
<1>2. DoAll(L, A \o path) = DoAll(DoAll(M, U), path)
  BY DoConcat
<1>3. DoAll(M, path) = DoAll(N, tail)
  BY BlocksCommute
<1> HIDE DEF M, N
<1>4. DoAll(DoAll(M, U), path) = DoAll(DoAll(M, path), U)
  BY <1>1, BlocksCommute
<1>5. DoAll(DoAll(N, tail), U) = DoAll(DoAll(N, U), tail)
  BY <1>1, BlocksCommute
<1>6. DoAll(N, U) \in LedgerState
  BY <1>1, DoAllType
<1>7. DoAll(DoAll(N, U), out) = DoAll(DoAll(N, U), tail)
  BY <1>6, DoReverse
<1>8. DoAll(N, U \o out) = DoAll(DoAll(N, U), out)
  BY <1>1, DoConcat
<1>9. QED BY <1>2, <1>3, <1>4, <1>5, <1>7, <1>8 DEF N

(* Appending lists of blocks is associative. *)
LEMMA BlocksAssociate ==
  \A r, s, t \in Seq(Block) : (r \o s) \o t = r \o (s \o t)
  BY ConcatAssociative

(* A move of the tip does this to what is on its way to the ledger. *)
LEMMA TipMoves ==
  ASSUME IInv, NodeTypeOK, AcceptStep, TakeTip
  PROVE  \E kept \in Seq(Block), tail \in Seq(Block), path \in Seq(Block), out \in Seq(Block) :
           /\ blockchain = kept \o tail /\ blockchain' = kept \o path
           /\ ToApply' = ToApply \o path /\ ToUndo' = ToUndo \o out
           /\ removedMain' = removedMain \o out /\ out \in {tail, Reverse(tail)}
<1> DEFINE b == Head(toProcess)
<1>1. b \in Block /\ TakeNew(b) /\ ReorgToTip(b, height')
  BY HeadTailProperties DEF TakeTip, IInv, TypeOK
<1>2. IInv'
  BY TakeTipKeeps
<1>3. bestTip \in Block /\ bestTip \in index /\ MainChainIsLineage
  BY DEF IInv, TypeOK
<1>4. \A x \in Ancestry(bestTip) : height'[x] = HeightOf(x)
  BY <1>1, <1>2, <1>3 DEF TakeNew, IInv, DagIsConsistent, HeightOf, Ancestry
<1>5. PICK kept \in Seq(Block), tail \in Seq(Block), path \in Seq(Block), out \in Seq(Block) :
           /\ blockchain = kept \o tail /\ blockchain' = kept \o path
           /\ entered' = entered \o path /\ removedMain' = removedMain \o out
           /\ out \in {tail, Reverse(tail)}
  <2> HIDE DEF b
  <2>1. QED BY <1>1, <1>3, <1>4, ReorgMoves
<1> HIDE DEF b
<1>6. UNCHANGED <<validator, reactor, enteredQ>>
  BY DEF AcceptStep
<1>7. ToApply' = ToApply \o path
  <2> DEFINE s == (InHand("apply") \o enteredQ) \o InPrint
  <2>1. s \in Seq(Block) /\ entered \in Seq(Block) /\ ToApply = s \o entered
    BY QueuesType, ConcatProperties
  <2>2. ToApply' = s \o (entered \o path)
    BY <1>5, <1>6 DEF ToApply, InHand, InPrint
  <2> HIDE DEF s
  <2>3. (s \o entered) \o path = s \o (entered \o path)
    <3>1. s \in Seq(Block) /\ entered \in Seq(Block) /\ path \in Seq(Block)
      BY <1>5, <2>1
    <3>2. QED BY <3>1, BlocksAssociate, ZenonT(60)
  <2>4. QED BY <2>1, <2>2, <2>3
<1>8. ToUndo' = ToUndo \o out
  <2> DEFINE s == InHand("undo")
  <2>1. s \in Seq(Block) /\ removedMain \in Seq(Block) /\ ToUndo = s \o removedMain
    BY QueuesType
  <2>2. ToUndo' = s \o (removedMain \o out)
    BY <1>5, <1>6 DEF ToUndo, InHand
  <2> HIDE DEF s
  <2>3. (s \o removedMain) \o out = s \o (removedMain \o out)
    <3>1. s \in Seq(Block) /\ removedMain \in Seq(Block) /\ out \in Seq(Block)
      BY <1>5, <2>1
    <3>2. QED BY <3>1, BlocksAssociate
  <2>4. QED BY <2>1, <2>2, <2>3
<1>9. QED BY <1>5, <1>7, <1>8

(* So the books stay balanced when the tip moves, *)
LEMMA TakeTipBooks ==
  ASSUME BlocksApply, IInv, NodeTypeOK, Books, AcceptStep, TakeTip PROVE Books'
<1>1. PICK kept \in Seq(Block), tail \in Seq(Block), path \in Seq(Block), out \in Seq(Block) :
           /\ blockchain = kept \o tail /\ blockchain' = kept \o path
           /\ ToApply' = ToApply \o path /\ ToUndo' = ToUndo \o out
           /\ out \in {tail, Reverse(tail)}
  BY TipMoves
<1>2. /\ blockchain = Lineage[bestTip] /\ bestTip \in Block
      /\ blockchain' = Lineage[bestTip'] /\ bestTip' \in Block
  BY TakeTipKeeps DEF IInv, MainChainIsLineage, TypeOK
<1> DEFINE K == DoAll(EmptyLedger, kept)
<1>3. /\ Rebuild(blockchain) = DoAll(EmptyLedger, kept \o tail)
      /\ Rebuild(blockchain') = DoAll(EmptyLedger, kept \o path)
  BY <1>1, <1>2, RebuildDoes
<1>4. /\ K \in LedgerState
      /\ Rebuild(blockchain) = DoAll(K, tail) /\ Rebuild(blockchain') = DoAll(K, path)
  BY <1>3, EmptyLedgerType, DoAllType, DoConcat
<1> HIDE DEF K
<1>5. ledger' = ledger
  BY DEF AcceptStep
<1>6. ToApply \in Seq(Block) /\ ToUndo \in Seq(Block) /\ ledger \in LedgerState
  BY QueuesType
<1>7. DoAll(ledger, ToApply) = DoAll(DoAll(K, tail), ToUndo)
  BY <1>4 DEF Books
<1>8. DoAll(ledger, ToApply \o path) = DoAll(DoAll(K, path), ToUndo \o out)
  BY <1>1, <1>4, <1>6, <1>7, ReorgBalances
<1>9. QED BY <1>1, <1>4, <1>5, <1>8 DEF Books

(* What ToApply holds behind the block that the reactor applies next. *)
AppliedAfter == ((Tail(reactor.todo) \o enteredQ) \o InPrint) \o entered

(* That block is the first of ToApply. *)
LEMMA NextToApply ==
  ASSUME IInv, NodeTypeOK, reactor.at = "apply", reactor.todo # <<>>
  PROVE  /\ Head(reactor.todo) \in Block /\ AppliedAfter \in Seq(Block)
         /\ ToApply = <<Head(reactor.todo)>> \o AppliedAfter
<1> DEFINE h == Head(reactor.todo)
           t == Tail(reactor.todo)
           s == (t \o enteredQ) \o InPrint
<1>1. /\ reactor.todo = <<h>> \o t /\ h \in Block /\ t \in Seq(Block) /\ <<h>> \in Seq(Block)
      /\ InHand("apply") = reactor.todo
  BY QueuesType, HeadTailProperties DEF InHand
<1> HIDE DEF h, t
<1>2. /\ t \o enteredQ \in Seq(Block) /\ s \in Seq(Block) /\ s \o entered \in Seq(Block)
      /\ entered \in Seq(Block) /\ enteredQ \in Seq(Block) /\ InPrint \in Seq(Block)
  BY <1>1, QueuesType, ConcatProperties
<1>3. ToApply = (((<<h>> \o t) \o enteredQ) \o InPrint) \o entered
  BY <1>1, QueuesType
<1>4. (<<h>> \o t) \o enteredQ = <<h>> \o (t \o enteredQ)
  BY <1>1, <1>2, BlocksAssociate
<1>5. (<<h>> \o (t \o enteredQ)) \o InPrint = <<h>> \o s
  BY <1>1, <1>2, BlocksAssociate
<1> HIDE DEF s
<1>6. (<<h>> \o s) \o entered = <<h>> \o (s \o entered)
  BY <1>1, <1>2, BlocksAssociate
<1>7. AppliedAfter = s \o entered
  BY DEF AppliedAfter, s, t
<1>8. ToApply = <<h>> \o (s \o entered)
  BY <1>3, <1>4, <1>5, <1>6
<1>9. QED BY <1>1, <1>2, <1>7, <1>8 DEF h

(* Applying it leaves the others, and nothing else of the lists changes. *)
LEMMA ApplyTakes ==
  ASSUME IInv, NodeTypeOK, Apply
  PROVE  ToApply' = AppliedAfter /\ ToUndo' = ToUndo /\ blockchain' = blockchain
<1>1. /\ reactor.at = "apply" /\ reactor' = Applying(Tail(reactor.todo))
      /\ UNCHANGED <<vars, validator, enteredQ>>
  BY DEF Apply
<1>2. ToApply' = AppliedAfter
  BY <1>1 DEF ToApply, AppliedAfter, Applying, InPrint, vars, call
<1>3. InHand("undo")' = <<>> /\ InHand("undo") = <<>> /\ removedMain' = removedMain
      /\ blockchain' = blockchain
  BY <1>1 DEF InHand, Applying, vars, main
<1>4. ToUndo' = InHand("undo")' \o removedMain' /\ ToUndo = InHand("undo") \o removedMain
  BY DEF ToUndo, InHand
<1>5. QED BY <1>2, <1>3, <1>4

(* If nobody who pays mines, only the ledger decides on a block.           *)
LEMMA NobodyIsShort ==
  ASSUME NoMinerPays, IInv, NEW b \in Block, NEW l
  PROVE  ~SeemsShort(l, Txs[b], Grown)
<1>1. \A r \in Grown : \E c \in Block : r \in GrownBy(c)
  BY DEF Grown, IInv, TypeOK
<1>2. QED BY <1>1, NobodySeemsShort

(* when the reactor applies a block that is not refused, *)
LEMMA ApplyBooks ==
  ASSUME NoMinerPays, IInv, NodeTypeOK, Books, NothingRefused, Apply PROVE Books'
<1> DEFINE h == Head(reactor.todo)
           rest == AppliedAfter
<1>0. reactor.at = "apply" /\ reactor.todo # <<>>
  BY DEF Apply
<1>2. h \in Block /\ <<h>> \in Seq(Block) /\ rest \in Seq(Block) /\ ToApply = <<h>> \o rest
  BY <1>0, NextToApply
<1>1. reactor.at = "apply" /\ reactor.todo # <<>> /\ ledger' = ApplyBlock(ledger, h)
  BY <1>0, <1>2, NobodyIsShort DEF Apply
<1>3. ledger \in LedgerState /\ ledger' = Do(ledger, h)
  BY <1>1, <1>2, QueuesType, ApplyDoes DEF NothingRefused
<1>4. ToApply' = rest /\ ToUndo' = ToUndo /\ blockchain' = blockchain
  BY ApplyTakes
<1> HIDE DEF h, rest
<1>5. DoAll(ledger, ToApply) = DoAll(Do(ledger, h), rest)
  <2>1. DoAll(ledger, <<h>>) = Do(ledger, h)
    BY <1>2, <1>3, DoFew
  <2>2. DoAll(ledger, <<h>> \o rest) = DoAll(DoAll(ledger, <<h>>), rest)
    BY <1>2, <1>3, DoConcat
  <2>3. QED BY <1>2, <2>1, <2>2
<1>6. QED BY <1>3, <1>4, <1>5 DEF Books

(* and when it rolls back one of which all nonces are in the ledger. *)
LEMMA UndoBooks ==
  ASSUME IInv, IInv', NodeTypeOK, NodeTypeOK', Books, NothingRefused, Undo PROVE Books'
<1> DEFINE h == Head(reactor.todo)
           t == Tail(reactor.todo)
           R == Rebuild(blockchain)
<1>1. /\ reactor.at = "undo" /\ reactor.todo # <<>> /\ reactor' = Undoing(t)
      /\ ledger' = RollbackBlock(ledger, h) /\ UNCHANGED <<vars, validator, enteredQ>>
  BY DEF Undo
<1>2. /\ reactor.todo = <<h>> \o t /\ h \in Block /\ t \in Seq(Block) /\ <<h>> \in Seq(Block)
      /\ InHand("undo") = reactor.todo
  BY <1>1, QueuesType, HeadTailProperties DEF InHand
<1>3. Do(ledger', h) = ledger /\ ledger' \in LedgerState
  BY <1>1 DEF NothingRefused, NodeTypeOK
<1> HIDE DEF h, t
<1>4. t \o removedMain \in Seq(Block) /\ removedMain \in Seq(Block) /\ ToApply \in Seq(Block)
  BY <1>2, QueuesType, ConcatProperties
<1>5. R \in LedgerState
  BY QueuesType, RebuildType
<1>6. ToUndo' = t \o removedMain
  BY <1>1 DEF ToUndo, Undoing, vars
<1>7. ToUndo = <<h>> \o (t \o removedMain)
  <2>1. ToUndo = (<<h>> \o t) \o removedMain
    BY <1>2, QueuesType
  <2>2. QED BY <1>2, <1>4, <2>1, BlocksAssociate
<1>8. ToApply' = ToApply /\ blockchain' = blockchain
  <2>1. /\ InHand("apply")' = <<>> /\ InHand("apply") = <<>> /\ InPrint' = InPrint
        /\ enteredQ' = enteredQ /\ entered' = entered /\ blockchain' = blockchain
    BY <1>1 DEF InHand, InPrint, Undoing, vars, main, call
  <2>2. /\ ToApply' = ((InHand("apply")' \o enteredQ') \o InPrint') \o entered'
        /\ ToApply = ((InHand("apply") \o enteredQ) \o InPrint) \o entered
    BY DEF ToApply, InHand, InPrint
  <2>3. QED BY <2>1, <2>2
<1> HIDE DEF R
<1>9. Do(DoAll(ledger', ToApply), h) = Do(DoAll(R, t \o removedMain), h)
  <2>1. DoAll(Do(ledger', h), ToApply) = Do(DoAll(ledger', ToApply), h)
    BY <1>2, <1>3, <1>4, BlocksCommute
  <2>2. DoAll(R, ToUndo) = DoAll(Do(R, h), t \o removedMain)
    <3>1. DoAll(R, <<h>>) = Do(R, h)
      BY <1>2, <1>5, DoFew
    <3>2. DoAll(R, <<h>> \o (t \o removedMain)) = DoAll(DoAll(R, <<h>>), t \o removedMain)
      BY <1>2, <1>4, <1>5, DoConcat
    <3>3. QED BY <1>7, <3>1, <3>2
  <2>3. DoAll(Do(R, h), t \o removedMain) = Do(DoAll(R, t \o removedMain), h)
    BY <1>2, <1>4, <1>5, BlocksCommute
  <2>4. DoAll(Do(ledger', h), ToApply) = DoAll(R, ToUndo)
    BY <1>3 DEF Books, R
  <2>5. QED BY <2>1, <2>2, <2>3, <2>4
<1>10. DoAll(ledger', ToApply) \in LedgerState /\ DoAll(R, t \o removedMain) \in LedgerState
  BY <1>3, <1>4, <1>5, DoAllType
<1>11. DoAll(ledger', ToApply) = DoAll(R, t \o removedMain)
  BY <1>2, <1>9, <1>10, DoInjective
<1>12. QED BY <1>6, <1>8, <1>11 DEF Books, R

(* Balanced books say that the ledger accounts for the chain. *)
LEMMA BooksAccount ==
  ASSUME IInv, NodeTypeOK, Books PROVE LedgerAccountsForChain
<1>1. /\ blockchain \in Seq(Block) /\ ToUndo \in Seq(Block) /\ ToApply \in Seq(Block)
  BY QueuesType
<1>2. Rebuild(blockchain) \in LedgerState
  BY <1>1, RebuildType
<1>3. RollAll(DoAll(Rebuild(blockchain), ToUndo), ToUndo) = Rebuild(blockchain)
  BY <1>1, <1>2, RollUndoesAll
<1>4. RollAll(DoAll(ledger, ToApply), ToUndo) = Rebuild(blockchain)
  BY <1>3 DEF Books
<1>5. QED BY <1>4 DEF LedgerAccountsForChain, RollAll, DoAll

(* Every step of the node keeps them balanced. *)
LEMMA BooksStep ==
  ASSUME BlocksApply, NoMinerPays, IInv, NodeTypeOK, IInv', NodeTypeOK', IdleEntersNothing, Books,
         NothingRefused, [NodeNext]_nodeVars
  PROVE  Books'
<1>1. CASE AcceptStep /\ TakeTip
  BY <1>1, TakeTipBooks
<1>2. CASE Apply
  BY <1>2, ApplyBooks
<1>3. CASE Undo
  BY <1>3, UndoBooks
<1>4. CASE \/ Judge \/ Reject \/ Accept \/ AcceptEnd \/ Publish \/ Published
           \/ DrainRemoved \/ DrainEntered \/ UNCHANGED nodeVars
           \/ (AcceptStep /\ ~TakeTip) \/ (\E p \in Peer, b \in Block : Deliver(p, b))
  <2>1. UNCHANGED <<ledger, blockchain, ToApply, ToUndo>>
    BY <1>4, PassedOn
  <2>2. QED BY <2>1 DEF Books
<1>5. QED BY <1>1, <1>2, <1>3, <1>4 DEF NodeNext, Validator, Reactor

(* Across all races of the validator with the reactor and all cascades     *)
(* that reorganise more than once, the ledger, with what is queued done    *)
(* and undone, is the replay of the main chain, as long as nothing that    *)
(* the reactor does is refused.  So the two queues and their two drains    *)
(* lose, repeat and invent nothing, and what LedgerMatchesChain fails of   *)
(* is the refusals that _reactor_loop does not look at, and they alone.    *)
(* NoMinerPays leaves out one kind of refusal, for coinbases that the race *)
(* in _ensure_immature_cache holds back.                                   *)
THEOREM LedgerAccounts ==
  BlocksApply /\ NoMinerPays => (NodeSpec /\ []NothingRefused => []LedgerAccountsForChain)
<1> SUFFICES ASSUME BlocksApply, NoMinerPays
             PROVE  NodeSpec /\ []NothingRefused => []LedgerAccountsForChain
  OBVIOUS
<1>1. NodeInit => IdleIsEmpty /\ IdleEntersNothing
  BY DEF NodeInit, Init, IdleIsEmpty, IdleEntersNothing
<1>2. NodeInit => Books
  <2> SUFFICES ASSUME NodeInit PROVE Books
    OBVIOUS
  <2>1. ToApply = <<>> /\ ToUndo = <<>> /\ ledger = Rebuild(blockchain)
    BY DEF NodeInit, Init, ToApply, ToUndo, Applying, Idle
  <2>2. QED BY <2>1 DEF Books
<1>3. IdleIsEmpty /\ IdleEntersNothing /\ [Next]_vars => IdleIsEmpty' /\ IdleEntersNothing'
  BY IdleStep, IdleEntersStep
<1>4. IInv /\ NodeTypeOK /\ IInv' /\ NodeTypeOK' /\ IdleEntersNothing /\ Books
        /\ NothingRefused /\ [NodeNext]_nodeVars => Books'
  <2> SUFFICES ASSUME IInv, NodeTypeOK, IInv', NodeTypeOK', IdleEntersNothing, Books,
                      NothingRefused, [NodeNext]_nodeVars
               PROVE  Books'
    OBVIOUS
  <2>1. QED BY BooksStep
<1>5. IInv /\ NodeTypeOK /\ Books => LedgerAccountsForChain
  BY BooksAccount
<1>6. QED BY <1>1, <1>2, <1>3, <1>4, <1>5, NodeInitHolds, NodeStepHolds, PTL DEF NodeSpec

(* On blocks without payments nothing can be refused, in any state. *)
LEMMA EmptyBlocksNotRefused ==
  ASSUME BlocksApply, \A b \in Block : Txs[b] = <<>>, NodeTypeOK PROVE NothingRefused
<1>1. SUFFICES ASSUME NEW b \in Block
               PROVE  Applies(ledger, b) /\ Do(RollbackBlock(ledger, b), b) = ledger
  <2>1. reactor.todo \in Seq(Block)
    BY DEF NodeTypeOK, ReactorStates
  <2>2. reactor.todo # <<>> => Head(reactor.todo) \in Block
    BY <2>1, HeadTailProperties
  <2>3. QED BY <2>2 DEF NothingRefused
<1>2. ledger \in LedgerState
  BY DEF NodeTypeOK
<1>3. b \notin Root => Len(Coinbases[b]) = 1
  BY DEF BlocksApply, Applies
<1>4. RunTxs(ledger, Txs[b]).ok
  BY <1>2, NoPayments
<1>5. QED BY <1>2, <1>3, <1>4, RedoWithoutPayments DEF Applies

(* So on a tree of such blocks, whatever its shape, the order of delivery  *)
(* and the reorganisations, the ledger of the node accounts for its chain: *)
(* only payments can upset it.                                             *)
THEOREM EmptyBlocksAccount ==
  BlocksApply /\ (\A b \in Block : Txs[b] = <<>>) => (NodeSpec => []LedgerAccountsForChain)
<1> SUFFICES ASSUME BlocksApply, \A b \in Block : Txs[b] = <<>>
             PROVE  NodeSpec => []LedgerAccountsForChain
  OBVIOUS
<1>1. NodeTypeOK => NothingRefused
  BY EmptyBlocksNotRefused
<1>2. NodeSpec /\ []NothingRefused => []LedgerAccountsForChain
  <2>1. \A c \in Block : Range(Txs[c]) = {}
    BY DEF Range
  <2>2. NoMinerPays
    BY <2>1 DEF NoMinerPays
  <2>3. QED BY <2>2, LedgerAccounts
<1>3. QED BY <1>1, <1>2, NodeInitHolds, NodeStepHolds, PTL DEF NodeSpec

-----------------------------------------------------------------------------
(* While no block has left the main chain, the ledger is the replay of a   *)
(* beginning of it, and the rest of it is on its way to the ledger.        *)
Growing ==
  /\ InHand("undo") = <<>>
  /\ \E kept \in Seq(Block) : blockchain = kept \o ToApply /\ ledger = Rebuild(kept)

(* The block that such a ledger meets next is the one that comes next, and *)
(* it fits there.                                                          *)
LEMMA GrowingMeetsNext ==
  ASSUME BlocksApply, IInv, NEW kept \in Seq(Block), NEW h \in Block, NEW rest \in Seq(Block),
         blockchain = kept \o (<<h>> \o rest)
  PROVE  Applies(Rebuild(kept), h) /\ Rebuild(kept \o <<h>>) = ApplyBlock(Rebuild(kept), h)
<1> DEFINE n == Len(kept) + 1
           g == kept \o <<h>>
<1>1. /\ blockchain \in Seq(Block) /\ Len(blockchain) \in Nat /\ Len(kept) \in Nat
      /\ blockchain = Lineage[bestTip] /\ bestTip \in Block /\ <<h>> \in Seq(Block)
  BY LenProperties DEF IInv, MainChainIsLineage, TypeOK
<1>2. /\ g \in Seq(Block) /\ Len(g) = n /\ g[n] = h
      /\ \A i \in 1..Len(kept) : g[i] = kept[i]
  <2>1. g = Append(kept, h)
    BY AppendIsConcat
  <2> HIDE DEF g
  <2>2. QED BY <2>1, AppendProperties
<1>3. blockchain = g \o rest
  BY <1>1, BlocksAssociate
<1> HIDE DEF g
<1>4. n \in 1..Len(blockchain) /\ \A i \in 1..n : blockchain[i] = g[i]
  <2>1. /\ Len(rest) \in Nat /\ Len(g \o rest) = Len(g) + Len(rest)
        /\ \A i \in 1..Len(g) + Len(rest) :
             (g \o rest)[i] = IF i <= Len(g) THEN g[i] ELSE rest[i - Len(g)]
    BY <1>2, ConcatProperties, LenProperties
  <2>2. n \in 1..n + Len(rest)
    BY <1>1, <2>1
  <2>3. \A i \in 1..n : i \in 1..n + Len(rest) /\ i <= n
    BY <1>1, <2>1
  <2> HIDE DEF n
  <2>4. QED BY <1>2, <1>3, <2>1, <2>2, <2>3
<1>5. n - 1 = Len(kept) /\ n \in 0..Len(blockchain) /\ n - 1 \in 0..Len(blockchain)
      /\ \A i \in 1..n - 1 : i \in 1..n
  BY <1>1, <1>4
<1> HIDE DEF n
<1>6. SubSeq(blockchain, 1, n) = g
  <2> DEFINE f == SubSeq(blockchain, 1, n)
  <2>1. f \in Seq(Block) /\ Len(f) = n /\ \A i \in 1..n : f[i] = blockchain[i]
    BY <1>1, <1>5, CutList
  <2> HIDE DEF f
  <2>2. f = g
    BY <1>2, <1>4, <2>1, SeqEqual
  <2>3. QED BY <2>2 DEF f
<1>7. SubSeq(blockchain, 1, n - 1) = kept
  <2> DEFINE m == n - 1
             f == SubSeq(blockchain, 1, m)
  <2>1. m \in 0..Len(blockchain) /\ m = Len(kept) /\ \A i \in 1..m : i \in 1..n
    BY <1>5
  <2> HIDE DEF m
  <2>2. f \in Seq(Block) /\ Len(f) = m /\ \A i \in 1..m : f[i] = blockchain[i]
    BY <1>1, <2>1, CutList
  <2> HIDE DEF f
  <2>3. f = kept
    BY <1>2, <1>4, <2>1, <2>2, SeqEqual
  <2>4. QED BY <2>3 DEF f, m
<1>8. /\ Applies(Rebuild(SubSeq(blockchain, 1, n - 1)), blockchain[n])
      /\ Rebuild(SubSeq(blockchain, 1, n)) =
           ApplyBlock(Rebuild(SubSeq(blockchain, 1, n - 1)), blockchain[n])
  BY <1>1, <1>4, LineageReplays
<1>9. blockchain[n] = h
  BY <1>2, <1>4
<1>10. QED BY <1>6, <1>7, <1>8, <1>9 DEF g

(* ... so nothing is refused, *)
LEMMA GrowingNotRefused ==
  ASSUME BlocksApply, IInv, NodeTypeOK, Growing PROVE NothingRefused
<1>1. PICK kept \in Seq(Block) : blockchain = kept \o ToApply /\ ledger = Rebuild(kept)
  BY DEF Growing
<1>2. ASSUME reactor.at = "apply", reactor.todo # <<>>
      PROVE  Applies(ledger, Head(reactor.todo))
  <2>1. /\ Head(reactor.todo) \in Block /\ AppliedAfter \in Seq(Block)
        /\ ToApply = <<Head(reactor.todo)>> \o AppliedAfter
    BY <1>2, NextToApply
  <2>2. QED BY <1>1, <2>1, GrowingMeetsNext
<1>3. ~(reactor.at = "undo" /\ reactor.todo # <<>>)
  BY DEF Growing, InHand
<1>4. QED BY <1>2, <1>3 DEF NothingRefused

(* and the chain goes on growing. *)
LEMMA GrowingStep ==
  ASSUME BlocksApply, NoMinerPays, IInv, NodeTypeOK, IInv', NodeTypeOK', IdleEntersNothing, Growing,
         removedMain = <<>>, removedMain' = <<>>, [NodeNext]_nodeVars
  PROVE  Growing'
<1>0. PICK kept \in Seq(Block) : blockchain = kept \o ToApply /\ ledger = Rebuild(kept)
  BY DEF Growing
<1>01. ToUndo = InHand("undo") \o removedMain /\ ToUndo' = InHand("undo")' \o removedMain'
  BY DEF ToUndo, InHand
<1>02. InHand("undo")' \in Seq(Block)
  <2>1. reactor' \in ReactorStates
    BY DEF NodeTypeOK
  <2>2. reactor'.todo \in Seq(Block)
    BY <2>1 DEF ReactorStates
  <2>3. QED BY <2>2, EmptySeq DEF InHand
<1>03. ToUndo = <<>> /\ ToUndo' = InHand("undo")'
  <2>1. <<>> \o <<>> = <<>> /\ InHand("undo")' \o <<>> = InHand("undo")'
    BY <1>02, EmptySeq, ConcatEmptySeq
  <2>2. QED BY <2>1, <1>01 DEF Growing
<1>1. CASE AcceptStep /\ TakeTip
  <2>1. PICK stays \in Seq(Block), tail \in Seq(Block), path \in Seq(Block), out \in Seq(Block) :
          /\ blockchain = stays \o tail /\ blockchain' = stays \o path
          /\ ToApply' = ToApply \o path /\ ToUndo' = ToUndo \o out
          /\ removedMain' = removedMain \o out /\ out \in {tail, Reverse(tail)}
    BY <1>1, TipMoves
  <2>2. out = <<>>
    BY <2>1, ConcatEmptySeq
  <2>3. tail = <<>>
    <3>1. Len(Reverse(tail)) = Len(tail)
      BY ReverseInSeq
    <3>2. QED BY <2>1, <2>2, <3>1, EmptySeq
  <2>4. blockchain' = blockchain \o path
    BY <2>1, <2>3, ConcatEmptySeq
  <2>5. ToApply \in Seq(Block)
    BY QueuesType
  <2>6. blockchain' = kept \o ToApply'
    <3>1. (kept \o ToApply) \o path = kept \o (ToApply \o path)
      BY <2>5, BlocksAssociate
    <3>2. QED BY <1>0, <2>1, <2>4, <3>1
  <2>7. ToUndo' = <<>>
    BY <1>03, <2>1, <2>2, ConcatEmptySeq
  <2>8. ledger' = ledger
    BY <1>1 DEF AcceptStep
  <2>9. QED BY <1>0, <1>03, <2>6, <2>7, <2>8 DEF Growing
<1>2. CASE Apply
  <2> DEFINE h == Head(reactor.todo)
  <2>0. /\ reactor.at = "apply" /\ reactor.todo # <<>> /\ reactor' = Applying(Tail(reactor.todo))
        /\ blockchain' = blockchain
    BY <1>2 DEF Apply, vars, main
  <2>2. /\ h \in Block /\ <<h>> \in Seq(Block) /\ AppliedAfter \in Seq(Block)
        /\ ToApply = <<h>> \o AppliedAfter
    BY <2>0, NextToApply
  <2>1. reactor' = Applying(Tail(reactor.todo)) /\ blockchain' = blockchain
        /\ ledger' = ApplyBlock(ledger, h)
    BY <1>2, <2>0, <2>2, NobodyIsShort DEF Apply
  <2>3. ToApply' = AppliedAfter
    BY <1>2, ApplyTakes
  <2> HIDE DEF h
  <2>4. Rebuild(kept \o <<h>>) = ApplyBlock(Rebuild(kept), h)
    BY <1>0, <2>2, GrowingMeetsNext
  <2>5. blockchain' = (kept \o <<h>>) \o ToApply' /\ kept \o <<h>> \in Seq(Block)
    BY <1>0, <2>1, <2>2, <2>3, BlocksAssociate, ConcatProperties
  <2>6. InHand("undo")' = <<>>
    BY <2>1 DEF InHand, Applying
  <2>7. ledger' = Rebuild(kept \o <<h>>)
    BY <1>0, <2>1, <2>4
  <2>8. QED BY <2>5, <2>6, <2>7 DEF Growing
<1>3. CASE Undo
  BY <1>3 DEF Undo, Growing, InHand
<1>4. CASE \/ Judge \/ Reject \/ Accept \/ AcceptEnd \/ Publish \/ Published
           \/ DrainRemoved \/ DrainEntered \/ UNCHANGED nodeVars
           \/ (AcceptStep /\ ~TakeTip) \/ (\E p \in Peer, b \in Block : Deliver(p, b))
  <2>1. UNCHANGED <<ledger, blockchain, ToApply, ToUndo>>
    BY <1>4, PassedOn
  <2>2. QED BY <1>0, <1>03, <2>1 DEF Growing
<1>5. QED BY <1>1, <1>2, <1>3, <1>4 DEF NodeNext, Validator, Reactor

(* As long as the chain only grows, with or without payments, however far  *)
(* the reactor lags behind, the ledger accounts for the chain, if nobody   *)
(* who pays mines: otherwise a block can be refused because the coinbase   *)
(* of a later one is taken for immature (ledger.py _ensure_immature_cache).*)
THEOREM GrowingChainAccounts ==
  BlocksApply /\ NoMinerPays =>
    (NodeSpec /\ [](removedMain = <<>>) => []LedgerAccountsForChain)
<1> SUFFICES ASSUME BlocksApply, NoMinerPays
             PROVE  NodeSpec /\ [](removedMain = <<>>) => []LedgerAccountsForChain
  OBVIOUS
<1>1. NodeInit => IdleIsEmpty /\ IdleEntersNothing
  BY DEF NodeInit, Init, IdleIsEmpty, IdleEntersNothing
<1>2. NodeInit => Growing
  <2> SUFFICES ASSUME NodeInit PROVE Growing
    OBVIOUS
  <2>1. /\ ToApply = <<>> /\ InHand("undo") = <<>> /\ ledger = Rebuild(blockchain)
        /\ blockchain \in Seq(Block)
    BY NodeInitHolds DEF NodeInit, Init, ToApply, InHand, Applying, Idle, IInv, TypeOK
  <2>2. blockchain = blockchain \o <<>>
    BY <2>1, ConcatEmptySeq
  <2>3. QED BY <2>1, <2>2 DEF Growing
<1>3. IdleIsEmpty /\ IdleEntersNothing /\ [Next]_vars => IdleIsEmpty' /\ IdleEntersNothing'
  BY IdleStep, IdleEntersStep
<1>4. IInv /\ NodeTypeOK /\ IInv' /\ NodeTypeOK' /\ IdleEntersNothing /\ Growing
        /\ removedMain = <<>> /\ (removedMain = <<>>)' /\ [NodeNext]_nodeVars => Growing'
  <2> SUFFICES ASSUME IInv, NodeTypeOK, IInv', NodeTypeOK', IdleEntersNothing, Growing,
                      removedMain = <<>>, (removedMain = <<>>)', [NodeNext]_nodeVars
               PROVE  Growing'
    OBVIOUS
  <2>1. QED BY GrowingStep
<1>5. IInv /\ NodeTypeOK /\ Growing => NothingRefused
  BY GrowingNotRefused
<1>6. NodeSpec /\ []NothingRefused => []LedgerAccountsForChain
  BY LedgerAccounts
<1>7. QED BY <1>1, <1>2, <1>3, <1>4, <1>5, <1>6, NodeInitHolds, NodeStepHolds, PTL DEF NodeSpec

-----------------------------------------------------------------------------
(* A verdict on a block that extends the main chain, when nothing is on    *)
(* its way to the ledger, is the one the block deserves where it stands:   *)
(* the ledger it is judged on is the replay of what the block builds on,   *)
(* whatever the two threads did before.                                    *)
LEMMA CalmStep ==
  ASSUME NoMinerPays, IInv, NodeTypeOK, LedgerAccountsForChain, [NodeNext]_nodeVars,
         validator = Idle, validator'.at = "judged", ToApply = <<>>, ToUndo = <<>>,
         Front(Lineage[validator'.item.block]) = blockchain
  PROVE  validator'.ok <=> ValidInPlace(validator'.item.block)
<1> DEFINE it == Head(inbox)
           b  == it.block
<1>1. Judge
  <2>1. Publish \/ Reject \/ Accept \/ AcceptStep \/ AcceptEnd => FALSE
    BY DEF Publish, Reject, Accept, AcceptStep, AcceptEnd, Idle
  <2>2. Published => validator'.at # "judged"
    BY DEF Published, Idle
  <2>3. Reactor \/ (\E p \in Peer, c \in Block : Deliver(p, c)) \/ UNCHANGED nodeVars
          => validator' = validator
    BY DEF Reactor, DrainRemoved, Undo, DrainEntered, Apply, Deliver, nodeVars
  <2>4. validator.at # "judged"
    BY DEF Idle
  <2>5. QED BY <2>1, <2>2, <2>3, <2>4 DEF NodeNext, Validator
<1>2. it \in Item /\ b \in Block
  <2>1. it \in Item
    BY <1>1, HeadTailProperties DEF Judge, NodeTypeOK
  <2>2. QED BY <2>1 DEF Item
<1> HIDE DEF it
<1>3. /\ validator'.item = it
      /\ validator'.ok <=> BlockValid(b) /\ BlockTxsValid(ledger, b)
  <2>1. PICK short \in BOOLEAN :
          /\ short => SeemsShort(ledger, Txs[b], Grown)
          /\ validator' = [at |-> "judged", item |-> it,
                           ok |-> BlockValid(b) /\ BlockTxsValid(ledger, b) /\ ~short]
    BY <1>1 DEF Judge, it
  <2>2. ~short
    BY <1>2, <2>1, NobodyIsShort
  <2>3. QED BY <2>1, <2>2
<1>4. ledger = Rebuild(blockchain)
  <2>1. ledger \in LedgerState /\ DoAll(ledger, <<>>) = ledger
    BY DoFew DEF NodeTypeOK
  <2>2. RollAll(DoAll(ledger, <<>>), <<>>) = ledger
    <3>1. <<>> \in Seq(Block)
      BY EmptySeq
    <3>2. QED BY <2>1, <3>1, RollUndoesAll
  <2>3. QED BY <2>1, <2>2 DEF LedgerAccountsForChain, RollAll, DoAll
<1>5. QED BY <1>3, <1>4 DEF ValidInPlace

(* So wherever the reactor was refused nothing so far, a node at rest      *)
(* judges what extends its chain right.                                    *)
THEOREM CalmVerdicts ==
  BlocksApply /\ NoMinerPays => (NodeSpec /\ []NothingRefused => CalmVerdictRight)
<1> SUFFICES ASSUME BlocksApply, NoMinerPays
             PROVE  NodeSpec /\ []NothingRefused => CalmVerdictRight
  OBVIOUS
<1>1. IInv /\ NodeTypeOK /\ LedgerAccountsForChain /\ [NodeNext]_nodeVars
        => [ (/\ validator = Idle /\ validator'.at = "judged"
              /\ ToApply = <<>> /\ ToUndo = <<>>
              /\ Front(Lineage[validator'.item.block]) = blockchain)
             => (validator'.ok <=> ValidInPlace(validator'.item.block)) ]_nodeVars
  BY CalmStep
<1>2. NodeSpec /\ []NothingRefused => []LedgerAccountsForChain
  BY LedgerAccounts
<1>3. QED BY <1>1, <1>2, NodeInitHolds, NodeStepHolds, PTL DEF NodeSpec, CalmVerdictRight
=============================================================================
