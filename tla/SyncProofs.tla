------------------------------ MODULE SyncProofs ------------------------------
(***************************************************************************)
(* What is proved of Sync: every connected node keeps a chain like the one *)
(* Chain describes and sends nothing it does not have; the answer to a     *)
(* CHAIN_HEAD is the branch the asker lacks, as long as the fork is not    *)
(* deeper than both windows; and connected nodes have caught up with each  *)
(* other once nothing is on its way, except where one has passed the other *)
(* over.  That they then have chains of equal work does not hold of the    *)
(* code (run sync_window, and the README's list of what breaks it).        *)
(***************************************************************************)
EXTENDS Sync, LedgerProofs

(* What a node that has the blocks S may send. *)
Message(S) ==
  [type : {"HELLO", "HELLO-ACK", "HEALTHCHECK", "HEALTHACK", "GET_CHAIN_HEAD",
           "DATA-ACK", "ECHO"}]
  \cup [type : {"BLOCK"}, payload : S]
  \cup [type : {"CHAIN_HEAD"}, height : Nat, hash : S, recent : (SUBSET S) \ {{}}]
  \cup [type : {"GET_BLOCKS_FROM"}, from : Nat \cup {-1}, to : Nat]

(* Entries of Inbox._entered about the blocks S. *)
Entries(S) == [origin : Node \cup {Self}, block : S]

BlocksTypeOK ==
  /\ known \in [Node -> SUBSET Block] /\ orphans \in [Node -> SUBSET Block]
  /\ tip \in [Node -> Block]
  /\ entered \in [Node -> Seq(Entries(Block))]

(* What NodeProofs shows of Chain, at every node: no indexed block without *)
(* its ancestors, no heavier block than the tip, no orphan whose parent is *)
(* indexed; and what is to be broadcast is indexed.                        *)
KeepsChain(n) ==
  /\ tip[n] \in known[n]
  /\ \A b \in known[n] : Ancestry(b) \subseteq known[n] /\ ChainWork[b] <= ChainWork[tip[n]]
  /\ known[n] \cap orphans[n] = {}
  /\ \A o \in orphans[n] : o \notin Root /\ Parent[o] \notin known[n]
  /\ entered[n] \in Seq(Entries(known[n]))

NodesKeepChains == \A n \in Node : KeepsChain(n)

WireTypeOK ==
  /\ linked \subseteq Pair
  /\ wire \in [Pair -> Seq(Message(Block))]
  /\ heard \in [Pair -> Nat] /\ missed \subseteq Pair

(* Both ends know of a connection, there is nothing on the way where there *)
(* is none, and no node names a block that it has not indexed.             *)
SentIsKnown ==
  /\ \A m, n \in Node : <<m, n>> \in linked => <<n, m>> \in linked
  /\ \A p \in Pair : wire[p] # <<>> => p \in linked
  /\ \A m, n \in Node : wire[<<m, n>>] \in Seq(Message(known[m]))

SyncInv == BlocksTypeOK /\ NodesKeepChains /\ WireTypeOK /\ SentIsKnown
-----------------------------------------------------------------------------
(* A block is one longer than its parent. *)
LEMMA ChildIsLonger ==
  ASSUME NEW b \in Block \ Root
  PROVE  /\ Parent[b] \in Block
         /\ Len(Lineage[b]) = Len(Lineage[Parent[b]]) + 1
<1>1. Parent[b] \in Block
  BY BlockAssumption
<1>2. Lineage[Parent[b]] \in Seq(Block) /\ Lineage[b] = Append(Lineage[Parent[b]], b)
  BY <1>1, LineageAssumption
<1>3. QED BY <1>1, <1>2, AppendProperties

(* No ancestor carries more work. *)
LEMMA AncestorsWeighLess ==
  \A b \in Block : \A x \in Ancestry(b) : ChainWork[x] <= ChainWork[b]
<1> DEFINE Bad == {b \in Block : \E x \in Ancestry(b) : ~(ChainWork[x] <= ChainWork[b])}
           Lengths == {Len(Lineage[b]) : b \in Bad}
<1>1. SUFFICES ASSUME Bad # {} PROVE FALSE
  OBVIOUS
<1>2. Lengths \subseteq Nat /\ Lengths # {}
  BY <1>1, LineageEnds
<1>3. \E n \in Lengths : \A m \in Lengths : n <= m
  <2> HIDE DEF Lengths
  <2>1. QED BY <1>2, HasLeast
<1>4. PICK b \in Bad : \A c \in Bad : Len(Lineage[b]) <= Len(Lineage[c])
  BY <1>3
<1>5. PICK x \in Ancestry(b) : ~(ChainWork[x] <= ChainWork[b])
  BY <1>4
<1>6. b \in Block /\ x \in Block /\ ChainWork[b] \in Nat /\ ChainWork[x] \in Nat
  BY <1>5, AncestryStep, ChainWorkAssumption
<1>7. CASE b \in Root
  <2>1. x = b
    BY <1>5, <1>6, <1>7, AncestryStep
  <2>2. QED BY <2>1, <1>5, <1>6
<1>8. CASE b \notin Root
  <2>1. Parent[b] \in Block /\ Len(Lineage[b]) = Len(Lineage[Parent[b]]) + 1
    BY <1>6, <1>8, ChildIsLonger
  <2>2. Len(Lineage[Parent[b]]) \in Nat
    BY <2>1, LineageEnds
  <2>3. ChainWork[b] = ChainWork[Parent[b]] + Work[b] /\ Work[b] \in Nat
        /\ ChainWork[Parent[b]] \in Nat
    BY <2>1, <1>6, <1>8, ChainWorkAssumption, BlockAssumption
  <2>4. Parent[b] \notin Bad
    BY <2>1, <2>2, <1>4
  <2>5. x \in Ancestry(Parent[b]) \/ x = b
    BY <1>5, <1>6, <1>8, AncestryStep
  <2>6. CASE x = b
    BY <2>6, <1>5, <1>6
  <2>7. CASE x \in Ancestry(Parent[b])
    <3>1. ChainWork[x] <= ChainWork[Parent[b]]
      BY <2>1, <2>4, <2>7
    <3>2. QED BY <3>1, <2>3, <1>5, <1>6
  <2>8. QED BY <2>5, <2>6, <2>7
<1>9. QED BY <1>7, <1>8

(* Of two blocks of one lineage the lower one is an ancestor of the other. *)
LEMMA AncestorsInLine ==
  ASSUME NEW b \in Block, NEW x \in Ancestry(b), NEW y \in Ancestry(b), x \notin Ancestry(y)
  PROVE  y \in Ancestry(x)
<1> DEFINE i == Len(Lineage[x])
           j == Len(Lineage[y])
<1>1. /\ x \in Block /\ i \in 1..Len(Lineage[b]) /\ SubSeq(Lineage[b], 1, i) = Lineage[x]
      /\ Lineage[b][i] = x
  BY AncestorPosition
<1>2. /\ y \in Block /\ j \in 1..Len(Lineage[b]) /\ SubSeq(Lineage[b], 1, j) = Lineage[y]
      /\ Lineage[b][j] = y
  BY AncestorPosition
<1>3. Lineage[b] \in Seq(Block) /\ Len(Lineage[b]) \in Nat
  BY LineageEnds
<1>4. ASSUME NEW k \in 1..Len(Lineage[b]), NEW l \in 1..k
      PROVE  SubSeq(Lineage[b], 1, k)[l] = Lineage[b][l]
  <2>1. k \in 0..Len(Lineage[b])
    BY <1>3
  <2>2. QED BY <2>1, <1>3, CutList
<1>5. ASSUME i <= j PROVE FALSE
  <2>1. i \in 1..j
    BY <1>1, <1>2, <1>3, <1>5
  <2>2. Lineage[y][i] = x
    BY <2>1, <1>1, <1>2, <1>4
  <2>3. x \in Ancestry(y)
    BY <2>1, <2>2, <1>2, LineagePosition
  <2>4. QED BY <2>3
<1>6. j \in 1..i
  BY <1>1, <1>2, <1>3, <1>5
<1>7. Lineage[x][j] = y
  BY <1>6, <1>1, <1>2, <1>4
<1>8. QED BY <1>6, <1>7, <1>1, LineagePosition

(* The part of a branch above a fork is a list of its blocks. *)
LEMMA AboveInBranch ==
  ASSUME NEW x \in Block, NEW y \in Block
  PROVE  /\ Above(x, y) \in Seq(Ancestry(x))
         /\ Len(Above(x, y)) = Len(Lineage[x]) - Cardinality(Ancestry(x) \cap Ancestry(y))
         /\ \A i \in 1..Len(Above(x, y)) :
              Above(x, y)[i] = Lineage[x][Cardinality(Ancestry(x) \cap Ancestry(y)) + i]
<1> DEFINE n == Cardinality(Ancestry(x) \cap Ancestry(y))
           L == Lineage[x]
<1>1. L \in Seq(Block) /\ Len(L) \in Nat
  BY LineageEnds
<1>2. n \in 0..Len(L)
  BY SharedBeginning
<1>3. \A i \in 1..Len(L) : L[i] \in Ancestry(x)
  BY LineagePosition
<1>4. Above(x, y) = SubSeq(L, n + 1, Len(L))
  BY DEF Above
<1> HIDE DEF n, L
<1>5. \A i \in n + 1..Len(L) : L[i] \in Ancestry(x)
  BY <1>1, <1>2, <1>3
<1>6. n + 1 \in Int /\ Len(L) \in Int
  BY <1>1, <1>2
<1>7. /\ SubSeq(L, n + 1, Len(L)) \in Seq(Ancestry(x))
      /\ Len(SubSeq(L, n + 1, Len(L))) = IF n + 1 <= Len(L) THEN Len(L) - (n + 1) + 1 ELSE 0
      /\ \A i \in 1..Len(L) - (n + 1) + 1 : SubSeq(L, n + 1, Len(L))[i] = L[(n + 1) + i - 1]
  BY <1>5, <1>6, SubSeqProperties
<1>8. Len(SubSeq(L, n + 1, Len(L))) = Len(L) - n
  BY <1>1, <1>2, <1>7
<1>9. \A i \in 1..Len(L) - n : SubSeq(L, n + 1, Len(L))[i] = L[n + i]
  <2>1. TAKE i \in 1..Len(L) - n
  <2>2. i \in 1..Len(L) - (n + 1) + 1 /\ (n + 1) + i - 1 = n + i
    BY <1>1, <1>2
  <2>3. QED BY <2>2, <1>7
<1>10. QED BY <1>4, <1>7, <1>8, <1>9 DEF n, L
-----------------------------------------------------------------------------
(* More blocks let a node say more. *)
LEMMA MessagesGrow ==
  ASSUME NEW S, NEW T, S \subseteq T
  PROVE  Message(S) \subseteq Message(T) /\ Entries(S) \subseteq Entries(T)
<1>1. (SUBSET S) \ {{}} \subseteq (SUBSET T) \ {{}}
  OBVIOUS
<1>2. QED BY <1>1 DEF Message, Entries

(* A block whose parent is indexed brings along whole branches of orphans: *)
(* what is indexed stays closed under ancestors, and no orphan is left     *)
(* behind that could have come.                                            *)
LEMMA ReleasedClosed ==
  ASSUME BlocksTypeOK, NEW n \in Node, KeepsChain(n), NEW b \in Block,
         b \notin known[n] \cup orphans[n], b \notin Root => Parent[b] \in known[n]
  PROVE  LET new == {b} \cup Released(n, b)
         IN  /\ new \subseteq Block
             /\ \A x \in known[n] \cup new : Ancestry(x) \subseteq known[n] \cup new
             /\ \A o \in orphans[n] \ new : Parent[o] \notin known[n] \cup new
<1> DEFINE new == {b} \cup Released(n, b)
<1>1. /\ known[n] \subseteq Block /\ orphans[n] \subseteq Block
      /\ Released(n, b) \subseteq orphans[n]
  BY DEF BlocksTypeOK, Released
<1>2. Ancestry(b) \subseteq known[n] \cup {b}
  BY AncestryStep DEF KeepsChain
<1>3. ASSUME NEW x \in Released(n, b), NEW y \in Ancestry(x)
      PROVE  y \in known[n] \cup new
  <2>1. CASE y \in Ancestry(b)
    BY <2>1, <1>2
  <2>2. CASE y \notin Ancestry(b)
    <3>1. b \in Ancestry(x) /\ Ancestry(x) \ Ancestry(b) \subseteq orphans[n] /\ x \in Block
      BY <1>1 DEF Released
    <3>2. b \in Ancestry(y)
      BY <3>1, <2>2, AncestorsInLine
    <3>3. Ancestry(y) \subseteq Ancestry(x)
      BY <3>1, AncestryTransitive
    <3>4. y \in Released(n, b)
      BY <3>1, <3>2, <3>3, <2>2 DEF Released
    <3>5. QED BY <3>4
  <2>3. QED BY <2>1, <2>2
<1>4. ASSUME NEW o \in orphans[n], Parent[o] \in known[n] \cup new
      PROVE  o \in new
  <2>1. o \in Block /\ o \notin Root /\ Parent[o] \notin known[n]
    BY <1>1 DEF KeepsChain
  <2>2. Ancestry(o) = Ancestry(Parent[o]) \cup {o}
    BY <2>1, AncestryStep
  <2>3. CASE Parent[o] = b
    <3>1. b \in Ancestry(b)
      BY AncestryStep
    <3>2. o \in Released(n, b)
      BY <3>1, <2>2, <2>3 DEF Released
    <3>3. QED BY <3>2
  <2>4. CASE Parent[o] \in Released(n, b)
    <3>1. b \in Ancestry(Parent[o]) /\ Ancestry(Parent[o]) \ Ancestry(b) \subseteq orphans[n]
      BY <2>4 DEF Released
    <3>2. o \in Released(n, b)
      BY <3>1, <2>2 DEF Released
    <3>3. QED BY <3>2
  <2>5. QED BY <2>1, <2>3, <2>4, <1>4
<1>5. \A x \in known[n] \cup new : Ancestry(x) \subseteq known[n] \cup new
  BY <1>2, <1>3 DEF KeepsChain
<1>6. QED BY <1>1, <1>4, <1>5

(* What enters the main chain of a node is listed for the reactor. *)
LEMMA EnteredEntries ==
  ASSUME NEW n \in Node, NEW origin \in Node \cup {Self}, NEW S, NEW path \in Seq(S)
  PROVE  [i \in DOMAIN path |-> [origin |-> origin, block |-> path[i]]] \in Seq(Entries(S))
<1>1. /\ Len(path) \in Nat /\ DOMAIN path = 1..Len(path)
      /\ \A i \in 1..Len(path) : path[i] \in S
  BY LenProperties, ElementOfSeq
<1>2. \A i \in 1..Len(path) : [origin |-> origin, block |-> path[i]] \in Entries(S)
  BY <1>1 DEF Entries
<1>3. QED BY <1>1, <1>2

(* A block that a node accepts keeps its chain a chain, and the other      *)
(* nodes are left alone.                                                   *)
LEMMA AcceptKeeps ==
  ASSUME BlocksTypeOK, NodesKeepChains, NEW n \in Node,
         NEW origin \in Node \cup {Self}, NEW b \in Block, AcceptFrom(origin, n, b)
  PROVE  /\ BlocksTypeOK' /\ NodesKeepChains'
         /\ \A m \in Node : known[m] \subseteq known'[m]
<1>0. KeepsChain(n) /\ known[n] \subseteq Block /\ orphans[n] \subseteq Block /\ tip[n] \in Block
  BY DEF NodesKeepChains, BlocksTypeOK
<1>1. CASE UNCHANGED blocks
  BY <1>1 DEF blocks, BlocksTypeOK, NodesKeepChains, KeepsChain
<1>2. CASE /\ b \notin known[n] \cup orphans[n] /\ b \notin Root /\ Parent[b] \notin known[n]
           /\ orphans' = [orphans EXCEPT ![n] = @ \cup {b}]
           /\ UNCHANGED <<known, tip, entered>>
  <2>1. BlocksTypeOK'
    BY <1>2 DEF BlocksTypeOK
  <2>2. orphans'[n] = orphans[n] \cup {b} /\ \A m \in Node \ {n} : orphans'[m] = orphans[m]
    BY <1>2 DEF BlocksTypeOK
  <2>3. KeepsChain(n)'
    BY <1>0, <1>2, <2>2 DEF KeepsChain
  <2>4. \A m \in Node \ {n} : KeepsChain(m)'
    BY <1>2, <2>2 DEF KeepsChain, NodesKeepChains
  <2>6. QED BY <1>2, <2>1, <2>2, <2>3, <2>4 DEF NodesKeepChains
<1>3. CASE b \notin known[n] \cup orphans[n] /\ (b \notin Root => Parent[b] \in known[n])
  <2> DEFINE new  == {b} \cup Released(n, b)
             best == {x \in new : \A y \in new : ChainWork[y] <= ChainWork[x]}
  <2>1. /\ new \subseteq Block
        /\ \A x \in known[n] \cup new : Ancestry(x) \subseteq known[n] \cup new
        /\ \A o \in orphans[n] \ new : Parent[o] \notin known[n] \cup new
    BY <1>0, <1>3, ReleasedClosed
  <2>2. PICK x \in best :
          /\ known' = [known EXCEPT ![n] = @ \cup new]
          /\ orphans' = [orphans EXCEPT ![n] = @ \ new]
          /\ IF ChainWork[x] <= ChainWork[tip[n]] THEN UNCHANGED <<tip, entered>>
             ELSE /\ tip' = [tip EXCEPT ![n] = x]
                  /\ entered' = [entered EXCEPT ![n] =
                       @ \o [i \in DOMAIN Above(x, tip[n]) |->
                                [origin |-> origin, block |-> Above(x, tip[n])[i]]]]
    BY <1>3 DEF AcceptFrom
  <2> HIDE DEF new
  <2>3. x \in new /\ x \in Block /\ \A y \in new : ChainWork[y] <= ChainWork[x]
    BY <2>1, <2>2
  <2>4. /\ known'[n] = known[n] \cup new /\ \A m \in Node \ {n} : known'[m] = known[m]
        /\ orphans'[n] = orphans[n] \ new /\ \A m \in Node \ {n} : orphans'[m] = orphans[m]
        /\ known' \in [Node -> SUBSET Block] /\ orphans' \in [Node -> SUBSET Block]
    BY <2>1, <2>2 DEF BlocksTypeOK
  <2>5. \A y \in Block : ChainWork[y] \in Nat
    BY ChainWorkAssumption
  <2>6. \A m \in Node : /\ entered[m] \in Seq(Entries(known'[m]))
                        /\ entered[m] \in Seq(Entries(Block))
    <3>1. TAKE m \in Node
    <3>2. entered[m] \in Seq(Entries(known[m])) /\ known[m] \subseteq known'[m]
      BY <2>4 DEF NodesKeepChains, KeepsChain
    <3>3. Entries(known[m]) \subseteq Entries(known'[m])
      BY <3>2, MessagesGrow
    <3>4. QED BY <3>2, <3>3, SeqMonotonic DEF BlocksTypeOK
  <2>7. /\ tip' \in [Node -> Block] /\ tip'[n] \in known'[n]
        /\ \A y \in known'[n] : ChainWork[y] <= ChainWork[tip'[n]]
        /\ \A m \in Node \ {n} : tip'[m] = tip[m]
    <3>1. CASE ChainWork[x] <= ChainWork[tip[n]]
      <4>1. tip' = tip
        BY <2>2, <3>1
      <4>2. \A y \in new : ChainWork[y] <= ChainWork[tip[n]]
        BY <2>1, <2>3, <2>5, <3>1, <1>0
      <4>3. QED BY <4>1, <4>2, <2>4, <1>0 DEF BlocksTypeOK, KeepsChain
    <3>2. CASE ~(ChainWork[x] <= ChainWork[tip[n]])
      <4>1. tip' = [tip EXCEPT ![n] = x]
        BY <2>2, <3>2
      <4>2. tip' \in [Node -> Block] /\ tip'[n] = x /\ \A m \in Node \ {n} : tip'[m] = tip[m]
        BY <4>1, <2>3 DEF BlocksTypeOK
      <4>3. ChainWork[x] > ChainWork[tip[n]]
        BY <2>3, <2>5, <3>2, <1>0
      <4>4. \A y \in known[n] : ChainWork[y] <= ChainWork[x]
        <5>1. TAKE y \in known[n]
        <5>2. ChainWork[y] <= ChainWork[tip[n]] /\ y \in Block
          BY <1>0 DEF KeepsChain
        <5>3. QED BY <5>2, <4>3, <2>3, <2>5, <1>0
      <4>5. QED BY <4>2, <4>3, <4>4, <2>3, <2>4
    <3>3. QED BY <3>1, <3>2
  <2>8. /\ entered' \in [Node -> Seq(Entries(Block))]
        /\ \A m \in Node : entered'[m] \in Seq(Entries(known'[m]))
    <3>1. CASE ChainWork[x] <= ChainWork[tip[n]]
      BY <2>2, <2>6, <3>1 DEF BlocksTypeOK
    <3>2. CASE ~(ChainWork[x] <= ChainWork[tip[n]])
      <4> DEFINE more == [i \in DOMAIN Above(x, tip[n]) |->
                            [origin |-> origin, block |-> Above(x, tip[n])[i]]]
      <4>1. entered' = [entered EXCEPT ![n] = @ \o more]
        BY <2>2, <3>2
      <4>2. Above(x, tip[n]) \in Seq(Ancestry(x)) /\ Ancestry(x) \subseteq known'[n]
        BY <2>1, <2>3, <2>4, <1>0, AboveInBranch
      <4>3. Above(x, tip[n]) \in Seq(known'[n]) /\ known'[n] \subseteq Block
        BY <4>2, <2>4, SeqMonotonic
      <4>4. more \in Seq(Entries(known'[n]))
        BY <4>3, EnteredEntries
      <4>5. more \in Seq(Entries(Block))
        <5>1. Entries(known'[n]) \subseteq Entries(Block)
          BY <4>3, MessagesGrow
        <5>2. QED BY <4>4, <5>1, SeqMonotonic
      <4> HIDE DEF more
      <4>6. entered[n] \o more \in Seq(Entries(known'[n]))
            /\ entered[n] \o more \in Seq(Entries(Block))
        BY <2>6, <4>4, <4>5, ConcatProperties
      <4>7. /\ entered'[n] = entered[n] \o more
            /\ \A m \in Node \ {n} : entered'[m] = entered[m]
            /\ entered' \in [Node -> Seq(Entries(Block))]
        BY <4>1, <4>6 DEF BlocksTypeOK
      <4>8. \A m \in Node : entered'[m] \in Seq(Entries(known'[m]))
        <5>1. TAKE m \in Node
        <5>2. CASE m = n
          BY <4>6, <4>7, <5>2
        <5>3. CASE m # n
          BY <4>7, <2>6, <5>3
        <5>4. QED BY <5>2, <5>3
      <4>9. QED BY <4>7, <4>8
    <3>3. QED BY <3>1, <3>2
  <2>9. KeepsChain(n)'
    <3>1. known'[n] \cap orphans'[n] = {}
      BY <2>3, <2>4, <1>0, <1>3 DEF KeepsChain
    <3>2. \A o \in orphans'[n] : o \notin Root /\ Parent[o] \notin known'[n]
      BY <2>1, <2>4, <1>0 DEF KeepsChain
    <3>3. QED BY <2>1, <2>4, <2>7, <2>8, <3>1, <3>2 DEF KeepsChain
  <2>10. \A m \in Node \ {n} : KeepsChain(m)'
    BY <2>4, <2>7, <2>8 DEF KeepsChain, NodesKeepChains
  <2>11. QED BY <2>4, <2>7, <2>8, <2>9, <2>10 DEF BlocksTypeOK, NodesKeepChains
<1>4. QED BY <1>1, <1>2, <1>3 DEF AcceptFrom
-----------------------------------------------------------------------------
(* The height of a block is a natural. *)
LEMMA HeightType ==
  ASSUME NEW b \in Block
  PROVE  HeightOf(b) \in Nat /\ Len(Lineage[b]) = HeightOf(b) + 1
  BY LineageEnds DEF HeightOf

(* What chain_recent lists is a part of the main chain with the tip in it. *)
LEMMA RecentIsChain ==
  ASSUME NEW n \in Node, tip[n] \in Block, NEW count \in Nat \ {0}
  PROVE  /\ Recent(n, count) \subseteq Ancestry(tip[n]) /\ tip[n] \in Recent(n, count)
         /\ Recent(n, count) \subseteq Block
         /\ \A b \in Recent(n, count) : HeightOf(b) \in 0..HeightAt(n)
<1>1. tip[n] \in Ancestry(tip[n]) /\ Ancestry(tip[n]) \subseteq Block
  BY AncestryStep
<1>2. HeightAt(n) \in Nat /\ HeightAt(n) > HeightAt(n) - count
  BY HeightType DEF HeightAt
<1>3. ASSUME NEW b \in Ancestry(tip[n]) PROVE HeightOf(b) \in 0..HeightAt(n)
  <2>1. Len(Lineage[b]) \in 1..Len(Lineage[tip[n]]) /\ Len(Lineage[tip[n]]) \in Nat
    BY AncestorPosition, LineageEnds
  <2>2. QED BY <2>1 DEF HeightOf, HeightAt
<1>4. QED BY <1>1, <1>2, <1>3 DEF Recent, HeightAt

(* The fork height is a height, or one below the genesis block. *)
LEMMA ForkHeightType ==
  ASSUME NEW n \in Node, tip[n] \in Block, NEW recent \in (SUBSET Block) \ {{}}
  PROVE  ForkHeight(n, recent) \in Nat \cup {-1}
<1> DEFINE common == {HeightOf(b) : b \in recent \cap Recent(n, LocalWindow)}
           listed == {HeightOf(b) : b \in recent}
<1>1. common \subseteq 0..HeightAt(n) /\ HeightAt(n) \in Nat
  BY SyncAssumption, RecentIsChain, HeightType DEF HeightAt
<1>2. listed \subseteq Nat /\ listed # {}
  BY HeightType
<1>3. ForkHeight(n, recent) = IF common # {} THEN Max(common) ELSE Min(listed) - 1
  BY DEF ForkHeight
<1> HIDE DEF common, listed
<1>4. CASE common # {}
  <2>1. \E x \in common : \A y \in common : y <= x
    BY <1>1, <1>4, HasGreatest
  <2>2. \E x \in common : \A y \in common : x >= y
    BY <2>1, <1>1
  <2>3. Max(common) \in common
    BY <2>2 DEF Max
  <2>4. ForkHeight(n, recent) = Max(common)
    BY <1>3, <1>4
  <2>5. \A x \in common : x \in Nat
    BY <1>1
  <2>6. QED BY <2>3, <2>4, <2>5
<1>5. CASE common = {}
  <2>1. \E x \in listed : \A y \in listed : x <= y
    BY <1>2, HasLeast
  <2>2. Min(listed) \in listed
    BY <2>1 DEF Min
  <2>3. ForkHeight(n, recent) = Min(listed) - 1
    BY <1>3, <1>5
  <2>4. \A x \in Nat : x - 1 \in Nat \cup {-1}
    OBVIOUS
  <2>5. QED BY <2>2, <2>3, <2>4, <1>2
<1>6. QED BY <1>4, <1>5

(* What GET_BLOCKS_FROM is answered with: blocks of the main chain. *)
LEMMA BlocksFromChain ==
  ASSUME NEW n \in Node, tip[n] \in Block, NEW from \in Nat \cup {-1}, NEW to \in Nat
  PROVE  BlocksFrom(n, from, to) \in Seq(Message(Ancestry(tip[n])))
<1> DEFINE c == chain(n)
           h == HeightAt(n)
           upto == Min({to, h})
<1>1. h \in Nat /\ Len(c) = h + 1
  BY HeightType DEF HeightAt, chain
<1>2. \A i \in 1..Len(c) : c[i] \in Ancestry(tip[n])
  BY LineagePosition DEF chain
<1>3. upto \in Nat /\ upto <= h /\ upto <= to
  BY <1>1 DEF Min
<1>4. BlocksFrom(n, from, to) = [i \in 1..upto - from |-> BlockMsg(c[from + 1 + i])]
  BY DEF BlocksFrom
<1> HIDE DEF c, h, upto
<1>5. ASSUME NEW i \in 1..upto - from
      PROVE  BlockMsg(c[from + 1 + i]) \in Message(Ancestry(tip[n]))
  <2>1. from + 1 + i \in 1..Len(c)
    BY <1>1, <1>3
  <2>2. c[from + 1 + i] \in Ancestry(tip[n])
    BY <2>1, <1>2
  <2>3. QED BY <2>2 DEF BlockMsg, Plain, Message
<1>6. CASE upto - from \in Nat
  <2> DEFINE k == upto - from
  <2>1. k \in Nat /\ \A i \in 1..k : BlockMsg(c[from + 1 + i]) \in Message(Ancestry(tip[n]))
    BY <1>5, <1>6
  <2> HIDE DEF k
  <2>2. [i \in 1..k |-> BlockMsg(c[from + 1 + i])] \in Seq(Message(Ancestry(tip[n])))
    BY <2>1
  <2>3. QED BY <2>2, <1>4 DEF k
<1>7. CASE upto - from \notin Nat
  <2>1. upto - from < 1
    BY <1>3, <1>7
  <2>2. 1..upto - from = {}
    BY <1>3, <2>1
  <2>3. [i \in 1..upto - from |-> BlockMsg(c[from + 1 + i])] = <<>>
    BY <2>2
  <2>4. QED BY <2>3, <1>4, EmptySeq
<1>8. QED BY <1>6, <1>7

(* A handler sends messages a node may send, on a connection that exists.  *)
LEMMA AnswerKeeps ==
  ASSUME WireTypeOK, SentIsKnown, BlocksTypeOK, BlocksTypeOK',
         NEW m \in Node, NEW n \in Node, NEW types, NEW reply \in Seq(Message(known[n])),
         Answer(m, n, types, reply), \A x \in Node : known[x] \subseteq known'[x]
  PROVE  WireTypeOK' /\ SentIsKnown'
<1> DEFINE sent == IF Over(m, n) THEN <<>> ELSE reply
           there == <<m, n>>
           back == <<n, m>>
<1>1. /\ there \in Pair /\ back \in Pair /\ wire \in [Pair -> Seq(Message(Block))]
      /\ wire[there] # <<>> /\ there \in linked /\ back \in linked /\ linked' = linked
  BY DEF WireTypeOK, SentIsKnown, Answer, Pair
<1>2. wire' = [wire EXCEPT ![there] = Tail(@), ![back] = @ \o sent]
  BY DEF Answer
<1>3. sent \in Seq(Message(known[n]))
  <2>1. <<>> \in Seq(Message(known[n]))
    BY EmptySeq
  <2>2. QED BY <2>1
<1>4. ASSUME NEW S, NEW p \in Pair, wire[p] \in Seq(S), p = back => sent \in Seq(S)
      PROVE  wire'[p] \in Seq(S)
  <2> HIDE DEF sent
  <2>1. there \in Pair => (wire[there] \in Seq(S) => Tail(wire[there]) \in Seq(S))
    BY <1>1, HeadTailProperties
  <2>2. CASE p # back
    BY <1>1, <1>2, <1>4, <2>1, <2>2
  <2>3. CASE p = back /\ there # back
    <3>1. wire'[p] = wire[p] \o sent
      BY <1>1, <1>2, <2>3
    <3>2. QED BY <3>1, <1>4, <2>3, ConcatProperties
  <2>4. CASE p = back /\ there = back
    <3>1. wire'[p] = Tail(wire[p]) \o sent
      BY <1>1, <1>2, <2>4
    <3>2. p = there /\ wire[there] \in Seq(S) /\ sent \in Seq(S)
      BY <1>4, <2>4
    <3>3. Tail(wire[p]) \in Seq(S)
      BY <3>2, <2>1, <1>1
    <3>4. QED BY <3>1, <3>2, <3>3, ConcatProperties
  <2>5. QED BY <2>2, <2>3, <2>4
<1>5. ASSUME NEW x \in Node PROVE Message(known[x]) \subseteq Message(Block)
  BY MessagesGrow DEF BlocksTypeOK
<1>6. \A p \in Pair : wire'[p] \in Seq(Message(Block))
  <2>1. sent \in Seq(Message(Block))
    <3> HIDE DEF sent
    <3>1. QED BY <1>3, <1>5, SeqMonotonic
  <2>2. QED BY <1>1, <1>4, <2>1
<1>7. \A x, y \in Node : wire'[<<x, y>>] \in Seq(Message(known'[x]))
  <2>1. TAKE x, y \in Node
  <2>2. Message(known[x]) \subseteq Message(known'[x])
    BY MessagesGrow
  <2>3. wire[<<x, y>>] \in Seq(Message(known[x])) /\ <<x, y>> \in Pair
    BY DEF SentIsKnown, Pair
  <2>4. <<x, y>> = back => sent \in Seq(Message(known[x]))
    BY <1>3
  <2>5. wire'[<<x, y>>] \in Seq(Message(known[x]))
    BY <2>3, <2>4, <1>4
  <2>6. QED BY <2>2, <2>5, SeqMonotonic
<1>8. wire' \in [Pair -> Seq(Message(Block))]
  <2> HIDE DEF sent, there, back
  <2>1. wire' = [p \in Pair |-> wire'[p]]
    BY <1>1, <1>2
  <2>2. QED BY <2>1, <1>6
<1>9. \A p \in Pair : wire'[p] # <<>> => p \in linked'
  <2>1. TAKE p \in Pair
  <2>2. CASE p \in {there, back}
    BY <1>1, <2>2
  <2>3. CASE p \notin {there, back}
    <3>1. wire'[p] = wire[p]
      BY <1>1, <1>2, <2>3
    <3>2. QED BY <3>1, <1>1 DEF SentIsKnown
  <2>4. QED BY <2>2, <2>3
<1>10. heard' \in [Pair -> Nat] /\ missed' \subseteq Pair
  <2>1. heard' = [heard EXCEPT ![there] = @ + 1]
    BY DEF Answer
  <2>2. missed' \subseteq missed \cup {there, back}
    BY DEF Answer
  <2> HIDE DEF there, back
  <2>3. heard \in [Pair -> Nat] /\ missed \subseteq Pair /\ there \in Pair /\ back \in Pair
    BY <1>1 DEF WireTypeOK
  <2>4. heard[there] + 1 \in Nat
    BY <2>3
  <2>5. heard' \in [Pair -> Nat]
    BY <2>1, <2>3, <2>4
  <2>6. missed' \subseteq Pair
    BY <2>2, <2>3
  <2>7. QED BY <2>5, <2>6
<1>11. QED BY <1>1, <1>7, <1>8, <1>9, <1>10 DEF WireTypeOK, SentIsKnown

(* Without a step on the blocks nothing changes for the chains. *)
LEMMA BlocksStay ==
  ASSUME BlocksTypeOK, NodesKeepChains, UNCHANGED blocks
  PROVE  /\ BlocksTypeOK' /\ NodesKeepChains'
         /\ \A m \in Node : known[m] \subseteq known'[m]
  BY DEF blocks, BlocksTypeOK, NodesKeepChains, KeepsChain

(* What a message says. *)
LEMMA IncomingType ==
  ASSUME BlocksTypeOK, SentIsKnown, NEW m \in Node, NEW n \in Node, wire[<<m, n>>] # <<>>
  PROVE  LET msg == Incoming(m, n)
         IN  /\ msg.type = "BLOCK" => msg.payload \in Block
             /\ msg.type = "CHAIN_HEAD" => /\ msg.height \in Nat
                                           /\ msg.recent \in (SUBSET Block) \ {{}}
             /\ msg.type = "GET_BLOCKS_FROM" => /\ msg.from \in Nat \cup {-1}
                                                /\ msg.to \in Nat
<1> DEFINE msg == Incoming(m, n)
<1>1. wire[<<m, n>>] \in Seq(Message(known[m])) /\ known[m] \subseteq Block
  BY DEF SentIsKnown, BlocksTypeOK
<1>2. msg \in Message(known[m])
  BY <1>1, HeadTailProperties DEF Incoming
<1>3. Message(known[m]) \subseteq Message(Block)
  BY <1>1, MessagesGrow
<1>4. msg \in Message(Block)
  BY <1>2, <1>3
<1> HIDE DEF msg
<1>5. /\ msg.type = "BLOCK" => msg.payload \in Block
      /\ msg.type = "CHAIN_HEAD" => /\ msg.height \in Nat
                                    /\ msg.recent \in (SUBSET Block) \ {{}}
      /\ msg.type = "GET_BLOCKS_FROM" => /\ msg.from \in Nat \cup {-1}
                                         /\ msg.to \in Nat
  BY <1>4 DEF Message
<1>6. QED BY <1>5 DEF msg

(* Every handler answers with messages the node may send. *)
LEMMA ReceiveKeeps ==
  ASSUME SyncInv, NEW m \in Node, NEW n \in Node, Receive(m, n)
  PROVE  SyncInv'
<1>1. /\ BlocksTypeOK /\ NodesKeepChains /\ WireTypeOK /\ SentIsKnown
      /\ tip[n] \in Block /\ known[n] \subseteq Block
      /\ tip[n] \in known[n] /\ Ancestry(tip[n]) \subseteq known[n]
  BY DEF SyncInv, NodesKeepChains, BlocksTypeOK, KeepsChain
<1>2. ASSUME UNCHANGED blocks, NEW types, NEW reply \in Seq(Message(known[n])),
             Answer(m, n, types, reply)
      PROVE  SyncInv'
  BY <1>1, <1>2, BlocksStay, AnswerKeeps DEF SyncInv
<1>3. \A t \in {"HELLO-ACK", "HEALTHACK", "GET_CHAIN_HEAD", "DATA-ACK", "ECHO"} :
        Plain(t) \in Message(known[n])
  BY DEF Plain, Message
<1>4. CASE OnHello(m, n)
  <2>1. <<Plain("HELLO-ACK"), Plain("GET_CHAIN_HEAD")>> \in Seq(Message(known[n]))
    BY <1>3
  <2>2. QED BY <2>1, <1>2, <1>4 DEF OnHello
<1>5. CASE OnHealthcheck(m, n)
  <2>1. <<Plain("HEALTHACK")>> \in Seq(Message(known[n]))
    BY <1>3
  <2>2. QED BY <2>1, <1>2, <1>5 DEF OnHealthcheck
<1>6. CASE OnDataAck(m, n)
  <2>1. <<Plain("ECHO")>> \in Seq(Message(known[n]))
    BY <1>3
  <2>2. QED BY <2>1, <1>2, <1>6 DEF OnDataAck
<1>7. CASE OnSilent(m, n)
  <2>1. <<>> \in Seq(Message(known[n]))
    BY EmptySeq
  <2>2. QED BY <2>1, <1>2, <1>7 DEF OnSilent
<1>8. CASE OnGetChainHead(m, n)
  <2>1. /\ Recent(n, Window) \in (SUBSET known[n]) \ {{}}
        /\ HeightAt(n) \in Nat
    BY <1>1, RecentIsChain, HeightType, SyncAssumption DEF HeightAt
  <2>2. ChainHead(n) \in Message(known[n])
    BY <2>1, <1>1 DEF ChainHead, Message
  <2>3. <<ChainHead(n)>> \in Seq(Message(known[n]))
    BY <2>2
  <2>4. QED BY <2>3, <1>2, <1>8 DEF OnGetChainHead
<1>9. CASE OnChainHead(m, n)
  <2> DEFINE msg == Incoming(m, n)
             ask == [type |-> "GET_BLOCKS_FROM", from |-> ForkHeight(n, msg.recent),
                     to |-> msg.height]
             reply == IF Wants(n, msg) THEN <<ask>> ELSE <<>>
  <2>1. wire[<<m, n>>] # <<>> /\ msg.type = "CHAIN_HEAD"
    BY <1>9 DEF OnChainHead, Answer
  <2>2. msg.height \in Nat /\ msg.recent \in (SUBSET Block) \ {{}}
    BY <2>1, <1>1, IncomingType
  <2>3. ForkHeight(n, msg.recent) \in Nat \cup {-1}
    BY <2>2, <1>1, ForkHeightType
  <2>4. ask \in Message(known[n])
    BY <2>2, <2>3 DEF Message
  <2>5. reply \in Seq(Message(known[n]))
    <3> HIDE DEF ask
    <3>1. <<ask>> \in Seq(Message(known[n])) /\ <<>> \in Seq(Message(known[n]))
      BY <2>4, EmptySeq
    <3>2. QED BY <3>1
  <2>6. UNCHANGED blocks /\ Answer(m, n, {"CHAIN_HEAD"}, reply)
    BY <1>9 DEF OnChainHead
  <2> HIDE DEF reply
  <2>7. QED BY <2>5, <2>6, <1>2
<1>10. CASE OnGetBlocksFrom(m, n)
  <2> DEFINE msg == Incoming(m, n)
             reply == BlocksFrom(n, msg.from, msg.to)
  <2>1. wire[<<m, n>>] # <<>> /\ msg.type = "GET_BLOCKS_FROM"
    BY <1>10 DEF OnGetBlocksFrom, Answer
  <2>2. msg.from \in Nat \cup {-1} /\ msg.to \in Nat
    BY <2>1, <1>1, IncomingType
  <2>3. reply \in Seq(Message(Ancestry(tip[n])))
    BY <2>2, <1>1, BlocksFromChain
  <2>4. Message(Ancestry(tip[n])) \subseteq Message(known[n])
    BY <1>1, MessagesGrow
  <2>5. UNCHANGED blocks /\ Answer(m, n, {"GET_BLOCKS_FROM"}, reply)
    BY <1>10 DEF OnGetBlocksFrom
  <2> HIDE DEF reply
  <2>6. reply \in Seq(Message(known[n]))
    BY <2>3, <2>4, SeqMonotonic
  <2>7. QED BY <2>5, <2>6, <1>2
<1>11. CASE OnBlock(m, n)
  <2> DEFINE reply == <<Plain("DATA-ACK")>>
  <2>1. /\ wire[<<m, n>>] # <<>> /\ Incoming(m, n).type = "BLOCK"
        /\ Answer(m, n, {"BLOCK"}, reply)
        /\ UNCHANGED blocks \/ AcceptFrom(m, n, Incoming(m, n).payload)
    BY <1>11 DEF OnBlock, Answer
  <2>2. Incoming(m, n).payload \in Block
    BY <2>1, <1>1, IncomingType
  <2>3. reply \in Seq(Message(known[n]))
    BY <1>3
  <2> HIDE DEF reply
  <2>4. BlocksTypeOK' /\ NodesKeepChains' /\ \A x \in Node : known[x] \subseteq known'[x]
    <3>1. CASE UNCHANGED blocks
      BY <3>1, <1>1, BlocksStay
    <3>2. CASE AcceptFrom(m, n, Incoming(m, n).payload)
      BY <3>2, <2>2, <1>1, AcceptKeeps
    <3>3. QED BY <2>1, <3>1, <3>2
  <2>5. QED BY <2>1, <2>3, <2>4, <1>1, AnswerKeeps DEF SyncInv
<1>12. QED BY <1>4, <1>5, <1>6, <1>7, <1>8, <1>9, <1>10, <1>11 DEF Receive

(* A new connection starts with an empty stream in each direction. *)
LEMMA ConnectKeeps ==
  ASSUME SyncInv, NEW m \in Node, NEW n \in Node, Connect(m, n)
  PROVE  SyncInv'
<1> DEFINE hello == <<Plain("HELLO"), Plain("HEALTHCHECK"), Plain("GET_CHAIN_HEAD")>>
<1>1. /\ BlocksTypeOK /\ NodesKeepChains /\ WireTypeOK /\ SentIsKnown /\ UNCHANGED blocks
      /\ linked' = linked \cup {<<m, n>>, <<n, m>>}
      /\ wire' = [wire EXCEPT ![<<m, n>>] = hello] /\ heard' = heard /\ missed' = missed
  BY DEF SyncInv, Connect
<1>2. \A S : hello \in Seq(Message(S))
  <2>1. TAKE S
  <2>2. /\ Plain("HELLO") \in Message(S) /\ Plain("HEALTHCHECK") \in Message(S)
        /\ Plain("GET_CHAIN_HEAD") \in Message(S)
    BY DEF Plain, Message
  <2>3. QED BY <2>2
<1> HIDE DEF hello
<1>3. BlocksTypeOK' /\ NodesKeepChains' /\ known' = known
  BY <1>1, BlocksStay DEF blocks
<1>4. WireTypeOK'
  BY <1>1, <1>2 DEF WireTypeOK, Pair
<1>5. \A x, y \in Node : <<x, y>> \in linked' => <<y, x>> \in linked'
  BY <1>1 DEF SentIsKnown
<1>6. \A p \in Pair : wire'[p] # <<>> => p \in linked'
  BY <1>1 DEF SentIsKnown, WireTypeOK
<1>7. \A x, y \in Node : wire'[<<x, y>>] \in Seq(Message(known'[x]))
  <2>1. TAKE x, y \in Node
  <2>2. wire'[<<x, y>>] = wire[<<x, y>>] \/ wire'[<<x, y>>] = hello
    BY <1>1 DEF WireTypeOK, Pair
  <2>3. QED BY <2>2, <1>1, <1>2, <1>3 DEF SentIsKnown
<1>8. QED BY <1>3, <1>4, <1>5, <1>6, <1>7 DEF SyncInv, SentIsKnown

(* What is broadcast has been indexed. *)
LEMMA RelayKeeps ==
  ASSUME SyncInv, NEW n \in Node, Relay(n)
  PROVE  SyncInv'
<1> DEFINE e == Head(entered[n])
           msg == BlockMsg(e.block)
           To(p) == p \in SentTo(n, e.origin)
<1>1. /\ BlocksTypeOK /\ NodesKeepChains /\ WireTypeOK /\ SentIsKnown /\ KeepsChain(n)
      /\ entered[n] # <<>> /\ UNCHANGED <<known, orphans, tip, linked, heard>>
      /\ entered' = [entered EXCEPT ![n] = Tail(@)]
      /\ wire' = [p \in Pair |-> IF To(p) THEN Append(wire[p], msg) ELSE wire[p]]
      /\ missed' = missed \cup LeftOut(n)
      /\ \A p : To(p) => p \in linked /\ p[1] = n
  BY DEF SyncInv, Relay, NodesKeepChains, SentTo
<1>2. /\ e \in Entries(known[n]) /\ Tail(entered[n]) \in Seq(Entries(known[n]))
      /\ Tail(entered[n]) \in Seq(Entries(Block))
  <2>1. entered[n] \in Seq(Entries(known[n])) /\ entered[n] \in Seq(Entries(Block))
    BY <1>1 DEF KeepsChain, BlocksTypeOK
  <2>2. QED BY <2>1, <1>1, HeadTailProperties
<1>3. msg \in Message(known[n]) /\ msg \in Message(Block)
  BY <1>1, <1>2 DEF Entries, BlockMsg, Plain, Message, BlocksTypeOK
<1> HIDE DEF e, msg, To
<1>4. BlocksTypeOK' /\ NodesKeepChains'
  <2>1. /\ entered' \in [Node -> Seq(Entries(Block))]
        /\ entered'[n] = Tail(entered[n])
        /\ \A m \in Node \ {n} : entered'[m] = entered[m]
    BY <1>1, <1>2 DEF BlocksTypeOK
  <2>2. KeepsChain(n)'
    BY <2>1, <1>1, <1>2 DEF KeepsChain
  <2>3. \A m \in Node \ {n} : KeepsChain(m)'
    BY <2>1, <1>1 DEF KeepsChain, NodesKeepChains
  <2>4. QED BY <2>1, <2>2, <2>3, <1>1 DEF BlocksTypeOK, NodesKeepChains
<1>5. ASSUME NEW p \in Pair
      PROVE  /\ wire'[p] \in Seq(Message(Block))
             /\ wire'[p] # <<>> => p \in linked
             /\ wire[p] \in Seq(Message(known[p[1]])) => wire'[p] \in Seq(Message(known[p[1]]))
  <2>1. wire[p] \in Seq(Message(Block))
    BY <1>1 DEF WireTypeOK
  <2>2. CASE To(p)
    <3>1. wire'[p] = Append(wire[p], msg) /\ p[1] = n /\ p \in linked
      BY <1>1, <2>2
    <3>2. QED BY <3>1, <2>1, <1>3, AppendProperties
  <2>3. CASE ~To(p)
    BY <1>1, <2>1, <2>3 DEF SentIsKnown
  <2>4. QED BY <2>2, <2>3
<1>6. wire' \in [Pair -> Seq(Message(Block))]
  <2>1. wire' = [p \in Pair |-> wire'[p]]
    BY <1>1
  <2>2. QED BY <2>1, <1>5
<1>7. \A x, y \in Node : wire'[<<x, y>>] \in Seq(Message(known'[x]))
  <2>1. TAKE x, y \in Node
  <2>2. <<x, y>> \in Pair /\ <<x, y>>[1] = x /\ wire[<<x, y>>] \in Seq(Message(known[x]))
    BY <1>1 DEF Pair, SentIsKnown
  <2>3. QED BY <2>2, <1>1, <1>5
<1>8. WireTypeOK'
  BY <1>1, <1>6 DEF WireTypeOK, LeftOut
<1>9. SentIsKnown'
  BY <1>1, <1>5, <1>7 DEF SentIsKnown
<1>10. QED BY <1>4, <1>8, <1>9 DEF SyncInv

(* A block that was mined is accepted like a received one. *)
LEMMA MineKeeps ==
  ASSUME SyncInv, NEW n \in Node, NEW b \in Block, Mine(n, b)
  PROVE  SyncInv'
<1>1. /\ BlocksTypeOK /\ NodesKeepChains /\ WireTypeOK /\ SentIsKnown
      /\ AcceptFrom(Self, n, b) /\ UNCHANGED <<linked, wire, heard, missed>>
  BY DEF SyncInv, Mine
<1>2. BlocksTypeOK' /\ NodesKeepChains' /\ \A x \in Node : known[x] \subseteq known'[x]
  BY <1>1, AcceptKeeps
<1>3. WireTypeOK'
  BY <1>1 DEF WireTypeOK
<1>4. \A x, y \in Node : wire'[<<x, y>>] \in Seq(Message(known'[x]))
  <2>1. TAKE x, y \in Node
  <2>2. Message(known[x]) \subseteq Message(known'[x])
    BY <1>2, MessagesGrow
  <2>3. wire[<<x, y>>] \in Seq(Message(known[x]))
    BY <1>1 DEF SentIsKnown
  <2>4. wire[<<x, y>>] \in Seq(Message(known'[x]))
    BY <2>2, <2>3, SeqMonotonic
  <2>5. QED BY <2>4, <1>1
<1>5. SentIsKnown'
  BY <1>1, <1>4 DEF SentIsKnown
<1>6. QED BY <1>2, <1>3, <1>5 DEF SyncInv
-----------------------------------------------------------------------------
(* Every node starts on the lineage of its first tip. *)
LEMMA SyncInitHolds == SyncInit => SyncInv
<1> SUFFICES ASSUME SyncInit PROVE SyncInv
  OBVIOUS
<1>1. FirstTip \in [Node -> Block] /\ \A S : <<>> \in Seq(S)
  BY SyncAssumption, EmptySeq
<1>2. BlocksTypeOK
  BY <1>1, AncestryStep DEF SyncInit, BlocksTypeOK
<1>3. ASSUME NEW n \in Node PROVE KeepsChain(n)
  <2>1. /\ tip[n] = FirstTip[n] /\ known[n] = Ancestry(FirstTip[n]) /\ orphans[n] = {}
        /\ entered[n] = <<>> /\ FirstTip[n] \in Block
    BY <1>1 DEF SyncInit
  <2>2. FirstTip[n] \in Ancestry(FirstTip[n])
    BY <2>1, AncestryStep
  <2>3. \A b \in Ancestry(FirstTip[n]) : /\ Ancestry(b) \subseteq Ancestry(FirstTip[n])
                                         /\ ChainWork[b] <= ChainWork[FirstTip[n]]
    BY <2>1, AncestryTransitive, AncestorsWeighLess
  <2>4. QED BY <2>1, <2>2, <2>3, <1>1 DEF KeepsChain
<1>4. WireTypeOK /\ SentIsKnown
  BY <1>1 DEF SyncInit, WireTypeOK, SentIsKnown, Pair
<1>5. QED BY <1>2, <1>3, <1>4 DEF SyncInv, NodesKeepChains

(* The induction step, one case for each kind of action. *)
LEMMA SyncStepHolds == SyncInv /\ [SyncNext]_syncVars => SyncInv'
<1> SUFFICES ASSUME SyncInv, [SyncNext]_syncVars PROVE SyncInv'
  OBVIOUS
<1>1. ASSUME NEW m \in Node, NEW n \in Node, Connect(m, n) PROVE SyncInv'
  BY <1>1, ConnectKeeps
<1>2. ASSUME NEW m \in Node, NEW n \in Node, Receive(m, n) PROVE SyncInv'
  BY <1>2, ReceiveKeeps
<1>3. ASSUME NEW n \in Node, Relay(n) PROVE SyncInv'
  BY <1>3, RelayKeeps
<1>4. ASSUME NEW n \in Node, NEW b \in Block \ Root, Mine(n, b) PROVE SyncInv'
  BY <1>4, MineKeeps
<1>5. CASE UNCHANGED syncVars
  BY <1>5 DEF syncVars, blocks, SyncInv, BlocksTypeOK, NodesKeepChains, KeepsChain,
              WireTypeOK, SentIsKnown
<1>6. QED BY <1>1, <1>2, <1>3, <1>4, <1>5 DEF SyncNext

(* However connections, answers, relayed and mined blocks overlap, the     *)
(* chain of every node stays the lineage of a heaviest block it has, and   *)
(* no node offers or relays a block that it has not indexed itself.        *)
THEOREM SyncInvariant == SyncSpec => []SyncInv
<1>1. QED BY SyncInitHolds, SyncStepHolds, PTL DEF SyncSpec

(* Type correctness of Sync. *)
THEOREM SyncTypeCorrect == SyncSpec => []SyncTypeOK
<1>1. SyncInv => SyncTypeOK
  <2> SUFFICES ASSUME SyncInv PROVE SyncTypeOK
    OBVIOUS
  <2>1. ASSUME NEW n \in Node, NEW e \in Range(entered[n])
        PROVE  e.origin \in Node \cup {Self} /\ e.block \in known[n]
    <3>1. entered[n] \in Seq(Entries(known[n]))
      BY DEF SyncInv, NodesKeepChains, KeepsChain
    <3>2. PICK i \in 1..Len(entered[n]) : e = entered[n][i]
      BY <3>1, RangeEquality
    <3>3. e \in Entries(known[n])
      BY <3>1, <3>2, ElementOfSeq
    <3>4. QED BY <3>3 DEF Entries
  <2>2. QED BY <2>1 DEF SyncInv, SyncTypeOK, BlocksTypeOK, NodesKeepChains, KeepsChain,
                        WireTypeOK, SentIsKnown
<1>2. QED BY <1>1, SyncInvariant, PTL

-----------------------------------------------------------------------------
(* Neighbours in a lineage are parent and child. *)
LEMMA ParentIsBefore ==
  ASSUME NEW b \in Block, NEW i \in 1..Len(Lineage[b]), i > 1
  PROVE  Lineage[b][i] \notin Root /\ Parent[Lineage[b][i]] = Lineage[b][i - 1]
<1> DEFINE x == Lineage[b][i]
           L == Lineage[b]
<1>1. L \in Seq(Block) /\ Len(L) \in Nat
  BY LineageEnds
<1>2. x \in Block /\ Lineage[x] = SubSeq(L, 1, i) /\ Len(Lineage[x]) = i
  BY LineagePosition, LineagePrefixes DEF LineagePrefixed
<1>3. x \notin Root
  <2>1. x \in Root => Lineage[x] = <<x>>
    BY LineageAssumption
  <2>2. Len(<<x>>) = 1
    OBVIOUS
  <2> HIDE DEF x
  <2>3. QED BY <2>1, <2>2, <1>2
<1> HIDE DEF x
<1>4. /\ Parent[x] \in Block /\ Len(Lineage[x]) = Len(Lineage[Parent[x]]) + 1
      /\ Lineage[x] = Append(Lineage[Parent[x]], x)
  BY <1>2, <1>3, ChildIsLonger, LineageAssumption
<1>5. /\ Lineage[Parent[x]] \in Seq(Block) /\ Len(Lineage[Parent[x]]) = i - 1
      /\ Lineage[Parent[x]][Len(Lineage[Parent[x]])] = Parent[x]
  BY <1>2, <1>4, LineageEnds
<1>6. Lineage[x][i - 1] = Parent[x]
  <2>1. i - 1 \in 1..Len(Lineage[Parent[x]])
    BY <1>5
  <2>2. \A j \in 1..Len(Lineage[Parent[x]]) : Lineage[x][j] = Lineage[Parent[x]][j]
    BY <1>2, <1>4, <1>5, AppendProperties
  <2>3. QED BY <2>1, <2>2, <1>5
<1>7. Lineage[x][i - 1] = L[i - 1]
  <2>1. i \in 0..Len(L) /\ i - 1 \in 1..i
    BY <1>1
  <2> HIDE DEF L
  <2>2. \A j \in 1..i : SubSeq(L, 1, i)[j] = L[j]
    BY <2>1, <1>1, CutList
  <2>3. QED BY <2>1, <2>2, <1>2
<1>8. QED BY <1>3, <1>6, <1>7 DEF x

(* Two chains part after their highest common block. *)
LEMMA ForkPlace ==
  ASSUME NEW a \in Block, NEW b \in Block, NEW fork \in Ancestry(a) \cap Ancestry(b),
         \A x \in Ancestry(a) \cap Ancestry(b) : HeightOf(x) <= HeightOf(fork)
  PROVE  Cardinality(Ancestry(a) \cap Ancestry(b)) = HeightOf(fork) + 1
<1> DEFINE n == Cardinality(Ancestry(a) \cap Ancestry(b))
           h == Len(Lineage[fork])
<1>1. /\ n \in 0..Len(Lineage[a]) /\ n \in 0..Len(Lineage[b])
      /\ SubSeq(Lineage[a], 1, n) = SubSeq(Lineage[b], 1, n)
      /\ \A i \in 1..Len(Lineage[b]) : Lineage[b][i] \in Ancestry(a) => i <= n
  BY SharedBeginning
<1>2. /\ h \in 1..Len(Lineage[b]) /\ Lineage[b][h] = fork /\ fork \in Block
      /\ Lineage[a] \in Seq(Block) /\ Lineage[b] \in Seq(Block) /\ Len(Lineage[b]) \in Nat
  BY AncestorPosition, LineageEnds
<1> HIDE DEF n
<1>3. h <= n
  BY <1>1, <1>2
<1>4. n \in 1..n /\ n \in 1..Len(Lineage[a]) /\ n \in 1..Len(Lineage[b])
  BY <1>1, <1>2, <1>3
<1>5. SubSeq(Lineage[a], 1, n)[n] = Lineage[a][n] /\ SubSeq(Lineage[b], 1, n)[n] = Lineage[b][n]
  BY <1>1, <1>2, <1>4, CutList
<1>6. Lineage[a][n] = Lineage[b][n]
  BY <1>1, <1>5
<1>7. Lineage[b][n] \in Ancestry(a) \cap Ancestry(b) /\ Len(Lineage[Lineage[b][n]]) = n
  BY <1>4, <1>6, LineagePosition
<1>8. n - 1 <= h - 1
  BY <1>7 DEF HeightOf
<1>9. n = (h - 1) + 1
  BY <1>1, <1>2, <1>3, <1>8
<1>10. QED BY <1>9 DEF n, HeightOf

(* _find_fork_height finds where two chains part when the highest common   *)
(* block is among those listed and among those they are looked up in.      *)
LEMMA ForkFound ==
  ASSUME NEW m \in Node, NEW n \in Node, tip[m] \in Block, tip[n] \in Block,
         NEW fork \in Recent(m, Window) \cap Recent(n, LocalWindow),
         \A x \in Ancestry(tip[m]) \cap Ancestry(tip[n]) : HeightOf(x) <= HeightOf(fork)
  PROVE  ForkHeight(n, Recent(m, Window)) = HeightOf(fork)
<1> DEFINE both == Recent(m, Window) \cap Recent(n, LocalWindow)
           common == {HeightOf(b) : b \in both}
<1>1. /\ Recent(m, Window) \subseteq Ancestry(tip[m]) /\ Recent(m, Window) \subseteq Block
      /\ Recent(n, LocalWindow) \subseteq Ancestry(tip[n])
  BY SyncAssumption, RecentIsChain
<1>2. \A b \in both : HeightOf(b) \in Nat /\ HeightOf(b) <= HeightOf(fork)
  BY <1>1, HeightType
<1>3. /\ common \subseteq Nat /\ HeightOf(fork) \in common
      /\ \A h \in common : h <= HeightOf(fork)
  BY <1>2
<1>4. ForkHeight(n, Recent(m, Window)) = Max(common)
  BY <1>3 DEF ForkHeight
<1> DEFINE top == HeightOf(fork)
<1>5. Max(common) = top
  <2> HIDE DEF common, top
  <2>1. common \subseteq Nat /\ top \in common /\ \A h \in common : h <= top
    BY <1>3 DEF top
  <2>2. \E x \in common : \A y \in common : x >= y
    BY <2>1
  <2>3. Max(common) \in common /\ \A y \in common : Max(common) >= y
    BY <2>2 DEF Max
  <2> DEFINE g == Max(common)
  <2> HIDE DEF g
  <2>4. g \in Nat /\ top \in Nat /\ g >= top /\ g <= top
    BY <2>1, <2>3 DEF g
  <2>5. g = top
    BY <2>4
  <2>6. QED BY <2>5 DEF g
<1>6. QED BY <1>4, <1>5

(* The answer to GET_BLOCKS_FROM after a CHAIN_HEAD is exactly the branch  *)
(* that the asker lacks, however long it is, if the highest common block   *)
(* is within what the one lists (64) and the other looks through (256);    *)
(* and it comes in an order in which no block of it becomes an orphan: the *)
(* parent of each is on the asker's chain or was listed before.  (A block  *)
(* too long for a message is listed, but goes out as an ECHO.)             *)
THEOREM AnswerFillsGap ==
  ASSUME NEW m \in Node, NEW n \in Node, tip[m] \in Block, tip[n] \in Block,
         NEW fork \in Recent(m, Window) \cap Recent(n, LocalWindow),
         \A x \in Ancestry(tip[m]) \cap Ancestry(tip[n]) : HeightOf(x) <= HeightOf(fork)
  PROVE  LET answer == BlocksFrom(m, ForkHeight(n, ChainHead(m).recent), ChainHead(m).height)
             gap    == Above(tip[m], tip[n])
         IN  /\ answer = [i \in 1..Len(gap) |-> BlockMsg(gap[i])]
             /\ \A b \in Ancestry(tip[m]) \ Ancestry(tip[n]) : \E i \in 1..Len(gap) : gap[i] = b
             /\ \A i \in 1..Len(gap) :
                  /\ gap[i] \notin Root
                  /\ \/ Parent[gap[i]] \in Ancestry(tip[n])
                     \/ \E j \in 1..i - 1 : Parent[gap[i]] = gap[j]
<1> DEFINE gap == Above(tip[m], tip[n])
           k == Cardinality(Ancestry(tip[m]) \cap Ancestry(tip[n]))
           L == Lineage[tip[m]]
           h == HeightAt(m)
<1>1. fork \in Ancestry(tip[m]) \cap Ancestry(tip[n])
  BY SyncAssumption, RecentIsChain
<1>2. k = HeightOf(fork) + 1 /\ HeightOf(fork) \in Nat
  BY <1>1, ForkPlace, AncestryStep, HeightType
<1>3. /\ k \in 0..Len(L) /\ k \in 0..Len(Lineage[tip[n]])
      /\ SubSeq(L, 1, k) = SubSeq(Lineage[tip[n]], 1, k)
      /\ Len(L) = h + 1 /\ h \in Nat /\ L \in Seq(Block) /\ Lineage[tip[n]] \in Seq(Block)
  BY SharedBeginning, HeightType, LineageEnds DEF HeightAt
<1>4. /\ Len(gap) = Len(L) - k
      /\ \A i \in 1..Len(gap) : gap[i] = L[k + i]
  BY AboveInBranch
<1>5. ForkHeight(n, Recent(m, Window)) = k - 1
  BY <1>2, ForkFound
<1>6. /\ ChainHead(m).recent = Recent(m, Window) /\ ChainHead(m).height = h
      /\ chain(m) = L
  BY DEF ChainHead, chain
<1>7. Min({h, h}) = h
  BY <1>3 DEF Min
<1>8. BlocksFrom(m, k - 1, h) = [i \in 1..Min({h, h}) - (k - 1) |-> BlockMsg(L[(k - 1) + 1 + i])]
  BY <1>6 DEF BlocksFrom
<1>a. \A i \in 1..k : L[i] = Lineage[tip[n]][i]
  <2> HIDE DEF k, L
  <2>1. TAKE i \in 1..k
  <2>2. SubSeq(L, 1, k)[i] = L[i] /\ SubSeq(Lineage[tip[n]], 1, k)[i] = Lineage[tip[n]][i]
    BY <1>3, CutList
  <2>3. QED BY <1>3, <2>2
<1>b. \A i \in 1..k : L[i] \in Ancestry(tip[n])
  <2> HIDE DEF k, L
  <2>1. TAKE i \in 1..k
  <2>2. i \in 1..Len(Lineage[tip[n]])
    BY <1>3
  <2>3. QED BY <2>2, <1>a, LineagePosition
<1>c. \A i \in 1..Len(L) : i > 1 => L[i] \notin Root /\ Parent[L[i]] = L[i - 1]
  BY ParentIsBefore
<1>d. \A b \in Ancestry(tip[m]) : Len(Lineage[b]) \in 1..Len(L) /\ L[Len(Lineage[b])] = b
  BY AncestorPosition
<1> HIDE DEF gap, k, L, h
<1>9. k \in 1..h + 1 /\ k - 1 \in Nat
  BY <1>2, <1>3
<1>10. BlocksFrom(m, k - 1, h) = [i \in 1..Len(gap) |-> BlockMsg(gap[i])]
  <2>1. h - (k - 1) = Len(gap)
    BY <1>3, <1>4, <1>9
  <2>2. \A i \in 1..Len(gap) : L[(k - 1) + 1 + i] = gap[i]
    <3>1. TAKE i \in 1..Len(gap)
    <3>2. (k - 1) + 1 + i = k + i
      BY <1>9
    <3>3. QED BY <3>2, <1>4
  <2>3. QED BY <2>1, <2>2, <1>7, <1>8
<1>11. ASSUME NEW b \in Ancestry(tip[m]), b \notin Ancestry(tip[n])
       PROVE  \E i \in 1..Len(gap) : gap[i] = b
  <2> DEFINE p == Len(Lineage[b])
  <2>1. p \in 1..Len(L) /\ L[p] = b
    BY <1>d
  <2> HIDE DEF p
  <2>2. p \notin 1..k
    BY <2>1, <1>11, <1>b
  <2>3. p - k \in 1..Len(gap) /\ k + (p - k) = p
    BY <2>1, <2>2, <1>3, <1>4, <1>9
  <2>4. gap[p - k] = b
    BY <2>1, <2>3, <1>4
  <2>5. QED BY <2>3, <2>4
<1>12. ASSUME NEW i \in 1..Len(gap)
       PROVE  /\ gap[i] \notin Root
              /\ \/ Parent[gap[i]] \in Ancestry(tip[n])
                 \/ \E j \in 1..i - 1 : Parent[gap[i]] = gap[j]
  <2>1. gap[i] = L[k + i] /\ k + i \in 1..Len(L) /\ k + i > 1
    <3>1. gap[i] = L[k + i]
      BY <1>4
    <3>2. /\ k \in 1..h + 1 /\ h \in Nat /\ Len(L) = h + 1 /\ Len(gap) = Len(L) - k
          /\ i \in 1..Len(gap)
      BY <1>3, <1>4, <1>9
    <3>3. k + i \in 1..Len(L) /\ k + i > 1
      BY <3>2
    <3>4. QED BY <3>1, <3>3
  <2>2. gap[i] \notin Root /\ Parent[gap[i]] = L[(k + i) - 1]
    BY <2>1, <1>c
  <2>3. CASE i = 1
    <3>1. (k + i) - 1 \in 1..k
      BY <2>3, <1>9
    <3>2. Parent[gap[i]] \in Ancestry(tip[n])
      BY <3>1, <2>2, <1>b
    <3>3. QED BY <2>2, <3>2
  <2>4. CASE i # 1
    <3>1. i - 1 \in 1..i - 1 /\ i - 1 \in 1..Len(gap) /\ (k + i) - 1 = k + (i - 1)
      BY <2>4, <1>3, <1>4, <1>9
    <3>2. gap[i - 1] = L[k + (i - 1)]
      BY <3>1, <1>4
    <3>3. Parent[gap[i]] = gap[i - 1]
      BY <3>1, <3>2, <2>2
    <3>4. QED BY <3>1, <3>3, <2>2
  <2>5. QED BY <2>3, <2>4
<1>13. QED BY <1>5, <1>6, <1>10, <1>11, <1>12 DEF gap
-----------------------------------------------------------------------------
(***************************************************************************)
(* Connected nodes catch up.  Of what a node lacks of a peer's chain, each *)
(* block that can be sent is coming: said by a message under way, asked    *)
(* for by one, or about to be broadcast - or one of the two passed the     *)
(* other over.                                                             *)
(***************************************************************************)
(* What a node has, indexed or waiting. *)
Got(n) == known[n] \cup orphans[n]

(* A block that can be sent, with all its ancestors. *)
Sendable(b) == Ancestry(b) \cap Oversize = {}

(* What on the way from m to n, or from n to m, will bring b to n. *)
Announces(msg, b) ==
  \/ msg.type = "HELLO"
  \/ msg.type = "CHAIN_HEAD" /\ b \in Ancestry(msg.hash)
  \/ msg.type = "BLOCK" /\ msg.payload = b

Requests(msg, b) ==
  \/ msg.type = "GET_CHAIN_HEAD"
  \/ msg.type = "GET_BLOCKS_FROM" /\ msg.from < HeightOf(b) /\ HeightOf(b) <= msg.to

Coming(m, n, b) ==
  \/ \E msg \in Range(wire[<<m, n>>]) : Announces(msg, b)
  \/ \E msg \in Range(wire[<<n, m>>]) : Requests(msg, b)
  \/ \E e \in Range(entered[m]) : e.block = b

(* What a node lacks of a peer's chain is coming. *)
NothingForgotten ==
  \A m, n \in Node : <<m, n>> \in linked \ missed =>
    \A b \in Ancestry(tip[m]) \ Got(n) : Sendable(b) => Coming(m, n, b)

(* What a CHAIN_HEAD says is so of the block it names. *)
HeadIsChain(msg) ==
  msg.type = "CHAIN_HEAD" =>
    msg.height = HeightOf(msg.hash) /\ msg.recent \subseteq Ancestry(msg.hash)

HeadsAreChains == \A p \in Pair : \A msg \in Range(wire[p]) : HeadIsChain(msg)

(* The inductive invariant. *)
CatchUpInv == NothingForgotten /\ HeadsAreChains
-----------------------------------------------------------------------------
(* What a handler reads is gone from the one stream, what it answers is    *)
(* added to the other, and nothing else on the way changes.                *)
LEMMA AnswerSaid ==
  ASSUME WireTypeOK, SentIsKnown, NEW m \in Node, NEW n \in Node, NEW types,
         NEW reply \in Seq(Message(Block)), Answer(m, n, types, reply), ~Over(m, n)
  PROVE  /\ \A p \in Pair : \A msg \in Range(wire[p]) :
              msg \in Range(wire'[p]) \/ (p = <<m, n>> /\ msg = Incoming(m, n))
         /\ Range(reply) \subseteq Range(wire'[<<n, m>>])
         /\ \A p \in Pair : Range(wire'[p]) \subseteq Range(wire[p]) \cup Range(reply)
<1> DEFINE there == <<m, n>>
           back == <<n, m>>
           M == Message(Block)
<1>1. /\ there \in Pair /\ back \in Pair /\ wire \in [Pair -> Seq(M)]
      /\ wire[there] # <<>>
  BY DEF WireTypeOK, SentIsKnown, Answer, Pair
<1>2. wire' = [wire EXCEPT ![there] = Tail(@), ![back] = @ \o reply]
  BY DEF Answer
<1>3. Incoming(m, n) = Head(wire[there])
  BY DEF Incoming
<1> HIDE DEF there, back, M
<1>4. Range(wire[there]) = {Head(wire[there])} \cup Range(Tail(wire[there]))
  BY <1>1, RangeHeadTail
<1>5. Tail(wire[there]) \in Seq(M)
  BY <1>1, HeadTailProperties
<1>6. \A s \in Seq(M) : Range(s \o reply) = Range(s) \cup Range(reply)
  BY RangeConcatenation DEF M
<1>7. ASSUME NEW p \in Pair
      PROVE  /\ p = back => Range(reply) \subseteq Range(wire'[p])
             /\ Range(wire'[p]) \subseteq Range(wire[p]) \cup Range(reply)
             /\ \A msg \in Range(wire[p]) :
                  msg \in Range(wire'[p]) \/ (p = there /\ msg = Incoming(m, n))
  <2>1. CASE p # back /\ p # there
    <3>1. wire'[p] = wire[p]
      BY <1>1, <1>2, <2>1
    <3>2. QED BY <3>1, <2>1
  <2>2. CASE p # back /\ p = there
    <3>1. wire'[p] = Tail(wire[p])
      BY <1>1, <1>2, <2>2
    <3>2. QED BY <3>1, <2>2, <1>3, <1>4
  <2>3. CASE p = back /\ p # there
    <3>1. wire'[p] = wire[p] \o reply /\ wire[p] \in Seq(M)
      BY <1>1, <1>2, <2>3
    <3>2. Range(wire'[p]) = Range(wire[p]) \cup Range(reply)
      BY <3>1, <1>6
    <3>3. QED BY <3>2, <2>3
  <2>4. CASE p = back /\ p = there
    <3>1. wire'[p] = Tail(wire[p]) \o reply /\ Tail(wire[p]) \in Seq(M)
      BY <1>1, <1>2, <1>5, <2>4
    <3>2. Range(wire'[p]) = Range(Tail(wire[p])) \cup Range(reply)
      BY <3>1, <1>6
    <3>3. QED BY <3>2, <2>4, <1>3, <1>4
  <2>5. QED BY <2>1, <2>2, <2>3, <2>4
<1>8. QED BY <1>1, <1>7 DEF there, back

(* Over the rate limit a message is thrown away, and both directions of    *)
(* the connection count as missed.                                         *)
LEMMA OverMisses ==
  ASSUME WireTypeOK, SentIsKnown, NEW m \in Node, NEW n \in Node, NEW types, NEW reply,
         Answer(m, n, types, reply), Over(m, n)
  PROVE  /\ <<m, n>> \in missed' /\ <<n, m>> \in missed'
         /\ \A p \in Pair : Range(wire'[p]) \subseteq Range(wire[p])
         /\ \A p \in Pair \ {<<m, n>>, <<n, m>>} : wire'[p] = wire[p]
<1> DEFINE there == <<m, n>>
           back == <<n, m>>
           M == Message(Block)
<1>1. /\ there \in Pair /\ back \in Pair /\ wire \in [Pair -> Seq(M)]
      /\ wire[there] # <<>>
  BY DEF WireTypeOK, SentIsKnown, Answer, Pair
<1>2. /\ wire' = [wire EXCEPT ![there] = Tail(@), ![back] = @ \o <<>>]
      /\ missed' = missed \cup {there, back}
  BY DEF Answer
<1> HIDE DEF there, back, M
<1>3. \A s \in Seq(M) : s \o <<>> = s
  BY EmptySeq, ConcatEmptySeq
<1>4. Tail(wire[there]) \in Seq(M) /\ Range(Tail(wire[there])) \subseteq Range(wire[there])
  BY <1>1, HeadTailProperties, RangeHeadTail
<1>5. ASSUME NEW p \in Pair
      PROVE  wire'[p] = IF p = there THEN Tail(wire[p]) ELSE wire[p]
  <2>1. wire[p] \in Seq(M)
    BY <1>1
  <2>2. CASE p = back /\ p = there
    BY <2>2, <1>1, <1>2, <1>3, <1>4
  <2>3. CASE p = back /\ p # there
    BY <2>1, <2>3, <1>1, <1>2, <1>3
  <2>4. CASE p # back
    BY <2>4, <1>1, <1>2
  <2>5. QED BY <2>2, <2>3, <2>4
<1>6. QED BY <1>2, <1>4, <1>5 DEF there, back

(* An ancestor is not higher, and another one is lower. *)
LEMMA AncestorsAreLower ==
  ASSUME NEW y \in Block, NEW x \in Ancestry(y)
  PROVE  /\ x \in Block /\ HeightOf(x) \in Nat /\ HeightOf(y) \in Nat
         /\ HeightOf(x) <= HeightOf(y)
         /\ HeightOf(x) = HeightOf(y) => x = y
<1>1. /\ x \in Block /\ Len(Lineage[x]) \in 1..Len(Lineage[y])
      /\ Lineage[y][Len(Lineage[x])] = x
  BY AncestorPosition
<1>2. Lineage[y][Len(Lineage[y])] = y
  BY LineageEnds
<1>3. /\ Len(Lineage[x]) = HeightOf(x) + 1 /\ Len(Lineage[y]) = HeightOf(y) + 1
      /\ HeightOf(x) \in Nat /\ HeightOf(y) \in Nat
  BY <1>1, HeightType
<1>4. HeightOf(x) <= HeightOf(y)
  BY <1>1, <1>3
<1>5. ASSUME HeightOf(x) = HeightOf(y) PROVE x = y
  <2>1. Len(Lineage[x]) = Len(Lineage[y])
    BY <1>3, <1>5
  <2>2. QED BY <2>1, <1>1, <1>2
<1>6. QED BY <1>1, <1>3, <1>4, <1>5

(* What a node accepts it has, and what its main chain gains is listed for *)
(* the reactor.                                                            *)
LEMMA AcceptPublishes ==
  ASSUME BlocksTypeOK, NodesKeepChains, NEW n \in Node,
         NEW origin \in Node \cup {Self}, NEW b \in Block, AcceptFrom(origin, n, b)
  PROVE  /\ b \in Got(n)'
         /\ \A m \in Node : /\ Got(m) \subseteq Got(m)'
                            /\ Range(entered[m]) \subseteq Range(entered'[m])
         /\ \A x \in Ancestry(tip'[n]) \ Ancestry(tip[n]) :
              \E e \in Range(entered'[n]) : e.block = x
         /\ \A m \in Node \ {n} : tip'[m] = tip[m]
<1>0. /\ KeepsChain(n) /\ known[n] \subseteq Block /\ orphans[n] \subseteq Block /\ tip[n] \in Block
      /\ known \in [Node -> SUBSET Block] /\ orphans \in [Node -> SUBSET Block]
      /\ \A m \in Node : entered[m] \in Seq(Entries(Block))
      /\ entered \in [Node -> Seq(Entries(Block))]
  BY DEF NodesKeepChains, BlocksTypeOK
<1>1. CASE b \in known[n] \cup orphans[n]
  <2>1. UNCHANGED blocks
    BY <1>1 DEF AcceptFrom
  <2>2. QED BY <2>1, <1>1 DEF blocks, Got
<1>2. CASE /\ b \notin known[n] \cup orphans[n] /\ b \notin Root /\ Parent[b] \notin known[n]
  <2>1. /\ orphans' = [orphans EXCEPT ![n] = @ \cup {b}]
        /\ UNCHANGED <<known, tip, entered>>
    BY <1>2 DEF AcceptFrom
  <2>2. orphans'[n] = orphans[n] \cup {b} /\ \A m \in Node \ {n} : orphans'[m] = orphans[m]
    BY <2>1, <1>0
  <2>3. QED BY <2>1, <2>2 DEF Got
<1>3. CASE b \notin known[n] \cup orphans[n] /\ (b \notin Root => Parent[b] \in known[n])
  <2> DEFINE new  == {b} \cup Released(n, b)
             best == {x \in new : \A y \in new : ChainWork[y] <= ChainWork[x]}
             path(x) == Above(x, tip[n])
             more(x) == [i \in DOMAIN path(x) |-> [origin |-> origin, block |-> path(x)[i]]]
  <2>1. new \subseteq Block
    BY <1>0, <1>3, ReleasedClosed
  <2>2. PICK x \in best :
          /\ known' = [known EXCEPT ![n] = @ \cup new]
          /\ orphans' = [orphans EXCEPT ![n] = @ \ new]
          /\ IF ChainWork[x] <= ChainWork[tip[n]] THEN UNCHANGED <<tip, entered>>
             ELSE /\ tip' = [tip EXCEPT ![n] = x]
                  /\ entered' = [entered EXCEPT ![n] = @ \o more(x)]
    BY <1>3 DEF AcceptFrom
  <2>3. new \subseteq {b} \cup orphans[n] /\ b \in new
    BY DEF Released
  <2> HIDE DEF new
  <2>4. x \in new /\ x \in Block /\ \A y \in new : ChainWork[y] <= ChainWork[x]
    BY <2>1, <2>2
  <2> HIDE DEF best
  <2>5. /\ known'[n] = known[n] \cup new /\ \A m \in Node \ {n} : known'[m] = known[m]
        /\ orphans'[n] = orphans[n] \ new /\ \A m \in Node \ {n} : orphans'[m] = orphans[m]
    BY <2>2, <1>0
  <2>6. known[n] \cap new = {}
    BY <2>3, <1>0, <1>3 DEF KeepsChain
  <2>7. \A y \in Block : ChainWork[y] \in Nat
    BY ChainWorkAssumption
  <2>8. CASE ChainWork[x] <= ChainWork[tip[n]]
    <3>1. entered' = entered /\ tip' = tip
      BY <2>2, <2>8
    <3>2. QED BY <3>1, <2>3, <2>5, <2>6 DEF Got
  <2>9. CASE ~(ChainWork[x] <= ChainWork[tip[n]])
    <3>1. entered' = [entered EXCEPT ![n] = @ \o more(x)]
      BY <2>2, <2>9
    <3>2. /\ path(x) \in Seq(Ancestry(x)) /\ Ancestry(x) \subseteq Block
          /\ Len(path(x)) = Len(Lineage[x]) - Cardinality(Ancestry(x) \cap Ancestry(tip[n]))
          /\ \A i \in 1..Len(path(x)) :
               path(x)[i] = Lineage[x][Cardinality(Ancestry(x) \cap Ancestry(tip[n])) + i]
      BY <2>4, <1>0, AboveInBranch, AncestryStep
    <3>3. path(x) \in Seq(Block)
      BY <3>2, SeqMonotonic
    <3>4. more(x) \in Seq(Entries(Block))
      BY <3>3, EnteredEntries
    <3> DEFINE c == Cardinality(Ancestry(x) \cap Ancestry(tip[n]))
    <3>5. /\ c \in 0..Len(Lineage[x])
          /\ SubSeq(Lineage[tip[n]], 1, c) = SubSeq(Lineage[x], 1, c)
          /\ \A i \in 1..Len(Lineage[x]) : Lineage[x][i] \in Ancestry(tip[n]) => i <= c
      BY <2>4, <1>0, SharedBeginning
    <3>6. /\ Len(Lineage[x]) \in Nat /\ Len(path(x)) \in Nat /\ DOMAIN path(x) = 1..Len(path(x))
      BY <2>4, <3>3, LineageEnds, LenProperties
    <3>7. Range(more(x)) = {[origin |-> origin, block |-> path(x)[i]] : i \in 1..Len(path(x))}
      BY <3>6 DEF Range
    <3>8. entered'[n] = entered[n] \o more(x) /\ \A m \in Node \ {n} : entered'[m] = entered[m]
      BY <3>1, <1>0
    <3>9. Range(entered'[n]) = Range(entered[n]) \cup Range(more(x))
      <4> HIDE DEF more
      <4>1. QED BY <3>4, <3>8, <1>0, RangeConcatenation
    <3>11. ASSUME NEW y \in Ancestry(x) \ Ancestry(tip[n])
           PROVE  \E e \in Range(entered'[n]) : e.block = y
      <4> DEFINE p == Len(Lineage[y])
      <4>3. p \in 1..Len(Lineage[x]) /\ Lineage[x][p] = y
        BY <2>4, AncestorPosition
      <4>4. ~(p <= c)
        <5>1. SUFFICES ASSUME p <= c PROVE FALSE
          OBVIOUS
        <5>2. p \in 1..c /\ c \in 0..Len(Lineage[tip[n]]) /\ p \in 1..Len(Lineage[tip[n]])
          <6>1. c \in 0..Len(Lineage[tip[n]]) /\ Len(Lineage[tip[n]]) \in Nat
            BY <2>4, <1>0, SharedBeginning, LineageEnds
          <6> HIDE DEF c, p
          <6>2. QED BY <6>1, <5>1, <4>3, <3>5
        <5>3. Lineage[x] \in Seq(Block) /\ Lineage[tip[n]] \in Seq(Block)
          BY <2>4, <1>0, LineageEnds
        <5> HIDE DEF c, p
        <5>4. Lineage[x][p] = Lineage[tip[n]][p]
          <6>1. SubSeq(Lineage[x], 1, c)[p] = Lineage[x][p]
            BY <5>2, <5>3, <3>5, CutList
          <6>2. SubSeq(Lineage[tip[n]], 1, c)[p] = Lineage[tip[n]][p]
            BY <5>2, <5>3, CutList
          <6>3. QED BY <6>1, <6>2, <3>5
        <5>5. Lineage[tip[n]][p] \in Ancestry(tip[n])
          BY <5>2, <1>0, LineagePosition
        <5>6. QED BY <5>4, <5>5, <4>3, <3>11
      <4> HIDE DEF c, p
      <4>5. p - c \in 1..Len(path(x)) /\ c + (p - c) = p
        BY <4>3, <4>4, <3>2, <3>5, <3>6 DEF c
      <4>6. path(x)[p - c] = y
        BY <4>3, <4>5, <3>2 DEF c
      <4>7. [origin |-> origin, block |-> path(x)[p - c]] \in Range(entered'[n])
        BY <4>5, <3>7, <3>9
      <4>8. QED BY <4>6, <4>7
    <3>13. tip'[n] = x /\ \A m \in Node \ {n} : tip'[m] = tip[m]
      BY <2>2, <2>9 DEF BlocksTypeOK
    <3>12. QED BY <3>13, <3>8, <3>9, <3>11, <2>3, <2>5 DEF Got
  <2>10. QED BY <2>8, <2>9
<1>4. QED BY <1>1, <1>2, <1>3

(* An answer that replaces what it takes away leaves every missing block   *)
(* on its way, unless the pair is counted as missed.                       *)
LEMMA AnswerAnnounces ==
  ASSUME WireTypeOK, SentIsKnown, NEW x \in Node, NEW y \in Node, NEW types,
         NEW reply \in Seq(Message(Block)), Answer(x, y, types, reply),
         \A k \in Node : Range(entered[k]) \subseteq Range(entered'[k]),
         NEW m \in Node, NEW n \in Node, <<m, n>> \notin missed',
         NEW b \in Block, Coming(m, n, b),
         x = m /\ y = n /\ Announces(Incoming(x, y), b) =>
           \E r \in Range(reply) : Requests(r, b),
         x = n /\ y = m /\ Requests(Incoming(x, y), b) =>
           \E r \in Range(reply) : Announces(r, b)
  PROVE  Coming(m, n, b)'
<1>2. <<m, n>> \in Pair /\ <<n, m>> \in Pair
  BY DEF Pair
<1>1. CASE Over(x, y)
  <2>1. <<x, y>> \in missed' /\ <<y, x>> \in missed'
        /\ \A p \in Pair \ {<<x, y>>, <<y, x>>} : wire'[p] = wire[p]
    BY <1>1, OverMisses
  <2>2. <<n, m>> \notin {<<x, y>>, <<y, x>>} /\ <<m, n>> \notin {<<x, y>>, <<y, x>>}
    BY <2>1
  <2>3. wire'[<<m, n>>] = wire[<<m, n>>] /\ wire'[<<n, m>>] = wire[<<n, m>>]
    BY <2>1, <2>2, <1>2
  <2>4. QED BY <2>3 DEF Coming, Announces, Requests
<1>3. CASE ~Over(x, y)
  <2>1. /\ \A p \in Pair : \A msg \in Range(wire[p]) :
             msg \in Range(wire'[p]) \/ (p = <<x, y>> /\ msg = Incoming(x, y))
        /\ Range(reply) \subseteq Range(wire'[<<y, x>>])
    BY <1>3, AnswerSaid
  <2>2. ASSUME NEW msg \in Range(wire[<<m, n>>]), Announces(msg, b) PROVE Coming(m, n, b)'
    <3>1. CASE msg \in Range(wire'[<<m, n>>])
      BY <3>1, <2>2 DEF Coming, Announces
    <3>2. CASE msg \notin Range(wire'[<<m, n>>])
      <4>1. <<m, n>> = <<x, y>> /\ msg = Incoming(x, y)
        BY <3>2, <2>1, <1>2, <2>2
      <4>2. PICK r \in Range(reply) : Requests(r, b)
        BY <4>1, <2>2
      <4>3. r \in Range(wire'[<<n, m>>])
        BY <4>1, <4>2, <2>1
      <4>4. QED BY <4>2, <4>3 DEF Coming, Requests
    <3>3. QED BY <3>1, <3>2
  <2>3. ASSUME NEW msg \in Range(wire[<<n, m>>]), Requests(msg, b) PROVE Coming(m, n, b)'
    <3>1. CASE msg \in Range(wire'[<<n, m>>])
      BY <3>1, <2>3 DEF Coming, Requests
    <3>2. CASE msg \notin Range(wire'[<<n, m>>])
      <4>1. <<n, m>> = <<x, y>> /\ msg = Incoming(x, y)
        BY <3>2, <2>1, <1>2, <2>3
      <4>2. PICK r \in Range(reply) : Announces(r, b)
        BY <4>1, <2>3
      <4>3. r \in Range(wire'[<<m, n>>])
        BY <4>1, <4>2, <2>1
      <4>4. QED BY <4>2, <4>3 DEF Coming, Announces
    <3>3. QED BY <3>1, <3>2
  <2>4. ASSUME NEW e \in Range(entered[m]), e.block = b PROVE Coming(m, n, b)'
    BY <2>4 DEF Coming
  <2>5. QED BY <2>2, <2>3, <2>4 DEF Coming
<1>4. QED BY <1>1, <1>3

(* What is said of the head stays true of the messages. *)
LEMMA HeadsStay ==
  ASSUME WireTypeOK, SentIsKnown, HeadsAreChains, NEW x \in Node, NEW y \in Node, NEW types,
         NEW reply \in Seq(Message(Block)), Answer(x, y, types, reply),
         \A r \in Range(reply) : HeadIsChain(r)
  PROVE  HeadsAreChains'
<1>1. \A p \in Pair : Range(wire'[p]) \subseteq Range(wire[p]) \cup Range(reply)
  BY AnswerSaid, OverMisses
<1>2. QED BY <1>1 DEF HeadsAreChains, HeadIsChain

(* With a common block among those listed the fork height is the height of *)
(* one: below every block of the peer's chain that the own chain lacks.    *)
LEMMA ForkHeightBelow ==
  ASSUME NEW n \in Node, tip[n] \in Block, NEW head \in Block,
         NEW recent \in SUBSET Ancestry(head), recent \cap Recent(n, LocalWindow) # {},
         NEW b \in Ancestry(head), b \notin Ancestry(tip[n])
  PROVE  ForkHeight(n, recent) < HeightOf(b)
<1> DEFINE shared == recent \cap Recent(n, LocalWindow)
           common == {HeightOf(z) : z \in shared}
           top == HeightOf(b)
<1>1. Recent(n, LocalWindow) \subseteq Ancestry(tip[n])
  BY DEF Recent
<1>2. b \in Block /\ top \in Nat
  BY AncestorsAreLower
<1>3. ASSUME NEW z \in shared PROVE HeightOf(z) \in 0..top /\ HeightOf(z) < top
  <2>1. z \in Ancestry(head) /\ z \in Ancestry(tip[n]) /\ z \in Block
    BY <1>1, AncestryStep
  <2>2. b \notin Ancestry(z)
    BY <2>1, AncestryTransitive
  <2>3. z \in Ancestry(b)
    BY <2>1, <2>2, AncestorsInLine
  <2>4. /\ HeightOf(z) \in Nat /\ HeightOf(z) <= HeightOf(b)
        /\ HeightOf(z) = HeightOf(b) => z = b
    BY <1>2, <2>3, AncestorsAreLower
  <2>5. z # b
    BY <2>1
  <2>6. QED BY <2>4, <2>5, <1>2
<1>4. common # {} /\ common \subseteq 0..top /\ \A h \in common : h < top
  BY <1>3
<1>5. ForkHeight(n, recent) = Max(common)
  BY <1>4 DEF ForkHeight
<1> HIDE DEF common, top
<1>6. \E x \in common : \A y \in common : x >= y
  <2>1. \E x \in common : \A y \in common : y <= x
    BY <1>2, <1>4, HasGreatest
  <2>2. QED BY <2>1, <1>2, <1>4
<1>7. Max(common) \in common
  BY <1>6 DEF Max
<1>8. QED BY <1>4, <1>5, <1>7 DEF top

(* The elements of a list of one or two, or none. *)
LEMMA SmallLists ==
  ASSUME NEW S, NEW a \in S, NEW b \in S
  PROVE  /\ <<a>> \in Seq(S) /\ Range(<<a>>) = {a}
         /\ <<a, b>> \in Seq(S) /\ Range(<<a, b>>) = {a, b}
<1>1. <<a>> \in Seq(S) /\ <<a, b>> \in Seq(S) /\ DOMAIN <<a>> = 1..1 /\ DOMAIN <<a, b>> = 1..2
      /\ <<a>>[1] = a /\ <<a, b>>[1] = a /\ <<a, b>>[2] = b
  OBVIOUS
<1>2. 1..1 = {1} /\ 1..2 = {1, 2}
  OBVIOUS
<1>3. Range(<<a>>) = {<<a>>[i] : i \in 1..1} /\ Range(<<a, b>>) = {<<a, b>>[i] : i \in 1..2}
  BY <1>1 DEF Range
<1>4. QED BY <1>1, <1>2, <1>3

(* A message that asks, or says, brings on its way what it stood for. *)
LEMMA QuestionsCover ==
  ASSUME SyncInv, CatchUpInv, NEW x \in Node, NEW y \in Node, Receive(x, y), ~OnBlock(x, y)
  PROVE  CatchUpInv'
<1>1. /\ BlocksTypeOK /\ WireTypeOK /\ SentIsKnown /\ NodesKeepChains /\ KeepsChain(y)
      /\ NothingForgotten /\ HeadsAreChains
      /\ tip[x] \in Block /\ tip[y] \in Block /\ Ancestry(tip[y]) \subseteq known[y]
      /\ \A k \in Node : tip[k] \in Block
      /\ Ancestry(tip[x]) \subseteq Block /\ Ancestry(tip[y]) \subseteq Block
  <2>1. \A k \in Node : tip[k] \in Block
    BY DEF SyncInv, BlocksTypeOK
  <2>2. QED BY <2>1, AncestryStep DEF SyncInv, CatchUpInv, NodesKeepChains, KeepsChain
<1>2. ASSUME UNCHANGED blocks, NEW types, NEW reply \in Seq(Message(Block)),
             Answer(x, y, types, reply),
             <<x, y>> \notin missed' =>
               \A b \in Ancestry(tip[x]) \ Got(y) : Announces(Incoming(x, y), b) =>
                 \E r \in Range(reply) : Requests(r, b),
             \A b \in Ancestry(tip[y]) : Sendable(b) /\ Requests(Incoming(x, y), b) =>
               \E r \in Range(reply) : Announces(r, b),
             \A r \in Range(reply) : HeadIsChain(r)
      PROVE  CatchUpInv'
  <2>1. linked' = linked /\ missed \subseteq missed'
    BY <1>2 DEF Answer
  <2>2. HeadsAreChains'
    BY <1>1, <1>2, HeadsStay
  <2>3. known' = known /\ orphans' = orphans /\ entered' = entered /\ tip' = tip
    BY <1>2 DEF blocks
  <2>4. ASSUME NEW m \in Node, NEW n \in Node, <<m, n>> \in linked, <<m, n>> \notin missed',
               NEW b \in Ancestry(tip[m]) \ Got(n), Sendable(b)
        PROVE  Coming(m, n, b)'
    <3>1. b \in Block
      BY <1>1, <2>4, AncestryStep
    <3>2. Coming(m, n, b)
      BY <2>1, <2>4, <1>1 DEF NothingForgotten
    <3>3. \A k \in Node : Range(entered[k]) \subseteq Range(entered'[k])
      BY <2>3
    <3>4. x = m /\ y = n /\ Announces(Incoming(x, y), b) => \E r \in Range(reply) : Requests(r, b)
      BY <2>4, <1>2
    <3>5. x = n /\ y = m /\ Requests(Incoming(x, y), b) => \E r \in Range(reply) : Announces(r, b)
      BY <2>4, <1>2
    <3>6. QED BY <1>1, <1>2, <2>4, <3>1, <3>2, <3>3, <3>4, <3>5, AnswerAnnounces
  <2>5. NothingForgotten'
    BY <2>1, <2>3, <2>4 DEF NothingForgotten, Got
  <2>6. QED BY <2>2, <2>5 DEF CatchUpInv
<1>3. \A t \in {"HELLO-ACK", "HEALTHACK", "GET_CHAIN_HEAD", "DATA-ACK", "ECHO"} :
        Plain(t) \in Message(Block) /\ Plain(t).type = t
  BY DEF Plain, Message
<1>4. CASE OnHello(x, y)
  <2> DEFINE reply == <<Plain("HELLO-ACK"), Plain("GET_CHAIN_HEAD")>>
  <2>1. reply \in Seq(Message(Block)) /\ Range(reply) = {Plain("HELLO-ACK"), Plain("GET_CHAIN_HEAD")}
    <3> DEFINE a == Plain("HELLO-ACK")
               g == Plain("GET_CHAIN_HEAD")
    <3>1. a \in Message(Block) /\ g \in Message(Block)
      BY <1>3
    <3> HIDE DEF a, g
    <3>2. <<a, g>> \in Seq(Message(Block)) /\ Range(<<a, g>>) = {a, g}
      BY <3>1, SmallLists
    <3>3. QED BY <3>2 DEF a, g
  <2>2. Answer(x, y, {"HELLO"}, reply) /\ UNCHANGED blocks /\ Incoming(x, y).type = "HELLO"
    BY <1>4 DEF OnHello, Answer
  <2> HIDE DEF reply
  <2>3. \A b \in Block : ~Requests(Incoming(x, y), b) /\ \E r \in Range(reply) : Requests(r, b)
    BY <2>1, <2>2, <1>3 DEF Requests
  <2>4. \A r \in Range(reply) : HeadIsChain(r)
    BY <2>1, <1>3 DEF HeadIsChain
  <2>5. QED BY <2>1, <2>2, <2>3, <2>4, <1>1, <1>2
<1>5. CASE OnHealthcheck(x, y) \/ OnDataAck(x, y) \/ OnSilent(x, y)
  <2>1. PICK reply \in {<<Plain("HEALTHACK")>>, <<Plain("ECHO")>>, <<>>} :
          /\ Answer(x, y, {"HEALTHCHECK", "DATA-ACK", "HELLO-ACK", "HEALTHACK", "ECHO"}, reply)
          /\ UNCHANGED blocks
    BY <1>5 DEF OnHealthcheck, OnDataAck, OnSilent, Answer
  <2>2. reply \in Seq(Message(Block)) /\ Range(reply) \subseteq {Plain("HEALTHACK"), Plain("ECHO")}
    <3>1. <<>> \in Seq(Message(Block)) /\ Range(<<>>) = {}
      BY EmptySeq DEF Range
    <3>2. ASSUME NEW a \in Message(Block)
          PROVE  <<a>> \in Seq(Message(Block)) /\ Range(<<a>>) = {a}
      BY SmallLists
    <3>3. Plain("HEALTHACK") \in Message(Block) /\ Plain("ECHO") \in Message(Block)
      BY <1>3
    <3>4. QED BY <3>1, <3>2, <3>3
  <2>3. \A b \in Block : ~Requests(Incoming(x, y), b) /\ ~Announces(Incoming(x, y), b)
    BY <2>1 DEF Requests, Announces, Answer
  <2>4. \A r \in Range(reply) : HeadIsChain(r)
    BY <2>2, <1>3 DEF HeadIsChain
  <2>5. QED BY <2>1, <2>2, <2>3, <2>4, <1>1, <1>2
<1>6. CASE OnGetChainHead(x, y)
  <2> DEFINE reply == <<ChainHead(y)>>
  <2>1. /\ ChainHead(y).type = "CHAIN_HEAD" /\ ChainHead(y).height = HeightOf(tip[y])
        /\ ChainHead(y).hash = tip[y]
        /\ ChainHead(y).recent \subseteq Ancestry(tip[y])
    BY DEF ChainHead, Recent, HeightAt
  <2>2. ChainHead(y) \in Message(Block)
    <3>1. Recent(y, Window) \in (SUBSET Block) \ {{}} /\ HeightAt(y) \in Nat
      BY <1>1, RecentIsChain, HeightType, SyncAssumption DEF HeightAt
    <3>2. QED BY <3>1, <1>1 DEF ChainHead, Message
  <2>3. reply \in Seq(Message(Block)) /\ Range(reply) = {ChainHead(y)}
    <3> DEFINE h == ChainHead(y)
    <3> HIDE DEF h
    <3>1. h \in Message(Block)
      BY <2>2 DEF h
    <3>2. <<h>> \in Seq(Message(Block)) /\ Range(<<h>>) = {h}
      BY <3>1, SmallLists
    <3>3. QED BY <3>2 DEF h
  <2>4. Answer(x, y, {"GET_CHAIN_HEAD"}, reply) /\ UNCHANGED blocks
        /\ Incoming(x, y).type = "GET_CHAIN_HEAD"
    BY <1>6 DEF OnGetChainHead, Answer
  <2> HIDE DEF reply
  <2>5. \A b \in Block : ~Announces(Incoming(x, y), b)
    BY <2>4 DEF Announces
  <2>7. \A b \in Ancestry(tip[y]) : \E r \in Range(reply) : Announces(r, b)
    BY <2>1, <2>3 DEF Announces
  <2>8. \A r \in Range(reply) : HeadIsChain(r)
    BY <2>1, <2>3 DEF HeadIsChain
  <2>9. QED BY <2>3, <2>4, <2>5, <2>7, <2>8, <1>1, <1>2
<1>7. CASE OnChainHead(x, y)
  <2> DEFINE msg == Incoming(x, y)
             ask == [type |-> "GET_BLOCKS_FROM", from |-> ForkHeight(y, msg.recent),
                     to |-> msg.height]
             reply == IF Wants(y, msg) THEN <<ask>> ELSE <<>>
  <2>1. /\ wire[<<x, y>>] # <<>> /\ msg.type = "CHAIN_HEAD"
        /\ Answer(x, y, {"CHAIN_HEAD"}, reply) /\ UNCHANGED blocks
    BY <1>7 DEF OnChainHead, Answer
  <2>2. msg.height \in Nat /\ msg.recent \in (SUBSET Block) \ {{}}
    BY <2>1, <1>1, IncomingType
  <2>3. msg \in Range(wire[<<x, y>>]) /\ wire[<<x, y>>] \in Seq(Message(Block)) /\ <<x, y>> \in Pair
    <3>1. <<x, y>> \in Pair /\ wire[<<x, y>>] \in Seq(Message(Block))
      BY <1>1 DEF Pair, WireTypeOK
    <3>2. QED BY <2>1, <3>1, RangeHeadTail DEF Incoming
  <2>4. msg.height = HeightOf(msg.hash) /\ msg.recent \subseteq Ancestry(msg.hash)
    BY <2>1, <2>3, <1>1 DEF HeadsAreChains, HeadIsChain
  <2>5. msg.hash \in Block
    <3>1. msg \in Message(Block)
      BY <2>1, <2>3, HeadTailProperties DEF Incoming
    <3> HIDE DEF msg
    <3>2. QED BY <3>1, <2>1 DEF Message
  <2>6. ForkHeight(y, msg.recent) \in Nat \cup {-1}
    BY <2>2, <1>1, ForkHeightType
  <2>7. ask \in Message(Block)
    BY <2>2, <2>6 DEF Message
  <2>8. ask.type = "GET_BLOCKS_FROM" /\ ask.from = ForkHeight(y, msg.recent) /\ ask.to = msg.height
    OBVIOUS
  <2> HIDE DEF msg, ask
  <2>9. reply \in Seq(Message(Block)) /\ Range(reply) = IF Wants(y, msg) THEN {ask} ELSE {}
    <3>1. <<>> \in Seq(Message(Block)) /\ Range(<<>>) = {}
      BY EmptySeq DEF Range
    <3>2. <<ask>> \in Seq(Message(Block)) /\ Range(<<ask>>) = {ask}
      BY <2>7, SmallLists
    <3>3. QED BY <3>1, <3>2
  <2> HIDE DEF reply
  <2>10. ASSUME <<x, y>> \notin missed', NEW b \in Ancestry(tip[x]) \ Got(y),
                Announces(msg, b)
         PROVE  \E r \in Range(reply) : Requests(r, b)
    <3>1. b \in Ancestry(msg.hash) /\ b \in Block /\ b \notin Ancestry(tip[y]) /\ b \notin known[y]
      BY <2>1, <2>10, <1>1, AncestryStep DEF Announces, Got
    <3>2. msg.hash \notin known[y]
      BY <3>1, <1>1 DEF KeepsChain
    <3>3. ~Skips(y, msg)
      <4>1. Skips(y, msg) => <<x, y>> \in missed'
        BY <2>1 DEF Answer, msg
      <4>2. QED BY <4>1, <2>10
    <3>4. Wants(y, msg) /\ msg.recent \cap Recent(y, LocalWindow) # {}
      BY <3>2, <3>3 DEF Skips
    <3>5. HeightOf(b) \in Nat /\ HeightOf(b) <= msg.height
      BY <2>4, <2>5, <3>1, AncestorsAreLower
    <3>6. ForkHeight(y, msg.recent) < HeightOf(b)
      BY <3>1, <3>4, <1>1, <2>4, <2>5, ForkHeightBelow
    <3>7. ask.from < HeightOf(b) /\ HeightOf(b) <= ask.to
      BY <3>5, <3>6, <2>8
    <3>8. QED BY <3>4, <3>7, <2>8, <2>9 DEF Requests
  <2>11. \A b \in Block : ~Requests(msg, b)
    BY <2>1 DEF Requests
  <2>12. \A r \in Range(reply) : HeadIsChain(r)
    BY <2>8, <2>9 DEF HeadIsChain
  <2>13. QED BY <2>1, <2>9, <2>10, <2>11, <2>12, <1>1, <1>2 DEF msg
<1>8. CASE OnGetBlocksFrom(x, y)
  <2> DEFINE msg == Incoming(x, y)
             reply == BlocksFrom(y, msg.from, msg.to)
             h == HeightAt(y)
             upto == Min({msg.to, h})
             c == chain(y)
  <2>1. /\ wire[<<x, y>>] # <<>> /\ msg.type = "GET_BLOCKS_FROM"
        /\ Answer(x, y, {"GET_BLOCKS_FROM"}, reply) /\ UNCHANGED blocks
    BY <1>8 DEF OnGetBlocksFrom, Answer
  <2>2. msg.from \in Nat \cup {-1} /\ msg.to \in Nat
    BY <2>1, <1>1, IncomingType
  <2>3. reply \in Seq(Message(Block))
    <3> HIDE DEF msg
    <3>1. reply \in Seq(Message(Ancestry(tip[y])))
      BY <2>2, <1>1, BlocksFromChain
    <3>2. Message(Ancestry(tip[y])) \subseteq Message(Block)
      BY <1>1, MessagesGrow
    <3> HIDE DEF reply
    <3>3. QED BY <3>1, <3>2, SeqMonotonic
  <2> HIDE DEF msg
  <2>4. h \in Nat /\ upto \in {msg.to, h} /\ upto <= h /\ upto <= msg.to
    <3>1. h \in Nat
      BY <1>1, HeightType DEF HeightAt
    <3>2. QED BY <3>1, <2>2 DEF Min
  <2>5. reply = [i \in 1..upto - msg.from |-> BlockMsg(c[msg.from + 1 + i])]
    BY DEF BlocksFrom
  <2>6. Range(reply) = {BlockMsg(c[msg.from + 1 + i]) : i \in 1..upto - msg.from}
    <3> HIDE DEF c, upto, reply
    <3>1. QED BY <2>5 DEF Range
  <2>7. \A b \in Ancestry(tip[y]) : /\ HeightOf(b) + 1 \in 1..Len(c) /\ c[HeightOf(b) + 1] = b
                                    /\ HeightOf(b) \in Nat /\ HeightOf(b) <= h
    <3>1. TAKE b \in Ancestry(tip[y])
    <3>2. /\ b \in Block /\ Len(Lineage[b]) \in 1..Len(Lineage[tip[y]])
          /\ Lineage[tip[y]][Len(Lineage[b])] = b
      BY <1>1, AncestorPosition
    <3>3. Len(Lineage[b]) = HeightOf(b) + 1 /\ HeightOf(b) \in Nat
      BY <3>2, HeightType
    <3>4. HeightOf(b) <= h
      BY <1>1, AncestorsAreLower DEF HeightAt
    <3>5. QED BY <3>2, <3>3, <3>4 DEF chain
  <2> HIDE DEF reply, c
  <2>8. ASSUME NEW b \in Ancestry(tip[y]), Sendable(b), Requests(msg, b)
        PROVE  \E r \in Range(reply) : Announces(r, b)
    <3>1. msg.from < HeightOf(b) /\ HeightOf(b) <= msg.to
      BY <2>1, <2>8 DEF Requests
    <3>2. /\ HeightOf(b) \in Nat /\ HeightOf(b) <= h /\ c[HeightOf(b) + 1] = b
      BY <2>7, <2>8, <1>1
    <3>3. HeightOf(b) - msg.from \in 1..upto - msg.from
      BY <3>1, <3>2, <2>2, <2>4
    <3>4. msg.from + 1 + (HeightOf(b) - msg.from) = HeightOf(b) + 1
      BY <3>2, <2>2
    <3>5. BlockMsg(b) \in Range(reply)
      BY <3>2, <3>3, <3>4, <2>6
    <3>6. Announces(BlockMsg(b), b)
      <4>1. b \notin Oversize
        BY <2>8, <1>1, AncestryStep DEF Sendable
      <4>2. QED BY <4>1 DEF BlockMsg, Announces
    <3>7. QED BY <3>5, <3>6
  <2>9. \A b \in Block : ~Announces(msg, b)
    BY <2>1 DEF Announces
  <2>10. \A r \in Range(reply) : HeadIsChain(r)
    BY <2>6 DEF BlockMsg, Plain, HeadIsChain
  <2>11. QED BY <2>1, <2>3, <2>8, <2>9, <2>10, <1>1, <1>2 DEF msg
<1>9. QED BY <1>4, <1>5, <1>6, <1>7, <1>8 DEF Receive

(* A block that is read is there; what it brings into the chain is listed  *)
(* for the reactor.                                                        *)
LEMMA BlockCovers ==
  ASSUME SyncInv, CatchUpInv, NEW x \in Node, NEW y \in Node, OnBlock(x, y)
  PROVE  CatchUpInv'
<1> DEFINE msg == Incoming(x, y)
           reply == <<Plain("DATA-ACK")>>
<1>1. /\ BlocksTypeOK /\ WireTypeOK /\ SentIsKnown /\ NodesKeepChains
      /\ NothingForgotten /\ HeadsAreChains
      /\ \A k \in Node : tip[k] \in Block
  BY DEF SyncInv, CatchUpInv, BlocksTypeOK
<1>2. /\ wire[<<x, y>>] # <<>> /\ msg.type = "BLOCK" /\ Answer(x, y, {"BLOCK"}, reply)
      /\ IF Over(x, y) THEN UNCHANGED blocks ELSE AcceptFrom(x, y, msg.payload)
      /\ linked' = linked /\ missed \subseteq missed'
  BY DEF OnBlock, Answer
<1>3. msg.payload \in Block
  BY <1>1, <1>2, IncomingType
<1>4. reply \in Seq(Message(Block)) /\ \A r \in Range(reply) : HeadIsChain(r)
  <2> DEFINE a == Plain("DATA-ACK")
  <2>1. a \in Message(Block) /\ HeadIsChain(a)
    BY DEF Plain, Message, HeadIsChain
  <2> HIDE DEF a
  <2>2. <<a>> \in Seq(Message(Block)) /\ Range(<<a>>) = {a}
    BY <2>1, SmallLists
  <2>3. QED BY <2>1, <2>2 DEF a
<1> HIDE DEF msg, reply
<1>5. /\ ~Over(x, y) => msg.payload \in Got(y)'
      /\ \A k \in Node : /\ Got(k) \subseteq Got(k)'
                         /\ Range(entered[k]) \subseteq Range(entered'[k])
      /\ \A b \in Ancestry(tip'[y]) \ Ancestry(tip[y]) :
           \E e \in Range(entered'[y]) : e.block = b
      /\ \A k \in Node \ {y} : tip'[k] = tip[k]
  <2>1. CASE Over(x, y)
    BY <2>1, <1>2 DEF blocks, Got
  <2>2. CASE ~Over(x, y)
    BY <2>2, <1>1, <1>2, <1>3, AcceptPublishes
  <2>3. QED BY <2>1, <2>2
<1>6. HeadsAreChains'
  BY <1>1, <1>2, <1>4, HeadsStay
<1>7. ASSUME NEW m \in Node, NEW n \in Node, <<m, n>> \in linked', <<m, n>> \notin missed',
             NEW b \in Ancestry(tip'[m]) \ Got(n)', Sendable(b)
      PROVE  Coming(m, n, b)'
  <2>1. CASE b \in Ancestry(tip[m])
    <3>1. b \in Block /\ b \notin Got(n)
      BY <2>1, <1>1, <1>5, <1>7, AncestryStep
    <3>2. Coming(m, n, b)
      BY <2>1, <3>1, <1>1, <1>2, <1>7 DEF NothingForgotten
    <3>3. ~(x = m /\ y = n /\ Announces(Incoming(x, y), b))
      <4>1. Over(x, y) => <<x, y>> \in missed'
        BY <1>1, <1>2, OverMisses
      <4>2. QED BY <4>1, <1>2, <1>5, <1>7 DEF Announces, msg
    <3>4. ~Requests(Incoming(x, y), b)
      BY <1>2 DEF Requests, msg
    <3>5. QED BY <1>1, <1>2, <1>4, <1>5, <1>7, <3>1, <3>2, <3>3, <3>4, AnswerAnnounces
  <2>2. CASE b \notin Ancestry(tip[m])
    <3>1. m = y /\ b \in Ancestry(tip'[y]) \ Ancestry(tip[y])
      BY <2>2, <1>5, <1>7
    <3>2. PICK e \in Range(entered'[y]) : e.block = b
      BY <3>1, <1>5
    <3>3. QED BY <3>1, <3>2 DEF Coming
  <2>3. QED BY <2>1, <2>2
<1>8. NothingForgotten'
  BY <1>7 DEF NothingForgotten, Sendable
<1>9. QED BY <1>6, <1>8 DEF CatchUpInv

(* A block that was mined is listed for the reactor. *)
LEMMA MineCovers ==
  ASSUME SyncInv, CatchUpInv, NEW k \in Node, NEW b0 \in Block, Mine(k, b0)
  PROVE  CatchUpInv'
<1>1. /\ BlocksTypeOK /\ NodesKeepChains /\ NothingForgotten /\ HeadsAreChains
      /\ AcceptFrom(Self, k, b0) /\ UNCHANGED <<linked, wire, heard, missed>>
  BY DEF SyncInv, CatchUpInv, Mine
<1>2. /\ \A m \in Node : /\ Got(m) \subseteq Got(m)'
                         /\ Range(entered[m]) \subseteq Range(entered'[m])
      /\ \A b \in Ancestry(tip'[k]) \ Ancestry(tip[k]) :
           \E e \in Range(entered'[k]) : e.block = b
      /\ \A m \in Node \ {k} : tip'[m] = tip[m]
  BY <1>1, AcceptPublishes
<1>3. ASSUME NEW m \in Node, NEW n \in Node, <<m, n>> \in linked', <<m, n>> \notin missed',
             NEW b \in Ancestry(tip'[m]) \ Got(n)', Sendable(b)
      PROVE  Coming(m, n, b)'
  <2>1. CASE b \in Ancestry(tip[m])
    <3>1. Coming(m, n, b)
      BY <2>1, <1>1, <1>2, <1>3 DEF NothingForgotten
    <3>2. wire' = wire
      BY <1>1
    <3>3. QED BY <3>1, <3>2, <1>2 DEF Coming, Announces, Requests
  <2>2. CASE b \notin Ancestry(tip[m])
    <3>1. m = k /\ b \in Ancestry(tip'[k]) \ Ancestry(tip[k])
      BY <2>2, <1>2, <1>3
    <3>2. PICK e \in Range(entered'[k]) : e.block = b
      BY <3>1, <1>2
    <3>3. QED BY <3>1, <3>2 DEF Coming
  <2>3. QED BY <2>1, <2>2
<1>4. NothingForgotten'
  BY <1>3 DEF NothingForgotten, Sendable
<1>5. HeadsAreChains'
  BY <1>1 DEF HeadsAreChains, HeadIsChain
<1>6. QED BY <1>4, <1>5 DEF CatchUpInv

(* A listed block is sent to a peer, or the peer has it, or is left out.   *)
LEMMA RelayCovers ==
  ASSUME SyncInv, CatchUpInv, NEW k \in Node, Relay(k)
  PROVE  CatchUpInv'
<1> DEFINE e0 == Head(entered[k])
           To(p) == p \in SentTo(k, e0.origin)
<1>1. /\ BlocksTypeOK /\ WireTypeOK /\ NothingForgotten /\ HeadsAreChains
      /\ entered[k] # <<>> /\ UNCHANGED <<known, orphans, tip, linked, heard>>
      /\ entered' = [entered EXCEPT ![k] = Tail(@)]
      /\ wire' = [p \in Pair |-> IF To(p) THEN Append(wire[p], BlockMsg(e0.block)) ELSE wire[p]]
      /\ missed' = missed \cup {p \in linked : ~To(p) /\ p[1] = k /\ e0.block \notin known[p[2]]}
      /\ entered[k] \in Seq(Entries(Block)) /\ entered \in [Node -> Seq(Entries(Block))]
  BY DEF SyncInv, CatchUpInv, Relay, LeftOut, BlocksTypeOK
<1>2. Range(entered[k]) = {e0} \cup Range(Tail(entered[k])) /\ e0 \in Entries(Block)
  BY <1>1, RangeHeadTail, HeadTailProperties
<1>3. BlockMsg(e0.block) \in Message(Block) /\ HeadIsChain(BlockMsg(e0.block))
  BY <1>2 DEF Entries, BlockMsg, Plain, Message, HeadIsChain
<1>4. /\ \A m \in Node \ {k} : entered'[m] = entered[m]
      /\ entered'[k] = Tail(entered[k])
  BY <1>1
<1> HIDE DEF e0, To
<1>5. ASSUME NEW p \in Pair
      PROVE  Range(wire'[p]) = IF To(p) THEN Range(wire[p]) \cup {BlockMsg(e0.block)}
                               ELSE Range(wire[p])
  <2> DEFINE new == BlockMsg(e0.block)
  <2>1. wire[p] \in Seq(Message(Block)) /\ new \in Message(Block)
    BY <1>1, <1>3 DEF WireTypeOK
  <2>2. wire'[p] = IF To(p) THEN Append(wire[p], new) ELSE wire[p]
    BY <1>1
  <2> HIDE DEF new
  <2>3. Range(Append(wire[p], new)) = Range(wire[p]) \cup {new}
    BY <2>1, RangeAppend
  <2>4. QED BY <2>2, <2>3 DEF new
<1>6. ASSUME NEW m \in Node, NEW n \in Node, <<m, n>> \in linked', <<m, n>> \notin missed',
             NEW b \in Ancestry(tip'[m]) \ Got(n)', Sendable(b)
      PROVE  Coming(m, n, b)'
  <2>1. /\ <<m, n>> \in linked /\ <<m, n>> \notin missed /\ b \in Ancestry(tip[m]) \ Got(n)
        /\ <<m, n>> \in Pair /\ <<n, m>> \in Pair
    BY <1>1, <1>6 DEF Got, Pair
  <2>2. Coming(m, n, b)
    BY <2>1, <1>1, <1>6 DEF NothingForgotten
  <2>3. /\ Range(wire[<<m, n>>]) \subseteq Range(wire'[<<m, n>>])
        /\ Range(wire[<<n, m>>]) \subseteq Range(wire'[<<n, m>>])
    BY <2>1, <1>5
  <2>4. CASE \E e \in Range(entered[m]) : e.block = b
    <3>1. PICK e \in Range(entered[m]) : e.block = b
      BY <2>4
    <3>2. CASE e \in Range(entered'[m])
      BY <3>1, <3>2 DEF Coming
    <3>3. CASE e \notin Range(entered'[m])
      <4>1. m = k /\ e = e0
        BY <3>1, <3>3, <1>2, <1>4
      <4>2. To(<<m, n>>)
        <5>1. e0.block \notin known[n]
          BY <4>1, <3>1, <2>1 DEF Got
        <5>2. <<m, n>>[1] = k /\ <<m, n>>[2] = n
          BY <4>1
        <5>3. QED BY <5>1, <5>2, <2>1, <1>1, <1>6
      <4>3. BlockMsg(b) \in Range(wire'[<<m, n>>])
        BY <4>1, <4>2, <3>1, <2>1, <1>5
      <4>4. b \notin Oversize
        BY <1>6, <2>1, <1>1, AncestryStep DEF Sendable, BlocksTypeOK
      <4>5. QED BY <4>3, <4>4 DEF Coming, Announces, BlockMsg
    <3>4. QED BY <3>2, <3>3
  <2>5. QED BY <2>2, <2>3, <2>4 DEF Coming, Announces, Requests
<1>7. HeadsAreChains'
  BY <1>1, <1>3, <1>5 DEF HeadsAreChains, HeadIsChain
<1>8. NothingForgotten'
  BY <1>6 DEF NothingForgotten, Sendable
<1>9. QED BY <1>7, <1>8 DEF CatchUpInv

(* Both ends of a new connection are going to be asked for their head. *)
LEMMA ConnectCovers ==
  ASSUME SyncInv, CatchUpInv, NEW x \in Node, NEW y \in Node, Connect(x, y)
  PROVE  CatchUpInv'
<1> DEFINE hello == <<Plain("HELLO"), Plain("HEALTHCHECK"), Plain("GET_CHAIN_HEAD")>>
<1>1. /\ WireTypeOK /\ SentIsKnown /\ NothingForgotten /\ HeadsAreChains
      /\ UNCHANGED blocks /\ linked' = linked \cup {<<x, y>>, <<y, x>>}
      /\ wire' = [wire EXCEPT ![<<x, y>>] = hello] /\ <<x, y>> \notin linked
      /\ <<x, y>> \in Pair /\ missed' = missed
  BY DEF SyncInv, CatchUpInv, Connect, Pair
<1>2. known' = known /\ orphans' = orphans /\ tip' = tip /\ entered' = entered
  BY <1>1 DEF blocks
<1>3. Range(hello) = {Plain("HELLO"), Plain("HEALTHCHECK"), Plain("GET_CHAIN_HEAD")}
  <2>1. /\ DOMAIN hello = 1..3 /\ hello[1] = Plain("HELLO") /\ hello[2] = Plain("HEALTHCHECK")
        /\ hello[3] = Plain("GET_CHAIN_HEAD")
    OBVIOUS
  <2>2. 1..3 = {1, 2, 3}
    OBVIOUS
  <2> HIDE DEF hello
  <2>3. Range(hello) = {hello[i] : i \in 1..3}
    BY <2>1 DEF Range
  <2>4. QED BY <2>1, <2>2, <2>3
<1> HIDE DEF hello
<1>4. /\ wire'[<<x, y>>] = hello /\ wire[<<x, y>>] = <<>>
      /\ \A p \in Pair \ {<<x, y>>} : wire'[p] = wire[p]
  BY <1>1 DEF WireTypeOK, SentIsKnown
<1>5. ASSUME NEW m \in Node, NEW n \in Node, <<m, n>> \in linked', <<m, n>> \notin missed',
             NEW b \in Ancestry(tip'[m]) \ Got(n)', Sendable(b)
      PROVE  Coming(m, n, b)'
  <2>1. CASE <<m, n>> = <<x, y>>
    <3>1. Plain("HELLO") \in Range(wire'[<<m, n>>]) /\ Plain("HELLO").type = "HELLO"
      BY <2>1, <1>3, <1>4 DEF Plain
    <3>2. QED BY <3>1 DEF Coming, Announces
  <2>2. CASE <<m, n>> = <<y, x>>
    <3>1. /\ Plain("GET_CHAIN_HEAD") \in Range(wire'[<<n, m>>])
          /\ Plain("GET_CHAIN_HEAD").type = "GET_CHAIN_HEAD"
      BY <2>2, <1>3, <1>4 DEF Plain
    <3>2. QED BY <3>1 DEF Coming, Requests
  <2>3. CASE <<m, n>> # <<x, y>> /\ <<m, n>> # <<y, x>>
    <3>1. <<m, n>> \in linked /\ <<m, n>> \notin missed /\ b \in Ancestry(tip[m]) \ Got(n)
      BY <2>3, <1>1, <1>2, <1>5 DEF Got
    <3>2. Coming(m, n, b)
      BY <3>1, <1>1, <1>5 DEF NothingForgotten
    <3>3. /\ <<m, n>> \in Pair \ {<<x, y>>} /\ <<n, m>> \in Pair \ {<<x, y>>}
      BY <2>3 DEF Pair
    <3>4. wire'[<<m, n>>] = wire[<<m, n>>] /\ wire'[<<n, m>>] = wire[<<n, m>>]
      BY <3>3, <1>4
    <3>5. QED BY <3>2, <3>4, <1>2 DEF Coming, Announces, Requests
  <2>4. QED BY <2>1, <2>2, <2>3
<1>6. HeadsAreChains'
  <2>1. ASSUME NEW p \in Pair, NEW msg \in Range(wire'[p]), msg.type = "CHAIN_HEAD"
        PROVE  msg \in Range(wire[p])
    BY <2>1, <1>3, <1>4 DEF Plain
  <2>2. QED BY <2>1, <1>1 DEF HeadsAreChains, HeadIsChain
<1>7. NothingForgotten'
  BY <1>5 DEF NothingForgotten, Sendable
<1>8. QED BY <1>6, <1>7 DEF CatchUpInv

(* The step of the invariant, one case for each kind of action. *)
LEMMA CatchUpStep ==
  ASSUME SyncInv, CatchUpInv, [SyncNext]_syncVars
  PROVE  CatchUpInv'
<1>1. ASSUME NEW m \in Node, NEW n \in Node, Connect(m, n) PROVE CatchUpInv'
  BY <1>1, ConnectCovers
<1>2. ASSUME NEW m \in Node, NEW n \in Node, Receive(m, n) PROVE CatchUpInv'
  BY <1>2, QuestionsCover, BlockCovers
<1>3. ASSUME NEW n \in Node, Relay(n) PROVE CatchUpInv'
  BY <1>3, RelayCovers
<1>4. ASSUME NEW n \in Node, NEW b \in Block \ Root, Mine(n, b) PROVE CatchUpInv'
  BY <1>4, MineCovers
<1>5. CASE UNCHANGED syncVars
  BY <1>5 DEF syncVars, blocks, CatchUpInv, NothingForgotten, HeadsAreChains, HeadIsChain,
              Coming, Announces, Requests, Got
<1>6. QED BY <1>1, <1>2, <1>3, <1>4, <1>5 DEF SyncNext

(* Nobody is connected, nothing is missing. *)
LEMMA CatchUpInit == SyncInit => CatchUpInv
<1> SUFFICES ASSUME SyncInit PROVE CatchUpInv
  OBVIOUS
<1>1. Range(<<>>) = {}
  BY DEF Range
<1>2. (\A p \in Pair : wire[p] = <<>>) /\ linked = {}
  BY DEF SyncInit
<1>3. QED BY <1>1, <1>2 DEF CatchUpInv, NothingForgotten, HeadsAreChains

(* With nothing on its way a node has what it lacked, and has indexed it:  *)
(* the lowest of the peer's blocks that still waited as an orphan would    *)
(* have its parent indexed.                                                *)
LEMMA QuietIsComplete ==
  ASSUME SyncInv, CatchUpInv
  PROVE  PeersCatchUp
<1>1. \A k \in Node : /\ KeepsChain(k) /\ tip[k] \in Block
                     /\ known[k] \subseteq Block /\ orphans[k] \subseteq Block
  BY DEF SyncInv, NodesKeepChains, BlocksTypeOK
<1>2. SUFFICES ASSUME Quiet, NEW m \in Node, NEW n \in Node, <<m, n>> \in linked \ missed,
                      NEW b \in Ancestry(tip[m]), Sendable(b), b \notin known[n]
               PROVE  FALSE
  BY DEF PeersCatchUp, Sendable
<1>3. /\ b \in Block /\ Ancestry(b) \subseteq Ancestry(tip[m]) /\ Ancestry(b) \subseteq Block
      /\ b \in Ancestry(b)
  BY <1>1, AncestryStep, AncestryTransitive
<1>4. Ancestry(b) \subseteq Got(n)
  <2>1. Range(<<>>) = {} /\ wire[<<m, n>>] = <<>> /\ wire[<<n, m>>] = <<>> /\ entered[m] = <<>>
    BY <1>2 DEF Quiet, Range
  <2>2. \A x \in Block : ~Coming(m, n, x)
    BY <2>1 DEF Coming
  <2>3. ASSUME NEW x \in Ancestry(b) PROVE Sendable(x)
    BY <1>2, <1>3, AncestryTransitive DEF Sendable
  <2>4. QED BY <2>2, <2>3, <1>2, <1>3 DEF CatchUpInv, NothingForgotten
<1> DEFINE waiting == Ancestry(b) \cap orphans[n]
           Lengths == {Len(Lineage[o]) : o \in waiting}
<1>5. Lengths \subseteq Nat /\ Lengths # {}
  <2>1. \A o \in waiting : Len(Lineage[o]) \in Nat
    BY <1>3, LineageEnds
  <2>2. b \in waiting
    BY <1>2, <1>3, <1>4 DEF Got
  <2>3. QED BY <2>1, <2>2
<1>6. \E h \in Lengths : \A l \in Lengths : h <= l
  <2> HIDE DEF Lengths
  <2>1. QED BY <1>5, HasLeast
<1>7. PICK o \in waiting : \A q \in waiting : Len(Lineage[o]) <= Len(Lineage[q])
  BY <1>6
<1>8. o \in Block \ Root /\ Parent[o] \notin known[n]
  BY <1>7, <1>1 DEF KeepsChain
<1> DEFINE q == Parent[o]
<1>9. q \in Block /\ Len(Lineage[o]) = Len(Lineage[q]) + 1 /\ q \in Ancestry(b)
  <2>1. q \in Ancestry(o)
    BY <1>8, ChildIsLonger, AncestryStep
  <2>2. Ancestry(o) \subseteq Ancestry(b)
    BY <1>3, <1>7, AncestryTransitive
  <2>3. QED BY <2>1, <2>2, <1>8, ChildIsLonger
<1>10. q \in waiting
  BY <1>4, <1>8, <1>9 DEF Got
<1>11. Len(Lineage[q]) \in Nat
  BY <1>9, LineageEnds
<1>12. QED BY <1>7, <1>9, <1>10, <1>11

(* Of a connected peer's chain a node has, once nothing is on its way,     *)
(* everything up to the first block too long for a message, unless it      *)
(* passed over what the peer said, a message was thrown away over the rate *)
(* limit, or the peer left it out: whatever the tree, the branches, the    *)
(* connections, the windows and the limits are.                            *)
THEOREM PeersCatchUpHolds == SyncSpec => []PeersCatchUp
<1>1. SyncInv /\ CatchUpInv /\ [SyncNext]_syncVars => CatchUpInv'
  BY CatchUpStep
<1>2. SyncInv /\ CatchUpInv => PeersCatchUp
  BY QuietIsComplete
<1>3. QED BY CatchUpInit, <1>1, <1>2, SyncInvariant, PTL DEF SyncSpec
=============================================================================
