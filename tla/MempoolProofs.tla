--------------------------- MODULE MempoolProofs ---------------------------
(***************************************************************************)
(* Proofs about Mempool, for every tree of blocks, every set of            *)
(* submissions, all limits of the lists, and every interleaving of the     *)
(* callers of add, the worker, the validator and the reactor.  The types   *)
(* hold without a condition.  That nothing confirmed is offered to the     *)
(* miner, and that on a growing chain what is offered is known as          *)
(* accepted, is proved where every block is valid after those below it     *)
(* (BlocksApply) and no payer of a block mines (NoMinerPays), so that      *)
(* nobody seems to lack an immature reward: the nonces of the ledger are   *)
(* then beyond all that the chain confirms.  After reorganisations it is   *)
(* proved as long as they reach the reactor one at a time (not tangled).   *)
(* What the miner is offered can be executed in its order on the tip's     *)
(* ledger, on a growing chain, if the accepted list also never fills up:   *)
(* trimming drops its oldest element, which later ones may need.           *)
(***************************************************************************)
EXTENDS Mempool, LedgerProofs

-----------------------------------------------------------------------------
(* The elements of a list. *)
Items(list) == {list[i] : i \in 1..Len(list)}

-----------------------------------------------------------------------------
(* What purge_included_block makes of a list is a run along it.            *)
LEMMA WithoutRun ==
  ASSUME NEW S, NEW list \in Seq(S), NEW txs
  PROVE  \E f \in [0..Len(list) -> Seq(S)] :
           /\ f[0] = <<>> /\ f[Len(list)] = Without(list, txs)
           /\ \A k \in 1..Len(list) :
                f[k] = IF list[k].tx \in txs THEN f[k - 1] ELSE Append(f[k - 1], list[k])
<1> DEFINE n == Len(list)
           Keep(r, o) == IF o.tx \in txs THEN r ELSE Append(r, o)
           F == [p \in Seq(S) \X S |-> Keep(p[1], p[2])]
           IsTable(it) == it = [s \in SUBSET (1..n) |->
             IF s = {} THEN <<>> ELSE Keep(it[s \ {Max(s)}], list[Max(s)])]
           J == CHOOSE it : IsTable(it)
<1>1. n \in Nat /\ DOMAIN list = 1..n /\ (\A i \in 1..n : list[i] \in S) /\ <<>> \in Seq(S)
  BY LenProperties, ElementOfSeq
<1>2. F \in [Seq(S) \X S -> Seq(S)]
  <2>1. \A r \in Seq(S), o \in S : Keep(r, o) \in Seq(S)
    BY AppendProperties
  <2> HIDE DEF Keep
  <2>2. QED BY <2>1
<1>3. \A r \in Seq(S), o \in S : F[r, o] = Keep(r, o)
  OBVIOUS
<1>4. \A s \in SUBSET (1..n) : s # {} => Max(s) \in 1..n /\ list[Max(s)] \in S
  BY <1>1, MaxInRange
<1>5. \E it : IsTableOf(it, Seq(S), F, <<>>, list)
  <2> HIDE DEF F, J
  <2>1. QED BY <1>1, <1>2, FoldTable
<1> HIDE DEF F
<1>6. \E it : IsTable(it)
  <2> HIDE DEF Keep
  <2>1. PICK it \in [SUBSET (1..n) -> Seq(S)] : \A s \in SUBSET (1..n) :
          it[s] = IF s = {} THEN <<>> ELSE F[it[s \ {Max(s)}], list[Max(s)]]
    BY <1>5 DEF IsTableOf
  <2>2. \A s \in SUBSET (1..n) : s # {} =>
          F[it[s \ {Max(s)}], list[Max(s)]] = Keep(it[s \ {Max(s)}], list[Max(s)])
    BY <1>3, <1>4
  <2>3. \A s \in SUBSET (1..n) :
          it[s] = IF s = {} THEN <<>> ELSE Keep(it[s \ {Max(s)}], list[Max(s)])
    BY <2>1, <2>2
  <2>4. IsTable(it)
    BY <2>1, <2>3
  <2> HIDE DEF IsTable
  <2>5. QED BY <2>4
<1>7. J = [s \in SUBSET (1..n) |->
             IF s = {} THEN <<>> ELSE Keep(J[s \ {Max(s)}], list[Max(s)])]
  <2>1. IsTable(J)
    <3> HIDE DEF IsTable
    <3>1. QED BY <1>6
  <2> HIDE DEF Keep
  <2>2. QED BY <2>1
<1>8. Without(list, txs) = J[1..n]
  BY <1>1 DEF Without, FoldLeft, MapThenFoldSet
<1> HIDE DEF J, Keep
<1>9. J[{}] = <<>>
  BY <1>7
<1>10. FollowsTable(J, Seq(S), F, <<>>, list)
  BY <1>3, <1>4, <1>7, <1>9 DEF FollowsTable
<1>11. \E f : IsRunOf(f, Seq(S), F, <<>>, list, J[1..n])
  BY <1>1, <1>2, <1>10, TableIsRun
<1>12. PICK f \in [0..n -> Seq(S)] : /\ f[0] = <<>> /\ f[n] = J[1..n]
                                   /\ \A k \in 1..n : f[k] = F[f[k - 1], list[k]]
  BY <1>11 DEF IsRunOf
<1>13. \A k \in 1..n : f[k] = Keep(f[k - 1], list[k])
  <2>1. TAKE k \in 1..n
  <2>2. f[k - 1] \in Seq(S) /\ list[k] \in S
    BY <1>1
  <2>3. QED BY <2>2, <1>3, <1>12
<1>14. QED BY <1>8, <1>12, <1>13 DEF Keep

(* A list whose items have different transactions. *)
DistinctTxs(list) ==
  \A i, j \in 1..Len(list) : list[i].tx = list[j].tx => i = j

(* ... and what it keeps: items of the list that are not in the block, and *)
(* each as often as before at most.                                        *)
LEMMA WithoutKeeps ==
  ASSUME NEW S, NEW list \in Seq(S), NEW txs
  PROVE  /\ Without(list, txs) \in Seq(S) /\ Len(Without(list, txs)) <= Len(list)
         /\ \A i \in 1..Len(Without(list, txs)) :
              /\ Without(list, txs)[i].tx \notin txs
              /\ \E j \in 1..Len(list) : Without(list, txs)[i] = list[j]
         /\ DistinctTxs(list) => DistinctTxs(Without(list, txs))
<1> DEFINE n == Len(list)
           From(s, k) == /\ s \in Seq(S) /\ Len(s) <= k
                         /\ \A i \in 1..Len(s) : /\ s[i].tx \notin txs
                                                /\ \E j \in 1..k : s[i] = list[j]
                         /\ DistinctTxs(list) => DistinctTxs(s)
<1>1. n \in Nat /\ \A i \in 1..n : list[i] \in S
  BY LenProperties, ElementOfSeq
<1>2. PICK f \in [0..n -> Seq(S)] :
           /\ f[0] = <<>> /\ f[n] = Without(list, txs)
           /\ \A k \in 1..n :
                f[k] = IF list[k].tx \in txs THEN f[k - 1] ELSE Append(f[k - 1], list[k])
  BY WithoutRun
<1> DEFINE T == {k \in 0..n : From(f[k], k)}
<1>3. 0 \in T
  <2>1. f[0] = <<>> /\ <<>> \in Seq(S) /\ Len(<<>>) = 0
    BY <1>2
  <2>2. From(f[0], 0)
    BY <2>1 DEF DistinctTxs
  <2>3. QED BY <1>1, <2>2
<1>4. \A k \in 0..n : k \in T /\ k < n => k + 1 \in T
  <2>1. TAKE k \in 0..n
  <2>2. ASSUME k \in T, k < n PROVE k + 1 \in T
    <3> DEFINE s == f[k]
               o == list[k + 1]
    <3>1. k + 1 \in 1..n /\ (k + 1) - 1 = k /\ o \in S /\ From(s, k)
      BY <1>1, <2>2
    <3>2. f[k + 1] = IF o.tx \in txs THEN s ELSE Append(s, o)
      BY <1>2, <3>1
    <3>3. s \in Seq(S) /\ Len(s) \in Nat
      BY <3>1, LenProperties
    <3>4. CASE o.tx \in txs
      <4>1. From(s, k + 1)
        BY <3>1, <3>3
      <4> HIDE DEF From
      <4>2. QED BY <3>1, <3>2, <3>4, <4>1
    <3>5. CASE o.tx \notin txs
      <4> DEFINE r == Append(s, o)
      <4>1. /\ r \in Seq(S) /\ Len(r) = Len(s) + 1
            /\ \A i \in 1..Len(s) : r[i] = s[i]
            /\ r[Len(s) + 1] = o
        BY <3>1, <3>3, AppendProperties
      <4> HIDE DEF r, s, o
      <4>2. \A i \in 1..Len(r) : i \in 1..Len(s) \/ (i = Len(s) + 1 /\ r[i] = o)
        BY <4>1, <3>3
      <4>3. \A i \in 1..Len(r) : /\ r[i].tx \notin txs
                                 /\ \E j \in 1..k + 1 : r[i] = list[j]
        <5>1. TAKE i \in 1..Len(r)
        <5>2. CASE i \in 1..Len(s)
          <6>1. s[i].tx \notin txs /\ r[i] = s[i]
            BY <5>2, <4>1, <3>1
          <6>2. PICK j \in 1..k : s[i] = list[j]
            BY <5>2, <3>1
          <6>3. j \in 1..k + 1
            BY <3>1
          <6>4. QED BY <6>1, <6>2, <6>3
        <5>3. CASE i = Len(s) + 1 /\ r[i] = o
          <6>1. k + 1 \in 1..k + 1 /\ r[i] = list[k + 1]
            BY <5>3 DEF o
          <6>2. QED BY <5>3, <6>1, <3>5
        <5>4. QED BY <5>2, <5>3, <4>2
      <4>4. ASSUME DistinctTxs(list) PROVE DistinctTxs(r)
        <5>1. DistinctTxs(s) /\ \A i \in 1..Len(s) : \E j \in 1..k : s[i] = list[j]
          BY <4>4, <3>1
        <5>2. \A i \in 1..Len(s) : s[i].tx # o.tx
          <6>1. TAKE i \in 1..Len(s)
          <6>2. PICK j \in 1..k : s[i] = list[j]
            BY <5>1
          <6>3. j \in 1..n /\ k + 1 \in 1..n /\ j # k + 1
            BY <3>1
          <6>4. list[j].tx # list[k + 1].tx
            BY <6>3, <4>4 DEF DistinctTxs
          <6>5. QED BY <6>2, <6>4 DEF o
        <5>3. SUFFICES ASSUME NEW i \in 1..Len(r), NEW j \in 1..Len(r), r[i].tx = r[j].tx
                       PROVE  i = j
          BY DEF DistinctTxs
        <5>4. CASE i \in 1..Len(s) /\ j \in 1..Len(s)
          BY <5>4, <5>3, <5>1, <4>1 DEF DistinctTxs
        <5>5. CASE ~(i \in 1..Len(s) /\ j \in 1..Len(s))
          BY <5>5, <5>3, <5>2, <4>1, <4>2
        <5>6. QED BY <5>4, <5>5
      <4>5. Len(s) <= k
        BY <3>1
      <4>6. From(r, k + 1)
        <5>1. Len(r) <= k + 1
          BY <4>5, <4>1, <3>3
        <5>2. QED BY <5>1, <4>1, <4>3, <4>4
      <4>7. f[k + 1] = r
        BY <3>2, <3>5 DEF r, s
      <4> HIDE DEF From
      <4>8. QED BY <3>1, <4>6, <4>7
    <3>6. QED BY <3>4, <3>5
  <2>3. QED BY <2>2
<1>5. 0..n \subseteq T
  <2> HIDE DEF T, n
  <2>1. QED BY <1>1, <1>3, <1>4, SetInduction
<1>6. From(f[n], n)
  <2> HIDE DEF From
  <2>1. QED BY <1>1, <1>5
<1>7. QED BY <1>2, <1>6

(* _trim_list keeps the end of a list. *)
LEMMA TrimKeeps ==
  ASSUME NEW S, NEW list \in Seq(S)
  PROVE  /\ Trim(list) \in Seq(S) /\ Len(Trim(list)) <= MaxItems
         /\ \A i \in 1..Len(Trim(list)) : \E j \in 1..Len(list) : Trim(list)[i] = list[j]
         /\ DistinctTxs(list) => DistinctTxs(Trim(list))
<1> DEFINE n == Len(list)
           d == IF n > MaxItems THEN n - MaxItems ELSE 0
           r == Trim(list)
<1>1. n \in Nat /\ (\A i \in 1..n : list[i] \in S) /\ MaxItems \in Nat \ {0}
  BY LenProperties, ElementOfSeq, MempoolAssumption
<1>2. d \in 0..n /\ n - d <= MaxItems
  BY <1>1
<1> HIDE DEF d
<1>3. r = SubSeq(list, 1 + d, n)
  BY DEF Trim, d
<1> HIDE DEF r
<1>4. /\ SubSeq(list, d + 1, n) \in Seq(S) /\ Len(SubSeq(list, d + 1, n)) = n - d
      /\ \A i \in 1..n - d : SubSeq(list, d + 1, n)[i] = list[d + i]
  BY <1>2, CutList
<1>5. 1 + d = d + 1
  BY <1>2
<1>6. r \in Seq(S) /\ Len(r) = n - d /\ \A i \in 1..n - d : r[i] = list[d + i]
  BY <1>3, <1>4, <1>5
<1>7. \A i \in 1..n - d : d + i \in 1..n
  BY <1>1, <1>2
<1>8. \A i \in 1..Len(r) : \E j \in 1..n : r[i] = list[j]
  BY <1>6, <1>7
<1>9. ASSUME DistinctTxs(list) PROVE DistinctTxs(r)
  <2>1. SUFFICES ASSUME NEW i \in 1..Len(r), NEW j \in 1..Len(r), r[i].tx = r[j].tx
                 PROVE  i = j
    BY DEF DistinctTxs
  <2>2. d + i \in 1..n /\ d + j \in 1..n /\ list[d + i].tx = list[d + j].tx
    BY <2>1, <1>6, <1>7
  <2>3. d + i = d + j
    BY <2>2, <1>9 DEF DistinctTxs
  <2>4. QED BY <2>3, <1>2
<1>10. QED BY <1>2, <1>6, <1>8, <1>9 DEF r

(* Appending and trimming: what was there and the new item. *)
LEMMA AppendTrimKeeps ==
  ASSUME NEW S, NEW list \in Seq(S), NEW o \in S
  PROVE  /\ Trim(Append(list, o)) \in Seq(S) /\ Len(Trim(Append(list, o))) <= MaxItems
         /\ \A i \in 1..Len(Trim(Append(list, o))) :
              \/ Trim(Append(list, o))[i] = o
              \/ \E j \in 1..Len(list) : Trim(Append(list, o))[i] = list[j]
         /\ DistinctTxs(list) /\ (\A i \in 1..Len(list) : list[i].tx # o.tx)
              => DistinctTxs(Trim(Append(list, o)))
<1> DEFINE n == Len(list)
           r == Append(list, o)
<1>1. n \in Nat /\ r \in Seq(S) /\ Len(r) = n + 1 /\ r[n + 1] = o
      /\ \A i \in 1..n : r[i] = list[i]
  BY LenProperties, AppendProperties
<1> HIDE DEF r
<1>2. \A i \in 1..Len(r) : i \in 1..n \/ i = n + 1
  BY <1>1
<1>3. ASSUME DistinctTxs(list), \A i \in 1..n : list[i].tx # o.tx PROVE DistinctTxs(r)
  <2>1. SUFFICES ASSUME NEW i \in 1..Len(r), NEW j \in 1..Len(r), r[i].tx = r[j].tx
                 PROVE  i = j
    BY DEF DistinctTxs
  <2>2. CASE i \in 1..n /\ j \in 1..n
    BY <2>1, <2>2, <1>1, <1>3 DEF DistinctTxs
  <2>3. CASE ~(i \in 1..n /\ j \in 1..n)
    BY <2>1, <2>3, <1>1, <1>2, <1>3
  <2>4. QED BY <2>2, <2>3
<1>4. /\ Trim(r) \in Seq(S) /\ Len(Trim(r)) <= MaxItems
      /\ \A i \in 1..Len(Trim(r)) : \E j \in 1..Len(r) : Trim(r)[i] = r[j]
      /\ DistinctTxs(r) => DistinctTxs(Trim(r))
  BY <1>1, TrimKeeps
<1>5. \A i \in 1..Len(Trim(r)) : Trim(r)[i] = o \/ \E j \in 1..n : Trim(r)[i] = list[j]
  <2>1. TAKE i \in 1..Len(Trim(r))
  <2>2. PICK j \in 1..Len(r) : Trim(r)[i] = r[j]
    BY <1>4
  <2>3. QED BY <2>2, <1>1, <1>2
<1>6. QED BY <1>3, <1>4, <1>5 DEF r

(* Taking an item out. *)
LEMMA RemoveAtKeeps ==
  ASSUME NEW S, NEW list \in Seq(S), NEW i \in 1..Len(list)
  PROVE  /\ RemoveAt(list, i) \in Seq(S) /\ Len(RemoveAt(list, i)) = Len(list) - 1
         /\ Range(RemoveAt(list, i)) \subseteq Range(list)
<1> DEFINE n == Len(list)
           a == SubSeq(list, 1, i - 1)
           b == SubSeq(list, i + 1, n)
<1>1. n \in Nat /\ i \in 1..n /\ i - 1 \in 0..n /\ i \in 0..n
  BY LenProperties
<1>2. a \in Seq(S) /\ Len(a) = i - 1 /\ \A k \in 1..i - 1 : a[k] = list[k]
  BY <1>1, CutList
<1>3. b \in Seq(S) /\ Len(b) = n - i /\ \A k \in 1..n - i : b[k] = list[i + k]
  BY <1>1, CutList
<1> HIDE DEF a, b
<1>4. /\ a \o b \in Seq(S) /\ Len(a \o b) = Len(a) + Len(b)
      /\ Range(a \o b) = Range(a) \cup Range(b)
  BY <1>2, <1>3, ConcatProperties, RangeConcatenation
<1>5. Range(a) = {a[k] : k \in 1..Len(a)} /\ Range(b) = {b[k] : k \in 1..Len(b)}
      /\ Range(list) = {list[k] : k \in 1..n}
  BY <1>2, <1>3, RangeEquality
<1>6. Range(a) \subseteq Range(list)
  BY <1>1, <1>2, <1>5
<1>7. Range(b) \subseteq Range(list)
  <2>1. \A k \in 1..n - i : i + k \in 1..n
    BY <1>1
  <2>2. QED BY <2>1, <1>3, <1>5
<1>8. RemoveAt(list, i) = a \o b
  BY DEF RemoveAt, a, b
<1>9. (i - 1) + (n - i) = n - 1
  BY <1>1
<1>10. QED BY <1>2, <1>3, <1>4, <1>6, <1>7, <1>8, <1>9

(* Dropping the last item. *)
LEMMA FrontKeeps ==
  ASSUME NEW S, NEW list \in Seq(S), list # <<>>
  PROVE  /\ Front(list) \in Seq(S) /\ Len(Front(list)) = Len(list) - 1
         /\ Range(Front(list)) \subseteq Range(list)
<1> DEFINE n == Len(list)
<1>1. n \in Nat \ {0} /\ n - 1 \in 0..n
  BY LenProperties, EmptySeq
<1>2. /\ SubSeq(list, 1, n - 1) \in Seq(S) /\ Len(SubSeq(list, 1, n - 1)) = n - 1
      /\ \A k \in 1..n - 1 : SubSeq(list, 1, n - 1)[k] = list[k]
  BY <1>1, CutList
<1>3. Front(list) = SubSeq(list, 1, n - 1)
  BY DEF Front
<1>4. Range(Front(list)) = {Front(list)[k] : k \in 1..Len(Front(list))}
      /\ Range(list) = {list[k] : k \in 1..n}
  <2>1. Front(list) \in Seq(S)
    BY <1>2, <1>3
  <2>2. QED BY <2>1, RangeEquality
<1>5. QED BY <1>1, <1>2, <1>3, <1>4

(* Looking for an object from the end of a list. *)
LEMMA LastPlace ==
  ASSUME NEW S, NEW list \in Seq(S), NEW o
  PROVE  LET i == SelectLastInSeq(list, LAMBDA x : x = o)
         IN  \/ i = 0 /\ o \notin Range(list)
             \/ i \in 1..Len(list) /\ list[i] = o /\ o \in Range(list)
<1> DEFINE I == {k \in 1..Len(list) : list[k] = o}
           i == SelectLastInSeq(list, LAMBDA x : x = o)
<1>1. Len(list) \in Nat /\ Range(list) = {list[k] : k \in 1..Len(list)}
  BY LenProperties, RangeEquality
<1>2. i = IF I # {} THEN Max(I) ELSE 0
  BY DEF SelectLastInSeq
<1>3. I # {} => Max(I) \in I
  <2>1. I \in SUBSET (1..Len(list))
    OBVIOUS
  <2> HIDE DEF I
  <2>2. QED BY <1>1, <2>1, MaxInRange
<1> HIDE DEF i
<1>4. CASE I = {}
  BY <1>1, <1>2, <1>4 DEF i
<1>5. CASE I # {}
  <2>1. i \in 1..Len(list) /\ list[i] = o
    BY <1>2, <1>3, <1>5
  <2>2. QED BY <1>1, <2>1 DEF i
<1>6. QED BY <1>4, <1>5
(* What is left to do in the reactor's turn and what is on its way to it:  *)
(* blocks to apply, then blocks to roll back, then blocks to apply.        *)
Requeueing == {"undo", "requeue", "readd", "reput"}
Doing  == IF reactor.at \in Requeueing THEN <<>> ELSE reactor.todo
ToUndo == (IF reactor.at \in Requeueing THEN reactor.todo ELSE <<>>) \o removed
ToDo   == entered \o entering

(* The part of the main chain that is below what is left to apply, the     *)
(* chain before what is left to be rolled back leaves it, and the part of  *)
(* that below what is left to apply first.                                 *)
ForkAt == Len(Lineage[tip]) - Len(ToDo)
Peak   == IF ToUndo # <<>> THEN Lineage[Head(ToUndo)] ELSE SubSeq(Lineage[tip], 1, ForkAt)
Level  == Len(Peak) - Len(Doing)

(* The chain that the mempool was purged of, and the one that the ledger   *)
(* has applied: one block longer between apply_block and the purge.        *)
Purged  == SubSeq(Peak, 1, Level)
Applied == SubSeq(Peak, 1, IF reactor.at = "purge" THEN Level + 1 ELSE Level)

WorkerType ==
  \/ worker = Free
  \/ worker \in [at : {"taken"}, obj : Object]
  \/ worker \in [at : {"copied"}, obj : Object, accepted : Seq(TxId)]
  \/ worker \in [at : {"decided"}, obj : Object, verdict : {"ok", "invalid"}]

Turns == [at : {"undo", "requeue", "readd", "reput", "apply", "purge"},
          todo : Seq(Block), requeue : Seq(Object)]

ReactorType ==
  /\ reactor \in Turns
  /\ reactor.at \in {"readd", "reput"} => reactor.requeue # <<>>
  /\ reactor.at = "purge" => reactor.todo # <<>>

(* What is left to apply goes up to the tip, what is left to roll back     *)
(* leads from block to parent down to the fork, and what is left to apply  *)
(* first goes up to where that begins.                                     *)
PathsMeet ==
  /\ ForkAt \in 0..Len(Lineage[tip])
  /\ \A i \in 1..Len(ToDo) : ToDo[i] = Lineage[tip][ForkAt + i]
  /\ \A i \in 1..Len(ToUndo) :
       Front(Lineage[ToUndo[i]]) = IF i < Len(ToUndo) THEN Lineage[ToUndo[i + 1]]
                                   ELSE SubSeq(Lineage[tip], 1, ForkAt)
  /\ Level \in 0..Len(Peak)
  /\ \A i \in 1..Len(Doing) : Doing[i] = Peak[Level + i]
  /\ reactor.at \in Requeueing => removed = <<>>

MempoolTypes ==
  /\ submitted \subseteq Submission /\ putting \subseteq Submission
  /\ seen \in [TxId -> {"none", "pending", "ok", "invalid"}]
  /\ pending \in Seq(Object) /\ ok \in Seq(Object)
  /\ queue \in Seq(Object)
  /\ Len(pending) <= MaxItems /\ Len(ok) <= MaxItems /\ Len(queue) <= QueueMax
  /\ WorkerType /\ ReactorType
  /\ state \in LedgerState /\ tip \in Block
  /\ validator \in {"idle", "accepting", "publishing"}
  /\ entering \in Seq(Block) /\ removed \in Seq(Block) /\ entered \in Seq(Block)
  /\ validator = "idle" => entering = <<>>
  /\ reorged \in BOOLEAN /\ tangled \in BOOLEAN /\ (tangled => reorged)

LedgerIsApplied == state = Rebuild(Applied)

(* Where an object may still come from: add calls, the queue, the worker.  *)
Flying == putting \cup Items(queue) \cup (IF worker = Free THEN {} ELSE {worker.obj})

(* A source submits an object once; the others come from blocks.           *)
SubmittedOnce ==
  /\ \A o \in Flying : o.from \in Source => o \in submitted
  /\ \A o \in Items(reactor.requeue) : o.from \in Block

(* Nothing that is confirmed is accepted, or will be when the worker       *)
(* records its verdict, or is requeued.                                    *)
NothingConfirmed ==
  /\ \A o \in Items(ok) : o.tx \notin ConfirmedIn(Purged)
  /\ worker.at = "decided" /\ worker.verdict = "ok" /\ worker.obj \in Items(pending)
       => worker.obj.tx \notin ConfirmedIn(Purged)
  /\ reactor.at \in {"requeue", "readd", "reput"} =>
       \A o \in Items(reactor.requeue) : o.tx \notin ConfirmedIn(Purged)

(* On a chain that only grows, a transaction that is not confirmed is once *)
(* at most in all the places it goes through.                              *)
OnlyOnce(t) ==
  /\ seen[t] = "none" => \A o \in Flying : o.tx # t
  /\ \A o, other \in putting : o.tx = t /\ other.tx = t => o = other
  /\ \A i, j \in 1..Len(queue) : queue[i].tx = t /\ queue[j].tx = t => i = j
  /\ \A o \in putting, i \in 1..Len(queue) : o.tx = t => queue[i].tx # t
  /\ worker # Free /\ worker.obj.tx = t =>
       /\ \A o \in putting : o.tx # t
       /\ \A i \in 1..Len(queue) : queue[i].tx # t
  /\ (\E o \in Flying : o.tx = t) => \A i \in 1..Len(ok) : ok[i].tx # t

GrowsCalmly ==
  ~reorged => /\ ToUndo = <<>> /\ reactor.at \in {"undo", "apply", "purge"}
              /\ \A t \in TxId \ ConfirmedIn(Purged) : OnlyOnce(t)

(* ... and is known as accepted, once, when it is.                         *)
AcceptedOnce ==
  ~reorged => /\ \A i \in 1..Len(ok) : seen[ok[i].tx] = "ok"
              /\ DistinctTxs(ok)
-----------------------------------------------------------------------------
(* What is submitted is an object. *)
LEMMA SubmissionIsObject ==
  /\ \A o \in Submission : o \in Object /\ o.tx \in TxId /\ o.from \in Source
                           /\ o.from \notin Block
  /\ \A o \in Object : o.tx \in TxId
  BY MempoolAssumption DEF Object

(* add, with the lock held: the new item, or nothing, and "pending".       *)
LEMMA AdmitEffect ==
  ASSUME MempoolTypes, NEW o \in Object, Admit(o)
  PROVE  /\ pending' \in Seq(Object) /\ Len(pending') <= MaxItems
         /\ Items(pending') \subseteq Items(pending) \cup {o}
         /\ seen' \in [TxId -> {"none", "pending", "ok", "invalid"}]
         /\ ~Unseen(o.tx) => seen' = seen
         /\ Unseen(o.tx) => seen' = [seen EXCEPT ![o.tx] = "pending"]
<1>1. pending \in Seq(Object) /\ Len(pending) <= MaxItems /\ o.tx \in TxId
      /\ seen \in [TxId -> {"none", "pending", "ok", "invalid"}]
  BY SubmissionIsObject DEF MempoolTypes
<1>2. CASE ~Unseen(o.tx)
  BY <1>1, <1>2 DEF Admit
<1>3. CASE Unseen(o.tx)
  <2>1. pending' = Trim(Append(pending, o)) /\ seen' = [seen EXCEPT ![o.tx] = "pending"]
    BY <1>3 DEF Admit
  <2>2. /\ Trim(Append(pending, o)) \in Seq(Object)
        /\ Len(Trim(Append(pending, o))) <= MaxItems
        /\ \A i \in 1..Len(Trim(Append(pending, o))) :
             \/ Trim(Append(pending, o))[i] = o
             \/ \E j \in 1..Len(pending) : Trim(Append(pending, o))[i] = pending[j]
    BY <1>1, AppendTrimKeeps
  <2>3. Items(pending') \subseteq Items(pending) \cup {o}
    BY <2>1, <2>2 DEF Items
  <2>4. QED BY <1>1, <1>3, <2>1, <2>2, <2>3
<1>4. QED BY <1>2, <1>3

(* add, the lock released: into the queue, or an item is dropped.          *)
LEMMA EnqueueEffect ==
  ASSUME MempoolTypes, NEW o \in Object, Enqueue(o)
  PROVE  /\ pending' \in Seq(Object) /\ Len(pending') <= MaxItems
         /\ Items(pending') \subseteq Items(pending)
         /\ queue' \in Seq(Object) /\ Len(queue') <= QueueMax
         /\ seen' \in [TxId -> {"none", "pending", "ok", "invalid"}]
         /\ \/ queue' = Append(queue, o) /\ seen' = seen
            \/ queue' = queue /\ seen' = seen
            \/ queue' = queue /\ seen' = [seen EXCEPT ![o.tx] = "invalid"]
<1>1. /\ pending \in Seq(Object) /\ Len(pending) <= MaxItems /\ o.tx \in TxId
      /\ seen \in [TxId -> {"none", "pending", "ok", "invalid"}]
      /\ queue \in Seq(Object) /\ Len(queue) <= QueueMax
      /\ QueueMax \in Nat /\ MaxItems \in Nat /\ Len(pending) \in Nat /\ Len(queue) \in Nat
  BY SubmissionIsObject, MempoolAssumption, LenProperties DEF MempoolTypes
<1>2. CASE Len(queue) < QueueMax
  <2>1. queue' = Append(queue, o) /\ seen' = seen /\ pending' = pending
    BY <1>2 DEF Enqueue
  <2>2. Append(queue, o) \in Seq(Object) /\ Len(Append(queue, o)) = Len(queue) + 1
    BY <1>1, AppendProperties
  <2>3. QED BY <1>1, <1>2, <2>1, <2>2
<1>3. CASE ~(Len(queue) < QueueMax) /\ pending = <<>>
  BY <1>1, <1>3 DEF Enqueue
<1>4. CASE ~(Len(queue) < QueueMax) /\ pending # <<>>
  <2>1. queue' = queue /\ pending' = Front(pending) /\ seen' = [seen EXCEPT ![o.tx] = "invalid"]
    BY <1>4 DEF Enqueue
  <2>2. /\ Front(pending) \in Seq(Object) /\ Len(Front(pending)) = Len(pending) - 1
        /\ Range(Front(pending)) \subseteq Range(pending)
    BY <1>1, <1>4, FrontKeeps
  <2>3. Range(Front(pending)) = Items(Front(pending)) /\ Range(pending) = Items(pending)
    BY <1>1, <2>2, RangeEquality DEF Items
  <2>4. QED BY <1>1, <2>1, <2>2, <2>3
<1>5. QED BY <1>2, <1>3, <1>4

(* The worker records its verdict: on an item that is not pending any more *)
(* only where nothing is known of the transaction; or it moves the item.   *)
LEMMA RecordEffect ==
  ASSUME MempoolTypes, Record
  PROVE  /\ worker.at = "decided" /\ worker.obj \in Object /\ worker.obj.tx \in TxId
         /\ worker.verdict \in {"ok", "invalid"} /\ worker' = Free
         /\ pending' \in Seq(Object) /\ Len(pending') <= MaxItems
         /\ Items(pending') \subseteq Items(pending)
         /\ ok' \in Seq(Object) /\ Len(ok') <= MaxItems
         /\ \/ /\ worker.obj \notin Items(pending)
               /\ ok' = ok
               /\ seen' = [seen EXCEPT ![worker.obj.tx] = IF @ = "none" THEN worker.verdict
                                                                      ELSE @]
            \/ /\ worker.obj \in Items(pending)
               /\ ok' = IF worker.verdict = "ok" THEN Trim(Append(ok, worker.obj)) ELSE ok
               /\ seen' = [seen EXCEPT ![worker.obj.tx] = worker.verdict]
<1> DEFINE o == worker.obj
           i == SelectLastInSeq(pending, LAMBDA x : x = o)
<1>1. /\ worker.at = "decided" /\ o \in Object /\ worker.verdict \in {"ok", "invalid"}
      /\ worker' = Free
  BY DEF Record, MempoolTypes, WorkerType, Free
<1>2. o.tx \in TxId
  BY <1>1, SubmissionIsObject
<1>3. /\ pending \in Seq(Object) /\ Len(pending) <= MaxItems /\ Len(pending) \in Nat
      /\ ok \in Seq(Object) /\ Len(ok) <= MaxItems
      /\ MaxItems \in Nat
  BY MempoolAssumption, LenProperties DEF MempoolTypes
<1>4. Range(pending) = Items(pending)
  BY <1>3, RangeEquality DEF Items
<1>5. \/ i = 0 /\ o \notin Range(pending)
      \/ i \in 1..Len(pending) /\ pending[i] = o /\ o \in Range(pending)
  <2> HIDE DEF o
  <2>1. QED BY <1>3, LastPlace
<1>6. IF i = 0
      THEN /\ seen' = [seen EXCEPT ![o.tx] = IF @ = "none" THEN worker.verdict ELSE @]
           /\ UNCHANGED <<pending, ok>>
      ELSE /\ pending' = RemoveAt(pending, i)
           /\ seen' = [seen EXCEPT ![o.tx] = worker.verdict]
           /\ ok' = IF worker.verdict = "ok" THEN Trim(Append(ok, o)) ELSE ok
  BY DEF Record
<1> HIDE DEF i
<1>7. CASE i = 0
  <2>1. o \notin Items(pending)
    BY <1>3, <1>4, <1>5, <1>7
  <2>2. QED BY <1>1, <1>2, <1>3, <1>6, <1>7, <2>1
<1>8. CASE i # 0
  <2>1. i \in 1..Len(pending) /\ o \in Items(pending)
    BY <1>4, <1>5, <1>8
  <2>2. /\ RemoveAt(pending, i) \in Seq(Object) /\ Len(RemoveAt(pending, i)) = Len(pending) - 1
        /\ Range(RemoveAt(pending, i)) \subseteq Range(pending)
    BY <1>3, <2>1, RemoveAtKeeps
  <2>3. Range(RemoveAt(pending, i)) = Items(RemoveAt(pending, i))
    BY <2>2, RangeEquality DEF Items
  <2>4. Trim(Append(ok, o)) \in Seq(Object) /\ Len(Trim(Append(ok, o))) <= MaxItems
    BY <1>1, <1>3, AppendTrimKeeps
  <2>6. /\ pending' = RemoveAt(pending, i)
        /\ seen' = [seen EXCEPT ![o.tx] = worker.verdict]
        /\ ok' = IF worker.verdict = "ok" THEN Trim(Append(ok, o)) ELSE ok
    BY <1>6, <1>8
  <2>7. Len(pending) - 1 <= MaxItems
    BY <1>3
  <2>8. QED BY <1>1, <1>2, <1>3, <1>4, <2>1, <2>2, <2>3, <2>4, <2>6, <2>7
<1>9. QED BY <1>7, <1>8

(* purge_included_block: both lists lose the block's transactions.         *)
LEMMA PurgeEffect ==
  ASSUME MempoolTypes, Purge
  PROVE  /\ reactor.at = "purge" /\ reactor.todo # <<>>
         /\ reactor' = [reactor EXCEPT !.at = "apply", !.todo = Tail(@)]
         /\ pending' \in Seq(Object) /\ Len(pending') <= MaxItems
         /\ Items(pending') \subseteq Items(pending)
         /\ ok' \in Seq(Object) /\ Len(ok') <= MaxItems
         /\ \A o \in Items(pending') : o.tx \notin Range(Txs[Head(reactor.todo)])
         /\ \A i \in 1..Len(ok') : /\ ok'[i].tx \notin Range(Txs[Head(reactor.todo)])
                                   /\ \E j \in 1..Len(ok) : ok'[i] = ok[j]
         /\ DistinctTxs(ok) => DistinctTxs(ok')
         /\ seen' \in [TxId -> {"none", "pending", "ok", "invalid"}]
         /\ \A t \in TxId : t \notin Range(Txs[Head(reactor.todo)]) => seen'[t] = seen[t]
<1> DEFINE txs == Range(Txs[Head(reactor.todo)])
           listed == Range(TxsIn(pending)) \cup Range(TxsIn(ok))
<1>1. /\ reactor.at = "purge" /\ reactor.todo # <<>>
      /\ reactor' = [reactor EXCEPT !.at = "apply", !.todo = Tail(@)]
  BY DEF Purge, MempoolTypes, ReactorType
<1>2. /\ pending' = Without(pending, txs) /\ ok' = Without(ok, txs)
      /\ seen' = [t \in TxId |-> IF t \in txs \cap listed THEN "none" ELSE seen[t]]
  BY DEF Purge
<1>3. /\ pending \in Seq(Object) /\ Len(pending) <= MaxItems /\ Len(pending) \in Nat
      /\ ok \in Seq(Object) /\ Len(ok) <= MaxItems /\ Len(ok) \in Nat /\ MaxItems \in Nat
      /\ seen \in [TxId -> {"none", "pending", "ok", "invalid"}]
  BY MempoolAssumption, LenProperties DEF MempoolTypes
<1> HIDE DEF txs, listed
<1>4. /\ pending' \in Seq(Object) /\ Len(pending') <= Len(pending)
      /\ \A i \in 1..Len(pending') : /\ pending'[i].tx \notin txs
                                     /\ \E j \in 1..Len(pending) : pending'[i] = pending[j]
  BY <1>2, <1>3, WithoutKeeps
<1>5. /\ ok' \in Seq(Object) /\ Len(ok') <= Len(ok)
      /\ \A i \in 1..Len(ok') : ok'[i].tx \notin txs /\ \E j \in 1..Len(ok) : ok'[i] = ok[j]
      /\ DistinctTxs(ok) => DistinctTxs(ok')
  BY <1>2, <1>3, WithoutKeeps
<1>6. Len(pending') <= MaxItems /\ Len(ok') <= MaxItems
  <2>1. Len(pending') \in Nat /\ Len(ok') \in Nat
    BY <1>4, <1>5, LenProperties
  <2>2. QED BY <1>3, <1>4, <1>5, <2>1
<1>7. Items(pending') \subseteq Items(pending) /\ \A o \in Items(pending') : o.tx \notin txs
  BY <1>4 DEF Items
<1>8. seen' \in [TxId -> {"none", "pending", "ok", "invalid"}]
      /\ \A t \in TxId : t \notin txs => seen'[t] = seen[t]
  BY <1>2, <1>3
<1>9. QED BY <1>1, <1>4, <1>5, <1>6, <1>7, <1>8 DEF txs
(* The types at the start ... *)
LEMMA TypesInit == MempoolInit => MempoolTypes
<1>1. /\ <<>> \in Seq(Object) /\ Len(<<>>) = 0 /\ MaxItems \in Nat /\ QueueMax \in Nat
      /\ Genesis \in Block /\ <<Genesis>> \in Seq(Block) /\ <<>> \in Seq(Block)
  BY MempoolAssumption, BlockAssumption
<1>2. Rebuild(<<Genesis>>) \in LedgerState
  BY <1>1, RebuildType
<1>3. Rest \in Turns /\ Rest.at = "apply"
  BY DEF Rest, Turn, Turns
<1>4. ASSUME MempoolInit PROVE MempoolTypes
  <2>1. /\ seen \in [TxId -> {"none", "pending", "ok", "invalid"}]
        /\ pending = <<>> /\ ok = <<>> /\ queue = <<>> /\ submitted = {} /\ putting = {}
    BY <1>4 DEF MempoolInit
  <2>2. WorkerType /\ ReactorType
    BY <1>3, <1>4 DEF MempoolInit, WorkerType, ReactorType
  <2>3. /\ state \in LedgerState /\ tip \in Block /\ validator = "idle"
        /\ entering = <<>> /\ removed = <<>> /\ entered = <<>>
        /\ reorged = FALSE /\ tangled = FALSE
    BY <1>1, <1>2, <1>4 DEF MempoolInit
  <2>4. /\ submitted \subseteq Submission /\ putting \subseteq Submission
        /\ pending \in Seq(Object) /\ ok \in Seq(Object) /\ queue \in Seq(Object)
        /\ Len(pending) <= MaxItems /\ Len(ok) <= MaxItems /\ Len(queue) <= QueueMax
    BY <1>1, <2>1
  <2>5. /\ entering \in Seq(Block) /\ removed \in Seq(Block) /\ entered \in Seq(Block)
        /\ reorged \in BOOLEAN /\ tangled \in BOOLEAN
    BY <1>1, <2>3
  <2>6. QED BY <2>1, <2>2, <2>3, <2>4, <2>5 DEF MempoolTypes
<1>5. QED BY <1>4

(* What is kept of the types, where the chain stays as it is. *)
LEMMA ChainTypes ==
  ASSUME MempoolTypes, UNCHANGED chainVars
  PROVE  /\ tip' \in Block /\ validator' \in {"idle", "accepting", "publishing"}
         /\ entering' \in Seq(Block) /\ removed' \in Seq(Block) /\ entered' \in Seq(Block)
         /\ validator' = "idle" => entering' = <<>>
         /\ reorged' \in BOOLEAN /\ tangled' \in BOOLEAN /\ (tangled' => reorged')
         /\ UNCHANGED <<tip, validator, entering, removed, entered, reorged, tangled>>
  BY DEF MempoolTypes, chainVars

(* ... and under the callers of add, ... *)
LEMMA TypesAdd ==
  ASSUME MempoolTypes, NEW o \in Submission, Submit(o) \/ Put(o)
  PROVE  MempoolTypes'
<1>1. o \in Object
  BY SubmissionIsObject
<1>2. CASE Submit(o)
  <2>1. Admit(o) /\ submitted' = submitted \cup {o} /\ putting' \in {putting \cup {o}, putting}
        /\ UNCHANGED <<ok, queue, worker, state, reactor, chainVars>>
    BY <1>2 DEF Submit
  <2>2. pending' \in Seq(Object) /\ Len(pending') <= MaxItems
        /\ seen' \in [TxId -> {"none", "pending", "ok", "invalid"}]
    BY <1>1, <2>1, AdmitEffect
  <2>3. QED BY <2>1, <2>2, ChainTypes DEF MempoolTypes, WorkerType, ReactorType
<1>3. CASE Put(o)
  <2>1. Enqueue(o) /\ putting' = putting \ {o}
        /\ UNCHANGED <<submitted, ok, worker, state, reactor, chainVars>>
    BY <1>3 DEF Put
  <2>2. /\ pending' \in Seq(Object) /\ Len(pending') <= MaxItems
        /\ seen' \in [TxId -> {"none", "pending", "ok", "invalid"}]
        /\ queue' \in Seq(Object) /\ Len(queue') <= QueueMax
    BY <1>1, <2>1, EnqueueEffect
  <2>3. QED BY <2>1, <2>2, ChainTypes DEF MempoolTypes, WorkerType, ReactorType
<1>4. QED BY <1>2, <1>3

(* Taking an item off the queue. *)
LEMMA TakeEffect ==
  ASSUME MempoolTypes, Take
  PROVE  /\ queue # <<>> /\ Len(queue) \in Nat \ {0} /\ Head(queue) = queue[1]
         /\ queue[1] \in Object
         /\ queue' \in Seq(Object) /\ Len(queue') = Len(queue) - 1
         /\ \A i \in 1..Len(queue') : queue'[i] = queue[i + 1] /\ i + 1 \in 1..Len(queue)
         /\ worker = Free /\ worker' = [at |-> "taken", obj |-> queue[1]]
         /\ UNCHANGED <<submitted, lists, putting, state, reactor, chainVars>>
<1>1. /\ worker = Free /\ queue # <<>> /\ worker' = [at |-> "taken", obj |-> Head(queue)]
      /\ queue' = Tail(queue)
      /\ UNCHANGED <<submitted, lists, putting, state, reactor, chainVars>>
  BY DEF Take
<1>2. queue \in Seq(Object)
  BY DEF MempoolTypes
<1>3. Len(queue) \in Nat \ {0}
  BY <1>1, <1>2, EmptySeq, LenProperties
<1>4. /\ Head(queue) = queue[1] /\ Tail(queue) \in Seq(Object)
      /\ Len(Tail(queue)) = Len(queue) - 1
      /\ \A i \in 1..Len(Tail(queue)) : Tail(queue)[i] = queue[i + 1]
  BY <1>1, <1>2, HeadTailProperties
<1>5. queue[1] \in Object
  BY <1>2, <1>3, ElementOfSeq
<1>6. \A i \in 1..Len(Tail(queue)) : i + 1 \in 1..Len(queue)
  BY <1>3, <1>4
<1>7. QED BY <1>1, <1>3, <1>4, <1>5, <1>6

(* ... under the worker, ... *)
LEMMA TypesWorker ==
  ASSUME MempoolTypes, Worker
  PROVE  MempoolTypes'
<1>1. CASE Take
  <2>1. /\ queue' \in Seq(Object) /\ Len(queue') = Len(queue) - 1 /\ Len(queue) \in Nat
        /\ queue[1] \in Object /\ worker' = [at |-> "taken", obj |-> queue[1]]
        /\ UNCHANGED <<submitted, lists, putting, state, reactor, chainVars>>
    BY <1>1, TakeEffect
  <2>2. WorkerType'
    BY <2>1 DEF WorkerType
  <2>3. Len(queue') <= QueueMax
    BY <2>1, MempoolAssumption DEF MempoolTypes
  <2>4. QED BY <2>1, <2>2, <2>3, ChainTypes DEF MempoolTypes, ReactorType, lists
<1>2. CASE CopyOk
  <2>1. worker.obj \in Object /\ worker.at = "taken"
    BY <1>2 DEF CopyOk, MempoolTypes, WorkerType, Free
  <2>2. TxsIn(ok) \in Seq(TxId)
    <3>1. ok \in Seq(Object) /\ Len(ok) \in Nat /\ \A i \in 1..Len(ok) : ok[i] \in Object
      BY LenProperties, ElementOfSeq DEF MempoolTypes
    <3>2. \A i \in 1..Len(ok) : ok[i].tx \in TxId
      BY <3>1, SubmissionIsObject
    <3>3. TxsIn(ok) = [i \in 1..Len(ok) |-> ok[i].tx]
      BY <3>1 DEF TxsIn
    <3>4. QED BY <3>1, <3>2, <3>3
  <2>3. /\ worker' = IF TxPrecheck(worker.obj.tx)
                     THEN [at |-> "copied", obj |-> worker.obj, accepted |-> TxsIn(ok)]
                     ELSE [at |-> "decided", obj |-> worker.obj, verdict |-> "invalid"]
        /\ UNCHANGED <<submitted, lists, queue, putting, state, reactor, chainVars>>
    BY <1>2 DEF CopyOk
  <2>4. WorkerType'
    BY <2>1, <2>2, <2>3 DEF WorkerType
  <2>5. QED BY <2>3, <2>4, ChainTypes DEF MempoolTypes, ReactorType, lists
<1>3. CASE Decide
  <2>1. worker.obj \in Object /\ worker.at = "copied"
    BY <1>3 DEF Decide, MempoolTypes, WorkerType, Free
  <2>2. \E v \in {"ok", "invalid"} : worker' = [at |-> "decided", obj |-> worker.obj, verdict |-> v]
    BY <1>3 DEF Decide
  <2>3. WorkerType'
    BY <2>1, <2>2 DEF WorkerType
  <2>4. UNCHANGED <<submitted, lists, queue, putting, state, reactor, chainVars>>
    BY <1>3 DEF Decide
  <2>5. QED BY <2>3, <2>4, ChainTypes DEF MempoolTypes, ReactorType, lists
<1>4. CASE Record
  <2>1. /\ worker' = Free /\ worker.obj.tx \in TxId /\ worker.verdict \in {"ok", "invalid"}
        /\ pending' \in Seq(Object) /\ Len(pending') <= MaxItems
        /\ ok' \in Seq(Object) /\ Len(ok') <= MaxItems
        /\ seen' \in {[seen EXCEPT ![worker.obj.tx] = IF @ = "none" THEN worker.verdict ELSE @],
                      [seen EXCEPT ![worker.obj.tx] = worker.verdict]}
    BY <1>4, RecordEffect
  <2>2. seen' \in [TxId -> {"none", "pending", "ok", "invalid"}]
    BY <2>1 DEF MempoolTypes
  <2>3. UNCHANGED <<submitted, queue, putting, state, reactor, chainVars>>
    BY <1>4 DEF Record
  <2>4. QED BY <2>1, <2>2, <2>3, ChainTypes DEF MempoolTypes, WorkerType, ReactorType
<1>5. QED BY <1>1, <1>2, <1>3, <1>4 DEF Worker

(* Where the reactor is. *)
LEMMA TurnType ==
  ASSUME MempoolTypes
  PROVE  /\ reactor \in Turns /\ reactor.todo \in Seq(Block)
         /\ reactor.requeue \in Seq(Object)
         /\ reactor.at \in {"undo", "requeue", "readd", "reput", "apply", "purge"}
         /\ reactor.at \in {"readd", "reput"} => reactor.requeue # <<>>
         /\ reactor.at = "purge" => reactor.todo # <<>>
         /\ reactor.todo # <<>> => /\ Head(reactor.todo) \in Block
                                  /\ Tail(reactor.todo) \in Seq(Block)
<1>1. /\ reactor \in Turns
      /\ reactor.at \in {"readd", "reput"} => reactor.requeue # <<>>
      /\ reactor.at = "purge" => reactor.todo # <<>>
  BY DEF MempoolTypes, ReactorType
<1> DEFINE u == reactor.todo
<1>2. u \in Seq(Block)
  BY <1>1 DEF Turns
<1> HIDE DEF u
<1>3. u # <<>> => Head(u) \in Block /\ Tail(u) \in Seq(Block)
  BY <1>2, HeadTailProperties
<1>4. QED BY <1>1, <1>3 DEF Turns, u

(* ... under a reorganisation, ... *)
LEMMA TypesReorganise ==
  ASSUME MempoolTypes, NEW b \in Block, Reorganise(b)
  PROVE  MempoolTypes'
<1> DEFINE n == Shared(tip, b)
           undo == Reverse(SubSeq(Lineage[tip], n + 1, Len(Lineage[tip])))
           do == SubSeq(Lineage[b], n + 1, Len(Lineage[b]))
<1>1. tip \in Block /\ Lineage[tip] \in Seq(Block) /\ Lineage[b] \in Seq(Block)
  BY LineageEnds DEF MempoolTypes
<1>2. n \in 0..Len(Lineage[tip]) /\ n \in 0..Len(Lineage[b])
  BY <1>1, SharedBeginning DEF Shared
<1> HIDE DEF n
<1>3. SubSeq(Lineage[tip], n + 1, Len(Lineage[tip])) \in Seq(Block) /\ do \in Seq(Block)
  BY <1>1, <1>2, CutList
<1>4. undo \in Seq(Block)
  <2> DEFINE s == SubSeq(Lineage[tip], n + 1, Len(Lineage[tip]))
  <2>1. s \in Seq(Block)
    BY <1>3
  <2> HIDE DEF s
  <2>2. Reverse(s) \in Seq(Block)
    BY <2>1, ReverseInSeq
  <2>3. QED BY <2>2 DEF s
<1>5. /\ removed' = removed \o undo /\ entering' = entering \o do /\ tip' = b
      /\ validator' = "accepting" /\ reorged' = (reorged \/ undo # <<>>)
      /\ tangled' = (tangled \/ (undo # <<>> /\ Tangling))
      /\ UNCHANGED <<submitted, lists, queue, putting, worker, state, entered, reactor>>
  BY DEF Reorganise, n
<1> HIDE DEF undo, do
<1>6. removed' \in Seq(Block) /\ entering' \in Seq(Block)
  BY <1>3, <1>4, <1>5 DEF MempoolTypes
<1>7. Tangling \in BOOLEAN
  BY DEF Tangling
<1>8. reorged' \in BOOLEAN /\ tangled' \in BOOLEAN /\ (tangled' => reorged')
  BY <1>5, <1>7 DEF MempoolTypes
<1>9. QED BY <1>5, <1>6, <1>8 DEF MempoolTypes, WorkerType, ReactorType, lists

(* ... when entered blocks are published, and the queues drained, ... *)
LEMMA TypesDrain ==
  ASSUME MempoolTypes, Validator \/ DrainRemoved \/ DrainEntered
  PROVE  MempoolTypes'
<1>1. /\ entering \in Seq(Block) /\ removed \in Seq(Block) /\ entered \in Seq(Block)
      /\ <<>> \in Seq(Block) /\ <<>> \in Seq(Object)
  BY DEF MempoolTypes
<1>2. CASE AcceptEnd
  BY <1>2 DEF AcceptEnd, MempoolTypes, WorkerType, ReactorType, lists
<1>3. CASE Publish
  <2>1. /\ entering # <<>> /\ entered' = Append(entered, Head(entering))
        /\ entering' = Tail(entering)
        /\ validator' = IF Len(entering) = 1 THEN "idle" ELSE "publishing"
        /\ UNCHANGED <<submitted, lists, queue, putting, worker, state, reactor,
                       tip, removed, reorged, tangled>>
    BY <1>3 DEF Publish
  <2>2. Head(entering) \in Block /\ Tail(entering) \in Seq(Block)
        /\ Len(Tail(entering)) = Len(entering) - 1
    BY <1>1, <2>1, HeadTailProperties
  <2>3. entered' \in Seq(Block)
    BY <1>1, <2>1, <2>2, AppendProperties
  <2>4. validator' = "idle" => entering' = <<>>
    <3>1. validator' = "idle" => Len(Tail(entering)) = 0
      BY <2>1, <2>2
    <3>2. QED BY <2>1, <2>2, <3>1, EmptySeq
  <2>5. QED BY <2>1, <2>2, <2>3, <2>4 DEF MempoolTypes, WorkerType, ReactorType, lists
<1>4. CASE DrainRemoved
  <2>1. /\ reactor' = [at |-> "undo", todo |-> removed, requeue |-> <<>>] /\ removed' = <<>>
        /\ UNCHANGED <<submitted, lists, queue, putting, worker, state,
                       tip, validator, entering, entered, reorged, tangled>>
    BY <1>4 DEF DrainRemoved, Turn
  <2>2. ReactorType'
    BY <1>1, <2>1 DEF ReactorType, Turns
  <2>3. QED BY <1>1, <2>1, <2>2 DEF MempoolTypes, WorkerType, lists
<1>5. CASE DrainEntered
  <2>1. /\ reactor' = [at |-> "apply", todo |-> entered, requeue |-> <<>>] /\ entered' = <<>>
        /\ UNCHANGED <<submitted, lists, queue, putting, worker, state,
                       tip, validator, entering, removed, reorged, tangled>>
    BY <1>5 DEF DrainEntered, Turn
  <2>2. ReactorType'
    BY <1>1, <2>1 DEF ReactorType, Turns
  <2>3. QED BY <1>1, <2>1, <2>2 DEF MempoolTypes, WorkerType, lists
<1>6. QED BY <1>2, <1>3, <1>4, <1>5 DEF Validator

(* ... when the reactor rolls back and requeues, ... *)
LEMMA TypesRequeue ==
  ASSUME MempoolTypes, RollBack \/ Forget \/ Readd \/ Reput \/ RequeueDone
  PROVE  MempoolTypes'
<1>2. /\ reactor \in Turns /\ reactor.todo \in Seq(Block)
      /\ reactor.requeue \in Seq(Object)
      /\ reactor.at \in {"readd", "reput"} => reactor.requeue # <<>>
  BY TurnType
<1>3. reactor.requeue # <<>> => /\ Head(reactor.requeue) \in Object
                                /\ Tail(reactor.requeue) \in Seq(Object)
  <2> DEFINE q == reactor.requeue
  <2>1. q \in Seq(Object)
    BY <1>2
  <2> HIDE DEF q
  <2>2. q # <<>> => Head(q) \in Object /\ Tail(q) \in Seq(Object)
    BY <2>1, HeadTailProperties
  <2>3. QED BY <2>2 DEF q
<1>4. CASE RollBack
  <2> DEFINE b == Head(reactor.todo)
             q == [i \in DOMAIN Txs[b] |-> [tx |-> Txs[b][i], from |-> b]]
  <2>1. b \in Block /\ Tail(reactor.todo) \in Seq(Block)
    BY <1>4, TurnType DEF RollBack
  <2>2. q \in Seq(Object)
    <3>1. /\ Txs[b] \in Seq(TxId) /\ Len(Txs[b]) \in Nat
          /\ \A i \in 1..Len(Txs[b]) : Txs[b][i] \in TxId
      BY <2>1, BlockAssumption, LenProperties, ElementOfSeq
    <3>2. \A i \in 1..Len(Txs[b]) : [tx |-> Txs[b][i], from |-> b] \in Object
      BY <2>1, <3>1 DEF Object
    <3>3. QED BY <3>1, <3>2
  <2>3. RollbackBlock(state, b) \in LedgerState
    BY <2>1, RollbackType DEF MempoolTypes
  <2>4. /\ state' = RollbackBlock(state, b)
        /\ reactor' = [at |-> "requeue", todo |-> Tail(reactor.todo), requeue |-> q]
        /\ UNCHANGED <<submitted, lists, queue, putting, worker, chainVars>>
    BY <1>4 DEF RollBack
  <2> HIDE DEF q
  <2>5. ReactorType'
    BY <1>2, <2>1, <2>2, <2>4 DEF ReactorType, Turns
  <2>6. QED BY <2>3, <2>4, <2>5, ChainTypes DEF MempoolTypes, WorkerType, lists
<1>5. CASE Forget
  <2>1. /\ seen' = [seen EXCEPT ![Head(reactor.requeue).tx] = "none"]
        /\ reactor' = [reactor EXCEPT !.at = "readd"] /\ reactor.requeue # <<>>
        /\ UNCHANGED <<submitted, pending, ok, queue, putting, worker, state, chainVars>>
    BY <1>5 DEF Forget
  <2>2. ReactorType'
    BY <1>2, <2>1 DEF ReactorType, Turns
  <2>3. QED BY <1>3, <2>1, <2>2, SubmissionIsObject, ChainTypes DEF MempoolTypes, WorkerType
<1>6. CASE Readd
  <2>1. Admit(Head(reactor.requeue)) /\ reactor.at = "readd"
        /\ UNCHANGED <<submitted, ok, queue, putting, worker, state, chainVars>>
        /\ reactor' \in {[reactor EXCEPT !.at = "reput"],
                         [reactor EXCEPT !.at = "requeue", !.requeue = Tail(@)]}
    BY <1>6 DEF Readd
  <2>2. ReactorType'
    BY <1>2, <1>3, <2>1 DEF ReactorType, Turns
  <2>3. pending' \in Seq(Object) /\ Len(pending') <= MaxItems
        /\ seen' \in [TxId -> {"none", "pending", "ok", "invalid"}]
    BY <1>2, <1>3, <2>1, AdmitEffect
  <2>4. QED BY <2>1, <2>2, <2>3, ChainTypes DEF MempoolTypes, WorkerType
<1>7. CASE Reput
  <2>1. Enqueue(Head(reactor.requeue)) /\ reactor.at = "reput"
        /\ UNCHANGED <<submitted, ok, putting, worker, state, chainVars>>
        /\ reactor' = [reactor EXCEPT !.at = "requeue", !.requeue = Tail(@)]
    BY <1>7 DEF Reput
  <2>2. ReactorType'
    BY <1>2, <1>3, <2>1 DEF ReactorType, Turns
  <2>3. /\ pending' \in Seq(Object) /\ Len(pending') <= MaxItems
        /\ queue' \in Seq(Object) /\ Len(queue') <= QueueMax
        /\ seen' \in [TxId -> {"none", "pending", "ok", "invalid"}]
    BY <1>2, <1>3, <2>1, EnqueueEffect
  <2>4. QED BY <2>1, <2>2, <2>3, ChainTypes DEF MempoolTypes, WorkerType
<1>8. CASE RequeueDone
  <2>1. reactor' = [reactor EXCEPT !.at = "undo"]
        /\ UNCHANGED <<submitted, lists, queue, putting, worker, state, chainVars>>
    BY <1>8 DEF RequeueDone
  <2>2. ReactorType'
    BY <1>2, <2>1 DEF ReactorType, Turns
  <2>3. QED BY <2>1, <2>2, ChainTypes DEF MempoolTypes, WorkerType, lists
<1>9. QED BY <1>4, <1>5, <1>6, <1>7, <1>8

(* ... and when it applies and purges. *)
LEMMA TypesApply ==
  ASSUME MempoolTypes, ApplyNext \/ Purge
  PROVE  MempoolTypes'
<1>1. /\ reactor \in Turns
      /\ reactor.todo # <<>> => Head(reactor.todo) \in Block /\ Tail(reactor.todo) \in Seq(Block)
  BY TurnType
<1>2. CASE ApplyNext
  <2>1. /\ reactor.todo # <<>>
        /\ state' \in {state, ApplyBlock(state, Head(reactor.todo))}
        /\ reactor' = [reactor EXCEPT !.at = "purge"]
        /\ UNCHANGED <<submitted, lists, queue, putting, worker, chainVars>>
    BY <1>2 DEF ApplyNext
  <2>2. state' \in LedgerState
    BY <1>1, <2>1, ApplyType DEF MempoolTypes
  <2>3. ReactorType'
    BY <1>1, <2>1 DEF ReactorType, Turns
  <2>4. QED BY <2>1, <2>2, <2>3, ChainTypes DEF MempoolTypes, WorkerType, lists
<1>3. CASE Purge
  <2>1. /\ reactor.todo # <<>>
        /\ reactor' = [reactor EXCEPT !.at = "apply", !.todo = Tail(@)]
        /\ pending' \in Seq(Object) /\ Len(pending') <= MaxItems
        /\ ok' \in Seq(Object) /\ Len(ok') <= MaxItems
        /\ seen' \in [TxId -> {"none", "pending", "ok", "invalid"}]
    BY <1>3, PurgeEffect
  <2>2. UNCHANGED <<submitted, queue, putting, worker, state, chainVars>>
    BY <1>3 DEF Purge
  <2>3. ReactorType'
    BY <1>1, <2>1 DEF ReactorType, Turns
  <2>4. QED BY <2>1, <2>2, <2>3, ChainTypes DEF MempoolTypes, WorkerType
<1>4. QED BY <1>2, <1>3

(* The types are kept by every step. *)
LEMMA TypesStep == MempoolTypes /\ [MempoolNext]_mempoolVars => MempoolTypes'
<1> SUFFICES ASSUME MempoolTypes, [MempoolNext]_mempoolVars PROVE MempoolTypes'
  OBVIOUS
<1>1. CASE UNCHANGED mempoolVars
  BY <1>1, ChainTypes DEF mempoolVars, lists, MempoolTypes, WorkerType, ReactorType
<1>2. ASSUME NEW o \in Submission, Submit(o) PROVE MempoolTypes'
  BY <1>2, TypesAdd
<1>3. ASSUME NEW o \in putting, Put(o) PROVE MempoolTypes'
  BY <1>3, TypesAdd DEF MempoolTypes
<1>4. CASE Worker
  BY <1>4, TypesWorker
<1>5. CASE Reactor
  BY <1>5, TypesRequeue, TypesApply, TypesDrain DEF Reactor
<1>6. ASSUME NEW b \in Block, Reorganise(b) PROVE MempoolTypes'
  BY <1>6, TypesReorganise
<1>7. CASE Validator
  BY <1>7, TypesDrain
<1>8. QED BY <1>1, <1>2, <1>3, <1>4, <1>5, <1>6, <1>7 DEF MempoolNext

(* Every variable of the mempool keeps to its type, and the lists and the  *)
(* queue to their limits, whatever the blocks are.                         *)
THEOREM MempoolTypeCorrect == MempoolSpec => []MempoolTypeOK
<1>1. MempoolTypes => MempoolTypeOK
  BY DEF MempoolTypes, MempoolTypeOK, WorkerType, ReactorType, Turns, Free
<1>2. QED BY <1>1, TypesInit, TypesStep, PTL DEF MempoolSpec
-----------------------------------------------------------------------------
(* A beginning of a list, without its last element. *)
LEMMA FrontOfBeginning ==
  ASSUME NEW S, NEW s \in Seq(S), NEW k \in 1..Len(s)
  PROVE  Front(SubSeq(s, 1, k)) = SubSeq(s, 1, k - 1)
<1> DEFINE r == SubSeq(s, 1, k)
           q == SubSeq(s, 1, k - 1)
<1>1. Len(s) \in Nat /\ k \in 0..Len(s) /\ k - 1 \in 0..Len(s)
  BY LenProperties
<1>2. r \in Seq(S) /\ Len(r) = k /\ \A i \in 1..k : r[i] = s[i]
  BY <1>1, CutList
<1>3. q \in Seq(S) /\ Len(q) = k - 1 /\ \A i \in 1..k - 1 : q[i] = s[i]
  BY <1>1, CutList
<1> HIDE DEF r, q
<1>4. /\ SubSeq(r, 1, k - 1) \in Seq(S) /\ Len(SubSeq(r, 1, k - 1)) = k - 1
      /\ \A i \in 1..k - 1 : SubSeq(r, 1, k - 1)[i] = r[i]
  <2>1. k - 1 \in 0..Len(r)
    BY <1>1, <1>2
  <2>2. QED BY <1>2, <2>1, CutList
<1>5. SubSeq(r, 1, k - 1) = q
  <2> DEFINE p == SubSeq(r, 1, k - 1)
  <2>1. p \in Seq(S) /\ Len(p) = Len(q) /\ \A i \in 1..Len(p) : p[i] = q[i]
    BY <1>1, <1>2, <1>3, <1>4
  <2> HIDE DEF p
  <2>2. p = q
    BY <1>3, <2>1, SeqEqual
  <2>3. QED BY <2>2 DEF p
<1>6. Front(r) = SubSeq(r, 1, k - 1)
  BY <1>2 DEF Front
<1>7. QED BY <1>5, <1>6 DEF r, q

(* The transactions of a beginning: those of a shorter one, and one more   *)
(* block.                                                                  *)
LEMMA ConfirmedBeginning ==
  ASSUME NEW s \in Seq(Block), NEW k \in 1..Len(s)
  PROVE  ConfirmedIn(SubSeq(s, 1, k)) = ConfirmedIn(SubSeq(s, 1, k - 1)) \cup Range(Txs[s[k]])
<1>1. Len(s) \in Nat /\ k \in 0..Len(s) /\ k - 1 \in 0..Len(s)
  BY LenProperties
<1>2. Len(SubSeq(s, 1, k)) = k /\ \A i \in 1..k : SubSeq(s, 1, k)[i] = s[i]
  BY <1>1, CutList
<1>3. Len(SubSeq(s, 1, k - 1)) = k - 1 /\ \A i \in 1..k - 1 : SubSeq(s, 1, k - 1)[i] = s[i]
  BY <1>1, CutList
<1>4. ConfirmedIn(SubSeq(s, 1, k)) = UNION {Range(Txs[s[i]]) : i \in 1..k}
  BY <1>2 DEF ConfirmedIn
<1>5. ConfirmedIn(SubSeq(s, 1, k - 1)) = UNION {Range(Txs[s[i]]) : i \in 1..k - 1}
  BY <1>3 DEF ConfirmedIn
<1>6. 1..k = (1..k - 1) \cup {k}
  BY <1>1
<1>7. QED BY <1>4, <1>5, <1>6

(* A beginning of a beginning. *)
LEMMA BeginningOfBeginning ==
  ASSUME NEW S, NEW s \in Seq(S), NEW n \in 0..Len(s), NEW k \in 0..n
  PROVE  SubSeq(SubSeq(s, 1, n), 1, k) = SubSeq(s, 1, k)
<1> DEFINE r == SubSeq(s, 1, n)
           p == SubSeq(r, 1, k)
           q == SubSeq(s, 1, k)
<1>1. Len(s) \in Nat /\ k \in 0..Len(s)
  BY LenProperties
<1>2. r \in Seq(S) /\ Len(r) = n /\ \A i \in 1..n : r[i] = s[i]
  BY CutList
<1>3. q \in Seq(S) /\ Len(q) = k /\ \A i \in 1..k : q[i] = s[i]
  BY <1>1, CutList
<1> HIDE DEF r, q
<1>4. p \in Seq(S) /\ Len(p) = k /\ \A i \in 1..k : p[i] = r[i]
  BY <1>2, CutList
<1> HIDE DEF p
<1>5. p = q
  BY <1>2, <1>3, <1>4, SeqEqual
<1>6. QED BY <1>5 DEF p, q, r

(* Moving the first element of a list to the end of the one before it.     *)
LEMMA MovedAlong ==
  ASSUME NEW S, NEW s \in Seq(S), NEW t \in Seq(S), t # <<>>
  PROVE  Append(s, Head(t)) \o Tail(t) = s \o t
<1> DEFINE a == Append(s, Head(t))
           v == Tail(t)
           p == a \o v
           q == s \o t
<1>1. Head(t) \in S /\ Head(t) = t[1] /\ v \in Seq(S) /\ Len(v) = Len(t) - 1
      /\ \A i \in 1..Len(v) : v[i] = t[i + 1]
  BY HeadTailProperties
<1>2. Len(s) \in Nat /\ Len(t) \in Nat \ {0}
  BY LenProperties, EmptySeq
<1>3. /\ a \in Seq(S) /\ Len(a) = Len(s) + 1 /\ a[Len(s) + 1] = Head(t)
      /\ \A i \in 1..Len(s) : a[i] = s[i]
  BY <1>1, AppendProperties
<1> HIDE DEF a, v
<1>4. /\ p \in Seq(S) /\ Len(p) = Len(a) + Len(v)
      /\ \A i \in 1..Len(a) + Len(v) : p[i] = IF i <= Len(a) THEN a[i] ELSE v[i - Len(a)]
  BY <1>1, <1>3, ConcatProperties
<1>5. /\ q \in Seq(S) /\ Len(q) = Len(s) + Len(t)
      /\ \A i \in 1..Len(s) + Len(t) : q[i] = IF i <= Len(s) THEN s[i] ELSE t[i - Len(s)]
  BY ConcatProperties
<1> HIDE DEF p, q
<1>6. Len(p) = Len(q)
  BY <1>1, <1>2, <1>3, <1>4, <1>5
<1>7. ASSUME NEW i \in 1..Len(p) PROVE p[i] = q[i]
  <2>1. CASE i <= Len(s)
    <3>1. i \in 1..Len(s) /\ i <= Len(a)
      BY <1>2, <1>3, <2>1
    <3>2. QED BY <1>3, <1>4, <1>5, <1>6, <2>1, <3>1
  <2>2. CASE i = Len(s) + 1
    <3>1. i <= Len(a) /\ ~(i <= Len(s)) /\ i - Len(s) = 1
      BY <1>2, <1>3, <2>2
    <3>2. QED BY <1>1, <1>3, <1>4, <1>5, <1>6, <2>2, <3>1
  <2>3. CASE i > Len(s) + 1
    <3>1. /\ ~(i <= Len(a)) /\ ~(i <= Len(s)) /\ i - Len(a) \in 1..Len(v)
          /\ (i - Len(a)) + 1 = i - Len(s)
      BY <1>1, <1>2, <1>3, <1>4, <2>3
    <3>2. QED BY <1>1, <1>4, <1>5, <1>6, <3>1
  <2>4. QED BY <1>2, <2>1, <2>2, <2>3
<1>8. p = q
  BY <1>4, <1>5, <1>6, <1>7, SeqEqual
<1>9. QED BY <1>8 DEF p, q, a, v

(* The paths are paths of blocks. *)
LEMMA PathTypes ==
  ASSUME MempoolTypes
  PROVE  /\ ToUndo \in Seq(Block) /\ ToDo \in Seq(Block) /\ Doing \in Seq(Block)
         /\ Len(ToUndo) \in Nat /\ Len(ToDo) \in Nat /\ Len(Doing) \in Nat
         /\ tip \in Block /\ Lineage[tip] \in Seq(Block) /\ Len(Lineage[tip]) \in Nat \ {0}
         /\ Doing # <<>> => Len(Doing) \in Nat \ {0} /\ Head(Doing) = Doing[1]
         /\ reactor.at = "purge" => Doing # <<>>
<1>1. /\ entered \in Seq(Block) /\ entering \in Seq(Block) /\ removed \in Seq(Block)
      /\ reactor.todo \in Seq(Block) /\ <<>> \in Seq(Block) /\ tip \in Block
      /\ reactor.at = "purge" => reactor.todo # <<>>
  BY TurnType DEF MempoolTypes
<1> DEFINE u == IF reactor.at \in Requeueing THEN reactor.todo ELSE <<>>
<1>2. u \in Seq(Block)
  BY <1>1
<1> HIDE DEF u
<1>3. u \o removed \in Seq(Block) /\ entered \o entering \in Seq(Block)
  BY <1>1, <1>2, ConcatProperties
<1>4. Doing \in Seq(Block) /\ (reactor.at = "purge" => Doing # <<>>)
  BY <1>1 DEF Doing, Requeueing
<1>5. ToUndo \in Seq(Block) /\ ToDo \in Seq(Block)
  BY <1>3 DEF ToUndo, ToDo, u
<1>6. Len(ToUndo) \in Nat /\ Len(ToDo) \in Nat /\ Len(Doing) \in Nat
      /\ Doing # <<>> => Len(Doing) \in Nat \ {0}
  BY <1>4, <1>5, LenProperties, EmptySeq
<1>7. QED BY <1>1, <1>4, <1>5, <1>6, LineageEnds

(* Where the paths meet, the chain before the roll-back is one of the tree,*)
(* and so are its beginnings.                                              *)
LEMMA PeakIsChain ==
  ASSUME MempoolTypes, PathsMeet
  PROVE  /\ Peak \in Seq(Block) /\ Len(Peak) \in Nat
         /\ Level \in 0..Len(Peak) /\ Level = Len(Peak) - Len(Doing)
         /\ \E c \in Block :
              /\ Len(Peak) \in 0..Len(Lineage[c])
              /\ \A k \in 0..Len(Peak) : SubSeq(Peak, 1, k) = SubSeq(Lineage[c], 1, k)
              /\ \A k \in 1..Len(Peak) : Peak[k] = Lineage[c][k]
<1>1. ToUndo \in Seq(Block) /\ tip \in Block /\ ForkAt \in 0..Len(Lineage[tip])
      /\ Level \in 0..Len(Peak) /\ Level = Len(Peak) - Len(Doing)
  BY PathTypes DEF PathsMeet, Level
<1>2. PICK c \in Block : \E n \in 0..Len(Lineage[c]) : Peak = SubSeq(Lineage[c], 1, n)
  <2>1. CASE ToUndo # <<>>
    <3>1. Head(ToUndo) \in Block /\ Peak = Lineage[Head(ToUndo)]
      BY <1>1, <2>1, HeadTailProperties DEF Peak
    <3> DEFINE c == Head(ToUndo)
               L == Lineage[c]
    <3>2. L \in Seq(Block) /\ Len(L) \in Nat
      BY <3>1, LineageEnds
    <3>3. SubSeq(L, 1, Len(L)) = L /\ Len(L) \in 0..Len(L)
      <4> HIDE DEF L
      <4>1. QED BY <3>2, SubSeqFull
    <3>4. QED BY <3>1, <3>3
  <2>2. CASE ToUndo = <<>>
    BY <1>1, <2>2 DEF Peak
  <2>3. QED BY <2>1, <2>2
<1>3. PICK n \in 0..Len(Lineage[c]) : Peak = SubSeq(Lineage[c], 1, n)
  BY <1>2
<1> DEFINE L == Lineage[c]
<1>4. L \in Seq(Block) /\ n \in 0..Len(L) /\ Peak = SubSeq(L, 1, n)
  BY <1>3, LineageEnds
<1> HIDE DEF L
<1>5. Peak \in Seq(Block) /\ Len(Peak) = n /\ \A k \in 1..n : Peak[k] = L[k]
  BY <1>4, CutList
<1>6. \A k \in 0..n : SubSeq(Peak, 1, k) = SubSeq(L, 1, k)
  BY <1>4, BeginningOfBeginning
<1>7. QED BY <1>1, <1>4, <1>5, <1>6, LenProperties DEF L

(* As long as tip and paths stay, everything that depends on them does.    *)
LEMMA PathsSame ==
  ASSUME PathsMeet, tip' = tip, ToUndo' = ToUndo, ToDo' = ToDo, Doing' = Doing,
         (reactor'.at = "purge") <=> (reactor.at = "purge"),
         reactor'.at \in Requeueing => removed' = <<>>
  PROVE  PathsMeet' /\ Purged' = Purged /\ Applied' = Applied
  BY DEF PathsMeet, Purged, Applied, ForkAt, Peak, Level

(* What neither reorganises nor rolls back, takes over, applies or purges  *)
(* leaves the paths.                                                       *)
LEMMA PathsStay ==
  ASSUME MempoolTypes, PathsMeet,
         \/ UNCHANGED <<reactor, chainVars>>
         \/ Forget \/ Readd \/ Reput \/ RequeueDone
         \/ Validator \/ DrainRemoved
  PROVE  /\ PathsMeet' /\ Purged' = Purged /\ Applied' = Applied
         /\ ToUndo' = ToUndo
<1>0. reactor.at \in Requeueing => removed = <<>>
  BY DEF PathsMeet
<1>1. CASE UNCHANGED <<reactor, chainVars>>
  BY <1>0, <1>1, PathsSame DEF ToUndo, ToDo, Doing, chainVars
<1>2. CASE Forget \/ Readd \/ Reput \/ RequeueDone
  <2>1. reactor.at \in Requeueing /\ UNCHANGED chainVars
    BY <1>2 DEF Forget, Readd, Reput, RequeueDone, Requeueing
  <2>2. reactor'.at \in Requeueing /\ reactor'.todo = reactor.todo
    BY <1>2, TurnType DEF Forget, Readd, Reput, RequeueDone, Turns, Requeueing
  <2>3. reactor.at # "purge" /\ reactor'.at # "purge"
    BY <2>1, <2>2 DEF Requeueing
  <2>4. UNCHANGED <<tip, removed, entered, entering>>
    BY <2>1 DEF chainVars
  <2>5. ToUndo' = ToUndo /\ ToDo' = ToDo /\ Doing' = Doing
    BY <2>1, <2>2, <2>4 DEF ToUndo, ToDo, Doing
  <2>6. QED BY <1>0, <2>1, <2>3, <2>4, <2>5, PathsSame
<1>3. CASE AcceptEnd
  BY <1>0, <1>3, PathsSame DEF AcceptEnd, ToUndo, ToDo, Doing
<1>4. CASE Publish
  <2>1. /\ entering # <<>> /\ entered' = Append(entered, Head(entering))
        /\ entering' = Tail(entering) /\ UNCHANGED <<reactor, tip, removed>>
    BY <1>4 DEF Publish
  <2>2. entered \in Seq(Block) /\ entering \in Seq(Block)
    BY DEF MempoolTypes
  <2>3. ToDo' = ToDo
    BY <2>1, <2>2, MovedAlong DEF ToDo
  <2>4. QED BY <1>0, <2>1, <2>3, PathsSame DEF ToUndo, Doing
<1>5. CASE DrainRemoved
  <2>1. /\ reactor = [at |-> "apply", todo |-> <<>>, requeue |-> <<>>]
        /\ reactor' = [at |-> "undo", todo |-> removed, requeue |-> <<>>]
        /\ removed' = <<>> /\ UNCHANGED <<tip, entered, entering>>
    BY <1>5 DEF DrainRemoved, Rest, Turn
  <2>2. removed \in Seq(Block)
    BY DEF MempoolTypes
  <2>3. removed \o <<>> = removed /\ <<>> \o removed = removed
    BY <2>2, ConcatEmptySeq
  <2>4. ToUndo' = ToUndo /\ Doing' = Doing /\ ToDo' = ToDo
    BY <2>1, <2>3 DEF ToUndo, Doing, ToDo, Requeueing
  <2>5. QED BY <2>1, <2>4, PathsSame
<1>6. QED BY <1>1, <1>2, <1>3, <1>4, <1>5 DEF Validator

(* Whenever the reactor rests and nothing is on its way to it, ledger and  *)
(* lists are those of the main chain.                                      *)
LEMMA PathsAtRest ==
  ASSUME MempoolTypes, reactor = Rest, removed = <<>>, entered \o entering = <<>>
  PROVE  PathsMeet /\ Purged = Lineage[tip] /\ Applied = Lineage[tip] /\ ToUndo = <<>>
<1>1. tip \in Block /\ Lineage[tip] \in Seq(Block) /\ Len(Lineage[tip]) \in Nat
  BY LineageEnds DEF MempoolTypes
<1>2. reactor.at = "apply" /\ reactor.todo = <<>>
  BY DEF Rest, Turn
<1>3. ToUndo = <<>> /\ ToDo = <<>> /\ Doing = <<>> /\ reactor.at \notin Requeueing
      /\ reactor.at # "purge" /\ Len(<<>>) = 0
  <2>1. <<>> \o <<>> = <<>>
    BY ConcatEmptySeq
  <2>2. QED BY <1>2, <2>1 DEF ToUndo, ToDo, Doing, Requeueing
<1>4. ForkAt = Len(Lineage[tip])
  BY <1>1, <1>3 DEF ForkAt
<1>5. SubSeq(Lineage[tip], 1, Len(Lineage[tip])) = Lineage[tip]
  BY <1>1, SubSeqFull
<1>6. Peak = Lineage[tip] /\ Level = Len(Lineage[tip])
  BY <1>1, <1>3, <1>4, <1>5 DEF Peak, Level
<1>7. PathsMeet
  BY <1>1, <1>3, <1>4, <1>6 DEF PathsMeet
<1>8. QED BY <1>3, <1>5, <1>6, <1>7 DEF Purged, Applied

(* A chain that grows leaves the paths, and adds to the last one.          *)
LEMMA PathsGrow ==
  ASSUME MempoolTypes, PathsMeet, NEW b \in Block, Reorganise(b),
         Shared(tip, b) = Len(Lineage[tip])
  PROVE  /\ PathsMeet' /\ Purged' = Purged /\ Applied' = Applied /\ ToUndo' = ToUndo
<1> DEFINE A == Lineage[tip]
           B == Lineage[b]
           m == Len(A)
           s == SubSeq(A, m + 1, m)
           d == SubSeq(B, m + 1, Len(B))
           q == Len(ToDo)
           f == ForkAt
<1>1. tip \in Block /\ A \in Seq(Block) /\ B \in Seq(Block) /\ m \in Nat \ {0}
      /\ Len(B) \in Nat \ {0}
  BY LineageEnds DEF MempoolTypes
<1>2. m \in 0..Len(B) /\ SubSeq(A, 1, m) = SubSeq(B, 1, m)
  BY <1>1, SharedBeginning DEF Shared
<1>3. /\ tip' = b /\ removed' = removed \o Reverse(s) /\ entering' = entering \o d
      /\ UNCHANGED <<entered, reactor>>
  BY DEF Reorganise
<1>4. /\ q \in Nat /\ f \in 0..m /\ f = m - q
      /\ \A i \in 1..q : ToDo[i] = A[f + i]
      /\ \A i \in 1..Len(ToUndo) :
           Front(Lineage[ToUndo[i]]) = IF i < Len(ToUndo) THEN Lineage[ToUndo[i + 1]]
                                       ELSE SubSeq(A, 1, f)
      /\ Level \in 0..Len(Peak)
      /\ \A i \in 1..Len(Doing) : Doing[i] = Peak[Level + i]
      /\ reactor.at \in Requeueing => removed = <<>>
  BY PathTypes DEF PathsMeet, ForkAt
<1>5. /\ entered \in Seq(Block) /\ entering \in Seq(Block) /\ removed \in Seq(Block)
      /\ ToDo \in Seq(Block)
  BY PathTypes DEF MempoolTypes
<1>6. Lineage[tip'] = B
  BY <1>3
<1> HIDE DEF A, B, m
<1>7. Reverse(s) = <<>>
  <2>1. s \in Seq(Block) /\ Len(s) = m - m
    <3>1. m \in 0..m
      BY <1>1
    <3>2. QED BY <1>1, <3>1, CutList DEF m
  <2> HIDE DEF s
  <2>2. Reverse(s) \in Seq(Block) /\ Len(Reverse(s)) = Len(s)
    BY <2>1, ReverseInSeq
  <2>3. Len(Reverse(s)) = 0
    BY <1>1, <2>1, <2>2
  <2>4. QED BY <2>2, <2>3, EmptySeq
<1>8. removed' = removed
  BY <1>3, <1>5, <1>7, ConcatEmptySeq
<1>9. d \in Seq(Block) /\ Len(d) = Len(B) - m /\ \A i \in 1..Len(B) - m : d[i] = B[m + i]
  BY <1>1, <1>2, CutList
<1> HIDE DEF d
<1>10. ToDo' = ToDo \o d
  <2>1. ToDo' = entered \o (entering \o d) /\ ToDo = entered \o entering
    BY <1>3 DEF ToDo
  <2>2. (entered \o entering) \o d = entered \o (entering \o d)
    <3>1. entered \in Seq(Block) /\ entering \in Seq(Block) /\ d \in Seq(Block)
      BY <1>5, <1>9
    <3>2. QED BY <3>1, ConcatAssociative
  <2>3. QED BY <2>1, <2>2
<1>11. /\ ToDo' \in Seq(Block) /\ Len(ToDo') = q + Len(d)
       /\ \A i \in 1..q + Len(d) : ToDo'[i] = IF i <= q THEN ToDo[i] ELSE d[i - q]
  BY <1>5, <1>9, <1>10, ConcatProperties
<1>12. ForkAt' = f
  <2>1. ForkAt' = Len(B) - Len(ToDo')
    BY <1>6 DEF ForkAt
  <2> HIDE DEF q, f
  <2>2. QED BY <1>1, <1>4, <1>9, <1>11, <2>1
<1> HIDE DEF q, f
<1>13. \A k \in 0..m : SubSeq(B, 1, k) = SubSeq(A, 1, k)
  <2>1. ASSUME NEW k \in 0..m PROVE SubSeq(B, 1, k) = SubSeq(A, 1, k)
    <3>1. SubSeq(SubSeq(B, 1, m), 1, k) = SubSeq(B, 1, k)
      BY <1>1, <1>2, BeginningOfBeginning
    <3>2. m \in 0..Len(A)
      BY <1>1 DEF m
    <3>3. SubSeq(SubSeq(A, 1, m), 1, k) = SubSeq(A, 1, k)
      BY <1>1, <3>2, BeginningOfBeginning
    <3>4. QED BY <1>2, <3>1, <3>3
  <2>2. QED BY <2>1
<1>14. \A i \in 1..m : A[i] = B[i]
  <2>1. m \in 0..Len(A)
    BY <1>1 DEF m
  <2>2. \A i \in 1..m : SubSeq(A, 1, m)[i] = A[i]
    BY <1>1, <2>1, CutList
  <2>3. \A i \in 1..m : SubSeq(B, 1, m)[i] = B[i]
    BY <1>1, <1>2, CutList
  <2>4. QED BY <1>2, <2>2, <2>3
<1>15. ASSUME NEW i \in 1..Len(ToDo') PROVE ToDo'[i] = B[f + i]
  <2>1. CASE i <= q
    <3>1. i \in 1..q /\ f + i \in 1..m
      BY <1>1, <1>4, <1>9, <1>11, <2>1
    <3>2. ToDo'[i] = ToDo[i]
      BY <1>11, <2>1
    <3>3. QED BY <1>4, <1>14, <3>1, <3>2
  <2>2. CASE ~(i <= q)
    <3>1. i - q \in 1..Len(B) - m /\ m + (i - q) = f + i
      BY <1>1, <1>2, <1>4, <1>9, <1>11, <2>2
    <3>2. ToDo'[i] = d[i - q]
      BY <1>11, <2>2
    <3>3. QED BY <1>9, <3>1, <3>2
  <2>3. QED BY <2>1, <2>2
<1>16. ToUndo' = ToUndo /\ Doing' = Doing
  BY <1>3, <1>8 DEF ToUndo, Doing
<1>17. SubSeq(B, 1, f) = SubSeq(A, 1, f) /\ f \in 0..Len(B)
  BY <1>1, <1>2, <1>4, <1>13
<1>18. Peak' = Peak
  BY <1>6, <1>12, <1>16, <1>17 DEF Peak, f, A
<1>19. Level' = Level
  BY <1>16, <1>18 DEF Level
<1>20. PathsMeet'
  BY <1>3, <1>4, <1>6, <1>8, <1>12, <1>15, <1>16, <1>17, <1>18, <1>19 DEF PathsMeet
<1>21. QED BY <1>3, <1>16, <1>18, <1>19, <1>20 DEF Purged, Applied

(* A reorganisation while nothing is on its way to the reactor sets the    *)
(* paths from the old tip to the new one.                                  *)
LEMMA PathsTurn ==
  ASSUME MempoolTypes, PathsMeet, NEW b \in Block, Reorganise(b), ~Tangling,
         Shared(tip, b) # Len(Lineage[tip])
  PROVE  /\ PathsMeet' /\ Purged' = Purged /\ Applied' = Applied /\ reorged'
<1> DEFINE A == Lineage[tip]
           B == Lineage[b]
           n == Shared(tip, b)
           m == Len(A)
           s == SubSeq(A, n + 1, m)
           u == Reverse(s)
           d == SubSeq(B, n + 1, Len(B))
<1>1. /\ tip' = b /\ removed' = removed \o u /\ entering' = entering \o d
      /\ reorged' = (reorged \/ u # <<>>) /\ UNCHANGED <<entered, reactor>>
  BY DEF Reorganise
<1>2. tip \in Block /\ A \in Seq(Block) /\ B \in Seq(Block) /\ m \in Nat \ {0}
      /\ Len(B) \in Nat \ {0}
  BY LineageEnds DEF MempoolTypes
<1>3. n \in 0..m /\ n \in 0..Len(B) /\ SubSeq(A, 1, n) = SubSeq(B, 1, n) /\ n # m
  BY <1>2, SharedBeginning DEF Shared
<1>4. /\ removed = <<>> /\ entered = <<>> /\ entering = <<>>
      /\ reactor.at \notin Requeueing
  <2>1. /\ entered \in Seq(Block) /\ entering \in Seq(Block) /\ removed \in Seq(Block)
    BY DEF MempoolTypes
  <2>2. (removed \o entered) \o entering = <<>> /\ reactor.at \notin Requeueing
    BY DEF Tangling, Requeueing
  <2>3. removed \o entered \in Seq(Block)
    BY <2>1, ConcatProperties
  <2>4. removed \o entered = <<>> /\ entering = <<>>
    BY <2>1, <2>2, <2>3, ConcatEqualIffEmpty
  <2>5. QED BY <2>1, <2>2, <2>4, ConcatEqualIffEmpty
<1>5. \A i \in 1..m : Lineage[A[i]] = SubSeq(A, 1, i)
  BY <1>2, LineagePrefixes DEF LineagePrefixed
<1>6. <<>> \o <<>> = <<>> /\ Len(<<>>) = 0 /\ <<>> \in Seq(Block)
  OBVIOUS
<1>7. ToUndo = <<>> /\ ToDo = <<>> /\ ForkAt = m /\ Peak = A
  <2>1. ToUndo = <<>> /\ ToDo = <<>>
    BY <1>4, <1>6 DEF ToUndo, ToDo
  <2>2. ForkAt = m
    BY <1>2, <1>6, <2>1 DEF ForkAt
  <2>3. SubSeq(A, 1, m) = A
    BY <1>2, SubSeqFull
  <2>4. QED BY <2>1, <2>2, <2>3 DEF Peak
<1> HIDE DEF A, B, n, m
<1>8. s \in Seq(Block) /\ Len(s) = m - n /\ \A i \in 1..m - n : s[i] = A[n + i]
  BY <1>2, <1>3, CutList DEF m
<1>9. d \in Seq(Block) /\ Len(d) = Len(B) - n /\ \A i \in 1..Len(B) - n : d[i] = B[n + i]
  BY <1>2, <1>3, CutList
<1> HIDE DEF s, d
<1>10. u \in Seq(Block) /\ Len(u) = m - n
      /\ \A i \in 1..m - n : u[i] = s[((m - n) - i) + 1]
  BY <1>8, ReverseInSeq
<1> HIDE DEF u
<1>11. ASSUME NEW i \in 1..m - n
      PROVE  u[i] = A[(m - i) + 1] /\ Lineage[u[i]] = SubSeq(A, 1, (m - i) + 1)
             /\ Front(Lineage[u[i]]) = SubSeq(A, 1, m - i)
  <2>1. /\ ((m - n) - i) + 1 \in 1..m - n /\ n + (((m - n) - i) + 1) = (m - i) + 1
        /\ (m - i) + 1 \in 1..m /\ ((m - i) + 1) - 1 = m - i
    BY <1>2, <1>3
  <2>2. u[i] = A[(m - i) + 1]
    BY <1>8, <1>10, <2>1
  <2>3. Lineage[u[i]] = SubSeq(A, 1, (m - i) + 1)
    BY <1>5, <2>1, <2>2
  <2>4. Front(SubSeq(A, 1, (m - i) + 1)) = SubSeq(A, 1, ((m - i) + 1) - 1)
    BY <1>2, <2>1, FrontOfBeginning DEF m
  <2>5. QED BY <2>1, <2>2, <2>3, <2>4
<1>12. ToUndo' = u /\ ToDo' = d /\ Doing' = Doing /\ Lineage[tip'] = B
  <2>1. removed' = u /\ entering' = d /\ entered' = <<>>
    BY <1>1, <1>4, <1>9, <1>10, ConcatEmptySeq
  <2>2. <<>> \o u = u /\ <<>> \o d = d
    BY <1>9, <1>10, ConcatEmptySeq
  <2>3. QED BY <1>1, <1>4, <2>1, <2>2 DEF ToUndo, ToDo, Doing, B
<1>13. ForkAt' = n
  <2>1. ForkAt' = Len(B) - Len(d)
    BY <1>12 DEF ForkAt
  <2> DEFINE p == Len(B)
             q == Len(d)
  <2> HIDE DEF p, q
  <2>2. ForkAt' = p - q /\ p \in Int /\ n \in Int /\ q = p - n
    BY <1>2, <1>3, <1>9, <2>1 DEF p, q
  <2>3. QED BY <2>2
<1>14. u # <<>> /\ Peak' = A
  <2>1. Len(u) \in Nat \ {0}
    BY <1>2, <1>3, <1>10
  <2>2. u # <<>> /\ Head(u) = u[1]
    BY <1>6, <2>1
  <2>3. 1 \in 1..m - n /\ (m - 1) + 1 = m
    BY <1>2, <1>3, <1>10, <2>1
  <2>4. Lineage[u[1]] = SubSeq(A, 1, (m - 1) + 1)
    BY <1>11, <2>3
  <2>5. Lineage[Head(u)] = A
    BY <1>2, <2>2, <2>3, <2>4, SubSeqFull DEF m
  <2>6. QED BY <1>12, <2>2, <2>5 DEF Peak
<1>15. Peak' = Peak /\ Level' = Level
  BY <1>7, <1>12, <1>14 DEF Level
<1>16. PathsMeet'
  <2>1. \A i \in 1..Len(d) : d[i] = B[n + i]
    BY <1>9
  <2>2. ASSUME NEW i \in 1..Len(u)
        PROVE  Front(Lineage[u[i]]) = IF i < Len(u) THEN Lineage[u[i + 1]] ELSE SubSeq(B, 1, n)
    <3>1. i \in 1..m - n /\ Front(Lineage[u[i]]) = SubSeq(A, 1, m - i)
      BY <1>10, <1>11, <2>2
    <3>2. CASE i < Len(u)
      <4>1. i + 1 \in 1..m - n /\ (m - (i + 1)) + 1 = m - i
        BY <1>2, <1>3, <1>10, <3>1, <3>2
      <4>2. Lineage[u[i + 1]] = SubSeq(A, 1, (m - (i + 1)) + 1)
        BY <1>11, <4>1
      <4>3. QED BY <3>1, <3>2, <4>1, <4>2
    <3>3. CASE ~(i < Len(u))
      <4>1. m - i = n
        BY <1>2, <1>3, <1>10, <3>1, <3>3
      <4>2. QED BY <1>3, <3>1, <3>3, <4>1
    <3>4. QED BY <3>2, <3>3
  <2>3. Level \in 0..Len(Peak) /\ \A i \in 1..Len(Doing) : Doing[i] = Peak[Level + i]
    BY DEF PathsMeet
  <2>4. reactor'.at \notin Requeueing
    BY <1>1, <1>4
  <2>5. QED BY <1>3, <1>12, <1>13, <1>15, <2>1, <2>2, <2>3, <2>4 DEF PathsMeet
<1>17. QED BY <1>1, <1>14, <1>15, <1>16 DEF Purged, Applied

(* So the paths stay, unless blocks leave while others are on their way.   *)
LEMMA PathsReorganise ==
  ASSUME MempoolTypes, PathsMeet, NEW b \in Block, Reorganise(b), ~tangled'
  PROVE  /\ PathsMeet' /\ Purged' = Purged /\ Applied' = Applied
         /\ reorged' \/ ToUndo' = ToUndo
         /\ UNCHANGED <<submitted, lists, queue, putting, worker, state, reactor>>
<1>1. UNCHANGED <<submitted, lists, queue, putting, worker, state, reactor>>
  BY DEF Reorganise
<1>2. CASE Shared(tip, b) = Len(Lineage[tip])
  BY <1>1, <1>2, PathsGrow
<1>3. CASE Shared(tip, b) # Len(Lineage[tip])
  <2> DEFINE n == Shared(tip, b)
             A == Lineage[tip]
             s == SubSeq(A, n + 1, Len(A))
             u == Reverse(s)
  <2>1. tip \in Block /\ A \in Seq(Block) /\ Len(A) \in Nat
    BY LineageEnds DEF MempoolTypes
  <2>2. n \in 0..Len(A)
    BY <2>1, SharedBeginning DEF Shared
  <2>3. tangled' = (tangled \/ (u # <<>> /\ Tangling))
    BY DEF Reorganise
  <2> HIDE DEF n, A
  <2>4. s \in Seq(Block) /\ Len(s) = Len(A) - n
    BY <2>1, <2>2, CutList
  <2> HIDE DEF s
  <2>5. Len(u) # 0
    BY <1>3, <2>1, <2>2, <2>4, ReverseInSeq DEF n, A
  <2>6. u # <<>>
    BY <2>5
  <2>7. ~Tangling
    BY <2>3, <2>6
  <2>8. QED BY <1>1, <1>3, <2>7, PathsTurn
<1>4. QED BY <1>2, <1>3

(* Rolling back takes the last block off both chains. *)
LEMMA PathsRollBack ==
  ASSUME MempoolTypes, PathsMeet, RollBack
  PROVE  LET b == Head(reactor.todo)
         IN  /\ b \in Block /\ state' = RollbackBlock(state, b)
             /\ Purged = Lineage[b] /\ Applied = Lineage[b]
             /\ PathsMeet' /\ Purged' = Front(Lineage[b]) /\ Applied' = Front(Lineage[b])
             /\ ToUndo # <<>>
             /\ reactor' = [at |-> "requeue", todo |-> Tail(reactor.todo),
                  requeue |-> [i \in DOMAIN Txs[b] |-> [tx |-> Txs[b][i], from |-> b]]]
<1> DEFINE u == ToUndo
           b == Head(reactor.todo)
           v == Tail(u)
<1>1. /\ reactor.at = "undo" /\ reactor.todo # <<>> /\ state' = RollbackBlock(state, b)
      /\ reactor' = [at |-> "requeue", todo |-> Tail(reactor.todo),
           requeue |-> [i \in DOMAIN Txs[b] |-> [tx |-> Txs[b][i], from |-> b]]]
      /\ UNCHANGED <<tip, removed, entered, entering>>
  BY DEF RollBack, chainVars
<1>2. reactor.todo \in Seq(Block) /\ b \in Block /\ Tail(reactor.todo) \in Seq(Block)
      /\ removed = <<>>
  BY <1>1, TurnType DEF PathsMeet, Requeueing
<1>3. u = reactor.todo /\ ToUndo' = v /\ ToDo' = ToDo /\ Doing = <<>> /\ Doing' = <<>>
  <2>1. reactor.todo \o <<>> = reactor.todo
    BY <1>2, ConcatEmptySeq
  <2>2. Tail(reactor.todo) \o <<>> = Tail(reactor.todo)
    BY <1>2, ConcatEmptySeq
  <2>3. reactor'.at = "requeue" /\ reactor'.todo = Tail(reactor.todo)
    BY <1>1
  <2>4. u = reactor.todo
    BY <1>1, <1>2, <2>1 DEF ToUndo, Requeueing
  <2>5. QED BY <1>1, <1>2, <2>2, <2>3, <2>4 DEF ToUndo, ToDo, Doing, Requeueing
<1>4. u \in Seq(Block) /\ u # <<>> /\ b = Head(u)
  BY <1>1, <1>2, <1>3
<1>5. ForkAt' = ForkAt /\ Lineage[tip'] = Lineage[tip]
  BY <1>1, <1>3 DEF ForkAt
<1>6. /\ ForkAt \in 0..Len(Lineage[tip])
      /\ \A i \in 1..Len(ToDo) : ToDo[i] = Lineage[tip][ForkAt + i]
      /\ \A i \in 1..Len(u) :
           Front(Lineage[u[i]]) = IF i < Len(u) THEN Lineage[u[i + 1]]
                                   ELSE SubSeq(Lineage[tip], 1, ForkAt)
  BY DEF PathsMeet
<1>7. Peak = Lineage[b]
  BY <1>4 DEF Peak
<1>8. Peak' = IF v # <<>> THEN Lineage[Head(v)] ELSE SubSeq(Lineage[tip], 1, ForkAt)
  BY <1>3, <1>5 DEF Peak
<1> HIDE DEF u
<1>9. Len(u) \in Nat \ {0}
  BY <1>4, EmptySeq
<1>10. /\ Head(u) = u[1]
       /\ v \in Seq(Block) /\ Len(v) = Len(u) - 1 /\ \A i \in 1..Len(v) : v[i] = u[i + 1]
  BY <1>4, HeadTailProperties
<1>11. \A i \in 1..Len(v) :
         Front(Lineage[v[i]]) = IF i < Len(v) THEN Lineage[v[i + 1]]
                                ELSE SubSeq(Lineage[tip], 1, ForkAt)
  <2> HIDE DEF v
  <2>1. ASSUME NEW i \in 1..Len(v)
        PROVE  Front(Lineage[v[i]]) = IF i < Len(v) THEN Lineage[v[i + 1]]
                                      ELSE SubSeq(Lineage[tip], 1, ForkAt)
    <3>1. i + 1 \in 1..Len(u) /\ (i + 1 < Len(u) <=> i < Len(v))
      BY <1>9, <1>10
    <3>2. v[i] = u[i + 1]
      BY <1>10
    <3>3. CASE i < Len(v)
      <4>1. i + 1 \in 1..Len(v)
        BY <1>9, <1>10, <3>3
      <4>2. v[i + 1] = u[(i + 1) + 1]
        BY <1>10, <4>1
      <4>3. QED BY <1>6, <3>1, <3>2, <3>3, <4>2
    <3>4. CASE ~(i < Len(v))
      BY <1>6, <3>1, <3>2, <3>4
    <3>5. QED BY <3>3, <3>4
  <2>2. QED BY <2>1
<1>12. Peak' = Front(Lineage[b])
  <2> HIDE DEF v
  <2>1. Front(Lineage[u[1]]) = IF 1 < Len(u) THEN Lineage[u[1 + 1]]
                               ELSE SubSeq(Lineage[tip], 1, ForkAt)
    BY <1>6, <1>9
  <2>2. CASE v = <<>>
    <3>1. Len(v) = 0
      BY <2>2
    <3>2. ~(1 < Len(u))
      BY <1>9, <1>10, <3>1
    <3>3. QED BY <1>4, <1>8, <1>10, <2>1, <2>2, <3>2
  <2>3. CASE v # <<>>
    <3>1. Len(v) \in Nat \ {0} /\ Head(v) = v[1]
      BY <1>10, <2>3, EmptySeq
    <3>2. 1 \in 1..Len(v) /\ 1 < Len(u)
      BY <1>9, <1>10, <3>1
    <3>3. v[1] = u[1 + 1]
      BY <1>10, <3>2
    <3>4. QED BY <1>4, <1>8, <1>10, <2>1, <2>3, <3>1, <3>2, <3>3
  <2>4. QED BY <2>2, <2>3
<1> HIDE DEF v
<1>13. /\ Lineage[b] \in Seq(Block) /\ Len(Lineage[b]) \in Nat \ {0}
       /\ SubSeq(Lineage[b], 1, Len(Lineage[b])) = Lineage[b]
  <2>1. Lineage[b] \in Seq(Block) /\ Len(Lineage[b]) \in Nat \ {0}
    BY <1>2, LineageEnds
  <2>2. QED BY <2>1, SubSeqFull
<1>14. /\ Front(Lineage[b]) \in Seq(Block) /\ Len(Front(Lineage[b])) \in Nat
       /\ SubSeq(Front(Lineage[b]), 1, Len(Front(Lineage[b]))) = Front(Lineage[b])
  <2>1. Lineage[b] # <<>>
    BY <1>13
  <2>2. Front(Lineage[b]) \in Seq(Block)
    BY <1>13, <2>1, FrontKeeps
  <2>3. QED BY <2>2, LenProperties, SubSeqFull
<1>15. Level = Len(Lineage[b]) /\ Level' = Len(Front(Lineage[b])) /\ Len(<<>>) = 0
  BY <1>3, <1>7, <1>12, <1>13, <1>14 DEF Level
<1>16. PathsMeet'
  BY <1>1, <1>2, <1>3, <1>5, <1>6, <1>11, <1>12, <1>14, <1>15 DEF PathsMeet
<1>17. Purged = Lineage[b] /\ Applied = Lineage[b]
  BY <1>1, <1>7, <1>13, <1>15 DEF Purged, Applied
<1>18. reactor'.at = "requeue"
  BY <1>1
<1>19. Purged' = Front(Lineage[b]) /\ Applied' = Front(Lineage[b])
  BY <1>12, <1>14, <1>15, <1>18 DEF Purged, Applied
<1>20. QED BY <1>1, <1>2, <1>4, <1>16, <1>17, <1>19 DEF u

(* The entered blocks are taken over: they lead on from where the reactor  *)
(* is.                                                                     *)
LEMMA PathsDrain ==
  ASSUME MempoolTypes, PathsMeet, DrainEntered
  PROVE  /\ PathsMeet' /\ Purged' = Purged /\ Applied' = Applied
         /\ ToUndo' = <<>> /\ reactor'.at = "apply"
<1> DEFINE A == Lineage[tip]
           m == Len(A)
           f == ForkAt
           x == Len(entered)
           y == Len(entering)
<1>1. /\ reactor = [at |-> "undo", todo |-> <<>>, requeue |-> <<>>]
      /\ reactor' = [at |-> "apply", todo |-> entered, requeue |-> <<>>]
      /\ entered' = <<>> /\ UNCHANGED <<tip, removed, entering>>
  BY DEF DrainEntered, Turn
<1>2. reactor.at \in Requeueing /\ reactor'.at \notin Requeueing /\ removed = <<>>
  BY <1>1 DEF Requeueing, PathsMeet
<1>3. /\ entered \in Seq(Block) /\ entering \in Seq(Block) /\ tip \in Block
      /\ A \in Seq(Block) /\ m \in Nat /\ x \in Nat /\ y \in Nat
  BY LineageEnds, LenProperties DEF MempoolTypes
<1>4. ToUndo = <<>> /\ ToUndo' = <<>> /\ Doing = <<>> /\ Doing' = entered
      /\ ToDo = entered \o entering /\ ToDo' = entering
  <2>1. <<>> \o <<>> = <<>> /\ <<>> \o entering = entering
    BY <1>3, ConcatEmptySeq
  <2>2. QED BY <1>1, <1>2, <2>1 DEF ToUndo, Doing, ToDo
<1>5. /\ Len(ToDo) = x + y
      /\ \A i \in 1..x + y : ToDo[i] = IF i <= x THEN entered[i] ELSE entering[i - x]
  BY <1>3, <1>4, ConcatProperties
<1>6. f \in 0..m /\ f = m - (x + y) /\ \A i \in 1..x + y : ToDo[i] = A[f + i]
  BY <1>5 DEF PathsMeet, ForkAt
<1>7. ForkAt' = m - y
  BY <1>1, <1>4 DEF ForkAt
<1> HIDE DEF m, x, y, f
<1>8. ForkAt' = f + x /\ f + x \in 0..m
  BY <1>3, <1>6, <1>7
<1>9. Peak = SubSeq(A, 1, f) /\ Peak' = SubSeq(A, 1, f + x)
  BY <1>1, <1>4, <1>8 DEF Peak, f
<1>10. Len(SubSeq(A, 1, f)) = f /\ SubSeq(A, 1, f) \in Seq(Block)
  <2>1. f \in 0..Len(A)
    BY <1>6 DEF m
  <2> HIDE DEF A
  <2>2. QED BY <1>3, <2>1, CutList
<1>11. Len(SubSeq(A, 1, f + x)) = f + x /\ \A i \in 1..f + x : SubSeq(A, 1, f + x)[i] = A[i]
  BY <1>3, <1>8, CutList DEF m
<1>12. Level = f /\ Level' = f
  <2>1. Level = f - 0
    BY <1>4, <1>9, <1>10 DEF Level
  <2>2. Level' = (f + x) - x
    BY <1>4, <1>9, <1>11 DEF Level, x
  <2>3. QED BY <1>3, <1>6, <2>1, <2>2
<1>13. ASSUME NEW i \in 1..x PROVE entered[i] = SubSeq(A, 1, f + x)[f + i]
  <2>1. i \in 1..x + y /\ i <= x /\ f + i \in 1..f + x
    BY <1>3, <1>6
  <2>2. QED BY <1>5, <1>6, <1>11, <2>1
<1>14. ASSUME NEW i \in 1..y PROVE entering[i] = A[ForkAt' + i]
  <2>1. /\ x + i \in 1..x + y /\ ~(x + i <= x) /\ (x + i) - x = i
        /\ f + (x + i) = (f + x) + i
    BY <1>3, <1>6
  <2>2. QED BY <1>5, <1>6, <1>8, <2>1
<1>15. PathsMeet'
  <2>1. Level' \in 0..Len(Peak')
    BY <1>3, <1>6, <1>9, <1>11, <1>12
  <2>2. \A i \in 1..Len(Doing') : Doing'[i] = Peak'[Level' + i]
    BY <1>4, <1>9, <1>12, <1>13 DEF x
  <2>3. \A i \in 1..Len(ToDo') : ToDo'[i] = Lineage[tip'][ForkAt' + i]
    BY <1>1, <1>4, <1>14 DEF y, A
  <2>4. ForkAt' \in 0..Len(Lineage[tip'])
    BY <1>1, <1>8 DEF m, A
  <2>5. Len(ToUndo') = 0
    BY <1>4
  <2>6. QED BY <1>2, <2>1, <2>2, <2>3, <2>4, <2>5 DEF PathsMeet
<1>16. Purged' = Purged
  <2>1. f \in 0..f + x /\ f + x \in 0..Len(A) /\ f \in 0..f
    BY <1>3, <1>6, <1>8 DEF m
  <2>2. SubSeq(SubSeq(A, 1, f + x), 1, f) = SubSeq(A, 1, f)
    BY <1>3, <2>1, BeginningOfBeginning
  <2>3. SubSeq(SubSeq(A, 1, f), 1, f) = SubSeq(A, 1, f)
    BY <1>3, <2>1, <1>6, BeginningOfBeginning DEF m
  <2>4. QED BY <1>9, <1>12, <2>2, <2>3 DEF Purged
<1>17. Applied' = Purged' /\ Applied = Purged
  BY <1>1 DEF Applied, Purged
<1>18. QED BY <1>1, <1>4, <1>15, <1>16, <1>17

(* Applying puts the next block onto the ledger's chain.                   *)
LEMMA PathsApply ==
  ASSUME MempoolTypes, PathsMeet, ApplyNext
  PROVE  /\ Level + 1 \in 1..Len(Peak) /\ Head(reactor.todo) = Peak[Level + 1]
         /\ Applied = SubSeq(Peak, 1, Level) /\ Purged' = Purged
         /\ PathsMeet' /\ Applied' = SubSeq(Peak, 1, Level + 1)
         /\ ToUndo' = ToUndo /\ reactor'.at = "purge"
<1>1. /\ reactor.at = "apply" /\ reactor.todo # <<>>
      /\ reactor' = [reactor EXCEPT !.at = "purge"]
      /\ UNCHANGED <<tip, removed, entered, entering>>
  BY DEF ApplyNext, chainVars
<1>2. reactor'.at = "purge" /\ reactor'.todo = reactor.todo
  BY <1>1, TurnType DEF Turns
<1>3. Doing = reactor.todo /\ ToUndo' = ToUndo /\ ToDo' = ToDo /\ Doing' = Doing
      /\ reactor'.at \notin Requeueing
  BY <1>1, <1>2 DEF ToUndo, ToDo, Doing, Requeueing
<1>4. ForkAt' = ForkAt /\ Peak' = Peak /\ Level' = Level
  BY <1>1, <1>3 DEF ForkAt, Peak, Level
<1>5. PathsMeet'
  BY <1>1, <1>3, <1>4 DEF PathsMeet
<1>6. Applied = SubSeq(Peak, 1, Level) /\ Purged' = Purged
      /\ Applied' = SubSeq(Peak, 1, Level + 1)
  BY <1>1, <1>2, <1>4 DEF Applied, Purged
<1>7. Level + 1 \in 1..Len(Peak) /\ Head(reactor.todo) = Peak[Level + 1]
  <2>1. Doing # <<>> /\ Len(Doing) \in Nat \ {0} /\ Head(Doing) = Doing[1]
    BY <1>1, <1>3, PathTypes
  <2>2. Level \in 0..Len(Peak) /\ Level = Len(Peak) - Len(Doing) /\ Len(Peak) \in Nat
        /\ \A i \in 1..Len(Doing) : Doing[i] = Peak[Level + i]
    BY PeakIsChain DEF PathsMeet
  <2> DEFINE k == Level
             p == Len(Peak)
             d == Len(Doing)
  <2>3. k \in 0..p /\ p \in Nat /\ k = p - d /\ d \in Nat \ {0}
    BY <2>1, <2>2
  <2> HIDE DEF k, p, d
  <2>4. k + 1 \in 1..p /\ 1 \in 1..d
    BY <2>3
  <2>5. QED BY <1>3, <2>1, <2>2, <2>4 DEF k, p, d
<1>8. QED BY <1>2, <1>3, <1>5, <1>6, <1>7

(* ... and the purge onto the lists'. *)
LEMMA PathsPurge ==
  ASSUME MempoolTypes, PathsMeet, Purge
  PROVE  /\ Level + 1 \in 1..Len(Peak) /\ Head(reactor.todo) = Peak[Level + 1]
         /\ Purged = SubSeq(Peak, 1, Level) /\ Purged' = SubSeq(Peak, 1, Level + 1)
         /\ Applied = SubSeq(Peak, 1, Level + 1)
         /\ PathsMeet' /\ Applied' = Applied
         /\ ToUndo' = ToUndo /\ reactor'.at = "apply"
<1> DEFINE d == Doing
           e == Tail(d)
           k == Level
           p == Len(Peak)
<1>1. /\ reactor.at = "purge" /\ reactor.todo # <<>>
      /\ reactor' = [reactor EXCEPT !.at = "apply", !.todo = Tail(@)]
      /\ UNCHANGED <<tip, removed, entered, entering>>
  BY TurnType DEF Purge, chainVars
<1>2. reactor'.at = "apply" /\ reactor'.todo = Tail(reactor.todo)
  BY <1>1, TurnType DEF Turns
<1>3. d = reactor.todo /\ ToUndo' = ToUndo /\ ToDo' = ToDo /\ Doing' = e
      /\ reactor'.at \notin Requeueing
  BY <1>1, <1>2 DEF ToUndo, ToDo, Doing, Requeueing
<1>4. ForkAt' = ForkAt /\ Peak' = Peak /\ Level' = p - Len(e)
  BY <1>1, <1>3 DEF ForkAt, Peak, Level
<1>5. k \in 0..p /\ p \in Nat /\ k = p - Len(d) /\ d # <<>> /\ d \in Seq(Block)
      /\ Len(d) \in Nat \ {0} /\ Head(d) = d[1]
      /\ \A i \in 1..Len(d) : d[i] = Peak[k + i]
  BY <1>1, <1>3, PeakIsChain, PathTypes DEF PathsMeet
<1>6. Purged = SubSeq(Peak, 1, k) /\ Applied = SubSeq(Peak, 1, k + 1)
  BY <1>1 DEF Applied, Purged
<1>7. Purged' = SubSeq(Peak, 1, Level') /\ Applied' = SubSeq(Peak, 1, Level')
  BY <1>2, <1>4 DEF Applied, Purged
<1> HIDE DEF d, k, p
<1>8. e \in Seq(Block) /\ Len(e) = Len(d) - 1 /\ \A i \in 1..Len(e) : e[i] = d[i + 1]
  BY <1>5, HeadTailProperties
<1> HIDE DEF e
<1>9. Level' = k + 1 /\ k + 1 \in 1..p /\ k + 1 \in 0..p /\ 1 \in 1..Len(d)
  BY <1>4, <1>5, <1>8
<1>10. Head(d) = Peak[k + 1]
  BY <1>5, <1>9
<1>11. ASSUME NEW i \in 1..Len(e) PROVE e[i] = Peak[(k + 1) + i]
  <2>1. i + 1 \in 1..Len(d) /\ k + (i + 1) = (k + 1) + i
    BY <1>5, <1>8
  <2>2. QED BY <1>5, <1>8, <2>1
<1>12. PathsMeet'
  <2>1. Level' \in 0..Len(Peak')
    BY <1>4, <1>9 DEF p
  <2>2. \A i \in 1..Len(Doing') : Doing'[i] = Peak'[Level' + i]
    BY <1>3, <1>4, <1>9, <1>11
  <2>3. QED BY <1>1, <1>3, <1>4, <2>1, <2>2 DEF PathsMeet
<1>13. QED BY <1>2, <1>3, <1>6, <1>7, <1>9, <1>10, <1>12 DEF d, k, p

(* What the reactor plans, on the chain that it applies: the block above   *)
(* what is applied, and what the chain confirms in a beginning of it.      *)
LEMMA PeakReplays ==
  ASSUME BlocksApply, MempoolTypes, PathsMeet
  PROVE  /\ \A k \in 1..Len(Peak) :
              /\ Applies(Rebuild(SubSeq(Peak, 1, k - 1)), Peak[k])
              /\ Rebuild(SubSeq(Peak, 1, k)) =
                   ApplyBlock(Rebuild(SubSeq(Peak, 1, k - 1)), Peak[k])
         /\ \A k \in 0..Len(Peak), t \in TxId :
              t \in ConfirmedIn(SubSeq(Peak, 1, k))
                => TxNonce[t] < Rebuild(SubSeq(Peak, 1, k)).nonce[TxFrom[t]]
         /\ \A k \in 0..Len(Peak) : ConfirmedIn(SubSeq(Peak, 1, k)) \subseteq TxId
<1>1. PICK c \in Block :
        /\ Len(Peak) \in 0..Len(Lineage[c])
        /\ \A k \in 0..Len(Peak) : SubSeq(Peak, 1, k) = SubSeq(Lineage[c], 1, k)
        /\ \A k \in 1..Len(Peak) : Peak[k] = Lineage[c][k]
  BY PeakIsChain
<1> DEFINE p == Len(Peak)
           m == Len(Lineage[c])
<1>2. p \in Nat /\ m \in Nat /\ p \in 0..m
  BY <1>1, PeakIsChain, LineageEnds
<1> HIDE DEF p, m
<1>3. \A k \in 1..p : k \in 1..m /\ k \in 0..p /\ k - 1 \in 0..p
  BY <1>2
<1>4. \A k \in 0..p : k \in 0..m
  BY <1>2
<1>5. \A k \in 1..m : /\ Applies(Rebuild(SubSeq(Lineage[c], 1, k - 1)), Lineage[c][k])
                      /\ Rebuild(SubSeq(Lineage[c], 1, k)) =
                           ApplyBlock(Rebuild(SubSeq(Lineage[c], 1, k - 1)), Lineage[c][k])
  BY LineageReplays DEF m
<1>6. \A k \in 0..m : \A t \in ConfirmedIn(SubSeq(Lineage[c], 1, k)) :
        t \in TxId /\ TxNonce[t] < Rebuild(SubSeq(Lineage[c], 1, k)).nonce[TxFrom[t]]
  BY ConfirmedNonces DEF m
<1>7. \A k \in 1..p :
        /\ Applies(Rebuild(SubSeq(Peak, 1, k - 1)), Peak[k])
        /\ Rebuild(SubSeq(Peak, 1, k)) = ApplyBlock(Rebuild(SubSeq(Peak, 1, k - 1)), Peak[k])
  <2>1. ASSUME NEW k \in 1..p
        PROVE  /\ Applies(Rebuild(SubSeq(Peak, 1, k - 1)), Peak[k])
               /\ Rebuild(SubSeq(Peak, 1, k)) =
                    ApplyBlock(Rebuild(SubSeq(Peak, 1, k - 1)), Peak[k])
    <3>1. SubSeq(Peak, 1, k) = SubSeq(Lineage[c], 1, k) /\ Peak[k] = Lineage[c][k]
          /\ SubSeq(Peak, 1, k - 1) = SubSeq(Lineage[c], 1, k - 1)
      BY <1>1, <1>3 DEF p
    <3>2. QED BY <1>3, <1>5, <3>1
  <2>2. QED BY <2>1
<1>8. \A k \in 0..p : SubSeq(Peak, 1, k) = SubSeq(Lineage[c], 1, k)
  BY <1>1 DEF p
<1>9. QED BY <1>4, <1>6, <1>7, <1>8 DEF p

(* A transaction that is purged has a nonce below the ledger's. *)
LEMMA ConfirmedIsPast ==
  ASSUME BlocksApply, MempoolTypes, PathsMeet, LedgerIsApplied,
         NEW t \in ConfirmedIn(Purged)
  PROVE  t \in TxId /\ TxNonce[t] < state.nonce[TxFrom[t]]
<1> DEFINE p == Len(Peak)
           k == Level
           a == IF reactor.at = "purge" THEN k + 1 ELSE k
<1>1. /\ k \in 0..p /\ p \in Nat /\ k = p - Len(Doing) /\ Peak \in Seq(Block)
      /\ reactor.at = "purge" => Len(Doing) \in Nat \ {0}
  BY PeakIsChain, PathTypes
<1>2. a \in 0..p /\ (a = k \/ (a = k + 1 /\ a \in 1..p))
  <2> DEFINE d == Len(Doing)
  <2> HIDE DEF d, p, k
  <2>1. QED BY <1>1 DEF d
<1>3. Purged = SubSeq(Peak, 1, k) /\ Applied = SubSeq(Peak, 1, a) /\ state = Rebuild(Applied)
  BY DEF Purged, Applied, LedgerIsApplied
<1> HIDE DEF a, k
<1>4. t \in ConfirmedIn(SubSeq(Peak, 1, a))
  <2>1. CASE a = k
    BY <1>3, <2>1
  <2>2. CASE a = k + 1 /\ a \in 1..p
    <3>1. a - 1 = k
      BY <1>1, <2>2
    <3>2. ConfirmedIn(SubSeq(Peak, 1, a)) =
            ConfirmedIn(SubSeq(Peak, 1, a - 1)) \cup Range(Txs[Peak[a]])
      BY <1>1, <2>2, ConfirmedBeginning
    <3>3. QED BY <1>3, <3>1, <3>2
  <2>3. QED BY <1>2, <2>1, <2>2
<1>5. t \in TxId
  BY <1>2, <1>4, PeakReplays
<1>6. QED BY <1>2, <1>3, <1>4, <1>5, PeakReplays

(* The ledger, one block back. *)
LEMMA LedgerRollBack ==
  ASSUME BlocksApply, MempoolTypes, PathsMeet, LedgerIsApplied, RollBack
  PROVE  LedgerIsApplied'
<1> DEFINE b == Head(reactor.todo)
           L == Lineage[b]
           l == Rebuild(Front(L))
<1>1. b \in Block /\ state' = RollbackBlock(state, b) /\ Applied = L /\ Applied' = Front(L)
  BY PathsRollBack
<1>2. L \in Seq(Block) /\ Len(L) \in Nat \ {0} /\ L[Len(L)] = b
  BY <1>1, LineageEnds
<1>3. Len(L) \in 1..Len(L) /\ Len(L) - 1 \in 0..Len(L)
  BY <1>2
<1>4. /\ Applies(Rebuild(SubSeq(L, 1, Len(L) - 1)), L[Len(L)])
      /\ Rebuild(SubSeq(L, 1, Len(L))) =
           ApplyBlock(Rebuild(SubSeq(L, 1, Len(L) - 1)), L[Len(L)])
  BY <1>1, <1>3, LineageReplays
<1> HIDE DEF L, b
<1>5. SubSeq(L, 1, Len(L)) = L /\ Front(L) = SubSeq(L, 1, Len(L) - 1)
  BY <1>2, SubSeqFull DEF Front
<1>6. Applies(l, b) /\ Rebuild(L) = ApplyBlock(l, b)
  BY <1>2, <1>4, <1>5
<1>7. l \in LedgerState
  <2>1. SubSeq(L, 1, Len(L) - 1) \in Seq(Block)
    BY <1>2, <1>3, CutList
  <2>2. QED BY <1>5, <2>1, RebuildType
<1>8. RollbackBlock(ApplyBlock(l, b), b) = l
  BY <1>1, <1>6, <1>7, RollbackUndoesApply DEF UndoesItself
<1>9. state = Rebuild(L)
  BY <1>1 DEF LedgerIsApplied
<1>10. QED BY <1>1, <1>6, <1>8, <1>9 DEF LedgerIsApplied

(* ... and one block on: no payer of a block seems to lack what he mined.  *)
LEMMA LedgerApply ==
  ASSUME BlocksApply, NoMinerPays, MempoolTypes, PathsMeet, LedgerIsApplied, ApplyNext
  PROVE  LedgerIsApplied'
<1> DEFINE k == Level + 1
           b == Head(reactor.todo)
<1>1. k \in 1..Len(Peak) /\ b = Peak[k]
      /\ Applied = SubSeq(Peak, 1, Level) /\ Applied' = SubSeq(Peak, 1, k)
  BY PathsApply
<1>2. b \in Block
  BY TurnType DEF ApplyNext
<1>3. \A r \in Grown : \E c \in Block : r \in GrownBy(c)
  BY DEF Grown
<1>4. ~SeemsShort(state, Txs[b], Grown)
  <2> HIDE DEF b
  <2>1. QED BY <1>2, <1>3, NobodySeemsShort
<1>5. state' = ApplyBlock(state, b)
  <2>1. PICK short \in BOOLEAN : /\ short => SeemsShort(state, Txs[b], Grown)
                                 /\ state' = IF short THEN state ELSE ApplyBlock(state, b)
    BY DEF ApplyNext
  <2>2. QED BY <1>4, <2>1
<1>6. k - 1 = Level
  BY PeakIsChain
<1> HIDE DEF k, b
<1>7. Rebuild(SubSeq(Peak, 1, k)) = ApplyBlock(Rebuild(SubSeq(Peak, 1, k - 1)), Peak[k])
  BY <1>1, PeakReplays
<1>8. QED BY <1>1, <1>5, <1>6, <1>7 DEF LedgerIsApplied

(* The paths meet and the ledger is that of the chain it has applied, in   *)
(* every step.                                                             *)
LEMMA LedgerStep ==
  ASSUME BlocksApply, NoMinerPays, MempoolTypes, PathsMeet, LedgerIsApplied,
         [MempoolNext]_mempoolVars, ~tangled'
  PROVE  PathsMeet' /\ LedgerIsApplied'
<1>1. ASSUME PathsMeet', Applied' = Applied, state' = state PROVE PathsMeet' /\ LedgerIsApplied'
  BY <1>1 DEF LedgerIsApplied
<1>2. CASE UNCHANGED mempoolVars
  BY <1>1, <1>2, PathsStay DEF mempoolVars
<1>3. CASE \E o \in Submission : Submit(o) \/ Put(o)
  BY <1>1, <1>3, PathsStay DEF Submit, Put
<1>4. CASE Worker
  BY <1>1, <1>4, PathsStay DEF Worker, Take, CopyOk, Decide, Record
<1>5. CASE Forget \/ Readd \/ Reput \/ RequeueDone
  BY <1>1, <1>5, PathsStay DEF Forget, Readd, Reput, RequeueDone
<1>6. CASE Validator \/ DrainRemoved
  <2>1. state' = state
    BY <1>6 DEF Validator, AcceptEnd, Publish, DrainRemoved
  <2>2. QED BY <1>1, <1>6, <2>1, PathsStay
<1>7. CASE DrainEntered
  <2>1. state' = state
    BY <1>7 DEF DrainEntered
  <2>2. QED BY <1>1, <1>7, <2>1, PathsDrain
<1>8. CASE RollBack
  BY <1>8, PathsRollBack, LedgerRollBack
<1>9. CASE ApplyNext
  BY <1>9, PathsApply, LedgerApply
<1>10. CASE Purge
  <2>1. state' = state
    BY <1>10 DEF Purge
  <2>2. QED BY <1>1, <1>10, <2>1, PathsPurge
<1>11. CASE \E b \in Block : Reorganise(b)
  BY <1>1, <1>11, PathsReorganise
<1>12. putting \subseteq Submission
  BY DEF MempoolTypes
<1>13. QED BY <1>2, <1>3, <1>4, <1>5, <1>6, <1>7, <1>8, <1>9, <1>10, <1>11, <1>12
       DEF MempoolNext, Reactor
-----------------------------------------------------------------------------
(* The elements of a list, of its end, and of it with one more.            *)
LEMMA ItemsOf ==
  ASSUME NEW S, NEW list \in Seq(S)
  PROVE  /\ Items(list) \subseteq S /\ Items(list) = Range(list)
         /\ \A o \in S : Items(Append(list, o)) = Items(list) \cup {o}
         /\ list # <<>> => /\ Items(Tail(list)) \subseteq Items(list)
                           /\ Head(list) \in Items(list) /\ Tail(list) \in Seq(S)
<1>1. Len(list) \in Nat /\ \A i \in 1..Len(list) : list[i] \in S
  BY LenProperties, ElementOfSeq
<1>2. Items(list) = Range(list)
  BY RangeEquality DEF Items
<1>3. ASSUME NEW o \in S PROVE Items(Append(list, o)) = Items(list) \cup {o}
  <2> DEFINE r == Append(list, o)
  <2>1. r \in Seq(S) /\ Range(r) = Range(list) \cup {o}
    BY AppendProperties, RangeAppend
  <2> HIDE DEF r
  <2>2. Items(r) = Range(r)
    BY <2>1, RangeEquality DEF Items
  <2>3. QED BY <1>2, <2>1, <2>2 DEF r
<1>4. ASSUME list # <<>>
      PROVE  Items(Tail(list)) \subseteq Items(list) /\ Head(list) \in Items(list)
             /\ Tail(list) \in Seq(S)
  <2>1. Tail(list) \in Seq(S) /\ Range(list) = {Head(list)} \cup Range(Tail(list))
    BY <1>4, HeadTailProperties, RangeHeadTail
  <2>2. Items(Tail(list)) = Range(Tail(list))
    BY <2>1, RangeEquality DEF Items
  <2>3. QED BY <1>2, <2>1, <2>2
<1>5. QED BY <1>1, <1>2, <1>3, <1>4 DEF Items

(* The elements of a list that was appended to and trimmed. *)
LEMMA AppendTrimItems ==
  ASSUME NEW S, NEW list \in Seq(S), NEW o \in S
  PROVE  Items(Trim(Append(list, o))) \subseteq Items(list) \cup {o}
<1>1. \A i \in 1..Len(Trim(Append(list, o))) :
        \/ Trim(Append(list, o))[i] = o
        \/ \E j \in 1..Len(list) : Trim(Append(list, o))[i] = list[j]
  BY AppendTrimKeeps
<1>2. QED BY <1>1 DEF Items

(* What a step of a requeue does with the list of the block's items.       *)
LEMMA RequeueEffect ==
  ASSUME MempoolTypes, Forget \/ Readd \/ Reput \/ RequeueDone
  PROVE  /\ reactor.at \in {"requeue", "readd", "reput"}
         /\ Items(reactor'.requeue) \subseteq Items(reactor.requeue)
         /\ reactor.requeue # <<>> => Head(reactor.requeue) \in Items(reactor.requeue) \cap Object
         /\ UNCHANGED <<submitted, ok, putting, worker, reorged, tangled>>
<1>1. reactor.at \in {"requeue", "readd", "reput"}
      /\ UNCHANGED <<submitted, ok, putting, worker, reorged, tangled>>
  BY DEF Forget, Readd, Reput, RequeueDone, lists, chainVars
<1>2. reactor \in Turns /\ reactor.requeue \in Seq(Object)
      /\ (reactor.at \in {"readd", "reput"} => reactor.requeue # <<>>)
  BY <1>1, TurnType
<1> DEFINE q == reactor.requeue
<1>3. reactor'.requeue = q \/ (q # <<>> /\ reactor'.requeue = Tail(q))
  BY <1>2 DEF Forget, Readd, Reput, RequeueDone, Turns
<1>4. q \in Seq(Object)
  BY <1>2
<1> HIDE DEF q
<1>5. q # <<>> => /\ Items(Tail(q)) \subseteq Items(q)
                  /\ Head(q) \in Items(q) /\ Items(q) \subseteq Object
  BY <1>4, ItemsOf
<1>6. QED BY <1>1, <1>3, <1>5 DEF q

(* The items that a block is requeued as. *)
LEMMA RequeuedItems ==
  ASSUME NEW b \in Block,
         NEW o \in Items([i \in DOMAIN Txs[b] |-> [tx |-> Txs[b][i], from |-> b]])
  PROVE  o.from = b /\ o.tx \in Range(Txs[b])
<1> DEFINE n == Len(Txs[b])
           q == [i \in 1..n |-> [tx |-> Txs[b][i], from |-> b]]
<1>1. Txs[b] \in Seq(TxId) /\ DOMAIN Txs[b] = 1..n /\ n \in Nat
  BY BlockAssumption, LenProperties
<1>2. o \in Items(q)
  BY <1>1
<1>3. q \in Seq([tx : {Txs[b][i] : i \in 1..n}, from : {b}]) /\ Len(q) = n
  BY <1>1
<1>4. PICK i \in 1..n : o = q[i]
  <2> HIDE DEF q
  <2>1. QED BY <1>2, <1>3 DEF Items
<1>5. o = [tx |-> Txs[b][i], from |-> b]
  BY <1>4
<1>6. Range(Txs[b]) = {Txs[b][k] : k \in 1..n}
  BY <1>1, RangeEquality
<1>7. QED BY <1>5, <1>6

(* A source submits an object once, in every step.                         *)
LEMMA SubmittedStep ==
  ASSUME MempoolTypes, SubmittedOnce, [MempoolNext]_mempoolVars
  PROVE  SubmittedOnce'
<1>1. queue \in Seq(Object) /\ putting \subseteq Submission
      /\ \A o \in Submission : o \in Object
  BY SubmissionIsObject DEF MempoolTypes
<1>2. /\ \A o \in Flying : o.from \in Source => o \in submitted
      /\ \A o \in Items(reactor.requeue) : o.from \in Block
  BY DEF SubmittedOnce
<1>3. ASSUME Flying' \subseteq Flying, submitted' = submitted, UNCHANGED reactor
      PROVE  SubmittedOnce'
  BY <1>2, <1>3 DEF SubmittedOnce
<1>4. CASE UNCHANGED mempoolVars
  BY <1>3, <1>4 DEF mempoolVars, Flying
<1>5. ASSUME NEW o \in Submission, Submit(o) PROVE SubmittedOnce'
  <2>1. Flying' \subseteq Flying \cup {o} /\ submitted' = submitted \cup {o} /\ reactor' = reactor
    BY <1>5 DEF Submit, Flying
  <2>2. QED BY <1>2, <2>1 DEF SubmittedOnce
<1>6. ASSUME NEW o \in putting, Put(o) PROVE SubmittedOnce'
  <2>1. queue' = queue \/ queue' = Append(queue, o)
    BY <1>6 DEF Put, Enqueue
  <2>2. Items(Append(queue, o)) = Items(queue) \cup {o}
    BY <1>1, ItemsOf
  <2>3. Flying' \subseteq Flying
    BY <1>6, <2>1, <2>2 DEF Put, Flying
  <2>4. QED BY <1>3, <1>6, <2>3 DEF Put
<1>7. CASE Worker
  <2>1. CASE Take
    <3>1. queue # <<>> /\ worker = Free /\ worker' = [at |-> "taken", obj |-> Head(queue)]
          /\ queue' = Tail(queue) /\ UNCHANGED <<submitted, putting, reactor>>
      BY <2>1 DEF Take
    <3>2. Items(Tail(queue)) \subseteq Items(queue) /\ Head(queue) \in Items(queue)
      BY <1>1, <3>1, ItemsOf
    <3>3. worker'.obj = Head(queue) /\ Items(queue') \subseteq Items(queue)
      BY <3>1, <3>2
    <3>4. Flying' \subseteq Flying
      BY <3>1, <3>2, <3>3 DEF Flying
    <3>5. QED BY <1>3, <3>1, <3>4
  <2>2. CASE CopyOk \/ Decide
    <3>1. worker # Free /\ worker'.obj = worker.obj
          /\ UNCHANGED <<submitted, putting, queue, reactor>>
      BY <2>2 DEF CopyOk, Decide, Free
    <3>2. Flying' \subseteq Flying
      BY <3>1 DEF Flying
    <3>3. QED BY <1>3, <3>1, <3>2
  <2>3. CASE Record
    <3>1. worker' = Free /\ UNCHANGED <<submitted, putting, queue, reactor>>
      BY <2>3 DEF Record
    <3>2. Flying' \subseteq Flying
      BY <3>1 DEF Flying
    <3>3. QED BY <1>3, <3>1, <3>2
  <2>4. QED BY <1>7, <2>1, <2>2, <2>3 DEF Worker
<1>8. CASE Forget \/ Readd \/ Reput \/ RequeueDone
  <2>1. /\ Items(reactor'.requeue) \subseteq Items(reactor.requeue)
        /\ reactor.requeue # <<>> => Head(reactor.requeue) \in Items(reactor.requeue) \cap Object
        /\ UNCHANGED <<submitted, putting, worker>>
    BY <1>8, RequeueEffect
  <2>2. queue' = queue \/ (reactor.requeue # <<>> /\ queue' = Append(queue, Head(reactor.requeue)))
    <3>1. reactor.at = "reput" => reactor.requeue # <<>>
      BY <2>1, TurnType
    <3>2. QED BY <1>8, <3>1 DEF Forget, Readd, Reput, RequeueDone, Enqueue, lists
  <2>3. Source \cap Block = {}
    BY MempoolAssumption
  <2>4. \A o \in Items(queue') : o \in Items(queue) \/ o.from \notin Source
    <3>1. CASE queue' = queue
      BY <3>1
    <3>2. CASE reactor.requeue # <<>> /\ queue' = Append(queue, Head(reactor.requeue))
      <4> DEFINE o == Head(reactor.requeue)
      <4>1. o \in Object /\ o.from \in Block
        BY <1>2, <2>1, <3>2
      <4> HIDE DEF o
      <4>2. Items(Append(queue, o)) = Items(queue) \cup {o}
        BY <1>1, <4>1, ItemsOf
      <4>3. QED BY <2>3, <3>2, <4>1, <4>2 DEF o
    <3>3. QED BY <2>2, <3>1, <3>2
  <2>5. \A o \in Flying' : o \in Flying \/ o.from \notin Source
    BY <2>1, <2>4 DEF Flying
  <2>6. QED BY <1>2, <2>1, <2>5 DEF SubmittedOnce
<1>9. CASE RollBack
  <2> DEFINE b == Head(reactor.todo)
             q == [i \in DOMAIN Txs[b] |-> [tx |-> Txs[b][i], from |-> b]]
  <2>1. /\ reactor.todo # <<>>
        /\ reactor' = [at |-> "requeue", todo |-> Tail(reactor.todo), requeue |-> q]
        /\ UNCHANGED <<submitted, queue, putting, worker>>
    BY <1>9 DEF RollBack
  <2>2. reactor \in Turns /\ b \in Block
    <3>1. reactor.todo \in Seq(Block)
      BY <2>1, TurnType
    <3> DEFINE u == reactor.todo
    <3>2. u \in Seq(Block) /\ u # <<>>
      BY <2>1, <3>1
    <3> HIDE DEF u
    <3>3. Head(u) \in Block
      BY <3>2, HeadTailProperties
    <3>4. QED BY <2>1, <3>3, TurnType DEF u
  <2> HIDE DEF b
  <2>3. reactor'.requeue = q
    BY <2>1
  <2>5. \A o \in Items(q) : o.from \in Block
    BY <2>2, RequeuedItems
  <2> HIDE DEF q
  <2>6. Flying' = Flying
    BY <2>1 DEF Flying
  <2>7. QED BY <1>2, <2>1, <2>3, <2>5, <2>6 DEF SubmittedOnce
<1>10. CASE ApplyNext \/ Purge
  <2>1. UNCHANGED <<submitted, queue, putting, worker>>
    BY <1>10 DEF ApplyNext, Purge
  <2>2. reactor'.requeue = reactor.requeue
    BY <1>10, <2>1, TurnType DEF ApplyNext, Purge, Turns
  <2>3. Flying' = Flying
    BY <2>1 DEF Flying
  <2>4. QED BY <1>2, <2>1, <2>2, <2>3 DEF SubmittedOnce
<1>11. CASE Validator \/ \E b \in Block : Reorganise(b)
  <2>1. UNCHANGED <<submitted, queue, putting, worker, reactor>>
    BY <1>11 DEF Validator, AcceptEnd, Publish, Reorganise
  <2>2. Flying' = Flying
    BY <2>1 DEF Flying
  <2>3. QED BY <1>3, <2>1, <2>2
<1>12. CASE DrainRemoved \/ DrainEntered
  <2>1. UNCHANGED <<submitted, queue, putting, worker>> /\ reactor'.requeue = <<>>
    BY <1>12 DEF DrainRemoved, DrainEntered, Turn
  <2>2. Items(reactor'.requeue) = {}
    BY <2>1 DEF Items
  <2>3. Flying' = Flying
    BY <2>1 DEF Flying
  <2>4. QED BY <1>2, <2>1, <2>2, <2>3 DEF SubmittedOnce
<1>13. QED BY <1>4, <1>5, <1>6, <1>7, <1>8, <1>9, <1>10, <1>11, <1>12 DEF MempoolNext, Reactor

(* Nothing that is confirmed is accepted, in every step.                   *)
LEMMA NothingConfirmedStep ==
  ASSUME BlocksApply, MempoolTypes, PathsMeet, LedgerIsApplied, SubmittedOnce,
         NothingConfirmed, [MempoolNext]_mempoolVars, ~tangled'
  PROVE  NothingConfirmed'
<1> DEFINE C == ConfirmedIn(Purged)
           Granted == worker.at = "decided" /\ worker.verdict = "ok"
<1>1. /\ \A o \in Items(ok) : o.tx \notin C
      /\ Granted /\ worker.obj \in Items(pending) => worker.obj.tx \notin C
      /\ reactor.at \in {"requeue", "readd", "reput"} =>
           \A o \in Items(reactor.requeue) : o.tx \notin C
  BY DEF NothingConfirmed
<1>2. /\ pending \in Seq(Object) /\ queue \in Seq(Object) /\ ok \in Seq(Object)
      /\ putting \subseteq Submission /\ \A o \in Submission : o \in Object
  BY SubmissionIsObject DEF MempoolTypes
<1>3. CASE UNCHANGED mempoolVars
  <2>1. Purged' = Purged
    BY <1>3, PathsStay DEF mempoolVars
  <2>2. QED BY <1>3, <2>1 DEF mempoolVars, lists, NothingConfirmed
<1>4. ASSUME NEW o \in Submission, Submit(o) PROVE NothingConfirmed'
  <2>1. /\ o \notin submitted /\ Admit(o)
        /\ UNCHANGED <<ok, worker, reactor, chainVars>>
    BY <1>4 DEF Submit
  <2>2. Purged' = Purged
    BY <2>1, PathsStay
  <2>3. Items(pending') \subseteq Items(pending) \cup {o}
    BY <1>2, <2>1, AdmitEffect
  <2>4. Granted => worker.obj # o
    <3>1. o.from \in Source
      BY SubmissionIsObject
    <3>2. Granted => worker.obj \in Flying
      BY DEF Flying, Free
    <3>3. QED BY <2>1, <3>1, <3>2 DEF SubmittedOnce
  <2>5. QED BY <1>1, <2>1, <2>2, <2>3, <2>4 DEF NothingConfirmed
<1>5. ASSUME NEW o \in putting, Put(o) PROVE NothingConfirmed'
  <2>1. Enqueue(o) /\ UNCHANGED <<ok, worker, reactor, chainVars>>
    BY <1>5 DEF Put
  <2>2. Purged' = Purged
    BY <2>1, PathsStay
  <2>3. Items(pending') \subseteq Items(pending)
    BY <1>2, <2>1, EnqueueEffect
  <2>4. QED BY <1>1, <2>1, <2>2, <2>3 DEF NothingConfirmed
<1>6. CASE Worker
  <2>1. Purged' = Purged /\ reactor' = reactor
    BY <1>6, PathsStay DEF Worker, Take, CopyOk, Decide, Record
  <2>2. CASE Take \/ CopyOk
    <3>1. worker'.at = "decided" => worker'.verdict # "ok"
      BY <2>2 DEF Take, CopyOk
    <3>2. ok' = ok
      BY <2>2 DEF Take, CopyOk, lists
    <3>3. QED BY <1>1, <2>1, <3>1, <3>2 DEF NothingConfirmed
  <2>3. CASE Decide
    <3> DEFINE t == worker.obj.tx
               l == ProjectTxs(state, worker.accepted)
    <3>1. /\ worker.at = "copied" /\ worker'.obj = worker.obj
          /\ worker'.verdict = "ok" => FitsTx(l, t)
          /\ UNCHANGED <<pending, ok>>
      BY <2>3 DEF Decide, lists
    <3>2. worker.accepted \in Seq(TxId) /\ state \in LedgerState
      BY <3>1 DEF MempoolTypes, WorkerType, Free
    <3>3. ASSUME FitsTx(l, t), t \in C PROVE FALSE
      <4>1. t \in TxId /\ TxNonce[t] < state.nonce[TxFrom[t]]
        BY <3>3, ConfirmedIsPast
      <4>2. TxFrom[t] \in Account /\ TxNonce[t] \in Nat
        BY <4>1, LedgerAssumption
      <4>3. l \in LedgerState /\ state.nonce[TxFrom[t]] <= l.nonce[TxFrom[t]]
        BY <3>2, <4>2, ProjectNonces
      <4>4. TxNonce[t] = l.nonce[TxFrom[t]]
        BY <3>3 DEF FitsTx, ValidTx
      <4>5. state.nonce[TxFrom[t]] \in Nat /\ l.nonce[TxFrom[t]] \in Nat
        BY <3>2, <4>2, <4>3 DEF LedgerState
      <4> HIDE DEF t, l
      <4>6. QED BY <4>1, <4>2, <4>3, <4>4, <4>5
    <3>4. QED BY <1>1, <2>1, <3>1, <3>3 DEF NothingConfirmed
  <2>4. CASE Record
    <3>1. /\ worker' = Free
          /\ \/ ok' = ok
             \/ /\ worker.obj \in Items(pending) /\ worker.verdict = "ok"
                /\ worker.at = "decided" /\ worker.obj \in Object
                /\ ok' = Trim(Append(ok, worker.obj))
      BY <2>4, RecordEffect
    <3>2. worker'.at # "decided"
      BY <3>1 DEF Free
    <3>3. CASE ok' = ok
      BY <1>1, <2>1, <3>2, <3>3 DEF NothingConfirmed
    <3>4. CASE /\ worker.obj \in Items(pending) /\ worker.verdict = "ok"
               /\ worker.at = "decided" /\ worker.obj \in Object
               /\ ok' = Trim(Append(ok, worker.obj))
      <4> DEFINE o == worker.obj
      <4>1. o \in Object
        BY <3>4
      <4>2. Items(Trim(Append(ok, o))) \subseteq Items(ok) \cup {o}
        <5> HIDE DEF o
        <5>1. QED BY <1>2, <4>1, AppendTrimItems
      <4>3. Items(ok') \subseteq Items(ok) \cup {o}
        BY <3>4, <4>2
      <4>4. QED BY <1>1, <2>1, <3>2, <3>4, <4>3 DEF NothingConfirmed
    <3>5. QED BY <3>1, <3>3, <3>4
  <2>5. QED BY <1>6, <2>2, <2>3, <2>4 DEF Worker
<1>7. CASE Forget \/ Readd \/ Reput \/ RequeueDone
  <2>1. /\ reactor.at \in {"requeue", "readd", "reput"}
        /\ Items(reactor'.requeue) \subseteq Items(reactor.requeue)
        /\ reactor.requeue # <<>> => Head(reactor.requeue) \in Items(reactor.requeue) \cap Object
        /\ UNCHANGED <<ok, worker>>
    BY <1>7, RequeueEffect
  <2>2. Purged' = Purged
    BY <1>7, PathsStay
  <2>3. \A o \in Items(pending') : o \in Items(pending) \/ o \in Items(reactor.requeue)
    <3> DEFINE h == Head(reactor.requeue)
    <3>1. reactor.at \in {"readd", "reput"} => reactor.requeue # <<>>
      BY <2>1, TurnType
    <3>2. CASE Forget \/ RequeueDone
      <4>1. pending' = pending
        BY <3>2 DEF Forget, RequeueDone, lists
      <4>2. QED BY <4>1
    <3>3. CASE Readd
      <4>1. Admit(h) /\ h \in Object /\ h \in Items(reactor.requeue)
        BY <2>1, <3>1, <3>3 DEF Readd
      <4> HIDE DEF h
      <4>2. Items(pending') \subseteq Items(pending) \cup {h}
        BY <4>1, AdmitEffect
      <4>3. QED BY <4>1, <4>2
    <3>4. CASE Reput
      <4>1. Enqueue(h) /\ h \in Object
        BY <2>1, <3>1, <3>4 DEF Reput
      <4> HIDE DEF h
      <4>2. Items(pending') \subseteq Items(pending)
        BY <4>1, EnqueueEffect
      <4>3. QED BY <4>2
    <3>5. QED BY <1>7, <3>2, <3>3, <3>4
  <2>4. \A o \in Items(reactor.requeue) : o.tx \notin C
    BY <1>1, <2>1
  <2>5. QED BY <1>1, <2>1, <2>2, <2>3, <2>4 DEF NothingConfirmed
<1>8. CASE RollBack
  <2> DEFINE b == Head(reactor.todo)
             L == Lineage[b]
             q == [i \in DOMAIN Txs[b] |-> [tx |-> Txs[b][i], from |-> b]]
  <2>1. /\ b \in Block /\ Purged = L /\ Purged' = Front(L)
        /\ reactor' = [at |-> "requeue", todo |-> Tail(reactor.todo), requeue |-> q]
    BY <1>8, PathsRollBack
  <2>2. UNCHANGED <<pending, ok, worker>>
    BY <1>8 DEF RollBack, lists
  <2>3. reactor'.requeue = q
    BY <2>1
  <2>4. L \in Seq(Block) /\ Len(L) \in 1..Len(L) /\ L[Len(L)] = b
    BY <2>1, LineageEnds
  <2>5. Front(L) = SubSeq(L, 1, Len(L) - 1) /\ SubSeq(L, 1, Len(L)) = L
    <3>1. L \in Seq(Block)
      BY <2>4
    <3> HIDE DEF L
    <3>2. QED BY <3>1, SubSeqFull DEF Front
  <2>6. \A t \in Range(Txs[b]) : t \notin ConfirmedIn(Front(L))
    <3>1. \A t \in Range(Txs[L[Len(L)]]) : t \notin ConfirmedIn(SubSeq(L, 1, Len(L) - 1))
      BY <2>1, <2>4, NothingTwice
    <3>2. QED BY <2>4, <2>5, <3>1
  <2>7. ConfirmedIn(Front(L)) \subseteq ConfirmedIn(L)
    <3>1. L \in Seq(Block) /\ Len(L) \in 1..Len(L)
      BY <2>4
    <3> HIDE DEF L
    <3>2. ConfirmedIn(SubSeq(L, 1, Len(L))) =
            ConfirmedIn(SubSeq(L, 1, Len(L) - 1)) \cup Range(Txs[L[Len(L)]])
      BY <3>1, ConfirmedBeginning
    <3>3. QED BY <2>5, <3>2
  <2>8. \A o \in Items(q) : o.tx \in Range(Txs[b])
    BY <2>1, RequeuedItems
  <2> HIDE DEF q, L, b
  <2>9. QED BY <1>1, <2>1, <2>2, <2>3, <2>6, <2>7, <2>8 DEF NothingConfirmed
<1>9. CASE ApplyNext
  <2>1. Purged' = Purged /\ reactor'.at = "purge"
    BY <1>9, PathsApply
  <2>2. UNCHANGED <<pending, ok, worker>>
    BY <1>9 DEF ApplyNext, lists
  <2>3. QED BY <1>1, <2>1, <2>2 DEF NothingConfirmed
<1>10. CASE Purge
  <2> DEFINE txs == Range(Txs[Head(reactor.todo)])
             k == Level + 1
  <2>1. /\ k \in 1..Len(Peak) /\ Head(reactor.todo) = Peak[k]
        /\ Purged = SubSeq(Peak, 1, Level) /\ Purged' = SubSeq(Peak, 1, k)
        /\ reactor'.at = "apply"
    BY <1>10, PathsPurge
  <2>2. ConfirmedIn(Purged') = C \cup txs
    <3>1. Peak \in Seq(Block) /\ k - 1 = Level
      BY PeakIsChain
    <3> HIDE DEF k
    <3>2. ConfirmedIn(SubSeq(Peak, 1, k)) =
            ConfirmedIn(SubSeq(Peak, 1, k - 1)) \cup Range(Txs[Peak[k]])
      BY <2>1, <3>1, ConfirmedBeginning
    <3>3. QED BY <2>1, <3>1, <3>2
  <2>3. /\ Items(pending') \subseteq Items(pending)
        /\ \A o \in Items(pending') : o.tx \notin txs
        /\ \A i \in 1..Len(ok') : ok'[i].tx \notin txs /\ \E j \in 1..Len(ok) : ok'[i] = ok[j]
    BY <1>10, PurgeEffect
  <2>4. worker' = worker
    BY <1>10 DEF Purge
  <2> HIDE DEF txs
  <2>5. \A o \in Items(ok') : o.tx \notin txs /\ o \in Items(ok)
    BY <2>3 DEF Items
  <2>6. QED BY <1>1, <2>1, <2>2, <2>3, <2>4, <2>5 DEF NothingConfirmed
<1>11. CASE Validator \/ DrainRemoved \/ DrainEntered
  <2>1. Purged' = Purged
    BY <1>11, PathsStay, PathsDrain
  <2>2. UNCHANGED <<pending, ok, worker>>
    BY <1>11 DEF Validator, AcceptEnd, Publish, DrainRemoved, DrainEntered, lists
  <2>3. reactor'.at \notin {"requeue", "readd", "reput"} \/ reactor' = reactor
    BY <1>11 DEF Validator, AcceptEnd, Publish, DrainRemoved, DrainEntered, Turn
  <2>4. QED BY <1>1, <2>1, <2>2, <2>3 DEF NothingConfirmed
<1>12. ASSUME NEW b \in Block, Reorganise(b) PROVE NothingConfirmed'
  <2>1. Purged' = Purged /\ UNCHANGED <<lists, worker, reactor>>
    BY <1>12, PathsReorganise
  <2>2. QED BY <1>1, <2>1 DEF NothingConfirmed, lists
<1>13. QED BY <1>3, <1>4, <1>5, <1>6, <1>7, <1>8, <1>9, <1>10, <1>11, <1>12
          DEF MempoolNext, Reactor

(* What the next lemmas are about: a chain that only grew. *)
Calm == /\ MempoolTypes /\ PathsMeet /\ LedgerIsApplied /\ SubmittedOnce /\ NothingConfirmed
        /\ GrowsCalmly /\ AcceptedOnce /\ ~reorged

(* ... with the types that are used of it. *)
LEMMA CalmTypes ==
  ASSUME Calm
  PROVE  /\ seen \in [TxId -> {"none", "pending", "ok", "invalid"}]
         /\ queue \in Seq(Object) /\ Len(queue) \in Nat /\ ok \in Seq(Object) /\ Len(ok) \in Nat
         /\ \A i \in 1..Len(ok) : ok[i] \in Object /\ ok[i].tx \in TxId
                                  /\ ok[i].tx \notin ConfirmedIn(Purged)
         /\ \A i \in 1..Len(queue) : queue[i] \in Items(queue) /\ queue[i].tx \in TxId
         /\ putting \subseteq Submission /\ \A o \in putting : o.tx \in TxId
         /\ worker # Free => worker.obj \in Object /\ worker.obj.tx \in TxId
<1>1. /\ seen \in [TxId -> {"none", "pending", "ok", "invalid"}]
      /\ queue \in Seq(Object) /\ ok \in Seq(Object) /\ putting \subseteq Submission
      /\ worker # Free => worker.obj \in Object
  BY DEF Calm, MempoolTypes, WorkerType
<1>2. /\ Len(queue) \in Nat /\ Len(ok) \in Nat
      /\ (\A i \in 1..Len(ok) : ok[i] \in Object)
      /\ \A i \in 1..Len(queue) : queue[i] \in Object
  BY <1>1, LenProperties, ElementOfSeq
<1>3. \A i \in 1..Len(ok) : ok[i] \in Items(ok)
  BY DEF Items
<1>4. \A i \in 1..Len(queue) : queue[i] \in Items(queue)
  BY DEF Items
<1>5. \A o \in Items(ok) : o.tx \notin ConfirmedIn(Purged)
  BY DEF Calm, NothingConfirmed
<1>6. QED BY <1>1, <1>2, <1>3, <1>4, <1>5, SubmissionIsObject

(* A new submission is of a transaction that is nowhere. *)
LEMMA CalmSubmit ==
  ASSUME Calm, NEW o \in Submission, Submit(o)
  PROVE  GrowsCalmly' /\ AcceptedOnce'
<1> DEFINE C == ConfirmedIn(Purged)
<1>1. /\ ToUndo = <<>> /\ reactor.at \in {"undo", "apply", "purge"}
      /\ \A t \in TxId \ C : OnlyOnce(t)
      /\ (\A i \in 1..Len(ok) : seen[ok[i].tx] = "ok") /\ DistinctTxs(ok)
  BY DEF Calm, GrowsCalmly, AcceptedOnce
<1>2. /\ Admit(o) /\ putting' = IF Unseen(o.tx) THEN putting \cup {o} ELSE putting
      /\ UNCHANGED <<ok, queue, worker, reactor, chainVars>>
  BY DEF Submit
<1>3. o \in Object /\ o.tx \in TxId
  BY SubmissionIsObject
<1>4. /\ seen' \in [TxId -> {"none", "pending", "ok", "invalid"}]
      /\ ~Unseen(o.tx) => seen' = seen
      /\ Unseen(o.tx) => seen' = [seen EXCEPT ![o.tx] = "pending"]
  BY <1>2, <1>3, AdmitEffect DEF Calm
<1>5. Purged' = Purged /\ ToUndo' = ToUndo
  BY <1>2, PathsStay DEF Calm
<1>6. CASE ~Unseen(o.tx)
  <2>1. putting' = putting /\ seen' = seen
    BY <1>2, <1>4, <1>6
  <2>2. \A t \in TxId \ C : OnlyOnce(t)'
    BY <1>1, <1>2, <2>1 DEF OnlyOnce, Flying
  <2>3. QED BY <1>1, <1>2, <1>5, <2>1, <2>2 DEF GrowsCalmly, AcceptedOnce
<1>7. CASE Unseen(o.tx)
  <2>1. putting' = putting \cup {o} /\ seen' = [seen EXCEPT ![o.tx] = "pending"]
        /\ seen[o.tx] = "none"
    BY <1>2, <1>4, <1>7 DEF Unseen
  <2>2. \A t \in TxId : seen'[t] = IF t = o.tx THEN "pending" ELSE seen[t]
    BY <1>3, <2>1, CalmTypes
  <2>3. \A i \in 1..Len(ok) : ok[i].tx # o.tx
    BY <1>1, <2>1
  <2>4. ASSUME NEW t \in TxId \ C PROVE OnlyOnce(t)'
    <3>1. OnlyOnce(t)
      BY <1>1
    <3>2. Flying' = Flying \cup {o}
      BY <1>2, <2>1 DEF Flying
    <3>3. CASE t # o.tx
      BY <1>2, <2>1, <2>2, <3>1, <3>2, <3>3 DEF OnlyOnce
    <3>4. CASE t = o.tx
      <4>1. \A p \in Flying : p.tx # t
        BY <2>1, <3>1, <3>4 DEF OnlyOnce
      <4>2. /\ \A p \in putting : p.tx # t
            /\ \A i \in 1..Len(queue) : queue[i].tx # t
            /\ worker # Free => worker.obj.tx # t
        BY <4>1, CalmTypes DEF Flying
      <4>3. seen'[t] # "none"
        BY <2>2, <3>4
      <4>4. QED BY <1>2, <2>1, <2>3, <3>4, <4>2, <4>3 DEF OnlyOnce
    <3>5. QED BY <3>3, <3>4
  <2>5. \A i \in 1..Len(ok) : seen'[ok[i].tx] = "ok"
    BY <1>1, <2>2, <2>3, CalmTypes
  <2>6. QED BY <1>1, <1>2, <1>5, <2>4, <2>5 DEF GrowsCalmly, AcceptedOnce
<1>8. QED BY <1>6, <1>7

(* It moves from its add call to the queue, or is dropped. *)
LEMMA CalmPut ==
  ASSUME Calm, NEW o \in putting, Put(o)
  PROVE  GrowsCalmly' /\ AcceptedOnce'
<1> DEFINE C == ConfirmedIn(Purged)
<1>1. /\ ToUndo = <<>> /\ reactor.at \in {"undo", "apply", "purge"}
      /\ \A t \in TxId \ C : OnlyOnce(t)
      /\ (\A i \in 1..Len(ok) : seen[ok[i].tx] = "ok") /\ DistinctTxs(ok)
  BY DEF Calm, GrowsCalmly, AcceptedOnce
<1>2. /\ Enqueue(o) /\ putting' = putting \ {o}
      /\ UNCHANGED <<ok, worker, reactor, chainVars>>
  BY DEF Put
<1>3. o \in Object /\ o.tx \in TxId
  BY SubmissionIsObject, CalmTypes
<1>4. \/ queue' = Append(queue, o) /\ seen' = seen
      \/ queue' = queue /\ seen' = seen
      \/ queue' = queue /\ seen' = [seen EXCEPT ![o.tx] = "invalid"]
  BY <1>2, <1>3, EnqueueEffect DEF Calm
<1>5. Purged' = Purged /\ ToUndo' = ToUndo
  BY <1>2, PathsStay DEF Calm
<1>6. \A t \in TxId : seen'[t] = seen[t] \/ (t = o.tx /\ seen'[t] = "invalid")
  BY <1>4, CalmTypes
<1>7. /\ queue \in Seq(Object) /\ Len(queue) \in Nat
      /\ queue' = queue \/ queue' = Append(queue, o)
  BY <1>4, CalmTypes
<1>8. /\ Items(queue') \subseteq Items(queue) \cup {o}
      /\ \A i \in 1..Len(queue') : \/ i \in 1..Len(queue) /\ queue'[i] = queue[i]
                                   \/ i = Len(queue) + 1 /\ queue'[i] = o
  <2>1. CASE queue' = queue
    BY <2>1
  <2>2. CASE queue' = Append(queue, o)
    <3>1. Items(Append(queue, o)) = Items(queue) \cup {o}
      BY <1>3, <1>7, ItemsOf
    <3>2. /\ Len(Append(queue, o)) = Len(queue) + 1
          /\ Append(queue, o)[Len(queue) + 1] = o
          /\ \A i \in 1..Len(queue) : Append(queue, o)[i] = queue[i]
      BY <1>3, <1>7, AppendProperties
    <3>3. \A i \in 1..Len(queue) + 1 : i \in 1..Len(queue) \/ i = Len(queue) + 1
      BY <1>7
    <3>4. QED BY <2>2, <3>1, <3>2, <3>3
  <2>3. QED BY <1>7, <2>1, <2>2
<1>9. Flying' \subseteq Flying /\ o \in Flying
  BY <1>2, <1>8 DEF Flying
<1>10. ASSUME NEW t \in TxId \ C PROVE OnlyOnce(t)'
  <2>1. OnlyOnce(t)
    BY <1>1
  <2>2. CASE t # o.tx
    <3>1. seen'[t] = seen[t]
      BY <1>6, <2>2
    <3>2. \A i \in 1..Len(queue') : queue'[i].tx = t => i \in 1..Len(queue) /\ queue'[i] = queue[i]
      BY <1>8, <2>2
    <3>3. QED BY <1>2, <1>9, <2>1, <3>1, <3>2 DEF OnlyOnce
  <2>3. CASE t = o.tx
    <3>1. seen'[t] # "none"
      BY <1>6, <1>9, <2>1, <2>3 DEF OnlyOnce
    <3>2. \A p \in putting' : p.tx # t
      BY <1>2, <2>1, <2>3 DEF OnlyOnce
    <3>3. \A i \in 1..Len(queue) : queue[i].tx # t
      BY <2>1, <2>3 DEF OnlyOnce
    <3>4. worker # Free => worker.obj.tx # t
      BY <2>1, <2>3 DEF OnlyOnce
    <3>5. \A i \in 1..Len(ok) : ok[i].tx # t
      BY <1>9, <2>1, <2>3 DEF OnlyOnce
    <3>6. \A i \in 1..Len(queue') : queue'[i].tx = t => i = Len(queue) + 1
      BY <1>8, <3>3
    <3>7. QED BY <1>2, <3>1, <3>2, <3>4, <3>5, <3>6 DEF OnlyOnce
  <2>4. QED BY <2>2, <2>3
<1>11. ASSUME NEW i \in 1..Len(ok) PROVE ok[i].tx # o.tx
  <2>1. ok[i].tx \notin C
    BY CalmTypes
  <2>2. o.tx \notin C => OnlyOnce(o.tx)
    BY <1>1, <1>3
  <2>3. QED BY <1>9, <2>1, <2>2 DEF OnlyOnce
<1>12. \A i \in 1..Len(ok) : seen'[ok[i].tx] = "ok"
  BY <1>1, <1>6, <1>11, CalmTypes
<1>13. QED BY <1>1, <1>2, <1>5, <1>10, <1>12 DEF GrowsCalmly, AcceptedOnce

(* ... from the queue to the worker, ... *)
LEMMA CalmTake ==
  ASSUME Calm, Take
  PROVE  GrowsCalmly' /\ AcceptedOnce'
<1> DEFINE C == ConfirmedIn(Purged)
           o == queue[1]
<1>1. /\ ToUndo = <<>> /\ reactor.at \in {"undo", "apply", "purge"}
      /\ \A t \in TxId \ C : OnlyOnce(t)
      /\ (\A i \in 1..Len(ok) : seen[ok[i].tx] = "ok") /\ DistinctTxs(ok)
  BY DEF Calm, GrowsCalmly, AcceptedOnce
<1>2. /\ Len(queue) \in Nat \ {0} /\ Len(queue') = Len(queue) - 1
      /\ \A i \in 1..Len(queue') : queue'[i] = queue[i + 1] /\ i + 1 \in 1..Len(queue)
      /\ worker' = [at |-> "taken", obj |-> o]
      /\ UNCHANGED <<submitted, lists, putting, state, reactor, chainVars>>
  BY TakeEffect DEF Calm
<1>3. Purged' = Purged /\ ToUndo' = ToUndo
  BY <1>2, PathsStay DEF Calm
<1>4. worker' # Free /\ worker'.obj = o
  BY <1>2 DEF Free
<1>5. 1 \in 1..Len(queue) /\ \A i \in 1..Len(queue') : i + 1 # 1
  BY <1>2
<1>6. Items(queue') \subseteq Items(queue) /\ o \in Items(queue)
  BY <1>2, <1>5 DEF Items
<1>7. Flying' \subseteq Flying
  BY <1>2, <1>4, <1>6 DEF Flying
<1>8. ASSUME NEW t \in TxId \ C PROVE OnlyOnce(t)'
  <2>1. OnlyOnce(t)
    BY <1>1
  <2>2. \A i, j \in 1..Len(queue') : queue'[i].tx = t /\ queue'[j].tx = t => i = j
    <3>1. ASSUME NEW i \in 1..Len(queue'), NEW j \in 1..Len(queue'),
                 queue'[i].tx = t, queue'[j].tx = t
          PROVE  i = j
      <4>1. i + 1 \in 1..Len(queue) /\ j + 1 \in 1..Len(queue)
            /\ queue[i + 1].tx = t /\ queue[j + 1].tx = t
        BY <1>2, <3>1
      <4>2. i + 1 = j + 1
        BY <2>1, <4>1 DEF OnlyOnce
      <4>3. i \in Int /\ j \in Int
        OBVIOUS
      <4>4. QED BY <4>2, <4>3
    <3>2. QED BY <3>1
  <2>3. \A p \in putting, i \in 1..Len(queue') : p.tx = t => queue'[i].tx # t
    BY <1>2, <2>1 DEF OnlyOnce
  <2>4. o.tx = t => (\A p \in putting : p.tx # t) /\ \A i \in 1..Len(queue') : queue'[i].tx # t
    <3>1. ASSUME o.tx = t, NEW i \in 1..Len(queue'), queue'[i].tx = t PROVE FALSE
      <4>1. queue[i + 1].tx = t /\ i + 1 \in 1..Len(queue)
        BY <1>2, <3>1
      <4>2. i + 1 = 1
        BY <1>5, <2>1, <3>1, <4>1 DEF OnlyOnce
      <4>3. QED BY <1>5, <4>2
    <3>2. o.tx = t => \A p \in putting : p.tx # t
      BY <1>5, <2>1 DEF OnlyOnce
    <3>3. QED BY <3>1, <3>2
  <2>5. QED BY <1>2, <1>4, <1>7, <2>1, <2>2, <2>3, <2>4 DEF OnlyOnce, lists
<1>9. QED BY <1>1, <1>2, <1>3, <1>8 DEF GrowsCalmly, AcceptedOnce, lists

(* ... which keeps it while it decides, ... *)
LEMMA CalmDecide ==
  ASSUME Calm, CopyOk \/ Decide
  PROVE  GrowsCalmly' /\ AcceptedOnce'
<1> DEFINE C == ConfirmedIn(Purged)
<1>1. /\ ToUndo = <<>> /\ reactor.at \in {"undo", "apply", "purge"}
      /\ \A t \in TxId \ C : OnlyOnce(t)
      /\ (\A i \in 1..Len(ok) : seen[ok[i].tx] = "ok") /\ DistinctTxs(ok)
  BY DEF Calm, GrowsCalmly, AcceptedOnce
<1>2. /\ worker # Free /\ worker' # Free /\ worker'.obj = worker.obj
      /\ UNCHANGED <<submitted, lists, queue, putting, state, reactor, chainVars>>
  BY DEF CopyOk, Decide, Free
<1>3. Purged' = Purged /\ ToUndo' = ToUndo
  BY <1>2, PathsStay DEF Calm
<1>4. Flying' = Flying
  BY <1>2 DEF Flying
<1>5. ASSUME NEW t \in TxId \ C PROVE OnlyOnce(t)'
  <2>1. OnlyOnce(t)
    BY <1>1
  <2>2. QED BY <1>2, <1>4, <2>1 DEF OnlyOnce, lists
<1>6. QED BY <1>1, <1>2, <1>3, <1>5 DEF GrowsCalmly, AcceptedOnce, lists

(* ... and puts it on the accepted list, or not. *)
LEMMA CalmRecord ==
  ASSUME Calm, Record
  PROVE  GrowsCalmly' /\ AcceptedOnce'
<1> DEFINE C == ConfirmedIn(Purged)
           o == worker.obj
<1>1. /\ ToUndo = <<>> /\ reactor.at \in {"undo", "apply", "purge"}
      /\ \A t \in TxId \ C : OnlyOnce(t)
      /\ (\A i \in 1..Len(ok) : seen[ok[i].tx] = "ok") /\ DistinctTxs(ok)
  BY DEF Calm, GrowsCalmly, AcceptedOnce
<1>2. /\ worker.at = "decided" /\ o \in Object /\ o.tx \in TxId
      /\ worker.verdict \in {"ok", "invalid"} /\ worker' = Free
      /\ \/ /\ o \notin Items(pending) /\ ok' = ok
            /\ seen' = [seen EXCEPT ![o.tx] = IF @ = "none" THEN worker.verdict ELSE @]
         \/ /\ o \in Items(pending)
            /\ ok' = IF worker.verdict = "ok" THEN Trim(Append(ok, o)) ELSE ok
            /\ seen' = [seen EXCEPT ![o.tx] = worker.verdict]
  BY RecordEffect DEF Calm
<1>3. UNCHANGED <<submitted, queue, putting, state, reactor, chainVars>>
  BY DEF Record
<1>4. Purged' = Purged /\ ToUndo' = ToUndo
  BY <1>3, PathsStay DEF Calm
<1>5. worker # Free /\ o \in Flying
  BY <1>2 DEF Free, Flying
<1>6. Flying' \subseteq Flying
  BY <1>2, <1>3 DEF Flying
<1>7. ok \in Seq(Object) /\ seen \in [TxId -> {"none", "pending", "ok", "invalid"}]
  BY CalmTypes
<1> HIDE DEF o
<1>8. /\ \A i \in 1..Len(Trim(Append(ok, o))) :
           \/ Trim(Append(ok, o))[i] = o
           \/ \E j \in 1..Len(ok) : Trim(Append(ok, o))[i] = ok[j]
      /\ DistinctTxs(ok) /\ (\A i \in 1..Len(ok) : ok[i].tx # o.tx)
           => DistinctTxs(Trim(Append(ok, o)))
  <2>1. o \in Object /\ ok \in Seq(Object)
    BY <1>2, <1>7
  <2>2. QED BY <2>1, AppendTrimKeeps
<1>9. \A i \in 1..Len(ok') :
        \/ \E j \in 1..Len(ok) : ok'[i] = ok[j]
        \/ ok'[i] = o /\ worker.verdict = "ok" /\ o \in Items(pending)
  BY <1>2, <1>8
<1>10. seen'[o.tx] # "none" /\ \A t \in TxId : t # o.tx => seen'[t] = seen[t]
  BY <1>2, <1>7
<1>11. ASSUME NEW t \in TxId \ C PROVE OnlyOnce(t)'
  <2>1. OnlyOnce(t)
    BY <1>1
  <2>2. CASE t # o.tx
    <3>1. \A i \in 1..Len(ok') : ok'[i].tx = t => \E j \in 1..Len(ok) : ok[j].tx = t
      BY <1>9, <2>2
    <3>2. QED BY <1>2, <1>3, <1>6, <1>10, <2>1, <2>2, <3>1 DEF OnlyOnce
  <2>3. CASE t = o.tx
    <3>1. /\ \A p \in putting : p.tx # t
          /\ \A i \in 1..Len(queue) : queue[i].tx # t
      BY <1>5, <2>1, <2>3 DEF OnlyOnce, o
    <3>2. \A p \in Items(queue) : p.tx # t
      BY <3>1 DEF Items
    <3>3. \A p \in Flying' : p.tx # t
      BY <1>2, <1>3, <3>1, <3>2 DEF Flying
    <3>4. QED BY <1>2, <1>3, <1>10, <2>1, <2>3, <3>3 DEF OnlyOnce
  <2>4. QED BY <2>2, <2>3
<1>12. o.tx \notin C => \A i \in 1..Len(ok) : ok[i].tx # o.tx
  BY <1>1, <1>2, <1>5 DEF OnlyOnce
<1>13. \A i \in 1..Len(ok) : ok[i].tx \in TxId /\ ok[i].tx \notin C
  BY CalmTypes
<1>14. \A i \in 1..Len(ok) : o.tx \in C => ok[i].tx # o.tx
  BY <1>13
<1>15. \A i \in 1..Len(ok) : ok[i].tx # o.tx
  BY <1>12, <1>14
<1>16. DistinctTxs(ok')
  BY <1>1, <1>2, <1>8, <1>15
<1>17. ASSUME NEW i \in 1..Len(ok') PROVE seen'[ok'[i].tx] = "ok"
  <2>1. CASE \E j \in 1..Len(ok) : ok'[i] = ok[j]
    BY <1>1, <1>10, <1>13, <1>15, <2>1
  <2>2. CASE ok'[i] = o /\ worker.verdict = "ok" /\ o \in Items(pending)
    BY <1>2, <1>7, <2>2
  <2>3. QED BY <1>9, <2>1, <2>2
<1>18. QED BY <1>1, <1>3, <1>4, <1>11, <1>16, <1>17 DEF GrowsCalmly, AcceptedOnce

(* A purge forgets what it confirms. *)
LEMMA CalmPurge ==
  ASSUME Calm, Purge
  PROVE  GrowsCalmly' /\ AcceptedOnce'
<1> DEFINE C == ConfirmedIn(Purged)
           k == Level + 1
           txs == Range(Txs[Head(reactor.todo)])
<1>1. /\ ToUndo = <<>> /\ reactor.at \in {"undo", "apply", "purge"}
      /\ \A t \in TxId \ C : OnlyOnce(t)
      /\ (\A i \in 1..Len(ok) : seen[ok[i].tx] = "ok") /\ DistinctTxs(ok)
  BY DEF Calm, GrowsCalmly, AcceptedOnce
<1>2. /\ k \in 1..Len(Peak) /\ Head(reactor.todo) = Peak[k]
      /\ Purged = SubSeq(Peak, 1, Level) /\ Purged' = SubSeq(Peak, 1, k)
      /\ ToUndo' = ToUndo /\ reactor'.at = "apply"
  BY PathsPurge DEF Calm
<1>3. ConfirmedIn(Purged') = C \cup txs
  <2>1. Peak \in Seq(Block) /\ k - 1 = Level
    BY PeakIsChain DEF Calm
  <2> HIDE DEF k
  <2>2. ConfirmedIn(SubSeq(Peak, 1, k)) =
          ConfirmedIn(SubSeq(Peak, 1, k - 1)) \cup Range(Txs[Peak[k]])
    BY <1>2, <2>1, ConfirmedBeginning
  <2>3. QED BY <1>2, <2>1, <2>2
<1>4. /\ \A i \in 1..Len(ok') : ok'[i].tx \notin txs /\ \E j \in 1..Len(ok) : ok'[i] = ok[j]
      /\ DistinctTxs(ok) => DistinctTxs(ok')
      /\ \A t \in TxId : t \notin txs => seen'[t] = seen[t]
  BY PurgeEffect DEF Calm
<1>5. UNCHANGED <<queue, putting, worker, chainVars>>
  BY DEF Purge
<1>6. Flying' = Flying
  BY <1>5 DEF Flying
<1> HIDE DEF txs
<1>7. ASSUME NEW t \in TxId \ ConfirmedIn(Purged') PROVE OnlyOnce(t)'
  <2>1. OnlyOnce(t) /\ seen'[t] = seen[t]
    BY <1>1, <1>3, <1>4
  <2>2. QED BY <1>4, <1>5, <1>6, <2>1 DEF OnlyOnce
<1>8. ASSUME NEW i \in 1..Len(ok') PROVE seen'[ok'[i].tx] = "ok"
  <2>1. PICK j \in 1..Len(ok) : ok'[i] = ok[j]
    BY <1>4
  <2>2. ok[j].tx \in TxId /\ ok[j].tx \notin txs
    BY <1>4, <2>1, CalmTypes
  <2>3. QED BY <1>1, <1>4, <2>1, <2>2
<1>9. QED BY <1>1, <1>2, <1>4, <1>7, <1>8 DEF GrowsCalmly, AcceptedOnce

(* The chain grows calmly, and what is accepted is known, in every step:   *)
(* a step that rolls back, or comes after one, ends the premise.           *)
LEMMA CalmStep ==
  ASSUME MempoolTypes, SubmittedOnce,
         ~tangled => PathsMeet /\ LedgerIsApplied /\ NothingConfirmed,
         GrowsCalmly, AcceptedOnce, [MempoolNext]_mempoolVars
  PROVE  GrowsCalmly' /\ AcceptedOnce'
<1>1. CASE reorged'
  BY <1>1 DEF GrowsCalmly, AcceptedOnce
<1>2. CASE ~reorged'
  <2>1. ~reorged /\ ~tangled
    <3>1. ~reorged
      BY <1>2 DEF MempoolNext, Submit, Put, Worker, Take, CopyOk, Decide, Record, Reactor,
                  RollBack, Forget, Readd, Reput, RequeueDone, ApplyNext, Purge, DrainRemoved,
                  DrainEntered, Validator, AcceptEnd, Publish, Reorganise, mempoolVars, chainVars
    <3>2. QED BY <3>1 DEF MempoolTypes
  <2>2. Calm
    BY <2>1 DEF Calm
  <2>3. /\ ToUndo = <<>> /\ reactor.at \in {"undo", "apply", "purge"}
        /\ \A t \in TxId \ ConfirmedIn(Purged) : OnlyOnce(t)
        /\ (\A i \in 1..Len(ok) : seen[ok[i].tx] = "ok") /\ DistinctTxs(ok)
    BY <2>1 DEF GrowsCalmly, AcceptedOnce
  <2>4. ASSUME UNCHANGED <<seen, ok, queue, putting, worker>>, Purged' = Purged,
               ToUndo' = <<>>, reactor'.at \in {"undo", "apply", "purge"}
        PROVE  GrowsCalmly' /\ AcceptedOnce'
    <3>1. Flying' = Flying
      BY <2>4 DEF Flying
    <3>2. \A t \in TxId \ ConfirmedIn(Purged) : OnlyOnce(t)'
      BY <2>3, <2>4, <3>1 DEF OnlyOnce
    <3>3. QED BY <2>3, <2>4, <3>2 DEF GrowsCalmly, AcceptedOnce
  <2>5. CASE UNCHANGED mempoolVars
    <3>1. UNCHANGED <<seen, ok, queue, putting, worker, reactor, chainVars>>
      BY <2>5 DEF mempoolVars, lists
    <3>2. Purged' = Purged /\ ToUndo' = ToUndo
      BY <2>2, <3>1, PathsStay DEF Calm
    <3>3. QED BY <2>3, <2>4, <3>1, <3>2
  <2>6. CASE RollBack \/ Forget \/ Readd \/ Reput \/ RequeueDone
    <3>1. CASE RollBack
      BY <2>2, <2>3, <3>1, PathsRollBack DEF Calm
    <3>2. CASE Forget \/ Readd \/ Reput
      BY <2>3, <3>2 DEF Forget, Readd, Reput
    <3>3. CASE RequeueDone
      BY <2>3, <3>3 DEF RequeueDone
    <3>4. QED BY <2>6, <3>1, <3>2, <3>3
  <2>7. CASE ApplyNext
    <3>1. Purged' = Purged /\ ToUndo' = ToUndo /\ reactor'.at = "purge"
      BY <2>2, <2>7, PathsApply DEF Calm
    <3>2. UNCHANGED <<seen, ok, queue, putting, worker>>
      BY <2>7 DEF ApplyNext, lists
    <3>3. QED BY <2>3, <2>4, <3>1, <3>2
  <2>8. CASE Validator \/ DrainRemoved \/ DrainEntered
    <3>1. Purged' = Purged
      BY <2>2, <2>8, PathsStay, PathsDrain DEF Calm
    <3>2. ToUndo' = <<>>
      BY <2>2, <2>3, <2>8, PathsStay, PathsDrain DEF Calm
    <3>3. UNCHANGED <<seen, ok, queue, putting, worker>>
      BY <2>8 DEF Validator, AcceptEnd, Publish, DrainRemoved, DrainEntered, lists
    <3>4. reactor'.at \in {"undo", "apply"} \/ reactor' = reactor
      BY <2>8 DEF Validator, AcceptEnd, Publish, DrainRemoved, DrainEntered, Turn
    <3>5. QED BY <2>3, <2>4, <3>1, <3>2, <3>3, <3>4
  <2>9. ASSUME NEW b \in Block, Reorganise(b) PROVE GrowsCalmly' /\ AcceptedOnce'
    <3>1. ~tangled'
      <4>1. Tangling \in BOOLEAN /\ tangled' = (tangled \/ (reorged' /\ Tangling /\ tangled'))
        BY <1>2, <2>1, <2>9 DEF Reorganise, Tangling
      <4>2. QED BY <1>2, <2>1, <4>1
    <3>2. /\ Purged' = Purged /\ ToUndo' = ToUndo
          /\ UNCHANGED <<lists, queue, putting, worker, reactor>>
      BY <1>2, <2>2, <2>9, <3>1, PathsReorganise DEF Calm
    <3>3. QED BY <2>3, <2>4, <3>2 DEF lists
  <2>10. CASE Purge
    BY <2>2, <2>10, CalmPurge
  <2>11. CASE Worker
    BY <2>2, <2>11, CalmTake, CalmDecide, CalmRecord DEF Worker
  <2>12. ASSUME NEW o \in Submission, Submit(o) PROVE GrowsCalmly' /\ AcceptedOnce'
    BY <2>2, <2>12, CalmSubmit
  <2>13. ASSUME NEW o \in putting, Put(o) PROVE GrowsCalmly' /\ AcceptedOnce'
    BY <2>2, <2>13, CalmPut
  <2>14. QED BY <2>5, <2>6, <2>7, <2>8, <2>9, <2>10, <2>11, <2>12, <2>13
             DEF MempoolNext, Reactor
<1>3. QED BY <1>1, <1>2
-----------------------------------------------------------------------------
(* The inductive invariant: what the lists hold, by the chain that they    *)
(* were purged of and the one that the ledger has applied.                 *)
MempoolInv == /\ MempoolTypes /\ SubmittedOnce
              /\ ~tangled => PathsMeet /\ LedgerIsApplied /\ NothingConfirmed
              /\ GrowsCalmly /\ AcceptedOnce

(* It holds at the start. *)
LEMMA MempoolInvInit == MempoolInit => MempoolInv
<1> SUFFICES ASSUME MempoolInit PROVE MempoolInv
  OBVIOUS
<1>1. MempoolTypes /\ Genesis \in Block /\ Lineage[Genesis] = <<Genesis>>
  BY TypesInit, BlockAssumption, LineageAssumption
<1>2. /\ pending = <<>> /\ ok = <<>> /\ queue = <<>> /\ putting = {} /\ worker = Free
      /\ state = Rebuild(<<Genesis>>) /\ tip = Genesis /\ reactor = Rest
      /\ entering = <<>> /\ removed = <<>> /\ entered = <<>>
  BY DEF MempoolInit
<1>3. PathsMeet /\ Applied = <<Genesis>> /\ ToUndo = <<>>
  <2>1. <<>> \o <<>> = <<>>
    BY ConcatEmptySeq
  <2>2. QED BY <1>1, <1>2, <2>1, PathsAtRest
<1>4. Items(<<>>) = {}
  BY DEF Items
<1>5. Flying = {}
  BY <1>2, <1>4 DEF Flying
<1>6. Len(queue) = 0 /\ Len(ok) = 0 /\ reactor.at = "apply" /\ reactor.requeue = <<>>
  BY <1>2 DEF Rest, Turn
<1>7. LedgerIsApplied /\ SubmittedOnce
  BY <1>2, <1>3, <1>4, <1>5, <1>6 DEF LedgerIsApplied, SubmittedOnce
<1>8. NothingConfirmed
  BY <1>2, <1>4, <1>6 DEF NothingConfirmed, Free
<1>9. \A t \in TxId : OnlyOnce(t)
  BY <1>2, <1>5, <1>6 DEF OnlyOnce
<1>10. GrowsCalmly
  BY <1>3, <1>6, <1>9 DEF GrowsCalmly
<1>11. AcceptedOnce
  BY <1>6 DEF AcceptedOnce, DistinctTxs
<1>12. QED BY <1>1, <1>3, <1>7, <1>8, <1>10, <1>11 DEF MempoolInv

(* Blocks that left while others were on their way are not forgotten.      *)
LEMMA TangledStays == [MempoolNext]_mempoolVars /\ ~tangled' => ~tangled
  BY DEF MempoolNext, Submit, Put, Worker, Take, CopyOk, Decide, Record, Reactor, RollBack,
         Forget, Readd, Reput, RequeueDone, ApplyNext, Purge, DrainRemoved, DrainEntered,
         Validator, AcceptEnd, Publish, Reorganise, mempoolVars, chainVars

(* Every step keeps it, where every block is valid after those below it    *)
(* and no payer of a block mines.                                          *)
LEMMA MempoolInvStep ==
  ASSUME BlocksApply, NoMinerPays, MempoolInv, [MempoolNext]_mempoolVars
  PROVE  MempoolInv'
<1>1. /\ MempoolTypes /\ SubmittedOnce /\ GrowsCalmly /\ AcceptedOnce
      /\ ~tangled => PathsMeet /\ LedgerIsApplied /\ NothingConfirmed
  BY DEF MempoolInv
<1>2. MempoolTypes'
  BY <1>1, TypesStep
<1>3. SubmittedOnce'
  BY <1>1, SubmittedStep
<1>4. ASSUME ~tangled' PROVE PathsMeet' /\ LedgerIsApplied' /\ NothingConfirmed'
  <2>1. PathsMeet /\ LedgerIsApplied /\ NothingConfirmed
    BY <1>1, <1>4, TangledStays
  <2>2. PathsMeet' /\ LedgerIsApplied'
    BY <1>1, <1>4, <2>1, LedgerStep
  <2>3. NothingConfirmed'
    BY <1>1, <1>4, <2>1, NothingConfirmedStep
  <2>4. QED BY <2>2, <2>3
<1>5. GrowsCalmly' /\ AcceptedOnce'
  BY <1>1, CalmStep
<1>6. QED BY <1>2, <1>3, <1>4, <1>5 DEF MempoolInv

(* The invariant holds in every state of the mempool, whatever is          *)
(* submitted, purged, requeued, dropped or decided late, and whenever the  *)
(* reactor drains its two queues.                                          *)
THEOREM MempoolInvariant == BlocksApply /\ NoMinerPays => (MempoolSpec => []MempoolInv)
<1> SUFFICES ASSUME BlocksApply, NoMinerPays PROVE MempoolSpec => []MempoolInv
  OBVIOUS
<1>1. MempoolInv /\ [MempoolNext]_mempoolVars => MempoolInv'
  BY MempoolInvStep
<1>2. QED BY <1>1, MempoolInvInit, PTL DEF MempoolSpec

(* The transactions of a list of objects, as a set. *)
LEMMA TxsOfItems ==
  ASSUME NEW list \in Seq(Object)
  PROVE  /\ Range(TxsIn(list)) = {o.tx : o \in Items(list)}
         /\ IsInjective(TxsIn(list)) <=> DistinctTxs(list)
<1>1. Len(list) \in Nat /\ DOMAIN list = 1..Len(list)
  BY LenProperties
<1>2. TxsIn(list) = [i \in 1..Len(list) |-> list[i].tx]
  BY <1>1 DEF TxsIn
<1>3. Range(TxsIn(list)) = {TxsIn(list)[i] : i \in 1..Len(list)}
  BY <1>2 DEF Range
<1>4. Range(TxsIn(list)) = {o.tx : o \in Items(list)}
  BY <1>2, <1>3 DEF Items
<1>5. IsInjective(TxsIn(list)) <=> DistinctTxs(list)
  BY <1>2 DEF IsInjective, DistinctTxs
<1>6. QED BY <1>4, <1>5

(* Once the reactor has carried out what happened to the chain, nothing    *)
(* that is confirmed on it is offered to the miner, for every tree of      *)
(* valid blocks and all limits, if no block left the chain while others    *)
(* were on their way to the reactor.                                       *)
THEOREM AcceptedNotConfirmedHolds ==
  BlocksApply /\ NoMinerPays => (MempoolSpec => []AcceptedNotConfirmed)
<1> SUFFICES ASSUME BlocksApply, NoMinerPays PROVE MempoolSpec => []AcceptedNotConfirmed
  OBVIOUS
<1>1. MempoolInv => AcceptedNotConfirmed
  <2> SUFFICES ASSUME MempoolInv, reactor = Rest, removed \o entered \o entering = <<>>,
                      ~tangled, NEW c \in Ancestry(tip)
               PROVE  Range(Txs[c]) \cap Range(TxsIn(ok)) = {}
    BY DEF AcceptedNotConfirmed
  <2>1. ok \in Seq(Object) /\ tip \in Block
    BY DEF MempoolInv, MempoolTypes
  <2>2. Purged = Lineage[tip]
    <3>1. /\ entering \in Seq(Block) /\ removed \in Seq(Block) /\ entered \in Seq(Block)
          /\ MempoolTypes
      BY DEF MempoolInv, MempoolTypes
    <3>2. removed \o entered \in Seq(Block)
      BY <3>1, ConcatProperties
    <3>3. removed \o entered = <<>> /\ entering = <<>>
      BY <3>1, <3>2, ConcatEqualIffEmpty
    <3>4. removed = <<>> /\ entered = <<>>
      BY <3>1, <3>3, ConcatEqualIffEmpty
    <3>5. entered \o entering = <<>>
      BY <3>3, <3>4, ConcatEmptySeq
    <3>6. QED BY <3>1, <3>4, <3>5, PathsAtRest
  <2>3. \A o \in Items(ok) : o.tx \notin ConfirmedIn(Lineage[tip])
    BY <2>2 DEF MempoolInv, NothingConfirmed
  <2>4. PICK i \in 1..Len(Lineage[tip]) : c = Lineage[tip][i]
    BY <2>1, LineageEnds, RangeEquality DEF Ancestry
  <2>5. Range(Txs[c]) \subseteq ConfirmedIn(Lineage[tip])
    BY <2>4 DEF ConfirmedIn
  <2>6. Range(TxsIn(ok)) = {o.tx : o \in Items(ok)}
    BY <2>1, TxsOfItems
  <2>7. QED BY <2>3, <2>5, <2>6
<1>2. MempoolSpec => []MempoolInv
  BY MempoolInvariant
<1>3. QED BY <1>1, <1>2, PTL

(* On a chain that only grows, what is offered to the miner is known as    *)
(* accepted, and is offered once.                                          *)
THEOREM AcceptedIsKnownHolds ==
  BlocksApply /\ NoMinerPays => (MempoolSpec => []AcceptedIsKnown)
<1> SUFFICES ASSUME BlocksApply, NoMinerPays PROVE MempoolSpec => []AcceptedIsKnown
  OBVIOUS
<1>1. MempoolInv => AcceptedIsKnown
  <2> SUFFICES ASSUME MempoolInv, ~reorged
               PROVE  (\A o \in Range(ok) : seen[o.tx] = "ok") /\ IsInjective(TxsIn(ok))
    BY DEF AcceptedIsKnown
  <2>1. ok \in Seq(Object) /\ (\A i \in 1..Len(ok) : seen[ok[i].tx] = "ok") /\ DistinctTxs(ok)
    BY DEF MempoolInv, MempoolTypes, AcceptedOnce
  <2>2. Range(ok) = {ok[i] : i \in 1..Len(ok)}
    BY <2>1, RangeEquality
  <2>3. IsInjective(TxsIn(ok))
    BY <2>1, TxsOfItems
  <2>4. QED BY <2>1, <2>2, <2>3
<1>2. MempoolSpec => []MempoolInv
  BY MempoolInvariant
<1>3. QED BY <1>1, <1>2, PTL

-----------------------------------------------------------------------------
(* A run along a list of transactions from ledger l to ledger m: what is   *)
(* past is passed over, and the rest is valid where it stands, and spent.  *)
RunsTo(g, l, list, past, m) ==
  /\ g \in [0..Len(list) -> LedgerState]
  /\ g[0] = l /\ g[Len(list)] = m
  /\ \A k \in 1..Len(list) :
       IF list[k] \in past THEN g[k] = g[k - 1]
       ELSE FitsTx(g[k - 1], list[k]) /\ g[k] = Spend(g[k - 1], list[k])

Leads(l, list, past, m) == \E g : RunsTo(g, l, list, past, m)

(* Two lists with the same transactions left that lead to one ledger.      *)
Agree(l, first, second, past) ==
  /\ \E m \in LedgerState : Leads(l, first, past, m) /\ Leads(l, second, past, m)
  /\ Range(first) \ past = Range(second) \ past

(* What is past is past in this ledger: its nonces are used up.            *)
UsedUp(l, past) == \A t \in past : t \in TxId /\ TxNonce[t] < l.nonce[TxFrom[t]]

(* With an empty cache: the balance covers the payment. *)
LEMMA FitsTxMeans ==
  ASSUME NEW l \in LedgerState, NEW t \in TxId
  PROVE  FitsTx(l, t) <=> /\ TxAmount[t] >= 0 /\ TxFee[t] >= 0
                          /\ TxNonce[t] = l.nonce[TxFrom[t]]
                          /\ l.bal[TxFrom[t]] >= TxAmount[t] + TxFee[t]
<1>1. TxFrom[t] \in Account /\ l.bal[TxFrom[t]] \in Int
  BY LedgerAssumption DEF LedgerState
<1>2. l.bal[TxFrom[t]] - 0 = l.bal[TxFrom[t]]
  BY <1>1
<1>3. QED BY <1>2 DEF FitsTx, ValidTx

(* Both ends of a run are ledgers. *)
LEMMA LeadsType ==
  ASSUME NEW l, NEW list \in Seq(TxId), NEW past, NEW m, Leads(l, list, past, m)
  PROVE  l \in LedgerState /\ m \in LedgerState
<1>1. Len(list) \in Nat
  BY LenProperties
<1>2. PICK g : RunsTo(g, l, list, past, m)
  BY DEF Leads
<1>3. 0 \in 0..Len(list) /\ Len(list) \in 0..Len(list)
  BY <1>1
<1>4. QED BY <1>2, <1>3 DEF RunsTo

(* A block may confirm a transaction before those that stand before it in  *)
(* the list: it then drops out of the list, and what is left leads to the  *)
(* same ledger; or, where it is not in the list, to that ledger and this   *)
(* payment.  Of one sender nobody can get ahead, because no other          *)
(* transaction has the nonce.                                              *)
LEMMA LeadsSpend ==
  ASSUME NoConflict, NEW l \in LedgerState, NEW list \in Seq(TxId), NEW past, NEW m,
         Leads(l, list, past, m), NEW t \in TxId, t \notin past, FitsTx(l, t)
  PROVE  Leads(Spend(l, t), list, past \cup {t}, IF t \in Range(list) THEN m ELSE Spend(m, t))
<1> DEFINE n == Len(list)
           f == TxFrom[t]
           Met(k) == \E j \in 1..k : list[j] = t
<1>1. /\ n \in Nat /\ f \in Account /\ TxNonce[t] \in Nat
      /\ \A i \in 1..n : list[i] \in TxId
      /\ \A k \in 1..n : k \in 0..n /\ k - 1 \in 0..n /\ k - 1 \in Nat
  BY LenProperties, ElementOfSeq, LedgerAssumption
<1>2. PICK g \in [0..n -> LedgerState] :
        /\ g[0] = l /\ g[n] = m
        /\ \A k \in 1..n : IF list[k] \in past THEN g[k] = g[k - 1]
                           ELSE FitsTx(g[k - 1], list[k]) /\ g[k] = Spend(g[k - 1], list[k])
  BY DEF Leads, RunsTo
<1>3. \A k \in 0..n : g[k].nonce[f] \in Nat /\ g[k] \in LedgerState
  BY <1>1 DEF LedgerState
<1>4. \A k \in 1..n : Met(k) <=> (Met(k - 1) \/ list[k] = t)
  <2>1. \A k \in 1..n : 1..k = (1..k - 1) \cup {k}
    BY <1>1
  <2>2. QED BY <2>1
<1>5. ~Met(0)
  OBVIOUS
<1>6. t \in Range(list) <=> Met(n)
  <2>1. Range(list) = {list[i] : i \in 1..n}
    BY RangeEquality
  <2>2. QED BY <2>1
<1> HIDE DEF Met
<1> DEFINE Nonce(k) == IF Met(k) THEN g[k].nonce[f] > TxNonce[t] ELSE g[k].nonce[f] = TxNonce[t]
           T == {k \in 0..n : Nonce(k)}
<1>7. ASSUME NEW k \in 1..n, list[k] \notin past, list[k] # t, ~Met(k - 1), Nonce(k - 1)
      PROVE  TxFrom[list[k]] # f /\ g[k].nonce[f] = g[k - 1].nonce[f]
  <2> DEFINE u == list[k]
             r == g[k - 1]
  <2>1. u \in TxId /\ r \in LedgerState /\ FitsTx(r, u) /\ g[k] = Spend(r, u)
    BY <1>1, <1>2, <1>7
  <2>2. r.nonce[f] = TxNonce[t] /\ u # t
    BY <1>7
  <2> HIDE DEF u, r
  <2>3. TxNonce[u] = r.nonce[TxFrom[u]]
    BY <2>1 DEF FitsTx, ValidTx
  <2>4. TxFrom[u] # f
    BY <2>1, <2>2, <2>3 DEF NoConflict
  <2>5. Spend(r, u).nonce[f] = r.nonce[f] + 0 /\ r.nonce[f] \in Nat
    BY <1>1, <2>1, <2>4, SpendAt DEF LedgerState
  <2>6. QED BY <2>1, <2>4, <2>5 DEF u, r
<1>8. 0 \in T
  <2>1. g[0].nonce[f] = TxNonce[t]
    BY <1>2 DEF FitsTx, ValidTx
  <2>2. QED BY <1>1, <1>5, <2>1
<1>9. \A k \in 0..n : k \in T /\ k < n => k + 1 \in T
  <2>1. TAKE k \in 0..n
  <2>2. ASSUME k \in T, k < n PROVE k + 1 \in T
    <3> DEFINE j == k + 1
               u == list[j]
               r == g[k]
    <3>1. j \in 1..n /\ j - 1 = k /\ j \in 0..n /\ u \in TxId /\ r \in LedgerState /\ Nonce(k)
      BY <1>1, <1>3, <2>2
    <3>2. IF u \in past THEN g[j] = r ELSE FitsTx(r, u) /\ g[j] = Spend(r, u)
      BY <1>2, <3>1
    <3>3. Met(j) <=> (Met(k) \/ u = t)
      BY <1>4, <3>1
    <3>4. r.nonce[f] \in Nat /\ g[j].nonce[f] \in Nat
      BY <1>3, <3>1
    <3> HIDE DEF r, u
    <3>5. CASE u \in past
      <4>1. u # t /\ g[j] = r
        BY <3>2, <3>5
      <4>2. Nonce(j)
        BY <3>1, <3>3, <4>1 DEF r
      <4>3. QED BY <3>1, <4>2
    <3>6. CASE u \notin past /\ u = t
      <4>1. TxNonce[t] = r.nonce[f] /\ g[j] = Spend(r, t)
        BY <3>2, <3>6 DEF FitsTx, ValidTx
      <4>2. g[j].nonce[f] = r.nonce[f] + 1
        BY <3>1, <4>1, SpendNonces
      <4>3. Met(j)
        BY <3>3, <3>6
      <4>4. Nonce(j)
        BY <1>1, <4>1, <4>2, <4>3
      <4>5. QED BY <3>1, <4>4
    <3>7. CASE u \notin past /\ u # t /\ Met(k)
      <4>1. g[j] = Spend(r, u) /\ r.nonce[f] > TxNonce[t]
        BY <3>1, <3>2, <3>7 DEF r
      <4>2. r.nonce[f] <= g[j].nonce[f]
        BY <1>1, <3>1, <4>1, SpendNonces
      <4>3. g[j].nonce[f] > TxNonce[t]
        BY <1>1, <3>4, <4>1, <4>2
      <4>4. Nonce(j)
        BY <3>3, <3>7, <4>3
      <4>5. QED BY <3>1, <4>4
    <3>8. CASE u \notin past /\ u # t /\ ~Met(k)
      <4>1. g[j].nonce[f] = g[k].nonce[f]
        BY <1>7, <3>1, <3>8 DEF u
      <4>2. Nonce(j)
        BY <3>1, <3>3, <3>8, <4>1
      <4>3. QED BY <3>1, <4>2
    <3>9. QED BY <3>5, <3>6, <3>7, <3>8
  <2>3. QED BY <2>2
<1>10. \A k \in 0..n : Nonce(k)
  <2>1. 0..n \subseteq T
    <3> HIDE DEF T
    <3>1. QED BY <1>1, <1>8, <1>9, SetInduction
  <2>2. QED BY <2>1
<1> HIDE DEF T
<1> DEFINE h == [k \in 0..n |-> IF Met(k) THEN g[k] ELSE Spend(g[k], t)]
<1>11. h \in [0..n -> LedgerState]
  BY <1>3, SpendType
<1>12. \A k \in 0..n : h[k] = IF Met(k) THEN g[k] ELSE Spend(g[k], t)
  OBVIOUS
<1> HIDE DEF h
<1>13. h[0] = Spend(l, t)
  BY <1>1, <1>2, <1>5, <1>12
<1>14. h[n] = IF t \in Range(list) THEN m ELSE Spend(m, t)
  BY <1>1, <1>2, <1>6, <1>12
<1>15. ASSUME NEW k \in 1..n
       PROVE  IF list[k] \in past \cup {t} THEN h[k] = h[k - 1]
              ELSE FitsTx(h[k - 1], list[k]) /\ h[k] = Spend(h[k - 1], list[k])
  <2> DEFINE u == list[k]
             r == g[k - 1]
  <2>1. /\ k \in 0..n /\ k - 1 \in 0..n /\ u \in TxId /\ r \in LedgerState
        /\ g[k] \in LedgerState /\ Nonce(k - 1)
    BY <1>1, <1>3, <1>10
  <2>2. IF u \in past THEN g[k] = r ELSE FitsTx(r, u) /\ g[k] = Spend(r, u)
    BY <1>2
  <2>3. Met(k) <=> (Met(k - 1) \/ u = t)
    BY <1>4
  <2>4. h[k] = (IF Met(k) THEN g[k] ELSE Spend(g[k], t))
        /\ h[k - 1] = (IF Met(k - 1) THEN r ELSE Spend(r, t))
    BY <1>12, <2>1
  <2>5. u \notin past /\ u # t /\ ~Met(k - 1) => TxFrom[u] # f
    BY <1>7, <2>1
  <2>6. r.nonce[f] = TxNonce[t] \/ Met(k - 1)
    BY <2>1
  <2>7. ~(Met(k - 1) /\ ~(r.nonce[f] > TxNonce[t]))
    BY <2>1
  <2> HIDE DEF u, r, Nonce
  <2>8. CASE u \in past
    <3>1. u # t /\ g[k] = r /\ (Met(k) <=> Met(k - 1))
      BY <2>2, <2>3, <2>8
    <3>2. h[k] = h[k - 1]
      BY <2>4, <3>1
    <3>3. QED BY <2>8, <3>2 DEF u
  <2>9. CASE u \notin past /\ u = t
    <3>1. TxNonce[t] = r.nonce[f] /\ g[k] = Spend(r, t)
      BY <2>2, <2>9 DEF FitsTx, ValidTx
    <3>2. ~Met(k - 1)
      BY <1>1, <2>7, <3>1
    <3>3. QED BY <2>3, <2>4, <2>9, <3>1, <3>2 DEF u
  <2>10. CASE u \notin past /\ u # t /\ Met(k - 1)
    BY <2>2, <2>3, <2>4, <2>10 DEF u
  <2>11. CASE u \notin past /\ u # t /\ ~Met(k - 1)
    <3>1. /\ FitsTx(r, u) /\ g[k] = Spend(r, u)
          /\ h[k] = Spend(Spend(r, u), t) /\ h[k - 1] = Spend(r, t)
      BY <2>2, <2>3, <2>4, <2>11
    <3>2. Spend(Spend(r, u), t) = Spend(Spend(r, t), u)
      BY <2>1, StepsCommute
    <3>3. FitsTx(Spend(r, t), u)
      <4> DEFINE a == TxFrom[u]
                 gain == IF a = TxTo[t] THEN TxAmount[t] ELSE 0
                 need == TxAmount[u] + TxFee[u]
      <4>1. a \in Account /\ a # f /\ TxAmount[t] \in Int /\ need \in Int /\ TxAmount[t] >= 0
        BY <2>1, <2>5, <2>11, LedgerAssumption DEF FitsTx, ValidTx
      <4>2. Spend(r, t).bal[a] = r.bal[a] - 0 + gain /\ Spend(r, t).nonce[a] = r.nonce[a] + 0
        BY <2>1, <4>1, SpendAt
      <4>3. r.bal[a] \in Int /\ r.nonce[a] \in Int /\ gain \in Nat
        BY <2>1, <4>1 DEF LedgerState
      <4>4. r.bal[a] >= need /\ TxNonce[u] = r.nonce[a] /\ TxAmount[u] >= 0 /\ TxFee[u] >= 0
        BY <3>1, <2>1, FitsTxMeans
      <4> HIDE DEF gain, need, a
      <4>5. Spend(r, t).bal[a] >= need /\ TxNonce[u] = Spend(r, t).nonce[a]
        BY <4>1, <4>2, <4>3, <4>4
      <4>6. Spend(r, t) \in LedgerState
        BY <2>1, SpendType
      <4>7. QED BY <2>1, <4>4, <4>5, <4>6, FitsTxMeans DEF a, need
    <3>4. QED BY <2>11, <3>1, <3>2, <3>3 DEF u
  <2>12. QED BY <2>8, <2>9, <2>10, <2>11 DEF u
<1>16. RunsTo(h, Spend(l, t), list, past \cup {t}, IF t \in Range(list) THEN m ELSE Spend(m, t))
  BY <1>11, <1>13, <1>14, <1>15 DEF RunsTo
<1>17. QED BY <1>16 DEF Leads

(* A coinbase takes nothing from anybody. *)
LEMMA LeadsCredit ==
  ASSUME NEW l \in LedgerState, NEW list \in Seq(TxId), NEW past, NEW m,
         Leads(l, list, past, m), NEW c \in Coin
  PROVE  Leads(Credit(l, c), list, past, Credit(m, c))
<1> DEFINE n == Len(list)
<1>1. /\ n \in Nat /\ 0 \in 0..n /\ n \in 0..n /\ \A i \in 1..n : list[i] \in TxId
      /\ \A k \in 1..n : k \in 0..n /\ k - 1 \in 0..n
  BY LenProperties, ElementOfSeq
<1>2. PICK g \in [0..n -> LedgerState] :
        /\ g[0] = l /\ g[n] = m
        /\ \A k \in 1..n : IF list[k] \in past THEN g[k] = g[k - 1]
                           ELSE FitsTx(g[k - 1], list[k]) /\ g[k] = Spend(g[k - 1], list[k])
  BY DEF Leads, RunsTo
<1> DEFINE h == [k \in 0..n |-> Credit(g[k], c)]
<1>3. h \in [0..n -> LedgerState] /\ \A k \in 0..n : h[k] = Credit(g[k], c)
  BY CreditType
<1>4. h[0] = Credit(l, c) /\ h[n] = Credit(m, c)
  BY <1>1, <1>2, <1>3
<1> HIDE DEF h
<1>5. ASSUME NEW k \in 1..n
      PROVE  IF list[k] \in past THEN h[k] = h[k - 1]
             ELSE FitsTx(h[k - 1], list[k]) /\ h[k] = Spend(h[k - 1], list[k])
  <2> DEFINE u == list[k]
             r == g[k - 1]
             a == TxFrom[u]
             need == TxAmount[u] + TxFee[u]
             gain == IF a = c.to THEN c.amount ELSE 0
  <2>1. u \in TxId /\ r \in LedgerState /\ h[k] = Credit(g[k], c) /\ h[k - 1] = Credit(r, c)
    BY <1>1, <1>3
  <2>2. IF u \in past THEN g[k] = r ELSE FitsTx(r, u) /\ g[k] = Spend(r, u)
    BY <1>2
  <2>3. a \in Account /\ need \in Int /\ gain \in Nat
    BY <2>1, LedgerAssumption DEF Coin
  <2> HIDE DEF u, r
  <2>4. CASE u \in past
    BY <2>1, <2>2, <2>4 DEF u
  <2>5. CASE u \notin past
    <3>1. FitsTx(r, u) /\ g[k] = Spend(r, u)
      BY <2>2, <2>5
    <3>2. Spend(Credit(r, c), u) = Credit(Spend(r, u), c)
      BY <2>1, StepsCommute
    <3>3. Credit(r, c).bal[a] = r.bal[a] + gain /\ Credit(r, c).nonce[a] = r.nonce[a]
      BY <2>1, <2>3, CreditAt
    <3>4. r.bal[a] \in Int
      BY <2>1, <2>3 DEF LedgerState
    <3>5. r.bal[a] >= need /\ TxNonce[u] = r.nonce[a] /\ TxAmount[u] >= 0 /\ TxFee[u] >= 0
      BY <3>1, <2>1, FitsTxMeans
    <3> HIDE DEF a, need, gain
    <3>6. Credit(r, c).bal[a] >= need
      BY <2>3, <3>3, <3>4, <3>5
    <3>7. FitsTx(Credit(r, c), u)
      <4>1. Credit(r, c) \in LedgerState
        BY <2>1, CreditType
      <4>2. QED BY <2>1, <4>1, <3>3, <3>5, <3>6, FitsTxMeans DEF a, need
    <3>8. QED BY <2>1, <2>5, <3>1, <3>2, <3>7 DEF u
  <2>6. QED BY <2>4, <2>5
<1>6. RunsTo(h, Credit(l, c), list, past, Credit(m, c))
  BY <1>3, <1>4, <1>5 DEF RunsTo
<1>7. QED BY <1>6 DEF Leads

(* So two lists that agree still do when a transaction is confirmed ...    *)
LEMMA AgreeSpend ==
  ASSUME NoConflict, NEW l \in LedgerState, NEW a \in Seq(TxId), NEW b \in Seq(TxId), NEW past,
         Agree(l, a, b, past), NEW t \in TxId, t \notin past, FitsTx(l, t)
  PROVE  Agree(Spend(l, t), a, b, past \cup {t})
<1>1. PICK m \in LedgerState : Leads(l, a, past, m) /\ Leads(l, b, past, m)
  BY DEF Agree
<1>2. Range(a) \ past = Range(b) \ past
  BY DEF Agree
<1>3. (t \in Range(a)) = (t \in Range(b))
  BY <1>2
<1> DEFINE o == IF t \in Range(a) THEN m ELSE Spend(m, t)
<1>4. o \in LedgerState /\ o = IF t \in Range(b) THEN m ELSE Spend(m, t)
  BY <1>1, <1>3, SpendType
<1> HIDE DEF o
<1>5. Leads(Spend(l, t), a, past \cup {t}, o)
  BY <1>1, LeadsSpend DEF o
<1>6. Leads(Spend(l, t), b, past \cup {t}, o)
  BY <1>1, <1>4, LeadsSpend
<1>7. Range(a) \ (past \cup {t}) = Range(b) \ (past \cup {t})
  BY <1>2
<1>8. QED BY <1>4, <1>5, <1>6, <1>7 DEF Agree

(* ... and when a coinbase is paid.                                        *)
LEMMA AgreeCredit ==
  ASSUME NEW l \in LedgerState, NEW a \in Seq(TxId), NEW b \in Seq(TxId), NEW past,
         Agree(l, a, b, past), NEW c \in Coin
  PROVE  Agree(Credit(l, c), a, b, past)
<1>1. PICK m \in LedgerState : Leads(l, a, past, m) /\ Leads(l, b, past, m)
  BY DEF Agree
<1>2. Leads(Credit(l, c), a, past, Credit(m, c)) /\ Leads(Credit(l, c), b, past, Credit(m, c))
  BY <1>1, LeadsCredit
<1>3. Credit(m, c) \in LedgerState
  BY <1>1, CreditType
<1>4. QED BY <1>2, <1>3 DEF Agree

(* So they agree after a whole block, once its transactions are past.      *)
LEMMA AgreeBlock ==
  ASSUME NoConflict, NEW l \in LedgerState, NEW a \in Seq(TxId), NEW b \in Seq(TxId), NEW past,
         Agree(l, a, b, past), UsedUp(l, past), NEW blk \in Block, Applies(l, blk)
  PROVE  Agree(ApplyBlock(l, blk), a, b, past \cup Range(Txs[blk]))
<1> DEFINE txs == Txs[blk]
           n == Len(txs)
           Past(k) == past \cup {txs[i] : i \in 1..k}
<1>1. /\ txs \in Seq(TxId) /\ n \in Nat /\ (\A i \in 1..n : txs[i] \in TxId)
      /\ Range(txs) = {txs[i] : i \in 1..n} /\ Coinbases[blk] \in Seq(Coin)
  <2>1. txs \in Seq(TxId) /\ Coinbases[blk] \in Seq(Coin)
    BY BlockAssumption, LedgerAssumption DEF Coin
  <2> HIDE DEF txs
  <2>2. QED BY <2>1, LenProperties, ElementOfSeq, RangeEquality
<1>2. RunTxs(l, txs).ok
  BY DEF Applies
<1>3. PICK f \in [0..n -> LedgerState] :
           /\ f[0] = l /\ f[n] = RunTxs(l, txs).ledger
           /\ \A k \in 1..n : f[k] = Spend(f[k - 1], txs[k]) /\ FitsTx(f[k - 1], txs[k])
  <2> HIDE DEF txs
  <2>1. QED BY <1>1, <1>2, RunTxsSpends
<1>4. ApplyBlock(l, blk) = CreditAll(f[n], Coinbases[blk])
  BY <1>3, FoldNames
<1> HIDE DEF txs, n
<1> DEFINE T == {k \in 0..n : Agree(f[k], a, b, Past(k)) /\ UsedUp(f[k], Past(k))}
<1>5. 0 \in T
  <2>1. Past(0) = past
    OBVIOUS
  <2> HIDE DEF Past
  <2>2. QED BY <1>1, <1>3, <2>1
<1>6. \A k \in 0..n : k \in T /\ k < n => k + 1 \in T
  <2>1. TAKE k \in 0..n
  <2>2. ASSUME k \in T, k < n PROVE k + 1 \in T
    <3> DEFINE t == txs[k + 1]
               r == f[k]
    <3>1. k + 1 \in 1..n /\ (k + 1) - 1 = k /\ r \in LedgerState /\ t \in TxId
      BY <1>1, <2>2
    <3>2. f[k + 1] = Spend(r, t) /\ FitsTx(r, t)
      BY <1>3, <3>1
    <3>3. Past(k + 1) = Past(k) \cup {t}
      <4>1. 1..k + 1 = (1..k) \cup {k + 1}
        OBVIOUS
      <4>2. QED BY <4>1
    <3>4. Agree(r, a, b, Past(k)) /\ UsedUp(r, Past(k))
      BY <2>2
    <3> HIDE DEF Past, r, t
    <3>5. TxFrom[t] \in Account /\ TxNonce[t] \in Nat /\ r.nonce[TxFrom[t]] \in Nat
          /\ TxNonce[t] = r.nonce[TxFrom[t]]
      BY <3>1, <3>2, LedgerAssumption DEF LedgerState, FitsTx, ValidTx
    <3>6. t \notin Past(k)
      BY <3>4, <3>5 DEF UsedUp
    <3>7. Agree(Spend(r, t), a, b, Past(k) \cup {t})
      BY <3>1, <3>2, <3>4, <3>6, AgreeSpend
    <3>8. UsedUp(Spend(r, t), Past(k) \cup {t})
      <4>1. ASSUME NEW u \in Past(k) PROVE u \in TxId /\ TxNonce[u] < Spend(r, t).nonce[TxFrom[u]]
        <5>1. u \in TxId /\ TxNonce[u] < r.nonce[TxFrom[u]] /\ TxFrom[u] \in Account
          BY <3>4, LedgerAssumption DEF UsedUp
        <5>2. r.nonce[TxFrom[u]] <= Spend(r, t).nonce[TxFrom[u]]
          BY <3>1, <5>1, SpendNonces
        <5>3. TxNonce[u] \in Nat /\ r.nonce[TxFrom[u]] \in Nat
              /\ Spend(r, t).nonce[TxFrom[u]] \in Nat
          <6>1. Spend(r, t) \in LedgerState
            BY <3>1, SpendType
          <6>2. QED BY <3>1, <5>1, <6>1, LedgerAssumption DEF LedgerState
        <5>4. QED BY <5>1, <5>2, <5>3
      <4>2. Spend(r, t).nonce[TxFrom[t]] = r.nonce[TxFrom[t]] + 1
        BY <3>1, SpendNonces
      <4>3. TxNonce[t] < Spend(r, t).nonce[TxFrom[t]]
        BY <3>5, <4>2
      <4>4. QED BY <3>1, <4>1, <4>3 DEF UsedUp
    <3>9. k + 1 \in 0..n
      BY <3>1
    <3>10. QED BY <3>2, <3>3, <3>7, <3>8, <3>9
  <2>3. QED BY <2>2
<1>7. n \in T
  <2>1. 0..n \subseteq T
    <3> HIDE DEF T
    <3>1. QED BY <1>1, <1>5, <1>6, SetInduction
  <2>2. QED BY <1>1, <2>1
<1>8. Agree(f[n], a, b, past \cup Range(txs)) /\ f[n] \in LedgerState
  BY <1>1, <1>3, <1>7
<1> HIDE DEF T, Past
<1> DEFINE all == past \cup Range(txs)
           R == {r \in LedgerState : Agree(r, a, b, all)}
           cs == Coinbases[blk]
           v == Len(cs)
<1>9. v \in Nat /\ \A i \in 1..v : cs[i] \in Coin
  BY <1>1, LenProperties, ElementOfSeq
<1>10. PICK e \in [0..v -> LedgerState] :
           /\ e[0] = f[n] /\ e[v] = CreditAll(f[n], cs)
           /\ \A k \in 1..v : e[k] = Credit(e[k - 1], cs[k])
  <2> HIDE DEF cs
  <2>1. cs \in Seq(Coin)
    BY <1>1 DEF cs
  <2>2. QED BY <1>8, <2>1, CreditRun
<1> HIDE DEF cs, v, all
<1>11. \A k \in 1..v : e[k - 1] \in R => e[k] \in R
  <2>1. TAKE k \in 1..v
  <2>2. k \in 0..v /\ e[k] \in LedgerState /\ e[k] = Credit(e[k - 1], cs[k]) /\ cs[k] \in Coin
    BY <1>9, <1>10
  <2>3. ASSUME e[k - 1] \in R PROVE e[k] \in R
    <3>1. e[k - 1] \in LedgerState /\ Agree(e[k - 1], a, b, all)
      BY <2>3
    <3>2. Agree(Credit(e[k - 1], cs[k]), a, b, all)
      BY <2>2, <3>1, AgreeCredit
    <3>3. QED BY <2>2, <3>2
  <2>4. QED BY <2>3
<1>12. e[0] \in R
  BY <1>8, <1>10 DEF all
<1>13. \A k \in 0..v : e[k] \in R
  <2> HIDE DEF R
  <2>1. QED BY <1>9, <1>10, <1>11, <1>12, RunStays
<1>14. e[v] \in R
  BY <1>9, <1>13
<1>15. Agree(CreditAll(f[n], cs), a, b, all)
  BY <1>10, <1>14
<1>16. ApplyBlock(l, blk) = CreditAll(f[n], cs)
  BY <1>4 DEF cs
<1>17. QED BY <1>15, <1>16 DEF all, txs

(* A list with one more transaction. *)
LEMMA LeadsAppend ==
  ASSUME NEW l \in LedgerState, NEW list \in Seq(TxId), NEW t \in TxId, NEW past, NEW m
  PROVE  Leads(l, Append(list, t), past, m) <=>
           \E o \in LedgerState : /\ Leads(l, list, past, o)
                                  /\ IF t \in past THEN m = o
                                     ELSE FitsTx(o, t) /\ m = Spend(o, t)
<1> DEFINE n == Len(list)
           s == Append(list, t)
           Next(r, u, q) == IF u \in past THEN q = r ELSE FitsTx(r, u) /\ q = Spend(r, u)
<1>1. n \in Nat /\ s \in Seq(TxId) /\ Len(s) = n + 1 /\ s[n + 1] = t
      /\ \A i \in 1..n : s[i] = list[i]
  BY LenProperties, AppendProperties
<1> HIDE DEF n, s
<1>2. ASSUME Leads(l, s, past, m)
      PROVE  \E o \in LedgerState : Leads(l, list, past, o) /\ Next(o, t, m)
  <2>1. PICK g : RunsTo(g, l, s, past, m)
    BY <1>2 DEF Leads
  <2>2. g \in [0..n + 1 -> LedgerState] /\ g[0] = l /\ g[n + 1] = m
        /\ \A k \in 1..n + 1 : Next(g[k - 1], s[k], g[k])
    BY <1>1, <2>1 DEF RunsTo
  <2> HIDE DEF Next
  <2> DEFINE h == [k \in 0..n |-> g[k]]
  <2>3. h \in [0..n -> LedgerState] /\ \A k \in 0..n : h[k] = g[k]
    BY <1>1, <2>2
  <2> HIDE DEF h
  <2>4. \A k \in 1..n : Next(h[k - 1], list[k], h[k])
    <3>1. TAKE k \in 1..n
    <3>2. k \in 0..n /\ k - 1 \in 0..n /\ k \in 1..n + 1 /\ s[k] = list[k]
      BY <1>1
    <3>3. QED BY <2>2, <2>3, <3>2
  <2>5. h[0] = l /\ h[n] = g[n] /\ g[n] \in LedgerState
    BY <1>1, <2>2, <2>3
  <2>6. Next(g[n], t, m)
    <3>1. n + 1 \in 1..n + 1 /\ (n + 1) - 1 = n
      BY <1>1
    <3>2. QED BY <1>1, <2>2, <3>1
  <2>7. RunsTo(h, l, list, past, g[n])
    BY <2>3, <2>4, <2>5 DEF RunsTo, Next, n
  <2>8. QED BY <2>5, <2>6, <2>7 DEF Leads
<1>3. ASSUME NEW o \in LedgerState, Leads(l, list, past, o), Next(o, t, m)
      PROVE  Leads(l, s, past, m)
  <2>1. PICK g : RunsTo(g, l, list, past, o)
    BY <1>3 DEF Leads
  <2>2. g \in [0..n -> LedgerState] /\ g[0] = l /\ g[n] = o
        /\ \A k \in 1..n : Next(g[k - 1], list[k], g[k])
    BY <2>1 DEF RunsTo, n
  <2>3. m \in LedgerState
    BY <1>3, SpendType
  <2> HIDE DEF Next
  <2> DEFINE h == [k \in 0..n + 1 |-> IF k = n + 1 THEN m ELSE g[k]]
  <2>4. h \in [0..n + 1 -> LedgerState] /\ h[n + 1] = m /\ \A k \in 0..n : h[k] = g[k]
    <3>1. \A k \in 0..n + 1 : k = n + 1 \/ k \in 0..n
      BY <1>1
    <3>2. n + 1 \in 0..n + 1 /\ \A k \in 0..n : k \in 0..n + 1 /\ k # n + 1
      BY <1>1
    <3>3. QED BY <2>2, <2>3, <3>1, <3>2
  <2> HIDE DEF h
  <2>5. \A k \in 1..n + 1 : Next(h[k - 1], s[k], h[k])
    <3>1. TAKE k \in 1..n + 1
    <3>2. CASE k = n + 1
      <4>1. k - 1 = n /\ n \in 0..n
        BY <1>1, <3>2
      <4>2. QED BY <1>1, <1>3, <2>2, <2>4, <3>2, <4>1
    <3>3. CASE k \in 1..n
      <4>1. k \in 0..n /\ k - 1 \in 0..n
        BY <1>1, <3>3
      <4>2. QED BY <1>1, <2>2, <2>4, <3>3, <4>1
    <3>4. QED BY <1>1, <3>2, <3>3
  <2>6. h[0] = l
    BY <1>1, <2>2, <2>4
  <2>7. RunsTo(h, l, s, past, m)
    BY <1>1, <2>4, <2>5, <2>6 DEF RunsTo, Next
  <2>8. QED BY <2>7 DEF Leads
<1>4. QED BY <1>2, <1>3 DEF s

(* What is left leads where the projection of the ledger leads, which      *)
(* passes over what is used up.                                            *)
LEMMA LeadsProject ==
  ASSUME NEW l \in LedgerState, NEW list \in Seq(TxId), NEW past, NEW m,
         Leads(l, list, past, m), UsedUp(l, past)
  PROVE  ProjectTxs(l, list) = m
<1> DEFINE n == Len(list)
<1>1. /\ n \in Nat /\ \A i \in 1..n : list[i] \in TxId
      /\ \A k \in 1..n : k \in 0..n /\ k - 1 \in 0..n
  BY LenProperties, ElementOfSeq
<1>2. PICK g \in [0..n -> LedgerState] :
        /\ g[0] = l /\ g[n] = m
        /\ \A k \in 1..n : IF list[k] \in past THEN g[k] = g[k - 1]
                           ELSE FitsTx(g[k - 1], list[k]) /\ g[k] = Spend(g[k - 1], list[k])
  BY DEF Leads, RunsTo
<1>3. PICK f \in [0..n -> LedgerState] :
           /\ f[0] = l /\ f[n] = ProjectTxs(l, list)
           /\ \A k \in 1..n : f[k] = ProjectTx(f[k - 1], list[k])
  BY ProjectRun
<1>4. ASSUME NEW a \in Account PROVE \A k \in 0..n : l.nonce[a] <= g[k].nonce[a]
  <2>1. ASSUME NEW k \in 1..n PROVE g[k - 1].nonce[a] <= g[k].nonce[a]
    <3>1. g[k - 1] \in LedgerState /\ list[k] \in TxId
      BY <1>1
    <3>2. g[k - 1].nonce[a] \in Nat
      BY <3>1 DEF LedgerState
    <3>3. g[k - 1].nonce[a] <= Spend(g[k - 1], list[k]).nonce[a]
      BY <3>1, SpendNonces
    <3>4. g[k - 1].nonce[a] <= g[k - 1].nonce[a]
      BY <3>2
    <3>5. g[k] = g[k - 1] \/ g[k] = Spend(g[k - 1], list[k])
      BY <1>2
    <3>6. QED BY <3>3, <3>4, <3>5
  <2>2. \A k \in 0..n : \A i \in 0..k : g[i].nonce[a] <= g[k].nonce[a]
    BY <1>1, <2>1, NoncesGrow
  <2>3. \A k \in 0..n : 0 \in 0..k
    BY <1>1
  <2>4. QED BY <1>2, <2>2, <2>3
<1>5. \A k \in 1..n : g[k] = ProjectTx(g[k - 1], list[k])
  <2>1. TAKE k \in 1..n
  <2> DEFINE t == list[k]
             r == g[k - 1]
  <2>2. t \in TxId /\ r \in LedgerState /\ TxFrom[t] \in Account /\ TxNonce[t] \in Nat
    BY <1>1, LedgerAssumption
  <2>3. IF t \in past THEN g[k] = r ELSE FitsTx(r, t) /\ g[k] = Spend(r, t)
    BY <1>2
  <2>4. l.nonce[TxFrom[t]] <= r.nonce[TxFrom[t]]
    BY <1>1, <1>4, <2>2
  <2> HIDE DEF t, r
  <2>5. CASE t \in past
    <3>1. TxNonce[t] < l.nonce[TxFrom[t]]
      BY <2>5 DEF UsedUp
    <3>2. l.nonce[TxFrom[t]] \in Nat /\ r.nonce[TxFrom[t]] \in Nat
      BY <2>2 DEF LedgerState
    <3>3. TxNonce[t] # r.nonce[TxFrom[t]]
      BY <2>2, <2>4, <3>1, <3>2
    <3>4. QED BY <2>3, <2>5, <3>3 DEF ProjectTx, t, r
  <2>6. CASE t \notin past
    <3>1. FitsTx(r, t) /\ g[k] = Spend(r, t)
      BY <2>3, <2>6
    <3>2. TxNonce[t] = r.nonce[TxFrom[t]] /\ r.bal[TxFrom[t]] >= TxAmount[t] + TxFee[t]
      BY <3>1, <2>2, FitsTxMeans
    <3>3. QED BY <3>1, <3>2 DEF ProjectTx, t, r
  <2>7. QED BY <2>5, <2>6
<1>6. \A k \in 1..n : f[k - 1] = g[k - 1] => f[k] = g[k]
  BY <1>3, <1>5
<1>7. f[n] = g[n]
  BY <1>1, <1>2, <1>3, <1>6, RunsAgree
<1>8. QED BY <1>2, <1>3, <1>7

(* Where nothing of a list is past, it is valid as a whole. *)
LEMMA LeadsRun ==
  ASSUME NEW l \in LedgerState, NEW list \in Seq(TxId), NEW past, NEW m,
         Leads(l, list, past, m), Range(list) \cap past = {}
  PROVE  RunTxs(l, list).ok
<1> DEFINE n == Len(list)
           start == [ok |-> TRUE, ledger |-> l]
<1>1. /\ n \in Nat /\ (\A i \in 1..n : list[i] \in TxId) /\ start \in Run
      /\ \A k \in 1..n : k \in 0..n /\ k - 1 \in 0..n
  BY LenProperties, ElementOfSeq DEF Run
<1>2. PICK g \in [0..n -> LedgerState] :
        /\ g[0] = l /\ g[n] = m
        /\ \A k \in 1..n : IF list[k] \in past THEN g[k] = g[k - 1]
                           ELSE FitsTx(g[k - 1], list[k]) /\ g[k] = Spend(g[k - 1], list[k])
  BY DEF Leads, RunsTo
<1>3. \A k \in 1..n : list[k] \notin past
  <2>1. Range(list) = {list[k] : k \in 1..n}
    BY RangeEquality
  <2>2. QED BY <2>1
<1>4. PICK f \in [0..n -> Run] :
           /\ f[0] = start /\ f[n] = RunTxs(l, list)
           /\ \A k \in 1..n : f[k] = RunTx(f[k - 1], list[k])
  <2> HIDE DEF start
  <2>1. \E f \in [0..n -> Run] :
           /\ f[0] = start /\ f[n] = RunAll(start, list)
           /\ \A k \in 1..n : f[k] = RunTx(f[k - 1], list[k])
    BY <1>1, TxRun
  <2>2. QED BY <2>1, FoldNames DEF start
<1> DEFINE T == {k \in 0..n : f[k] = [ok |-> TRUE, ledger |-> g[k]]}
<1>5. 0 \in T
  BY <1>1, <1>2, <1>4
<1>6. \A k \in 0..n : k \in T /\ k < n => k + 1 \in T
  <2>1. TAKE k \in 0..n
  <2>2. ASSUME k \in T, k < n PROVE k + 1 \in T
    <3>1. k + 1 \in 1..n /\ (k + 1) - 1 = k /\ k + 1 \in 0..n
      BY <1>1, <2>2
    <3>2. f[k] = [ok |-> TRUE, ledger |-> g[k]] /\ f[k + 1] = RunTx(f[k], list[k + 1])
      BY <1>4, <2>2, <3>1
    <3>3. FitsTx(g[k], list[k + 1]) /\ g[k + 1] = Spend(g[k], list[k + 1])
      BY <1>2, <1>3, <3>1
    <3>4. f[k + 1] = [ok |-> TRUE, ledger |-> g[k + 1]]
      BY <3>2, <3>3 DEF RunTx
    <3>5. QED BY <3>1, <3>4
  <2>3. QED BY <2>2
<1>7. 0..n \subseteq T
  <2> HIDE DEF T
  <2>1. QED BY <1>1, <1>5, <1>6, SetInduction
<1>8. f[n].ok
  BY <1>1, <1>7
<1>9. QED BY <1>4, <1>8

(* The transactions of a list of objects ... *)
LEMMA TxsInType ==
  ASSUME NEW list \in Seq(Object)
  PROVE  /\ TxsIn(list) \in Seq(TxId) /\ Len(TxsIn(list)) = Len(list)
         /\ \A i \in 1..Len(list) : TxsIn(list)[i] = list[i].tx
         /\ Range(TxsIn(list)) = {list[i].tx : i \in 1..Len(list)}
<1>1. Len(list) \in Nat /\ DOMAIN list = 1..Len(list) /\ \A i \in 1..Len(list) : list[i].tx \in TxId
  BY LenProperties, ElementOfSeq, SubmissionIsObject
<1>2. TxsIn(list) = [i \in 1..Len(list) |-> list[i].tx]
  BY <1>1 DEF TxsIn
<1>3. TxsIn(list) \in [1..Len(list) -> TxId]
  BY <1>1, <1>2
<1>4. TxsIn(list) \in Seq(TxId) /\ Len(TxsIn(list)) = Len(list)
  BY <1>1, <1>3, IsASeq, LenProperties
<1>5. QED BY <1>2, <1>4 DEF Range

(* ... and of one more object. *)
LEMMA TxsInAppend ==
  ASSUME NEW list \in Seq(Object), NEW o \in Object
  PROVE  TxsIn(Append(list, o)) = Append(TxsIn(list), o.tx)
<1> DEFINE s == Append(list, o)
           u == TxsIn(list)
           v == TxsIn(s)
           w == Append(u, o.tx)
<1>1. s \in Seq(Object) /\ Len(s) = Len(list) + 1 /\ s[Len(list) + 1] = o
      /\ Len(list) \in Nat /\ \A i \in 1..Len(list) : s[i] = list[i]
  BY LenProperties, AppendProperties
<1>2. u \in Seq(TxId) /\ Len(u) = Len(list) /\ \A i \in 1..Len(list) : u[i] = list[i].tx
  BY TxsInType
<1> HIDE DEF s, u
<1>3. v \in Seq(TxId) /\ Len(v) = Len(s) /\ \A i \in 1..Len(s) : v[i] = s[i].tx
  BY <1>1, TxsInType
<1>4. o.tx \in TxId
  BY DEF Object
<1>5. w \in Seq(TxId) /\ Len(w) = Len(u) + 1 /\ w[Len(u) + 1] = o.tx
      /\ \A i \in 1..Len(u) : w[i] = u[i]
  BY <1>2, <1>4, AppendProperties
<1> HIDE DEF v, w
<1>6. \A i \in 1..Len(v) : v[i] = w[i]
  <2>1. TAKE i \in 1..Len(v)
  <2>2. i \in 1..Len(list) \/ i = Len(list) + 1
    BY <1>1, <1>3
  <2>3. QED BY <2>2, <1>1, <1>2, <1>3, <1>5
<1>7. v = w
  BY <1>1, <1>2, <1>3, <1>5, <1>6, SeqEqual
<1>8. QED BY <1>7 DEF v, w, s, u

(* The empty list leads nowhere. *)
LEMMA LeadsEmpty ==
  ASSUME NEW l \in LedgerState, NEW past
  PROVE  Leads(l, <<>>, past, l)
<1> DEFINE g == [k \in 0..0 |-> l]
<1>1. RunsTo(g, l, <<>>, past, l)
  BY DEF RunsTo
<1>2. QED BY <1>1 DEF Leads

(* A purge drops what is past: the rest leads where the list did.          *)
LEMMA LeadsPurge ==
  ASSUME NEW l \in LedgerState, NEW list \in Seq(Object), NEW past, NEW m,
         Leads(l, TxsIn(list), past, m), NEW txs, txs \subseteq past
  PROVE  /\ Leads(l, TxsIn(Without(list, txs)), past, m)
         /\ Range(TxsIn(Without(list, txs))) \ past = Range(TxsIn(list)) \ past
<1> DEFINE n == Len(list)
           Tx(k) == {list[i].tx : i \in 1..k}
<1>1. n \in Nat /\ \A i \in 1..n : list[i] \in Object /\ list[i].tx \in TxId
  BY LenProperties, ElementOfSeq, SubmissionIsObject
<1>2. /\ TxsIn(list) \in Seq(TxId) /\ Len(TxsIn(list)) = n
      /\ \A i \in 1..n : TxsIn(list)[i] = list[i].tx
      /\ Range(TxsIn(list)) = Tx(n)
  BY TxsInType
<1>3. PICK g \in [0..n -> LedgerState] :
        /\ g[0] = l /\ g[n] = m
        /\ \A k \in 1..n : IF list[k].tx \in past THEN g[k] = g[k - 1]
                           ELSE FitsTx(g[k - 1], list[k].tx) /\ g[k] = Spend(g[k - 1], list[k].tx)
  BY <1>2 DEF Leads, RunsTo
<1>4. PICK f \in [0..n -> Seq(Object)] :
           /\ f[0] = <<>> /\ f[n] = Without(list, txs)
           /\ \A k \in 1..n :
                f[k] = IF list[k].tx \in txs THEN f[k - 1] ELSE Append(f[k - 1], list[k])
  BY WithoutRun
<1> DEFINE T == {k \in 0..n : /\ Leads(l, TxsIn(f[k]), past, g[k])
                              /\ Range(TxsIn(f[k])) \ past = Tx(k) \ past}
<1>5. 0 \in T
  <2>1. TxsIn(<<>>) = <<>> /\ Range(<<>>) = {} /\ Tx(0) = {}
    BY DEF TxsIn, Range
  <2>2. Leads(l, <<>>, past, l)
    BY LeadsEmpty
  <2> HIDE DEF Tx
  <2>3. QED BY <1>1, <1>3, <1>4, <2>1, <2>2
<1>6. \A k \in 0..n : k \in T /\ k < n => k + 1 \in T
  <2>1. TAKE k \in 0..n
  <2>2. ASSUME k \in T, k < n PROVE k + 1 \in T
    <3> DEFINE o == list[k + 1]
               s == f[k]
               r == g[k]
    <3>1. k + 1 \in 1..n /\ (k + 1) - 1 = k /\ k + 1 \in 0..n /\ o \in Object /\ o.tx \in TxId
          /\ s \in Seq(Object) /\ r \in LedgerState
      BY <1>1, <2>2
    <3>2. f[k + 1] = IF o.tx \in txs THEN s ELSE Append(s, o)
      BY <1>4, <3>1
    <3>3. IF o.tx \in past THEN g[k + 1] = r
          ELSE FitsTx(r, o.tx) /\ g[k + 1] = Spend(r, o.tx)
      BY <1>3, <3>1
    <3>4. Tx(k + 1) = Tx(k) \cup {o.tx}
      <4>1. 1..k + 1 = (1..k) \cup {k + 1}
        OBVIOUS
      <4>2. QED BY <4>1
    <3>5. Leads(l, TxsIn(s), past, r) /\ Range(TxsIn(s)) \ past = Tx(k) \ past
      BY <2>2
    <3> HIDE DEF o, s, r, Tx
    <3>6. CASE o.tx \in txs
      <4>1. g[k + 1] = r /\ f[k + 1] = s
        BY <3>2, <3>3, <3>6
      <4>2. Range(TxsIn(s)) \ past = Tx(k + 1) \ past
        BY <3>4, <3>5, <3>6
      <4>3. QED BY <3>1, <3>5, <4>1, <4>2
    <3>7. CASE o.tx \notin txs
      <4>1. f[k + 1] = Append(s, o) /\ TxsIn(Append(s, o)) = Append(TxsIn(s), o.tx)
        BY <3>1, <3>2, <3>7, TxsInAppend
      <4>2. TxsIn(s) \in Seq(TxId)
        BY <3>1, TxsInType
      <4>3. Leads(l, Append(TxsIn(s), o.tx), past, g[k + 1])
        BY <3>1, <3>3, <3>5, <4>2, LeadsAppend
      <4>4. Range(Append(TxsIn(s), o.tx)) = Range(TxsIn(s)) \cup {o.tx}
        BY <3>1, <4>2, RangeAppend
      <4>5. Range(TxsIn(f[k + 1])) \ past = Tx(k + 1) \ past
        BY <3>4, <3>5, <4>1, <4>4
      <4>6. QED BY <3>1, <4>1, <4>3, <4>5
    <3>8. QED BY <3>6, <3>7
  <2>3. QED BY <2>2
<1>7. n \in T
  <2>1. 0..n \subseteq T
    <3> HIDE DEF T
    <3>1. QED BY <1>1, <1>5, <1>6, SetInduction
  <2>2. QED BY <1>1, <2>1
<1>8. QED BY <1>2, <1>3, <1>4, <1>7

(* A list that leads somewhere agrees with itself. *)
LEMMA AgreeItself ==
  ASSUME NEW l, NEW list \in Seq(TxId), NEW past
  PROVE  Agree(l, list, list, past) <=> \E m : Leads(l, list, past, m)
<1>1. \A m : Leads(l, list, past, m) => m \in LedgerState
  BY LeadsType
<1>2. QED BY <1>1 DEF Agree

(* What the ledger has applied. *)
Past == ConfirmedIn(Applied)

(* The accepted list has room: its limit has not been reached.             *)
RoomLeft == Len(ok) < MaxItems

(* As long as no block was rolled back: the accepted list, without what    *)
(* the ledger has applied of it already, is valid in its order; the copy   *)
(* that the worker decides on agrees with it, whatever was purged since;   *)
(* and what the worker has accepted, and not recorded yet, will be valid   *)
(* at its end.                                                             *)
TemplateFits ==
  ~reorged =>
    /\ Agree(state, TxsIn(ok), TxsIn(ok), Past)
    /\ worker.at = "copied" => Agree(state, worker.accepted, TxsIn(ok), Past)
    /\ worker.at = "decided" /\ worker.verdict = "ok" =>
         Agree(state, Append(TxsIn(ok), worker.obj.tx), Append(TxsIn(ok), worker.obj.tx), Past)

(* What is used in the lemmas on its steps. *)
LEMMA FitsTypes ==
  ASSUME MempoolInv
  PROVE  /\ ok \in Seq(Object) /\ TxsIn(ok) \in Seq(TxId) /\ state \in LedgerState
         /\ worker.at \in {"taken", "copied", "decided"} =>
              worker.obj \in Object /\ worker.obj.tx \in TxId
         /\ worker.at = "copied" => worker.accepted \in Seq(TxId)
<1>1. ok \in Seq(Object) /\ state \in LedgerState /\ WorkerType
  BY DEF MempoolInv, MempoolTypes
<1>2. TxsIn(ok) \in Seq(TxId)
  BY <1>1, TxsInType
<1>3. /\ worker.at \in {"taken", "copied", "decided"} => worker.obj \in Object
      /\ worker.at = "copied" => worker.accepted \in Seq(TxId)
  BY <1>1 DEF WorkerType, Free
<1>4. QED BY <1>1, <1>2, <1>3, SubmissionIsObject

(* On a chain that only grew, the paths meet. *)
LEMMA CalmPaths ==
  ASSUME MempoolInv, ~reorged
  PROVE  MempoolTypes /\ PathsMeet /\ state = Rebuild(Applied) /\ ToUndo = <<>>
  BY DEF MempoolInv, MempoolTypes, LedgerIsApplied, GrowsCalmly

(* ... and what is applied is used up. *)
LEMMA PastIsUsedUp ==
  ASSUME BlocksApply, MempoolInv, ~reorged
  PROVE  UsedUp(state, Past)
<1> DEFINE p == Len(Peak)
           k == Level
           a == IF reactor.at = "purge" THEN k + 1 ELSE k
<1>1. MempoolTypes /\ PathsMeet /\ state = Rebuild(Applied)
  BY CalmPaths
<1>2. /\ k \in 0..p /\ p \in Nat /\ k = p - Len(Doing)
      /\ reactor.at = "purge" => Len(Doing) \in Nat \ {0}
  BY <1>1, PeakIsChain, PathTypes
<1>3. a \in 0..p
  <2> DEFINE d == Len(Doing)
  <2> HIDE DEF d, p, k
  <2>1. QED BY <1>2 DEF d
<1>4. Applied = SubSeq(Peak, 1, a)
  BY DEF Applied
<1> HIDE DEF a
<1>5. ASSUME NEW t \in Past PROVE t \in TxId /\ TxNonce[t] < state.nonce[TxFrom[t]]
  <2>1. t \in ConfirmedIn(SubSeq(Peak, 1, a))
    BY <1>4 DEF Past
  <2>2. t \in TxId
    BY <1>1, <1>3, <2>1, PeakReplays
  <2>3. QED BY <1>1, <1>3, <1>4, <2>1, <2>2, PeakReplays
<1>6. QED BY <1>5 DEF UsedUp

(* A block is applied: the lists lose what it holds, and still agree.      *)
LEMMA FitsApply ==
  ASSUME BlocksApply, NoMinerPays, NoConflict, MempoolInv, TemplateFits, ~reorged, ApplyNext
  PROVE  TemplateFits'
<1> DEFINE k == Level + 1
           b == Peak[k]
<1>1. /\ MempoolTypes /\ PathsMeet /\ state = Rebuild(Applied)
      /\ ok \in Seq(Object) /\ TxsIn(ok) \in Seq(TxId) /\ state \in LedgerState
      /\ worker.at \in {"taken", "copied", "decided"} => worker.obj.tx \in TxId
      /\ worker.at = "copied" => worker.accepted \in Seq(TxId)
  BY CalmPaths, FitsTypes
<1>2. /\ k \in 1..Len(Peak)
      /\ Applied = SubSeq(Peak, 1, Level) /\ Applied' = SubSeq(Peak, 1, k)
  BY <1>1, PathsApply
<1>3. UNCHANGED <<ok, worker, reorged>>
  BY DEF ApplyNext, lists, chainVars
<1>4. Peak \in Seq(Block) /\ k - 1 = Level /\ b \in Block
  <2>1. Peak \in Seq(Block) /\ k - 1 = Level
    BY <1>1, PeakIsChain
  <2> HIDE DEF k
  <2>2. QED BY <1>2, <2>1, ElementOfSeq
<1> HIDE DEF k
<1>5. Past' = Past \cup Range(Txs[b])
  <2>1. ConfirmedIn(SubSeq(Peak, 1, k)) =
          ConfirmedIn(SubSeq(Peak, 1, k - 1)) \cup Range(Txs[Peak[k]])
    BY <1>2, <1>4, ConfirmedBeginning
  <2>2. QED BY <1>2, <1>4, <2>1 DEF Past
<1>6. Applies(state, b) /\ state' = ApplyBlock(state, b)
  <2>1. LedgerIsApplied'
    BY <1>1, LedgerApply DEF LedgerIsApplied
  <2>2. Rebuild(SubSeq(Peak, 1, k)) = ApplyBlock(Rebuild(SubSeq(Peak, 1, k - 1)), Peak[k])
        /\ Applies(Rebuild(SubSeq(Peak, 1, k - 1)), Peak[k])
    BY <1>1, <1>2, PeakReplays
  <2>3. QED BY <1>1, <1>2, <1>4, <2>1, <2>2 DEF LedgerIsApplied
<1>7. UsedUp(state, Past)
  BY PastIsUsedUp
<1> HIDE DEF b
<1>8. ASSUME NEW s \in Seq(TxId), NEW u \in Seq(TxId), Agree(state, s, u, Past)
      PROVE  Agree(state', s, u, Past')
  BY <1>1, <1>2, <1>4, <1>5, <1>6, <1>7, <1>8, AgreeBlock
<1>9. Agree(state', TxsIn(ok), TxsIn(ok), Past')
  BY <1>1, <1>8 DEF TemplateFits
<1>10. worker.at = "copied" => Agree(state', worker.accepted, TxsIn(ok), Past')
  BY <1>1, <1>8 DEF TemplateFits
<1>11. ASSUME worker.at = "decided", worker.verdict = "ok"
       PROVE  Agree(state', Append(TxsIn(ok), worker.obj.tx), Append(TxsIn(ok), worker.obj.tx), Past')
  <2>1. Append(TxsIn(ok), worker.obj.tx) \in Seq(TxId)
    BY <1>1, <1>11, AppendProperties
  <2>2. QED BY <1>8, <1>11, <2>1 DEF TemplateFits
<1>12. QED BY <1>3, <1>9, <1>10, <1>11 DEF TemplateFits

(* It is purged: the same lists without what is past.                      *)
LEMMA FitsPurge ==
  ASSUME MempoolInv, TemplateFits, ~reorged, Purge
  PROVE  TemplateFits'
<1> DEFINE txs == Range(Txs[Head(reactor.todo)])
           u == TxsIn(ok)
           v == TxsIn(ok')
           t == worker.obj.tx
<1>1. /\ MempoolTypes /\ PathsMeet
      /\ ok \in Seq(Object) /\ u \in Seq(TxId) /\ state \in LedgerState
      /\ worker.at \in {"taken", "copied", "decided"} => t \in TxId
      /\ worker.at = "copied" => worker.accepted \in Seq(TxId)
  BY CalmPaths, FitsTypes
<1>2. ok' = Without(ok, txs) /\ UNCHANGED <<worker, state, reorged>>
  BY DEF Purge, chainVars
<1>3. Past' = Past /\ txs \subseteq Past
  <2> DEFINE k == Level + 1
  <2>1. /\ k \in 1..Len(Peak) /\ Head(reactor.todo) = Peak[k]
        /\ Applied = SubSeq(Peak, 1, k) /\ Applied' = Applied
    BY <1>1, PathsPurge
  <2>2. Peak \in Seq(Block)
    BY <1>1, PeakIsChain
  <2> HIDE DEF k
  <2>3. ConfirmedIn(SubSeq(Peak, 1, k)) =
          ConfirmedIn(SubSeq(Peak, 1, k - 1)) \cup Range(Txs[Peak[k]])
    BY <2>1, <2>2, ConfirmedBeginning
  <2>4. QED BY <2>1, <2>3 DEF Past
<1>4. v \in Seq(TxId)
  <2>1. ok' \in Seq(Object)
    BY <1>1, PurgeEffect
  <2>2. QED BY <2>1, TxsInType
<1> HIDE DEF txs
<1>5. ASSUME NEW m, Leads(state, u, Past, m)
      PROVE  Leads(state, v, Past, m) /\ Range(v) \ Past = Range(u) \ Past
  BY <1>1, <1>2, <1>3, <1>5, LeadsPurge
<1> HIDE DEF u, v, t
<1>6. Agree(state, v, v, Past)
  <2>1. Agree(state, u, u, Past)
    BY DEF TemplateFits, u
  <2>2. PICK m : Leads(state, u, Past, m)
    BY <2>1 DEF Agree
  <2>3. QED BY <1>4, <1>5, <2>2, AgreeItself
<1>7. ASSUME worker.at = "copied" PROVE Agree(state, worker.accepted, v, Past)
  <2>1. Agree(state, worker.accepted, u, Past)
    BY <1>7 DEF TemplateFits, u
  <2>2. PICK m \in LedgerState : Leads(state, worker.accepted, Past, m) /\ Leads(state, u, Past, m)
    BY <2>1 DEF Agree
  <2>3. Range(worker.accepted) \ Past = Range(v) \ Past
    BY <1>5, <2>1, <2>2 DEF Agree
  <2>4. QED BY <1>5, <2>2, <2>3 DEF Agree
<1>8. ASSUME worker.at = "decided", worker.verdict = "ok"
      PROVE  Agree(state, Append(v, t), Append(v, t), Past)
  <2>1. t \in TxId
    BY <1>1, <1>8
  <2>2. Agree(state, Append(u, t), Append(u, t), Past)
    BY <1>8 DEF TemplateFits, u, t
  <2>3. PICK m : Leads(state, Append(u, t), Past, m)
    BY <2>2 DEF Agree
  <2>4. PICK o \in LedgerState : /\ Leads(state, u, Past, o)
                                 /\ IF t \in Past THEN m = o ELSE FitsTx(o, t) /\ m = Spend(o, t)
    BY <1>1, <2>1, <2>3, LeadsAppend
  <2>5. Leads(state, v, Past, o)
    BY <1>5, <2>4
  <2>6. Leads(state, Append(v, t), Past, m)
    BY <1>1, <1>4, <2>1, <2>4, <2>5, LeadsAppend
  <2>7. Append(v, t) \in Seq(TxId)
    BY <1>4, <2>1, AppendProperties
  <2>8. QED BY <2>6, <2>7, AgreeItself
<1>9. QED BY <1>2, <1>3, <1>6, <1>7, <1>8 DEF TemplateFits, v, t

(* The worker decides on its copy, of which it knows what it knows of the  *)
(* list; what it accepts will be valid at the end of the list.             *)
LEMMA FitsWorker ==
  ASSUME BlocksApply, MempoolInv, TemplateFits, ~reorged, RoomLeft, Worker
  PROVE  TemplateFits'
<1> DEFINE u == TxsIn(ok)
           t == worker.obj.tx
<1>1. /\ MempoolTypes /\ PathsMeet
      /\ ok \in Seq(Object) /\ u \in Seq(TxId) /\ state \in LedgerState
      /\ worker.at \in {"taken", "copied", "decided"} => worker.obj \in Object /\ t \in TxId
      /\ worker.at = "copied" => worker.accepted \in Seq(TxId)
  BY CalmPaths, FitsTypes
<1>2. UNCHANGED <<state, reactor, chainVars>>
  BY DEF Worker, Take, CopyOk, Decide, Record
<1>3. Past' = Past
  BY <1>1, <1>2, PathsStay DEF Past
<1>4. Agree(state, u, u, Past)
  BY DEF TemplateFits
<1>10. reorged' = reorged
  BY <1>2 DEF chainVars
<1> HIDE DEF u
<1>5. CASE Take
  <2>1. ok' = ok /\ worker'.at = "taken"
    BY <1>5 DEF Take, lists
  <2>2. QED BY <1>2, <1>3, <1>4, <2>1 DEF TemplateFits, u
<1>6. CASE CopyOk
  <2>1. /\ ok' = ok
        /\ worker' = IF TxPrecheck(worker.obj.tx)
                     THEN [at |-> "copied", obj |-> worker.obj, accepted |-> TxsIn(ok)]
                     ELSE [at |-> "decided", obj |-> worker.obj, verdict |-> "invalid"]
    BY <1>6 DEF CopyOk, lists
  <2>2. /\ worker'.at = "copied" => worker'.accepted = u
        /\ worker'.at = "decided" => worker'.verdict = "invalid"
    BY <2>1 DEF u
  <2>3. QED BY <1>2, <1>3, <1>4, <2>1, <2>2 DEF TemplateFits, u
<1>7. CASE Decide
  <2>1. /\ ok' = ok /\ worker.at = "copied"
        /\ worker'.at = "decided" /\ worker'.obj = worker.obj
        /\ worker'.verdict = "ok" => FitsTx(ProjectTxs(state, worker.accepted), t)
    BY <1>7 DEF Decide, lists
  <2>2. Agree(state, worker.accepted, u, Past)
    BY <2>1 DEF TemplateFits, u
  <2>3. PICK m \in LedgerState : Leads(state, worker.accepted, Past, m) /\ Leads(state, u, Past, m)
    BY <2>2 DEF Agree
  <2>4. ProjectTxs(state, worker.accepted) = m
    BY <1>1, <2>1, <2>3, PastIsUsedUp, LeadsProject
  <2>5. ASSUME FitsTx(m, t) PROVE Agree(state, Append(u, t), Append(u, t), Past)
    <3> DEFINE o == IF t \in Past THEN m ELSE Spend(m, t)
    <3>1. t \in TxId
      BY <1>1, <2>1
    <3> HIDE DEF t
    <3>2. Leads(state, Append(u, t), Past, o)
      BY <1>1, <2>3, <2>5, <3>1, LeadsAppend
    <3>3. Append(u, t) \in Seq(TxId)
      BY <1>1, <3>1, AppendProperties
    <3> HIDE DEF o
    <3>4. QED BY <3>2, <3>3, AgreeItself
  <2>6. worker'.at = "decided" /\ worker'.obj = worker.obj
        /\ (worker'.verdict = "ok" => FitsTx(m, t))
    BY <2>1, <2>4
  <2>7. QED BY <1>2, <1>3, <1>4, <2>1, <2>5, <2>6 DEF TemplateFits, u
<1>8. CASE Record
  <2>1. /\ worker.at = "decided" /\ worker' = Free
        /\ \/ ok' = ok
           \/ worker.verdict = "ok" /\ ok' = Trim(Append(ok, worker.obj))
    BY <1>1, <1>8, RecordEffect
  <2>2. worker'.at = "free"
    BY <2>1 DEF Free
  <2>3. CASE ok' = ok
    BY <1>2, <1>3, <1>4, <2>2, <2>3 DEF TemplateFits, u
  <2>4. CASE worker.verdict = "ok" /\ ok' = Trim(Append(ok, worker.obj))
    <3> DEFINE s == Append(ok, worker.obj)
    <3>1. worker.obj \in Object
      BY <1>1, <2>1
    <3>2. s \in Seq(Object) /\ Len(s) = Len(ok) + 1 /\ Len(ok) \in Nat
      BY <1>1, <3>1, LenProperties, AppendProperties
    <3>3. TxsIn(s) = Append(u, t)
      BY <1>1, <3>1, TxsInAppend DEF u
    <3> HIDE DEF s
    <3>4. ~(Len(s) > MaxItems)
      BY <3>2, MempoolAssumption DEF RoomLeft
    <3>5. Trim(s) = SubSeq(s, 1, Len(s))
      BY <3>4 DEF Trim
    <3>6. ok' = s
      BY <2>4, <3>2, <3>5, SubSeqFull DEF s
    <3>7. Agree(state, Append(u, t), Append(u, t), Past)
      BY <2>1, <2>4 DEF TemplateFits, u
    <3>8. QED BY <1>2, <1>3, <2>2, <3>3, <3>6, <3>7 DEF TemplateFits
  <2>5. QED BY <2>1, <2>3, <2>4
<1>9. QED BY <1>5, <1>6, <1>7, <1>8 DEF Worker

(* It holds at the start, where the list is empty ... *)
LEMMA FitsInit == MempoolInit => TemplateFits
<1> SUFFICES ASSUME MempoolInit PROVE TemplateFits
  OBVIOUS
<1>1. ok = <<>> /\ worker = Free /\ state \in LedgerState
  BY TypesInit DEF MempoolInit, MempoolTypes
<1>2. TxsIn(<<>>) = <<>>
  BY DEF TxsIn
<1>3. Leads(state, <<>>, Past, state)
  BY <1>1, LeadsEmpty
<1>4. <<>> \in Seq(TxId)
  OBVIOUS
<1>5. Agree(state, <<>>, <<>>, Past)
  BY <1>3, <1>4, AgreeItself
<1>6. QED BY <1>1, <1>2, <1>5 DEF TemplateFits, Free

(* ... and every step keeps it, as long as the list has room.              *)
LEMMA FitsStep ==
  ASSUME BlocksApply, NoMinerPays, NoConflict, MempoolInv, TemplateFits, RoomLeft,
         [MempoolNext]_mempoolVars
  PROVE  TemplateFits'
<1>1. CASE reorged'
  BY <1>1 DEF TemplateFits
<1>2. CASE ~reorged'
  <2>1. ~reorged
    BY <1>2 DEF MempoolNext, Submit, Put, Worker, Take, CopyOk, Decide, Record, Reactor,
                RollBack, Forget, Readd, Reput, RequeueDone, ApplyNext, Purge, DrainRemoved,
                DrainEntered, Validator, AcceptEnd, Publish, Reorganise, mempoolVars, chainVars
  <2>2. MempoolTypes /\ PathsMeet /\ ToUndo = <<>> /\ reactor.at \in {"undo", "apply", "purge"}
    BY <2>1, CalmPaths DEF MempoolInv, GrowsCalmly
  <2>3. ASSUME UNCHANGED <<ok, worker, state>>, Applied' = Applied PROVE TemplateFits'
    <3>1. Past' = Past
      BY <2>3 DEF Past
    <3>2. QED BY <2>1, <2>3, <3>1 DEF TemplateFits
  <2>4. ASSUME UNCHANGED <<ok, worker, state, reactor, chainVars>> PROVE TemplateFits'
    <3>1. Applied' = Applied
      BY <2>2, <2>4, PathsStay
    <3>2. QED BY <2>3, <2>4, <3>1
  <2>5. CASE UNCHANGED mempoolVars
    BY <2>4, <2>5 DEF mempoolVars, lists
  <2>6. ASSUME NEW o \in Submission, Submit(o) PROVE TemplateFits'
    BY <2>4, <2>6 DEF Submit
  <2>7. ASSUME NEW o \in putting, Put(o) PROVE TemplateFits'
    BY <2>4, <2>7 DEF Put
  <2>8. CASE Worker
    BY <2>1, <2>8, FitsWorker
  <2>9. ASSUME NEW b \in Block, Reorganise(b) PROVE TemplateFits'
    <3>1. ~tangled'
      <4>1. MempoolTypes'
        BY <2>2, <2>9, TypesReorganise
      <4>2. QED BY <1>2, <4>1 DEF MempoolTypes
    <3>2. Applied' = Applied
      BY <2>2, <2>9, <3>1, PathsReorganise
    <3>3. UNCHANGED <<ok, worker, state>>
      BY <2>9 DEF Reorganise, lists
    <3>4. QED BY <2>3, <3>2, <3>3
  <2>10. CASE Validator \/ DrainRemoved \/ DrainEntered
    <3>1. Applied' = Applied
      BY <2>2, <2>10, PathsStay, PathsDrain
    <3>2. UNCHANGED <<ok, worker, state>>
      BY <2>10 DEF Validator, AcceptEnd, Publish, DrainRemoved, DrainEntered, lists
    <3>3. QED BY <2>3, <3>1, <3>2
  <2>11. CASE RollBack \/ Forget \/ Readd \/ Reput \/ RequeueDone
    <3>1. CASE RollBack
      BY <2>2, <3>1, PathsRollBack
    <3>2. CASE Forget \/ Readd \/ Reput
      BY <2>2, <3>2 DEF Forget, Readd, Reput
    <3>3. CASE RequeueDone
      BY <2>2, <3>3 DEF RequeueDone
    <3>4. QED BY <2>11, <3>1, <3>2, <3>3
  <2>12. CASE ApplyNext
    BY <2>1, <2>12, FitsApply
  <2>13. CASE Purge
    BY <2>1, <2>13, FitsPurge
  <2>14. QED BY <2>5, <2>6, <2>7, <2>8, <2>9, <2>10, <2>11, <2>12, <2>13
             DEF MempoolNext, Reactor
<1>3. QED BY <1>1, <1>2

(* As long as no block was rolled back and the accepted list has room, the *)
(* block that the miner makes of the accepted list will be valid, for      *)
(* every interleaving of submissions, verdicts, blocks and purges.         *)
THEOREM TemplateValidOnTrunkHolds ==
  BlocksApply /\ NoMinerPays => (MempoolSpec /\ []RoomLeft => []TemplateValidOnTrunk)
<1>1. SUFFICES ASSUME BlocksApply, NoMinerPays, NoConflict
               PROVE  MempoolSpec /\ []RoomLeft => []TemplateValidOnTrunk
  <2>1. ASSUME ~NoConflict
        PROVE  MempoolSpec /\ []RoomLeft => []TemplateValidOnTrunk
    <3>1. TemplateValidOnTrunk
      BY <2>1 DEF TemplateValidOnTrunk
    <3>2. QED BY <3>1, PTL
  <2>2. QED BY <1>1, <2>1
<1>2. MempoolInv /\ TemplateFits /\ RoomLeft /\ [MempoolNext]_mempoolVars => TemplateFits'
  BY <1>1, FitsStep
<1>3. MempoolSpec => []MempoolInv
  BY <1>1, MempoolInvariant
<1>4. MempoolInv /\ TemplateFits => TemplateValidOnTrunk
  <2> SUFFICES ASSUME MempoolInv, TemplateFits, reactor = Rest, ~reorged
               PROVE  RunTxs(state, TxsIn(ok)).ok
    BY DEF TemplateValidOnTrunk
  <2>1. ok \in Seq(Object) /\ TxsIn(ok) \in Seq(TxId) /\ state \in LedgerState
    BY FitsTypes
  <2>2. Agree(state, TxsIn(ok), TxsIn(ok), Past)
    BY DEF TemplateFits
  <2>3. PICK m : Leads(state, TxsIn(ok), Past, m)
    BY <2>2 DEF Agree
  <2>4. Past = ConfirmedIn(Purged)
    BY DEF Past, Applied, Purged, Rest, Turn
  <2>5. Range(TxsIn(ok)) \cap Past = {}
    <3>1. ~tangled
      BY DEF MempoolInv, MempoolTypes
    <3>2. \A o \in Items(ok) : o.tx \notin Past
      BY <2>4, <3>1 DEF MempoolInv, NothingConfirmed
    <3>3. QED BY <2>1, <3>2, TxsOfItems
  <2>6. QED BY <2>1, <2>3, <2>5, LeadsRun
<1>5. QED BY <1>2, <1>3, <1>4, FitsInit, PTL DEF MempoolSpec
=============================================================================
