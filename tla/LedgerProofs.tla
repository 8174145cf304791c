---------------------------- MODULE LedgerProofs ----------------------------
(***************************************************************************)
(* Facts about the constants and operators that the other proofs rest on:  *)
(* induction and folds, where an ancestor stands in a lineage, how a       *)
(* lineage splits there, that the ledger operations keep to ledgers and    *)
(* undo one another, and what they do to nonces along a chain.             *)
(***************************************************************************)
EXTENDS Ledger, TLAPS, SequenceTheorems, FiniteSetTheorems, WellFoundedInduction

-----------------------------------------------------------------------------
LessThan == {ss \in Nat \X Nat : ss[1] < ss[2]}

(* The order of the naturals is well founded. *)
LEMMA LessThanIsWellFounded == IsWellFoundedOn(LessThan, Nat)
  BY NatLessThanWellFounded DEF OpToRel, LessThan

(* A non-empty set of naturals has a least element. *)
LEMMA HasLeast ==
  ASSUME NEW S, S \subseteq Nat, S # {}
  PROVE  \E x \in S : \A y \in S : x <= y
<1>1. PICK x \in S : \A y \in S : <<y, x>> \notin LessThan
  BY LessThanIsWellFounded, WFMin
<1>2. \A y \in S : y \in Nat /\ x \in Nat /\ ~(y < x)
  BY <1>1 DEF LessThan
<1>3. \A y \in S : x <= y
  BY <1>2
<1>4. QED BY <1>3

(* A non-empty bounded set of naturals has a greatest element. *)
LEMMA HasGreatest ==
  ASSUME NEW S, NEW n \in Nat, S \subseteq 0..n, S # {}
  PROVE  \E x \in S : \A y \in S : y <= x
<1> DEFINE T == {n - k : k \in S}
<1>1. \A k \in S : n - k \in Nat
  OBVIOUS
<1>2. T \subseteq Nat /\ T # {}
  BY <1>1
<1>3. \E x \in T : \A y \in T : x <= y
  <2> HIDE DEF T
  <2>1. QED BY <1>2, HasLeast
<1>4. PICK k \in S : \A y \in T : n - k <= y
  BY <1>3
<1>5. \A y \in S : n - k <= n - y
  BY <1>4
<1>6. \A y \in S : y <= k
  BY <1>5, <1>1
<1>7. QED BY <1>6

(* Induction up to n, as a fact about sets of naturals. *)
LEMMA SetInduction ==
  ASSUME NEW n \in Nat, NEW S, 0 \in S, \A k \in 0..n : k \in S /\ k < n => k + 1 \in S
  PROVE  0..n \subseteq S
<1> DEFINE T == {k \in 0..n : 0..k \subseteq S}
<1>1. T \subseteq 0..n /\ 0 \in T
  OBVIOUS
<1>2. \E g \in T : \A y \in T : y <= g
  <2> HIDE DEF T
  <2>1. QED BY <1>1, HasGreatest
<1>3. PICK g \in T : \A y \in T : y <= g
  BY <1>2
<1>4. CASE g = n
  BY <1>4
<1>5. CASE g # n
  <2>1. g \in 0..n /\ g < n /\ g + 1 \in S /\ g + 1 \in 0..n
    BY <1>5
  <2>2. \A k \in 0..g + 1 : k \in S
    BY <2>1
  <2>3. g + 1 \in T
    BY <2>1, <2>2
  <2>4. QED BY <2>1, <2>3, <1>3
<1>6. QED BY <1>4, <1>5

(* The beginnings of an index set. *)
LEMMA Segments ==
  ASSUME NEW n \in Nat
  PROVE  /\ 1..0 = {} /\ 0 \in 0..n /\ n \in 0..n
         /\ \A k \in 1..n : /\ Max(1..k) = k /\ 1..k # {} /\ (1..k) \ {k} = 1..(k-1)
                            /\ 1..k \in SUBSET (1..n) /\ k \in 0..n /\ k - 1 \in 0..n
<1>1. 1..0 = {} /\ 0 \in 0..n /\ n \in 0..n
  OBVIOUS
<1>2. ASSUME NEW k \in 1..n
      PROVE  /\ Max(1..k) = k /\ 1..k # {} /\ (1..k) \ {k} = 1..(k-1)
             /\ 1..k \in SUBSET (1..n) /\ k \in 0..n /\ k - 1 \in 0..n
  <2>1. Max(1..k) = k
    BY DEF Max
  <2>2. QED BY <2>1
<1>3. QED BY <1>1, <1>2

(* Max of a set of indices is one of them. *)
LEMMA MaxInRange ==
  ASSUME NEW n \in Nat, NEW s \in SUBSET (1..n), s # {}
  PROVE  Max(s) \in s
<1>1. s \subseteq 0..n
  OBVIOUS
<1>2. \E x \in s : \A y \in s : y <= x
  BY <1>1, HasGreatest
<1>3. \E x \in s : \A y \in s : x >= y
  BY <1>2
<1>4. QED BY <1>3 DEF Max

(* it is the table of results that the fold of F over seq is computed by.  *)
IsTableOf(it, R, F, base, seq) ==
  /\ it \in [SUBSET (1..Len(seq)) -> R]
  /\ \A s \in SUBSET (1..Len(seq)) :
       it[s] = IF s = {} THEN base ELSE F[it[s \ {Max(s)}], seq[Max(s)]]

(* f is the run of F along seq from base to end. *)
IsRunOf(f, R, F, base, seq, end) ==
  /\ f \in [0..Len(seq) -> R] /\ f[0] = base /\ f[Len(seq)] = end
  /\ \A k \in 1..Len(seq) : f[k] = F[f[k - 1], seq[k]]

(* J is such a table as long as the values stay in R. *)
FollowsTable(J, R, F, base, seq) ==
  /\ J[{}] = base
  /\ \A s \in SUBSET (1..Len(seq)) :
       s # {} /\ J[s \ {Max(s)}] \in R => J[s] = F[J[s \ {Max(s)}], seq[Max(s)]]

(* Such a table exists. *)
LEMMA FoldTable ==
  ASSUME NEW R, NEW T, NEW F \in [R \X T -> R], NEW base \in R, NEW seq \in Seq(T)
  PROVE  \E it : IsTableOf(it, R, F, base, seq)
<1> DEFINE Table(n, it) ==
             /\ it \in [SUBSET (1..n) -> R]
             /\ \A s \in SUBSET (1..n) :
                  it[s] = IF s = {} THEN base ELSE F[it[s \ {Max(s)}], seq[Max(s)]]
           L == Len(seq)
           S == {n \in 0..L : \E it : Table(n, it)}
<1>1. L \in Nat /\ \A i \in 1..L : seq[i] \in T
  BY LenProperties, ElementOfSeq
<1>2. 0 \in S
  <2>1. SUBSET (1..0) = {{}}
    OBVIOUS
  <2>2. Table(0, [s \in SUBSET (1..0) |-> base])
    BY <2>1
  <2> HIDE DEF Table
  <2>3. \E it : Table(0, it)
    BY <2>2
  <2>4. QED BY <2>3, <1>1
<1>3. ASSUME NEW n \in 0..L, n < L, NEW it, Table(n, it)
      PROVE  \E kt : Table(n + 1, kt)
  <2> DEFINE m == n + 1
             jt == [s \in SUBSET (1..m) |->
                      IF m \in s THEN F[it[s \ {m}], seq[m]] ELSE it[s]]
  <2>1. it \in [SUBSET (1..n) -> R]
        /\ \A s \in SUBSET (1..n) :
             it[s] = IF s = {} THEN base ELSE F[it[s \ {Max(s)}], seq[Max(s)]]
    BY <1>3
  <2> HIDE DEF S, Table
  <2>2. m \in 1..L /\ seq[m] \in T /\ n \in Nat
    BY <1>1, <1>3
  <2>3. ASSUME NEW s \in SUBSET (1..m), m \in s
        PROVE  Max(s) = m /\ s \ {m} \in SUBSET (1..n) /\ s \ {m} \in SUBSET (1..m) /\ m \notin s \ {m}
    <3>1. \A y \in s : m >= y
      BY <2>2
    <3>2. Max(s) \in s /\ \A y \in s : Max(s) >= y
      BY <3>1, <2>3 DEF Max
    <3>3. Max(s) >= m /\ Max(s) \in 1..m
      BY <3>2, <2>3
    <3>4. Max(s) = m
      BY <3>3, <2>2
    <3>5. QED BY <3>4, <2>2
  <2>4. ASSUME NEW s \in SUBSET (1..m), m \notin s
        PROVE  s \in SUBSET (1..n)
    BY <2>4, <2>2
  <2>5. ASSUME NEW s \in SUBSET (1..n)
        PROVE  s \in SUBSET (1..m) /\ m \notin s /\ jt[s] = it[s]
    <3>1. s \in SUBSET (1..m) /\ m \notin s
      BY <2>5, <2>2
    <3>2. QED BY <3>1
  <2>6. \A s \in SUBSET (1..m) : jt[s] \in R
    <3>1. TAKE s \in SUBSET (1..m)
    <3>2. CASE m \in s
      <4>1. it[s \ {m}] \in R
        BY <2>1, <2>3, <3>2
      <4>2. F[it[s \ {m}], seq[m]] \in R
        BY <4>1, <2>2
      <4>3. QED BY <3>2, <4>2
    <3>3. CASE m \notin s
      BY <3>3, <2>1, <2>4
    <3>4. QED BY <3>2, <3>3
  <2>7. ASSUME NEW s \in SUBSET (1..m)
        PROVE  jt[s] = IF s = {} THEN base ELSE F[jt[s \ {Max(s)}], seq[Max(s)]]
    <3>1. CASE m \in s
      <4>1. Max(s) = m /\ jt[s \ {m}] = it[s \ {m}]
        BY <3>1, <2>3, <2>5
      <4>2. jt[s] = F[it[s \ {m}], seq[m]]
        BY <3>1
      <4> HIDE DEF jt
      <4>3. QED BY <4>1, <4>2, <3>1
    <3>2. CASE m \notin s /\ s # {}
      <4>1. s \in SUBSET (1..n) /\ jt[s] = it[s]
        BY <3>2, <2>4, <2>5
      <4>2. s \ {Max(s)} \in SUBSET (1..n)
        BY <4>1
      <4>3. jt[s \ {Max(s)}] = it[s \ {Max(s)}]
        BY <4>2, <2>5
      <4>4. it[s] = F[it[s \ {Max(s)}], seq[Max(s)]]
        BY <4>1, <3>2, <2>1
      <4> HIDE DEF jt
      <4>5. QED BY <4>1, <4>3, <4>4, <3>2
    <3>3. CASE s = {}
      <4>1. jt[s] = it[s] /\ it[s] = base
        BY <3>3, <2>1, <2>5
      <4>2. QED BY <4>1, <3>3
    <3>4. QED BY <3>1, <3>2, <3>3
  <2>8. Table(m, jt)
    <3> USE DEF Table
    <3>1. jt \in [SUBSET (1..m) -> R]
      BY <2>6
    <3> HIDE DEF jt
    <3>2. QED BY <3>1, <2>7
  <2> HIDE DEF jt
  <2>9. QED BY <2>8
<1>4. L \in S
  <2> HIDE DEF Table
  <2>0. \A k \in 0..L : k \in S /\ k < L => k + 1 \in S
    BY <1>1, <1>3
  <2> HIDE DEF S
  <2>1. 0..L \subseteq S
    BY <1>1, <1>2, <2>0, SetInduction
  <2>2. QED BY <2>1, <1>1
<1>5. PICK it : Table(L, it)
  BY <1>4
<1>6. QED BY <1>5 DEF IsTableOf

(* What a sequence of values keeps from each to the next holds of them all. *)
LEMMA RunStays ==
  ASSUME NEW R, NEW n \in Nat, NEW f, f[0] \in R,
         \A k \in 1..n : f[k - 1] \in R => f[k] \in R
  PROVE  \A k \in 0..n : f[k] \in R
<1> DEFINE S == {k \in 0..n : f[k] \in R}
<1>1. 0 \in S
  OBVIOUS
<1>2. \A k \in 0..n : k \in S /\ k < n => k + 1 \in S
  <2>1. TAKE k \in 0..n
  <2>2. ASSUME k \in S, k < n PROVE k + 1 \in S
    <3>1. k + 1 \in 1..n /\ (k + 1) - 1 = k
      BY <2>2
    <3>2. f[k + 1] \in R
      BY <3>1, <2>2
    <3>3. QED BY <3>1, <3>2
  <2>3. QED BY <2>2
<1>3. 0..n \subseteq S
  <2> HIDE DEF S
  <2>1. QED BY <1>1, <1>2, SetInduction
<1>4. QED BY <1>3

(* The last step of a table J of a fold, which F describes as long as the  *)
(* values stay in R, is the end of a run of F along the sequence.          *)
LEMMA TableIsRun ==
  ASSUME NEW R, NEW T, NEW F \in [R \X T -> R], NEW base \in R, NEW seq \in Seq(T),
         NEW J, FollowsTable(J, R, F, base, seq)
  PROVE  \E f : IsRunOf(f, R, F, base, seq, J[1..Len(seq)])
<1> DEFINE n == Len(seq)
           f == [k \in 0..n |-> J[1..k]]
<1>1. n \in Nat /\ \A i \in 1..n : seq[i] \in T
  BY LenProperties, ElementOfSeq
<1> HIDE DEF n
<1>0. /\ 1..0 = {} /\ 0 \in 0..n /\ n \in 0..n
      /\ \A k \in 1..n : /\ Max(1..k) = k /\ 1..k # {} /\ (1..k) \ {k} = 1..(k-1)
                         /\ 1..k \in SUBSET (1..n) /\ k \in 0..n /\ k - 1 \in 0..n
  BY <1>1, Segments
<1>2. f[0] = base /\ f[n] = J[1..n]
  <2>1. 1..0 = {} /\ 0 \in 0..n /\ n \in 0..n
    BY <1>0
  <2>2. QED BY <2>1 DEF FollowsTable
<1>3. \A k \in 1..n : f[k - 1] \in R => f[k] = F[f[k - 1], seq[k]]
  <2>1. TAKE k \in 1..n
  <2>2. /\ Max(1..k) = k /\ 1..k # {} /\ (1..k) \ {k} = 1..(k-1)
        /\ 1..k \in SUBSET (1..n) /\ k \in 0..n /\ k - 1 \in 0..n
    BY <1>0
  <2>3. J[1..(k-1)] \in R => J[1..k] = F[J[1..(k-1)], seq[k]]
    BY <2>2 DEF n, FollowsTable
  <2>4. QED BY <2>2, <2>3
<1>4. \A k \in 1..n : f[k - 1] \in R => f[k] \in R
  <2> HIDE DEF f
  <2>1. QED BY <1>1, <1>3
<1>5. \A k \in 0..n : f[k] \in R
  <2> HIDE DEF f
  <2>1. QED BY <1>1, <1>2, <1>4, RunStays
<1>6. f \in [0..n -> R]
  BY <1>5
<1>7. \A k \in 1..n : f[k] = F[f[k - 1], seq[k]]
  <2>1. \A k \in 1..n : k - 1 \in 0..n
    BY <1>0
  <2> HIDE DEF f
  <2>2. QED BY <2>1, <1>3, <1>5
<1>8. QED
  <2> HIDE DEF f
  <2>1. QED BY <1>2, <1>6, <1>7 DEF n, IsRunOf

(* A run that takes back the steps of another from its end ends where that *)
(* one began.                                                              *)
LEMMA RunsBack ==
  ASSUME NEW n \in Nat, NEW f, NEW g, g[0] = f[n],
         \A k \in 1..n : g[k - 1] = f[(n - k) + 1] => g[k] = f[n - k]
  PROVE  g[n] = f[0]
<1> DEFINE S == {k \in 0..n : g[k] = f[n - k]}
<1>1. 0 \in S
  <2>1. n - 0 = n
    OBVIOUS
  <2>2. QED BY <2>1
<1>2. \A k \in 0..n : k \in S /\ k < n => k + 1 \in S
  <2>1. TAKE k \in 0..n
  <2>2. ASSUME k \in S, k < n PROVE k + 1 \in S
    <3>1. k + 1 \in 1..n /\ (k + 1) - 1 = k /\ (n - (k + 1)) + 1 = n - k
      BY <2>2
    <3>2. g[k + 1] = f[n - (k + 1)]
      BY <3>1, <2>2
    <3>3. QED BY <3>1, <3>2
  <2>3. QED BY <2>2
<1>3. 0..n \subseteq S
  <2> HIDE DEF S
  <2>1. QED BY <1>1, <1>2, SetInduction
<1>4. n \in S /\ n - n = 0
  BY <1>3
<1>5. QED BY <1>4

(* Two runs that take the same steps agree.                                *)
LEMMA RunsAgree ==
  ASSUME NEW n \in Nat, NEW f, NEW g, f[0] = g[0],
         \A k \in 1..n : f[k - 1] = g[k - 1] => f[k] = g[k]
  PROVE  f[n] = g[n]
<1> DEFINE S == {k \in 0..n : f[k] = g[k]}
<1>1. 0 \in S
  OBVIOUS
<1>2. \A k \in 0..n : k \in S /\ k < n => k + 1 \in S
  <2>1. TAKE k \in 0..n
  <2>2. ASSUME k \in S, k < n PROVE k + 1 \in S
    <3>1. k + 1 \in 1..n /\ (k + 1) - 1 = k /\ k + 1 \in 0..n
      BY <2>2
    <3>2. f[k + 1] = g[k + 1]
      BY <3>1, <2>2
    <3>3. QED BY <3>1, <3>2
  <2>3. QED BY <2>2
<1>3. 0..n \subseteq S
  <2> HIDE DEF S
  <2>1. QED BY <1>1, <1>2, SetInduction
<1>4. n \in 0..n
  OBVIOUS
<1>5. QED BY <1>3, <1>4

(* A reversed list holds the same items from the other end. *)
LEMMA ReverseInSeq ==
  ASSUME NEW S, NEW s \in Seq(S)
  PROVE  /\ Reverse(s) \in Seq(S) /\ Len(Reverse(s)) = Len(s)
         /\ \A k \in 1..Len(s) : Reverse(s)[k] = s[(Len(s) - k) + 1]
<1>1. Len(s) \in Nat /\ \A i \in 1..Len(s) : s[i] \in S
  BY LenProperties, ElementOfSeq
<1>2. \A i \in 1..Len(s) : (Len(s) - i) + 1 \in 1..Len(s)
  BY <1>1
<1>3. QED BY <1>1, <1>2 DEF Reverse

(* A list cut after its n-th element.                                      *)
LEMMA CutList ==
  ASSUME NEW S, NEW s \in Seq(S), NEW n \in 0..Len(s)
  PROVE  LET front == SubSeq(s, 1, n)
             back == SubSeq(s, n + 1, Len(s))
         IN  /\ front \in Seq(S) /\ Len(front) = n
             /\ \A i \in 1..n : front[i] = s[i]
             /\ back \in Seq(S) /\ Len(back) = Len(s) - n
             /\ \A i \in 1..Len(s) - n : back[i] = s[n + i]
             /\ front \o back = s
<1> DEFINE m == Len(s)
           front == SubSeq(s, 1, n)
           back == SubSeq(s, n + 1, m)
<1>1. m \in Nat /\ n \in Nat /\ n <= m /\ \A i \in 1..m : s[i] \in S
  BY LenProperties, ElementOfSeq
<1>2. front \in Seq(S) /\ Len(front) = n /\ \A i \in 1..n : front[i] = s[i]
  <2>1. 1 \in Int /\ n \in Int /\ \A i \in 1..n : s[i] \in S
    BY <1>1
  <2>2. /\ front \in Seq(S) /\ Len(front) = IF 1 <= n THEN n - 1 + 1 ELSE 0
        /\ \A i \in 1..n - 1 + 1 : front[i] = s[1 + i - 1]
    BY <2>1, SubSeqProperties
  <2>3. n - 1 + 1 = n /\ (\A i \in 1..n : 1 + i - 1 = i) /\ (~(1 <= n) => n = 0)
    BY <1>1
  <2> HIDE DEF front
  <2>4. QED BY <2>2, <2>3
<1>3. back \in Seq(S) /\ Len(back) = m - n /\ \A i \in 1..m - n : back[i] = s[n + i]
  <2>1. n + 1 \in Int /\ m \in Int /\ \A i \in n + 1..m : s[i] \in S
    BY <1>1
  <2>2. /\ back \in Seq(S) /\ Len(back) = IF n + 1 <= m THEN m - (n + 1) + 1 ELSE 0
        /\ \A i \in 1..m - (n + 1) + 1 : back[i] = s[(n + 1) + i - 1]
    BY <2>1, SubSeqProperties
  <2>3. /\ m - (n + 1) + 1 = m - n
        /\ \A i \in 1..m - n : (n + 1) + i - 1 = n + i
        /\ ~(n + 1 <= m) => m - n = 0
    BY <1>1
  <2> HIDE DEF back
  <2>4. QED BY <2>2, <2>3
<1>4. front \o back = s
  <2>1. front \o back \in Seq(S) /\ Len(front \o back) = n + (m - n)
        /\ \A i \in 1..n + (m - n) : (front \o back)[i] = IF i <= n THEN front[i] ELSE back[i - n]
    <3> HIDE DEF front, back
    <3>1. /\ front \in Seq(S) /\ back \in Seq(S)
          /\ Len(front) = n /\ Len(back) = m - n
      BY <1>2, <1>3
    <3>2. /\ front \o back \in Seq(S) /\ Len(front \o back) = Len(front) + Len(back)
          /\ \A i \in 1..Len(front) + Len(back) :
               (front \o back)[i] = IF i <= Len(front) THEN front[i] ELSE back[i - Len(front)]
      BY <3>1, ConcatProperties
    <3>3. QED BY <3>1, <3>2
  <2>2. n + (m - n) = m
    BY <1>1
  <2>3. \A i \in 1..m : (front \o back)[i] = s[i]
    <3>1. TAKE i \in 1..m
    <3>2. CASE i <= n
      <4>1. i \in 1..n
        BY <3>2
      <4> HIDE DEF front, back
      <4>2. QED BY <3>2, <4>1, <2>1, <2>2, <1>2
    <3>3. CASE ~(i <= n)
      <4>1. i - n \in 1..m - n /\ n + (i - n) = i
        BY <3>3, <1>1
      <4> HIDE DEF front, back
      <4>2. QED BY <3>3, <4>1, <2>1, <2>2, <1>3
    <3>4. QED BY <3>2, <3>3
  <2> HIDE DEF front, back
  <2>4. QED BY <2>1, <2>2, <2>3, SeqEqual
<1>5. QED BY <1>2, <1>3, <1>4

(* What a list holds, and what is left of it without its first element.    *)
LEMMA RangeHeadTail ==
  ASSUME NEW S, NEW s \in Seq(S), s # <<>>
  PROVE  Range(s) = {Head(s)} \cup Range(Tail(s))
<1>1. Len(s) \in Nat \ {0} /\ Head(s) = s[1]
  BY EmptySeq, LenProperties
<1>2. /\ Tail(s) \in Seq(S) /\ Len(Tail(s)) = Len(s) - 1
      /\ \A i \in 1..Len(Tail(s)) : Tail(s)[i] = s[i + 1]
  BY HeadTailProperties
<1>3. Range(s) = {s[i] : i \in 1..Len(s)} /\ Range(Tail(s)) = {Tail(s)[i] : i \in 1..Len(Tail(s))}
  BY <1>2, RangeEquality
<1>4. ASSUME NEW i \in 1..Len(s)
      PROVE  s[i] \in {Head(s)} \cup Range(Tail(s))
  <2>1. CASE i = 1
    BY <2>1, <1>1
  <2>2. CASE i # 1
    <3>1. i - 1 \in 1..Len(Tail(s)) /\ (i - 1) + 1 = i
      BY <2>2, <1>1, <1>2
    <3>2. Tail(s)[i - 1] = s[i]
      BY <3>1, <1>2
    <3>3. QED BY <3>1, <3>2, <1>3
  <2>3. QED BY <2>1, <2>2
<1>5. Head(s) \in Range(s)
  <2>1. 1 \in 1..Len(s)
    BY <1>1
  <2>2. QED BY <2>1, <1>1, <1>3
<1>6. ASSUME NEW i \in 1..Len(Tail(s))
      PROVE  Tail(s)[i] \in Range(s)
  <2>1. i + 1 \in 1..Len(s)
    BY <1>1, <1>2
  <2>2. QED BY <2>1, <1>2, <1>3
<1>7. QED BY <1>3, <1>4, <1>5, <1>6

(* A block appended to a list joins what it holds. *)
LEMMA RangeAppend ==
  ASSUME NEW S, NEW s \in Seq(S), NEW x \in S
  PROVE  Range(Append(s, x)) = Range(s) \cup {x}
<1>1. <<x>> \in Seq(S) /\ Append(s, x) = s \o <<x>> /\ Len(<<x>>) = 1 /\ <<x>>[1] = x
  BY AppendIsConcat
<1>2. Range(<<x>>) = {<<x>>[i] : i \in 1..Len(<<x>>)}
  BY <1>1, RangeEquality
<1>3. Range(<<x>>) = {x}
  BY <1>1, <1>2
<1>4. Range(s \o <<x>>) = Range(s) \cup Range(<<x>>)
  BY <1>1, RangeConcatenation
<1>5. QED BY <1>1, <1>3, <1>4

(* What was appended to a list is read back as its end. *)
LEMMA SuffixOfConcat ==
  ASSUME NEW S, NEW s \in Seq(S), NEW t \in Seq(S)
  PROVE  SubSeq(s \o t, Len(s) + 1, Len(s \o t)) = t
<1> DEFINE c == s \o t
           m == Len(s)
           n == Len(t)
           u == SubSeq(c, m + 1, Len(c))
<1>1. m \in Nat /\ n \in Nat /\ c \in Seq(S) /\ Len(c) = m + n
      /\ \A i \in 1..m + n : c[i] = IF i <= m THEN s[i] ELSE t[i - m]
  BY LenProperties, ConcatProperties
<1>2. \A i \in m + 1..m + n : c[i] \in S
  BY <1>1, ElementOfSeq
<1>3. u \in Seq(S) /\ Len(u) = n /\ \A i \in 1..n : u[i] = c[m + i]
  <2>1. /\ u \in Seq(S) /\ Len(u) = IF m + 1 <= m + n THEN (m + n) - (m + 1) + 1 ELSE 0
        /\ \A i \in 1..(m + n) - (m + 1) + 1 : u[i] = c[((m + 1) + i) - 1]
    BY <1>1, <1>2, SubSeqProperties
  <2>2. (m + n) - (m + 1) + 1 = n /\ \A i \in 1..n : ((m + 1) + i) - 1 = m + i
    BY <1>1
  <2>3. QED BY <1>1, <2>1, <2>2
<1>4. \A i \in 1..n : u[i] = t[i]
  <2>1. TAKE i \in 1..n
  <2>2. m + i \in 1..m + n /\ ~(m + i <= m) /\ (m + i) - m = i
    BY <1>1
  <2>3. QED BY <2>2, <1>1, <1>3
<1>5. QED
  <2> HIDE DEF u
  <2>1. QED BY <1>3, <1>4, SeqEqual

-----------------------------------------------------------------------------
(* A lineage ends with its block. *)
LEMMA LineageEnds ==
  ASSUME NEW b \in Block
  PROVE  /\ Lineage[b] \in Seq(Block)
         /\ Len(Lineage[b]) \in Nat \ {0}
         /\ Lineage[b][Len(Lineage[b])] = b
<1>1. CASE b \in Root
  <2>1. Lineage[b] = <<b>>
    BY <1>1, LineageAssumption
  <2>2. <<b>> \in Seq(Block) /\ Len(<<b>>) = 1 /\ <<b>>[1] = b
    OBVIOUS
  <2>3. QED BY <2>1, <2>2
<1>2. CASE b \notin Root
  <2>1. Parent[b] \in Block
    BY <1>2, BlockAssumption
  <2>2. Lineage[Parent[b]] \in Seq(Block) /\ Lineage[b] = Append(Lineage[Parent[b]], b)
    BY <1>2, <2>1, LineageAssumption
  <2>3. QED BY <2>2, AppendProperties, LenProperties
<1>3. QED BY <1>1, <1>2

(* The blocks of a lineage have its beginnings as their own lineages. By   *)
(* contradiction, from a shortest lineage of which this does not hold.     *)
LineagePrefixed(b) ==
  \A i \in 1..Len(Lineage[b]) : Lineage[Lineage[b][i]] = SubSeq(Lineage[b], 1, i)

(* Every lineage starts with the lineages of the blocks in it.             *)
LEMMA LineagePrefixes == \A b \in Block : LineagePrefixed(b)
<1> DEFINE Bad == {b \in Block : ~LineagePrefixed(b)}
           Lengths == {Len(Lineage[b]) : b \in Bad}
<1>1. SUFFICES ASSUME Bad # {} PROVE FALSE
  OBVIOUS
<1>2. Lengths \subseteq Nat /\ Lengths # {}
  BY <1>1, LineageEnds
<1>3. \E n \in Lengths : \A m \in Lengths : n <= m
  <2> HIDE DEF Lengths
  <2>1. QED BY <1>2, HasLeast
<1>4. PICK b \in Bad : \A c \in Bad : Len(Lineage[b]) <= Len(Lineage[c])
  BY <1>3
<1>5. Lineage[b] \in Seq(Block) /\ Len(Lineage[b]) \in Nat \ {0}
      /\ Lineage[b][Len(Lineage[b])] = b
  BY LineageEnds
<1>6. SubSeq(Lineage[b], 1, Len(Lineage[b])) = Lineage[b]
  BY <1>5, SubSeqFull
<1>7. CASE b \in Root
  <2>1. Lineage[b] = <<b>>
    BY <1>7, LineageAssumption
  <2>2. Len(Lineage[b]) = 1
    BY <2>1
  <2>3. \A i \in 1..Len(Lineage[b]) : i = Len(Lineage[b])
    BY <2>2
  <2>4. LineagePrefixed(b)
    BY <2>3, <1>5, <1>6 DEF LineagePrefixed
  <2>5. QED BY <2>4, <1>4
<1>8. CASE b \notin Root
  <2> DEFINE p == Parent[b]
             n == Len(Lineage[p])
  <2>1. p \in Block
    BY <1>8, BlockAssumption
  <2>2. Lineage[p] \in Seq(Block) /\ n \in Nat \ {0} /\ Lineage[b] = Append(Lineage[p], b)
    BY <1>8, <2>1, LineageAssumption, LineageEnds
  <2>3. Len(Lineage[b]) = n + 1 /\ \A i \in 1..n : Lineage[b][i] = Lineage[p][i]
    BY <2>2, AppendProperties
  <2>4. LineagePrefixed(p)
    BY <2>1, <2>2, <2>3, <1>4, <1>5
  <2>5. ASSUME NEW i \in 1..n
        PROVE  Lineage[Lineage[b][i]] = SubSeq(Lineage[b], 1, i)
    <3>1. Lineage[Lineage[b][i]] = SubSeq(Lineage[p], 1, i)
      BY <2>3, <2>4 DEF LineagePrefixed
    <3>2. <<b>> \in Seq(Block) /\ Lineage[b] = Lineage[p] \o <<b>>
      BY <2>2, AppendIsConcat
    <3>3. SubSeq(Lineage[p] \o <<b>>, 1, i) = SubSeq(Lineage[p], 1, i)
      <4>1. 1 \in 1..Len(Lineage[p]) /\ i \in 1..Len(Lineage[p])
        BY <2>2
      <4>2. \A s, t \in Seq(Block) : \A j, k \in 1..Len(s) :
              SubSeq(s \o t, j, k) = SubSeq(s, j, k)
        BY SubSeqOfConcat1
      <4>3. QED BY <2>2, <3>2, <4>1, <4>2
    <3>4. QED BY <3>1, <3>2, <3>3
  <2>6. LineagePrefixed(b)
    BY <1>5, <1>6, <2>2, <2>3, <2>5 DEF LineagePrefixed
  <2>7. QED BY <2>6, <1>4
<1>9. QED BY <1>7, <1>8

(* An ancestor stands where its own lineage ends, and the two lineages     *)
(* agree up to there.                                                      *)
LEMMA AncestorPosition ==
  ASSUME NEW b \in Block, NEW x \in Ancestry(b)
  PROVE  /\ x \in Block
         /\ Len(Lineage[x]) \in 1..Len(Lineage[b])
         /\ Lineage[b][Len(Lineage[x])] = x
         /\ SubSeq(Lineage[b], 1, Len(Lineage[x])) = Lineage[x]
<1>1. Lineage[b] \in Seq(Block)
  BY LineageEnds
<1>2. PICK i \in 1..Len(Lineage[b]) : Lineage[b][i] = x
  BY <1>1, RangeEquality DEF Ancestry
<1>3. x \in Block
  BY <1>1, <1>2, ElementOfSeq
<1>4. Lineage[x] = SubSeq(Lineage[b], 1, i)
  BY <1>2, LineagePrefixes DEF LineagePrefixed
<1>5. Len(Lineage[b]) \in Nat /\ \A j \in 1..i : Lineage[b][j] \in Block
  BY <1>1, LenProperties, ElementOfSeq
<1>6. Len(SubSeq(Lineage[b], 1, i)) = i
  BY <1>5, SubSeqProperties
<1>7. QED BY <1>2, <1>3, <1>4, <1>6

(* Every place of a lineage is the length of the lineage of its block, so  *)
(* no block stands at two places.                                          *)
LEMMA LineagePosition ==
  ASSUME NEW b \in Block, NEW i \in 1..Len(Lineage[b])
  PROVE  /\ Lineage[b][i] \in Ancestry(b) /\ Lineage[b][i] \in Block
         /\ Len(Lineage[Lineage[b][i]]) = i
<1>1. Lineage[b] \in Seq(Block) /\ Len(Lineage[b]) \in Nat
  BY LineageEnds
<1>2. Lineage[b][i] \in Ancestry(b) /\ Lineage[b][i] \in Block
  BY <1>1, RangeEquality, ElementOfSeq DEF Ancestry
<1>3. Lineage[Lineage[b][i]] = SubSeq(Lineage[b], 1, i)
  BY LineagePrefixes DEF LineagePrefixed
<1>4. \A j \in 1..i : Lineage[b][j] \in Block
  BY <1>1, ElementOfSeq
<1>5. Len(SubSeq(Lineage[b], 1, i)) = i
  BY <1>1, <1>4, SubSeqProperties
<1>6. QED BY <1>2, <1>3, <1>5

(* An ancestor of an ancestor is one.                                      *)
LEMMA AncestryTransitive ==
  ASSUME NEW b \in Block, NEW x \in Ancestry(b)
  PROVE  Ancestry(x) \subseteq Ancestry(b)
<1> DEFINE n == Len(Lineage[x])
           m == Len(Lineage[b])
<1>1. /\ x \in Block /\ n \in 1..m /\ SubSeq(Lineage[b], 1, n) = Lineage[x]
      /\ Lineage[b] \in Seq(Block) /\ m \in Nat /\ Lineage[x] \in Seq(Block)
  BY AncestorPosition, LineageEnds
<1>2. ASSUME NEW i \in 1..n PROVE Lineage[x][i] \in Ancestry(b)
  <2>2. \A j \in 1..n : SubSeq(Lineage[b], 1, n)[j] = Lineage[b][j]
    <3>1. n \in 0..m
      BY <1>1
    <3>2. QED BY <3>1, <1>1, CutList
  <2>3. i \in 1..m
    BY <1>1
  <2>4. QED BY <1>1, <2>2, <2>3, LineagePosition
<1>3. Ancestry(x) = {Lineage[x][i] : i \in 1..n}
  BY <1>1, RangeEquality DEF Ancestry
<1>4. QED BY <1>2, <1>3

(* A lineage is the lineage of an ancestor followed by the rest. *)
LEMMA LineageSplits ==
  ASSUME NEW b \in Block, NEW x \in Ancestry(b)
  PROVE  Lineage[x] \o SubSeq(Lineage[b], Len(Lineage[x]) + 1, Len(Lineage[b])) = Lineage[b]
<1> DEFINE n == Len(Lineage[x])
           m == Len(Lineage[b])
<1>1. /\ Lineage[b] \in Seq(Block) /\ m \in Nat \ {0} /\ n \in 1..m
      /\ SubSeq(Lineage[b], 1, n) = Lineage[x]
  BY LineageEnds, AncestorPosition
<1>2. SubSeq(Lineage[b], 1, n) \o SubSeq(Lineage[b], n + 1, m) = SubSeq(Lineage[b], 1, m)
  <2>1. 1 \in 1..m + 1 /\ n \in 1 - 1..m /\ m \in n..m
    BY <1>1
  <2>2. QED BY <1>1, <2>1, ConcatAdjacentSubSeq
<1>3. SubSeq(Lineage[b], 1, m) = Lineage[b]
  BY <1>1, SubSeqFull
<1>4. QED BY <1>1, <1>2, <1>3

(* The ancestry of a block that is not a root: its parent's and itself. *)
LEMMA AncestryStep ==
  ASSUME NEW b \in Block
  PROVE  /\ b \in Ancestry(b) /\ Ancestry(b) \subseteq Block
         /\ b \in Root => Ancestry(b) = {b}
         /\ b \notin Root => Ancestry(b) = Ancestry(Parent[b]) \cup {b}
<1>1. Lineage[b] \in Seq(Block) /\ Len(Lineage[b]) \in Nat \ {0}
      /\ Lineage[b][Len(Lineage[b])] = b
  BY LineageEnds
<1>2. Ancestry(b) = {Lineage[b][i] : i \in 1..Len(Lineage[b])}
  BY <1>1, RangeEquality DEF Ancestry
<1>3. b \in Ancestry(b) /\ Ancestry(b) \subseteq Block
  BY <1>1, <1>2, ElementOfSeq
<1>4. ASSUME b \in Root PROVE Ancestry(b) = {b}
  <2>1. Lineage[b] = <<b>>
    BY <1>4, LineageAssumption
  <2>2. Len(Lineage[b]) = 1 /\ Lineage[b][1] = b
    BY <2>1
  <2>3. QED BY <1>2, <2>2
<1>5. ASSUME b \notin Root PROVE Ancestry(b) = Ancestry(Parent[b]) \cup {b}
  <2>1. Parent[b] \in Block
    BY <1>5, BlockAssumption
  <2>2. Lineage[Parent[b]] \in Seq(Block)
    BY <2>1, LineageAssumption
  <2>3. Lineage[b] = Append(Lineage[Parent[b]], b)
    BY <1>5, LineageAssumption
  <2>4. Lineage[b] = Lineage[Parent[b]] \o <<b>>
    BY <2>2, <2>3, AppendIsConcat
  <2>5. <<b>> \in Seq(Block) /\ Len(<<b>>) = 1 /\ <<b>>[1] = b
    OBVIOUS
  <2>6. Range(<<b>>) = {b}
    <3>1. Range(<<b>>) = {<<b>>[i] : i \in 1..Len(<<b>>)}
      BY <2>5, RangeEquality
    <3>2. QED BY <3>1, <2>5
  <2>7. Range(Lineage[Parent[b]] \o <<b>>) = Range(Lineage[Parent[b]]) \cup Range(<<b>>)
    <3>1. \A s, t \in Seq(Block) : Range(s \o t) = Range(s) \cup Range(t)
      BY RangeConcatenation
    <3>2. QED BY <2>2, <2>5, <3>1
  <2>8. QED BY <2>4, <2>6, <2>7 DEF Ancestry
<1>6. QED BY <1>3, <1>4, <1>5

-----------------------------------------------------------------------------
Coin == [to : Account, amount : Nat]
Run == [ok : BOOLEAN, ledger : LedgerState]

(* The folds, by names of their own. *)
CreditAll(l, cs) == FoldLeft(Credit, l, cs)
UncreditAll(l, cs) == FoldLeft(Uncredit, l, cs)
SpendAll(l, txs) == FoldLeft(Spend, l, txs)
UnspendAll(l, txs) == FoldLeft(Unspend, l, txs)
RunAll(r, txs) == FoldLeft(RunTx, r, txs)
ReplayAll(r, blocks) == FoldLeft(ReplayBlock, r, blocks)
DoAll(l, blocks) == FoldLeft(Do, l, blocks)
RollAll(l, blocks) == FoldLeft(RollbackBlock, l, blocks)

(* apply_block and rollback_block in these terms. *)
LEMMA FoldNames ==
  /\ \A l, txs : RunTxs(l, txs) = RunAll([ok |-> TRUE, ledger |-> l], txs)
  /\ \A l, b : ApplyBlock(l, b) = IF Applies(l, b)
                                 THEN CreditAll(RunTxs(l, Txs[b]).ledger, Coinbases[b]) ELSE l
  /\ \A l, b : RollbackBlock(l, b) =
                UnspendAll(UncreditAll(l, Reverse(Coinbases[b])), Reverse(Txs[b]))
<1>1. \A l, txs : RunTxs(l, txs) = RunAll([ok |-> TRUE, ledger |-> l], txs)
  BY DEF RunTxs, RunAll
<1>2. \A l, b : ApplyBlock(l, b) = IF Applies(l, b)
                 THEN CreditAll(RunTxs(l, Txs[b]).ledger, Coinbases[b]) ELSE l
  BY DEF ApplyBlock, CreditAll
<1>3. \A l, b : RollbackBlock(l, b) =
                UnspendAll(UncreditAll(l, Reverse(Coinbases[b])), Reverse(Txs[b]))
  BY DEF RollbackBlock, UnspendAll, UncreditAll
<1>4. QED BY <1>1, <1>2, <1>3

(* The steps from which the operations are folded stay within ledgers. *)
LEMMA CreditType ==
  ASSUME NEW l \in LedgerState, NEW c \in Coin
  PROVE  Credit(l, c) \in LedgerState /\ Uncredit(l, c) \in LedgerState
  BY DEF Credit, Uncredit, LedgerState, Coin

(* The same of transactions. *)
LEMMA SpendType ==
  ASSUME NEW l \in LedgerState, NEW t \in TxId
  PROVE  Spend(l, t) \in LedgerState /\ Unspend(l, t) \in LedgerState
<1>1. /\ TxFrom[t] \in Account /\ TxTo[t] \in Account
      /\ TxAmount[t] \in Int /\ TxFee[t] \in Int
  BY LedgerAssumption
<1>2. Spend(l, t) \in LedgerState
  BY <1>1 DEF Spend, LedgerState
<1>3. Unspend(l, t) \in LedgerState
  BY <1>1 DEF Unspend, LedgerState
<1>4. QED BY <1>2, <1>3

(* The same of a run over a block's transactions. *)
LEMMA RunTxType ==
  ASSUME NEW r \in Run, NEW t \in TxId
  PROVE  RunTx(r, t) \in Run
  BY SpendType DEF RunTx, Run

(* Each of the folds of ledger.py is a run of its step along the sequence. *)
LEMMA CreditRun ==
  ASSUME NEW l \in LedgerState, NEW seq \in Seq(Coin)
  PROVE  \E f \in [0..Len(seq) -> LedgerState] :
           /\ f[0] = l /\ f[Len(seq)] = CreditAll(l, seq)
           /\ \A k \in 1..Len(seq) : f[k] = Credit(f[k - 1], seq[k])
<1> DEFINE n == Len(seq)
           F == [p \in LedgerState \X Coin |-> Credit(p[1], p[2])]
           IsTable(it) == it = [s \in SUBSET (1..n) |->
             IF s = {} THEN l ELSE Credit(it[s \ {Max(s)}], seq[Max(s)])]
           J == CHOOSE it : IsTable(it)
<1>1. n \in Nat /\ DOMAIN seq = 1..n /\ \A i \in 1..n : seq[i] \in Coin
  BY LenProperties, ElementOfSeq
<1>2. F \in [LedgerState \X Coin -> LedgerState]
  BY CreditType
<1>3. \A r \in LedgerState, t \in Coin : F[r, t] = Credit(r, t)
  OBVIOUS
<1>4. \A s \in SUBSET (1..n) : s # {} => Max(s) \in 1..n /\ seq[Max(s)] \in Coin
  BY <1>1, MaxInRange
<1>5. \E it : IsTableOf(it, LedgerState, F, l, seq)
  <2> HIDE DEF F, J
  <2>1. QED BY <1>2, FoldTable
<1> HIDE DEF F
<1>6. \E it : IsTable(it)
  <2>1. PICK it \in [SUBSET (1..n) -> LedgerState] : \A s \in SUBSET (1..n) :
          it[s] = IF s = {} THEN l ELSE F[it[s \ {Max(s)}], seq[Max(s)]]
    BY <1>5 DEF IsTableOf
  <2>2. \A s \in SUBSET (1..n) : s # {} =>
          F[it[s \ {Max(s)}], seq[Max(s)]] = Credit(it[s \ {Max(s)}], seq[Max(s)])
    BY <1>3, <1>4
  <2>3. \A s \in SUBSET (1..n) :
          it[s] = IF s = {} THEN l ELSE Credit(it[s \ {Max(s)}], seq[Max(s)])
    BY <2>1, <2>2
  <2>4. IsTable(it)
    BY <2>1, <2>3
  <2> HIDE DEF IsTable
  <2>5. QED BY <2>4
<1>7. J = [s \in SUBSET (1..n) |->
             IF s = {} THEN l ELSE Credit(J[s \ {Max(s)}], seq[Max(s)])]
  <2>1. IsTable(J)
    <3> HIDE DEF IsTable
    <3>1. QED BY <1>6
  <2>2. QED BY <2>1
<1>8. CreditAll(l, seq) = J[1..n]
  BY <1>1 DEF CreditAll, FoldLeft, MapThenFoldSet
<1> HIDE DEF J
<1>9. J[{}] = l
  BY <1>7
<1>10. FollowsTable(J, LedgerState, F, l, seq)
  BY <1>3, <1>4, <1>7, <1>9 DEF FollowsTable
<1>11. \E f : IsRunOf(f, LedgerState, F, l, seq, J[1..n])
  BY <1>2, <1>10, TableIsRun
<1>12. PICK f \in [0..n -> LedgerState] : /\ f[0] = l /\ f[n] = J[1..n]
                                   /\ \A k \in 1..n : f[k] = F[f[k - 1], seq[k]]
  BY <1>11 DEF IsRunOf
<1>13. \A k \in 1..n : f[k] = Credit(f[k - 1], seq[k])
  <2>1. TAKE k \in 1..n
  <2>2. f[k - 1] \in LedgerState /\ seq[k] \in Coin
    BY <1>1
  <2>3. QED BY <2>2, <1>3, <1>12
<1>14. QED BY <1>8, <1>12, <1>13

(* The same of taking coinbases back. *)
LEMMA UncreditRun ==
  ASSUME NEW l \in LedgerState, NEW seq \in Seq(Coin)
  PROVE  \E f \in [0..Len(seq) -> LedgerState] :
           /\ f[0] = l /\ f[Len(seq)] = UncreditAll(l, seq)
           /\ \A k \in 1..Len(seq) : f[k] = Uncredit(f[k - 1], seq[k])
<1> DEFINE n == Len(seq)
           F == [p \in LedgerState \X Coin |-> Uncredit(p[1], p[2])]
           IsTable(it) == it = [s \in SUBSET (1..n) |->
             IF s = {} THEN l ELSE Uncredit(it[s \ {Max(s)}], seq[Max(s)])]
           J == CHOOSE it : IsTable(it)
<1>1. n \in Nat /\ DOMAIN seq = 1..n /\ \A i \in 1..n : seq[i] \in Coin
  BY LenProperties, ElementOfSeq
<1>2. F \in [LedgerState \X Coin -> LedgerState]
  BY CreditType
<1>3. \A r \in LedgerState, t \in Coin : F[r, t] = Uncredit(r, t)
  OBVIOUS
<1>4. \A s \in SUBSET (1..n) : s # {} => Max(s) \in 1..n /\ seq[Max(s)] \in Coin
  BY <1>1, MaxInRange
<1>5. \E it : IsTableOf(it, LedgerState, F, l, seq)
  <2> HIDE DEF F, J
  <2>1. QED BY <1>2, FoldTable
<1> HIDE DEF F
<1>6. \E it : IsTable(it)
  <2>1. PICK it \in [SUBSET (1..n) -> LedgerState] : \A s \in SUBSET (1..n) :
          it[s] = IF s = {} THEN l ELSE F[it[s \ {Max(s)}], seq[Max(s)]]
    BY <1>5 DEF IsTableOf
  <2>2. \A s \in SUBSET (1..n) : s # {} =>
          F[it[s \ {Max(s)}], seq[Max(s)]] = Uncredit(it[s \ {Max(s)}], seq[Max(s)])
    BY <1>3, <1>4
  <2>3. \A s \in SUBSET (1..n) :
          it[s] = IF s = {} THEN l ELSE Uncredit(it[s \ {Max(s)}], seq[Max(s)])
    BY <2>1, <2>2
  <2>4. IsTable(it)
    BY <2>1, <2>3
  <2> HIDE DEF IsTable
  <2>5. QED BY <2>4
<1>7. J = [s \in SUBSET (1..n) |->
             IF s = {} THEN l ELSE Uncredit(J[s \ {Max(s)}], seq[Max(s)])]
  <2>1. IsTable(J)
    <3> HIDE DEF IsTable
    <3>1. QED BY <1>6
  <2>2. QED BY <2>1
<1>8. UncreditAll(l, seq) = J[1..n]
  BY <1>1 DEF UncreditAll, FoldLeft, MapThenFoldSet
<1> HIDE DEF J
<1>9. J[{}] = l
  BY <1>7
<1>10. FollowsTable(J, LedgerState, F, l, seq)
  BY <1>3, <1>4, <1>7, <1>9 DEF FollowsTable
<1>11. \E f : IsRunOf(f, LedgerState, F, l, seq, J[1..n])
  BY <1>2, <1>10, TableIsRun
<1>12. PICK f \in [0..n -> LedgerState] : /\ f[0] = l /\ f[n] = J[1..n]
                                   /\ \A k \in 1..n : f[k] = F[f[k - 1], seq[k]]
  BY <1>11 DEF IsRunOf
<1>13. \A k \in 1..n : f[k] = Uncredit(f[k - 1], seq[k])
  <2>1. TAKE k \in 1..n
  <2>2. f[k - 1] \in LedgerState /\ seq[k] \in Coin
    BY <1>1
  <2>3. QED BY <2>2, <1>3, <1>12
<1>14. QED BY <1>8, <1>12, <1>13

(* The same of carrying transactions out, whether they are valid or not. *)
LEMMA SpendRun ==
  ASSUME NEW l \in LedgerState, NEW seq \in Seq(TxId)
  PROVE  \E f \in [0..Len(seq) -> LedgerState] :
           /\ f[0] = l /\ f[Len(seq)] = SpendAll(l, seq)
           /\ \A k \in 1..Len(seq) : f[k] = Spend(f[k - 1], seq[k])
<1> DEFINE n == Len(seq)
           F == [p \in LedgerState \X TxId |-> Spend(p[1], p[2])]
           IsTable(it) == it = [s \in SUBSET (1..n) |->
             IF s = {} THEN l ELSE Spend(it[s \ {Max(s)}], seq[Max(s)])]
           J == CHOOSE it : IsTable(it)
<1>1. n \in Nat /\ DOMAIN seq = 1..n /\ \A i \in 1..n : seq[i] \in TxId
  BY LenProperties, ElementOfSeq
<1>2. F \in [LedgerState \X TxId -> LedgerState]
  BY SpendType
<1>3. \A r \in LedgerState, t \in TxId : F[r, t] = Spend(r, t)
  OBVIOUS
<1>4. \A s \in SUBSET (1..n) : s # {} => Max(s) \in 1..n /\ seq[Max(s)] \in TxId
  BY <1>1, MaxInRange
<1>5. \E it : IsTableOf(it, LedgerState, F, l, seq)
  <2> HIDE DEF F, J
  <2>1. QED BY <1>2, FoldTable
<1> HIDE DEF F
<1>6. \E it : IsTable(it)
  <2>1. PICK it \in [SUBSET (1..n) -> LedgerState] : \A s \in SUBSET (1..n) :
          it[s] = IF s = {} THEN l ELSE F[it[s \ {Max(s)}], seq[Max(s)]]
    BY <1>5 DEF IsTableOf
  <2>2. \A s \in SUBSET (1..n) : s # {} =>
          F[it[s \ {Max(s)}], seq[Max(s)]] = Spend(it[s \ {Max(s)}], seq[Max(s)])
    BY <1>3, <1>4
  <2>3. \A s \in SUBSET (1..n) :
          it[s] = IF s = {} THEN l ELSE Spend(it[s \ {Max(s)}], seq[Max(s)])
    BY <2>1, <2>2
  <2>4. IsTable(it)
    BY <2>1, <2>3
  <2> HIDE DEF IsTable
  <2>5. QED BY <2>4
<1>7. J = [s \in SUBSET (1..n) |->
             IF s = {} THEN l ELSE Spend(J[s \ {Max(s)}], seq[Max(s)])]
  <2>1. IsTable(J)
    <3> HIDE DEF IsTable
    <3>1. QED BY <1>6
  <2>2. QED BY <2>1
<1>8. SpendAll(l, seq) = J[1..n]
  BY <1>1 DEF SpendAll, FoldLeft, MapThenFoldSet
<1> HIDE DEF J
<1>9. J[{}] = l
  BY <1>7
<1>10. FollowsTable(J, LedgerState, F, l, seq)
  BY <1>3, <1>4, <1>7, <1>9 DEF FollowsTable
<1>11. \E f : IsRunOf(f, LedgerState, F, l, seq, J[1..n])
  BY <1>2, <1>10, TableIsRun
<1>12. PICK f \in [0..n -> LedgerState] : /\ f[0] = l /\ f[n] = J[1..n]
                                   /\ \A k \in 1..n : f[k] = F[f[k - 1], seq[k]]
  BY <1>11 DEF IsRunOf
<1>13. \A k \in 1..n : f[k] = Spend(f[k - 1], seq[k])
  <2>1. TAKE k \in 1..n
  <2>2. f[k - 1] \in LedgerState /\ seq[k] \in TxId
    BY <1>1
  <2>3. QED BY <2>2, <1>3, <1>12
<1>14. QED BY <1>8, <1>12, <1>13

(* The same of taking transactions back. *)
LEMMA UnspendRun ==
  ASSUME NEW l \in LedgerState, NEW seq \in Seq(TxId)
  PROVE  \E f \in [0..Len(seq) -> LedgerState] :
           /\ f[0] = l /\ f[Len(seq)] = UnspendAll(l, seq)
           /\ \A k \in 1..Len(seq) : f[k] = Unspend(f[k - 1], seq[k])
<1> DEFINE n == Len(seq)
           F == [p \in LedgerState \X TxId |-> Unspend(p[1], p[2])]
           IsTable(it) == it = [s \in SUBSET (1..n) |->
             IF s = {} THEN l ELSE Unspend(it[s \ {Max(s)}], seq[Max(s)])]
           J == CHOOSE it : IsTable(it)
<1>1. n \in Nat /\ DOMAIN seq = 1..n /\ \A i \in 1..n : seq[i] \in TxId
  BY LenProperties, ElementOfSeq
<1>2. F \in [LedgerState \X TxId -> LedgerState]
  BY SpendType
<1>3. \A r \in LedgerState, t \in TxId : F[r, t] = Unspend(r, t)
  OBVIOUS
<1>4. \A s \in SUBSET (1..n) : s # {} => Max(s) \in 1..n /\ seq[Max(s)] \in TxId
  BY <1>1, MaxInRange
<1>5. \E it : IsTableOf(it, LedgerState, F, l, seq)
  <2> HIDE DEF F, J
  <2>1. QED BY <1>2, FoldTable
<1> HIDE DEF F
<1>6. \E it : IsTable(it)
  <2>1. PICK it \in [SUBSET (1..n) -> LedgerState] : \A s \in SUBSET (1..n) :
          it[s] = IF s = {} THEN l ELSE F[it[s \ {Max(s)}], seq[Max(s)]]
    BY <1>5 DEF IsTableOf
  <2>2. \A s \in SUBSET (1..n) : s # {} =>
          F[it[s \ {Max(s)}], seq[Max(s)]] = Unspend(it[s \ {Max(s)}], seq[Max(s)])
    BY <1>3, <1>4
  <2>3. \A s \in SUBSET (1..n) :
          it[s] = IF s = {} THEN l ELSE Unspend(it[s \ {Max(s)}], seq[Max(s)])
    BY <2>1, <2>2
  <2>4. IsTable(it)
    BY <2>1, <2>3
  <2> HIDE DEF IsTable
  <2>5. QED BY <2>4
<1>7. J = [s \in SUBSET (1..n) |->
             IF s = {} THEN l ELSE Unspend(J[s \ {Max(s)}], seq[Max(s)])]
  <2>1. IsTable(J)
    <3> HIDE DEF IsTable
    <3>1. QED BY <1>6
  <2>2. QED BY <2>1
<1>8. UnspendAll(l, seq) = J[1..n]
  BY <1>1 DEF UnspendAll, FoldLeft, MapThenFoldSet
<1> HIDE DEF J
<1>9. J[{}] = l
  BY <1>7
<1>10. FollowsTable(J, LedgerState, F, l, seq)
  BY <1>3, <1>4, <1>7, <1>9 DEF FollowsTable
<1>11. \E f : IsRunOf(f, LedgerState, F, l, seq, J[1..n])
  BY <1>2, <1>10, TableIsRun
<1>12. PICK f \in [0..n -> LedgerState] : /\ f[0] = l /\ f[n] = J[1..n]
                                   /\ \A k \in 1..n : f[k] = F[f[k - 1], seq[k]]
  BY <1>11 DEF IsRunOf
<1>13. \A k \in 1..n : f[k] = Unspend(f[k - 1], seq[k])
  <2>1. TAKE k \in 1..n
  <2>2. f[k - 1] \in LedgerState /\ seq[k] \in TxId
    BY <1>1
  <2>3. QED BY <2>2, <1>3, <1>12
<1>14. QED BY <1>8, <1>12, <1>13

(* The same of the transactions of a block. *)
LEMMA TxRun ==
  ASSUME NEW l \in Run, NEW seq \in Seq(TxId)
  PROVE  \E f \in [0..Len(seq) -> Run] :
           /\ f[0] = l /\ f[Len(seq)] = RunAll(l, seq)
           /\ \A k \in 1..Len(seq) : f[k] = RunTx(f[k - 1], seq[k])
<1> DEFINE n == Len(seq)
           F == [p \in Run \X TxId |-> RunTx(p[1], p[2])]
           IsTable(it) == it = [s \in SUBSET (1..n) |->
             IF s = {} THEN l ELSE RunTx(it[s \ {Max(s)}], seq[Max(s)])]
           J == CHOOSE it : IsTable(it)
<1>1. n \in Nat /\ DOMAIN seq = 1..n /\ \A i \in 1..n : seq[i] \in TxId
  BY LenProperties, ElementOfSeq
<1>2. F \in [Run \X TxId -> Run]
  BY RunTxType
<1>3. \A r \in Run, t \in TxId : F[r, t] = RunTx(r, t)
  OBVIOUS
<1>4. \A s \in SUBSET (1..n) : s # {} => Max(s) \in 1..n /\ seq[Max(s)] \in TxId
  BY <1>1, MaxInRange
<1>5. \E it : IsTableOf(it, Run, F, l, seq)
  <2> HIDE DEF F, J
  <2>1. QED BY <1>2, FoldTable
<1> HIDE DEF F
<1>6. \E it : IsTable(it)
  <2>1. PICK it \in [SUBSET (1..n) -> Run] : \A s \in SUBSET (1..n) :
          it[s] = IF s = {} THEN l ELSE F[it[s \ {Max(s)}], seq[Max(s)]]
    BY <1>5 DEF IsTableOf
  <2>2. \A s \in SUBSET (1..n) : s # {} =>
          F[it[s \ {Max(s)}], seq[Max(s)]] = RunTx(it[s \ {Max(s)}], seq[Max(s)])
    BY <1>3, <1>4
  <2>3. \A s \in SUBSET (1..n) :
          it[s] = IF s = {} THEN l ELSE RunTx(it[s \ {Max(s)}], seq[Max(s)])
    BY <2>1, <2>2
  <2>4. IsTable(it)
    BY <2>1, <2>3
  <2> HIDE DEF IsTable
  <2>5. QED BY <2>4
<1>7. J = [s \in SUBSET (1..n) |->
             IF s = {} THEN l ELSE RunTx(J[s \ {Max(s)}], seq[Max(s)])]
  <2>1. IsTable(J)
    <3> HIDE DEF IsTable
    <3>1. QED BY <1>6
  <2>2. QED BY <2>1
<1>8. RunAll(l, seq) = J[1..n]
  BY <1>1 DEF RunAll, FoldLeft, MapThenFoldSet
<1> HIDE DEF J
<1>9. J[{}] = l
  BY <1>7
<1>10. FollowsTable(J, Run, F, l, seq)
  BY <1>3, <1>4, <1>7, <1>9 DEF FollowsTable
<1>11. \E f : IsRunOf(f, Run, F, l, seq, J[1..n])
  BY <1>2, <1>10, TableIsRun
<1>12. PICK f \in [0..n -> Run] : /\ f[0] = l /\ f[n] = J[1..n]
                                   /\ \A k \in 1..n : f[k] = F[f[k - 1], seq[k]]
  BY <1>11 DEF IsRunOf
<1>13. \A k \in 1..n : f[k] = RunTx(f[k - 1], seq[k])
  <2>1. TAKE k \in 1..n
  <2>2. f[k - 1] \in Run /\ seq[k] \in TxId
    BY <1>1
  <2>3. QED BY <2>2, <1>3, <1>12
<1>14. QED BY <1>8, <1>12, <1>13


(* So the folds stay within ledgers too. *)
LEMMA FoldsType ==
  /\ \A l \in LedgerState, cs \in Seq(Coin) :
       CreditAll(l, cs) \in LedgerState /\ UncreditAll(l, cs) \in LedgerState
  /\ \A l \in LedgerState, txs \in Seq(TxId) : UnspendAll(l, txs) \in LedgerState
  /\ \A r \in Run, txs \in Seq(TxId) : RunAll(r, txs) \in Run
<1>1. ASSUME NEW l \in LedgerState, NEW cs \in Seq(Coin)
      PROVE  CreditAll(l, cs) \in LedgerState /\ UncreditAll(l, cs) \in LedgerState
  <2>1. Len(cs) \in 0..Len(cs)
    BY LenProperties
  <2>2. PICK f \in [0..Len(cs) -> LedgerState] : f[Len(cs)] = CreditAll(l, cs)
    BY CreditRun
  <2>3. PICK g \in [0..Len(cs) -> LedgerState] : g[Len(cs)] = UncreditAll(l, cs)
    BY UncreditRun
  <2>4. QED BY <2>1, <2>2, <2>3
<1>2. ASSUME NEW l \in LedgerState, NEW txs \in Seq(TxId)
      PROVE  UnspendAll(l, txs) \in LedgerState
  <2>1. Len(txs) \in 0..Len(txs)
    BY LenProperties
  <2>2. PICK f \in [0..Len(txs) -> LedgerState] : f[Len(txs)] = UnspendAll(l, txs)
    BY UnspendRun
  <2>3. QED BY <2>1, <2>2
<1>3. ASSUME NEW r \in Run, NEW txs \in Seq(TxId)
      PROVE  RunAll(r, txs) \in Run
  <2>1. Len(txs) \in 0..Len(txs)
    BY LenProperties
  <2>2. PICK f \in [0..Len(txs) -> Run] : f[Len(txs)] = RunAll(r, txs)
    BY TxRun
  <2>3. QED BY <2>1, <2>2
<1>4. QED BY <1>1, <1>2, <1>3

(* Any order, all of a block's coinbases taken back leave a ledger, and so *)
(* do all of its transactions.                                             *)
LEMMA RollbackType ==
  ASSUME NEW l \in LedgerState, NEW b \in Block
  PROVE  RollbackBlock(l, b) \in LedgerState
<1>1. Reverse(Coinbases[b]) \in Seq(Coin) /\ Reverse(Txs[b]) \in Seq(TxId)
  BY ReverseInSeq, LedgerAssumption, BlockAssumption DEF Coin
<1>2. UncreditAll(l, Reverse(Coinbases[b])) \in LedgerState
  BY <1>1, FoldsType
<1>3. QED BY <1>1, <1>2, FoldsType, FoldNames

(* Running transactions gives a verdict and a ledger. *)
LEMMA RunTxsType ==
  ASSUME NEW l \in LedgerState, NEW txs \in Seq(TxId)
  PROVE  RunTxs(l, txs) \in Run
<1>1. [ok |-> TRUE, ledger |-> l] \in Run
  BY DEF Run
<1>2. QED BY <1>1, FoldsType, FoldNames

(* Applying a block to a ledger gives one, whether it succeeds or not. *)
LEMMA ApplyType ==
  ASSUME NEW l \in LedgerState, NEW b \in Block
  PROVE  ApplyBlock(l, b) \in LedgerState
<1>1. Coinbases[b] \in Seq(Coin) /\ Txs[b] \in Seq(TxId)
  BY LedgerAssumption, BlockAssumption DEF Coin
<1>2. RunTxs(l, Txs[b]).ledger \in LedgerState
  BY <1>1, RunTxsType DEF Run
<1>3. CreditAll(RunTxs(l, Txs[b]).ledger, Coinbases[b]) \in LedgerState
  BY <1>1, <1>2, FoldsType
<1>4. QED BY <1>3, FoldNames

(* The empty ledger is one. *)
LEMMA EmptyLedgerType == EmptyLedger \in LedgerState
  BY DEF EmptyLedger, LedgerState

(* A replay over blocks stays within such runs. *)
LEMMA ReplayType ==
  ASSUME NEW r \in Run, NEW b \in Block
  PROVE  ReplayBlock(r, b) \in Run
  BY ApplyType DEF ReplayBlock, Run

(* The same of the replay of a chain. *)
LEMMA ReplayRun ==
  ASSUME NEW l \in Run, NEW seq \in Seq(Block)
  PROVE  \E f \in [0..Len(seq) -> Run] :
           /\ f[0] = l /\ f[Len(seq)] = ReplayAll(l, seq)
           /\ \A k \in 1..Len(seq) : f[k] = ReplayBlock(f[k - 1], seq[k])
<1> DEFINE n == Len(seq)
           F == [p \in Run \X Block |-> ReplayBlock(p[1], p[2])]
           IsTable(it) == it = [s \in SUBSET (1..n) |->
             IF s = {} THEN l ELSE ReplayBlock(it[s \ {Max(s)}], seq[Max(s)])]
           J == CHOOSE it : IsTable(it)
<1>1. n \in Nat /\ DOMAIN seq = 1..n /\ \A i \in 1..n : seq[i] \in Block
  BY LenProperties, ElementOfSeq
<1>2. F \in [Run \X Block -> Run]
  BY ReplayType
<1>3. \A r \in Run, t \in Block : F[r, t] = ReplayBlock(r, t)
  OBVIOUS
<1>4. \A s \in SUBSET (1..n) : s # {} => Max(s) \in 1..n /\ seq[Max(s)] \in Block
  BY <1>1, MaxInRange
<1>5. \E it : IsTableOf(it, Run, F, l, seq)
  <2> HIDE DEF F, J
  <2>1. QED BY <1>2, FoldTable
<1> HIDE DEF F
<1>6. \E it : IsTable(it)
  <2>1. PICK it \in [SUBSET (1..n) -> Run] : \A s \in SUBSET (1..n) :
          it[s] = IF s = {} THEN l ELSE F[it[s \ {Max(s)}], seq[Max(s)]]
    BY <1>5 DEF IsTableOf
  <2>2. \A s \in SUBSET (1..n) : s # {} =>
          F[it[s \ {Max(s)}], seq[Max(s)]] = ReplayBlock(it[s \ {Max(s)}], seq[Max(s)])
    BY <1>3, <1>4
  <2>3. \A s \in SUBSET (1..n) :
          it[s] = IF s = {} THEN l ELSE ReplayBlock(it[s \ {Max(s)}], seq[Max(s)])
    BY <2>1, <2>2
  <2>4. IsTable(it)
    BY <2>1, <2>3
  <2> HIDE DEF IsTable
  <2>5. QED BY <2>4
<1>7. J = [s \in SUBSET (1..n) |->
             IF s = {} THEN l ELSE ReplayBlock(J[s \ {Max(s)}], seq[Max(s)])]
  <2>1. IsTable(J)
    <3> HIDE DEF IsTable
    <3>1. QED BY <1>6
  <2>2. QED BY <2>1
<1>8. ReplayAll(l, seq) = J[1..n]
  BY <1>1 DEF ReplayAll, FoldLeft, MapThenFoldSet
<1> HIDE DEF J
<1>9. J[{}] = l
  BY <1>7
<1>10. FollowsTable(J, Run, F, l, seq)
  BY <1>3, <1>4, <1>7, <1>9 DEF FollowsTable
<1>11. \E f : IsRunOf(f, Run, F, l, seq, J[1..n])
  BY <1>2, <1>10, TableIsRun
<1>12. PICK f \in [0..n -> Run] : /\ f[0] = l /\ f[n] = J[1..n]
                                   /\ \A k \in 1..n : f[k] = F[f[k - 1], seq[k]]
  BY <1>11 DEF IsRunOf
<1>13. \A k \in 1..n : f[k] = ReplayBlock(f[k - 1], seq[k])
  <2>1. TAKE k \in 1..n
  <2>2. f[k - 1] \in Run /\ seq[k] \in Block
    BY <1>1
  <2>3. QED BY <2>2, <1>3, <1>12
<1>14. QED BY <1>8, <1>12, <1>13

(* rebuild_from_chain gives a ledger. *)
LEMMA RebuildType ==
  ASSUME NEW blocks \in Seq(Block)
  PROVE  Rebuild(blocks) \in LedgerState
<1> DEFINE r == [ok |-> TRUE, ledger |-> EmptyLedger]
<1>1. r \in Run
  BY EmptyLedgerType DEF Run
<1>2. Rebuild(blocks) = ReplayAll(r, blocks).ledger
  BY DEF Rebuild, ReplayAll
<1>3. Len(blocks) \in 0..Len(blocks)
  BY LenProperties
<1> HIDE DEF r
<1>4. PICK f \in [0..Len(blocks) -> Run] : f[Len(blocks)] = ReplayAll(r, blocks)
  BY <1>1, ReplayRun
<1>5. ReplayAll(r, blocks) \in Run
  BY <1>3, <1>4
<1>6. QED BY <1>2, <1>5 DEF Run

(* What a block does, in these terms. *)
LEMMA DoIs ==
  ASSUME NEW l, NEW b
  PROVE  Do(l, b) = CreditAll(SpendAll(l, Txs[b]), Coinbases[b])
  BY DEF Do, CreditAll, SpendAll

(* Payments carried out on a ledger give a ledger. *)
LEMMA SpendAllType ==
  ASSUME NEW l \in LedgerState, NEW txs \in Seq(TxId)
  PROVE  SpendAll(l, txs) \in LedgerState
<1>1. Len(txs) \in 0..Len(txs)
  BY LenProperties
<1>2. PICK f \in [0..Len(txs) -> LedgerState] : f[Len(txs)] = SpendAll(l, txs)
  BY SpendRun
<1>3. QED BY <1>1, <1>2

(* The effect of a block on a ledger is one. *)
LEMMA DoType ==
  ASSUME NEW l \in LedgerState, NEW b \in Block
  PROVE  Do(l, b) \in LedgerState
<1>1. Coinbases[b] \in Seq(Coin) /\ Txs[b] \in Seq(TxId)
  BY LedgerAssumption, BlockAssumption DEF Coin
<1>2. SpendAll(l, Txs[b]) \in LedgerState
  BY <1>1, SpendAllType
<1>3. QED BY <1>1, <1>2, FoldsType, DoIs

(* Doing a list of blocks is a run of its blocks. *)
LEMMA DoRun ==
  ASSUME NEW l \in LedgerState, NEW seq \in Seq(Block)
  PROVE  \E f \in [0..Len(seq) -> LedgerState] :
           /\ f[0] = l /\ f[Len(seq)] = DoAll(l, seq)
           /\ \A k \in 1..Len(seq) : f[k] = Do(f[k - 1], seq[k])
<1> DEFINE n == Len(seq)
           F == [p \in LedgerState \X Block |-> Do(p[1], p[2])]
           IsTable(it) == it = [s \in SUBSET (1..n) |->
             IF s = {} THEN l ELSE Do(it[s \ {Max(s)}], seq[Max(s)])]
           J == CHOOSE it : IsTable(it)
<1>1. n \in Nat /\ DOMAIN seq = 1..n /\ \A i \in 1..n : seq[i] \in Block
  BY LenProperties, ElementOfSeq
<1>2. F \in [LedgerState \X Block -> LedgerState]
  BY DoType
<1>3. \A r \in LedgerState, t \in Block : F[r, t] = Do(r, t)
  OBVIOUS
<1>4. \A s \in SUBSET (1..n) : s # {} => Max(s) \in 1..n /\ seq[Max(s)] \in Block
  BY <1>1, MaxInRange
<1>5. \E it : IsTableOf(it, LedgerState, F, l, seq)
  <2> HIDE DEF F, J
  <2>1. QED BY <1>2, FoldTable
<1> HIDE DEF F
<1>6. \E it : IsTable(it)
  <2>1. PICK it \in [SUBSET (1..n) -> LedgerState] : \A s \in SUBSET (1..n) :
          it[s] = IF s = {} THEN l ELSE F[it[s \ {Max(s)}], seq[Max(s)]]
    BY <1>5 DEF IsTableOf
  <2>2. \A s \in SUBSET (1..n) : s # {} =>
          F[it[s \ {Max(s)}], seq[Max(s)]] = Do(it[s \ {Max(s)}], seq[Max(s)])
    BY <1>3, <1>4
  <2>3. \A s \in SUBSET (1..n) :
          it[s] = IF s = {} THEN l ELSE Do(it[s \ {Max(s)}], seq[Max(s)])
    BY <2>1, <2>2
  <2>4. IsTable(it)
    BY <2>1, <2>3
  <2> HIDE DEF IsTable
  <2>5. QED BY <2>4
<1>7. J = [s \in SUBSET (1..n) |->
             IF s = {} THEN l ELSE Do(J[s \ {Max(s)}], seq[Max(s)])]
  <2>1. IsTable(J)
    <3> HIDE DEF IsTable
    <3>1. QED BY <1>6
  <2>2. QED BY <2>1
<1>8. DoAll(l, seq) = J[1..n]
  BY <1>1 DEF DoAll, FoldLeft, MapThenFoldSet
<1> HIDE DEF J
<1>9. J[{}] = l
  BY <1>7
<1>10. FollowsTable(J, LedgerState, F, l, seq)
  BY <1>3, <1>4, <1>7, <1>9 DEF FollowsTable
<1>11. \E f : IsRunOf(f, LedgerState, F, l, seq, J[1..n])
  BY <1>2, <1>10, TableIsRun
<1>12. PICK f \in [0..n -> LedgerState] : /\ f[0] = l /\ f[n] = J[1..n]
                                   /\ \A k \in 1..n : f[k] = F[f[k - 1], seq[k]]
  BY <1>11 DEF IsRunOf
<1>13. \A k \in 1..n : f[k] = Do(f[k - 1], seq[k])
  <2>1. TAKE k \in 1..n
  <2>2. f[k - 1] \in LedgerState /\ seq[k] \in Block
    BY <1>1
  <2>3. QED BY <2>2, <1>3, <1>12
<1>14. QED BY <1>8, <1>12, <1>13

(* The same of rolling them back. *)
LEMMA RollRun ==
  ASSUME NEW l \in LedgerState, NEW seq \in Seq(Block)
  PROVE  \E f \in [0..Len(seq) -> LedgerState] :
           /\ f[0] = l /\ f[Len(seq)] = RollAll(l, seq)
           /\ \A k \in 1..Len(seq) : f[k] = RollbackBlock(f[k - 1], seq[k])
<1> DEFINE n == Len(seq)
           F == [p \in LedgerState \X Block |-> RollbackBlock(p[1], p[2])]
           IsTable(it) == it = [s \in SUBSET (1..n) |->
             IF s = {} THEN l ELSE RollbackBlock(it[s \ {Max(s)}], seq[Max(s)])]
           J == CHOOSE it : IsTable(it)
<1>1. n \in Nat /\ DOMAIN seq = 1..n /\ \A i \in 1..n : seq[i] \in Block
  BY LenProperties, ElementOfSeq
<1>2. F \in [LedgerState \X Block -> LedgerState]
  BY RollbackType
<1>3. \A r \in LedgerState, t \in Block : F[r, t] = RollbackBlock(r, t)
  OBVIOUS
<1>4. \A s \in SUBSET (1..n) : s # {} => Max(s) \in 1..n /\ seq[Max(s)] \in Block
  BY <1>1, MaxInRange
<1>5. \E it : IsTableOf(it, LedgerState, F, l, seq)
  <2> HIDE DEF F, J
  <2>1. QED BY <1>2, FoldTable
<1> HIDE DEF F
<1>6. \E it : IsTable(it)
  <2>1. PICK it \in [SUBSET (1..n) -> LedgerState] : \A s \in SUBSET (1..n) :
          it[s] = IF s = {} THEN l ELSE F[it[s \ {Max(s)}], seq[Max(s)]]
    BY <1>5 DEF IsTableOf
  <2>2. \A s \in SUBSET (1..n) : s # {} =>
          F[it[s \ {Max(s)}], seq[Max(s)]] = RollbackBlock(it[s \ {Max(s)}], seq[Max(s)])
    BY <1>3, <1>4
  <2>3. \A s \in SUBSET (1..n) :
          it[s] = IF s = {} THEN l ELSE RollbackBlock(it[s \ {Max(s)}], seq[Max(s)])
    BY <2>1, <2>2
  <2>4. IsTable(it)
    BY <2>1, <2>3
  <2> HIDE DEF IsTable
  <2>5. QED BY <2>4
<1>7. J = [s \in SUBSET (1..n) |->
             IF s = {} THEN l ELSE RollbackBlock(J[s \ {Max(s)}], seq[Max(s)])]
  <2>1. IsTable(J)
    <3> HIDE DEF IsTable
    <3>1. QED BY <1>6
  <2>2. QED BY <2>1
<1>8. RollAll(l, seq) = J[1..n]
  BY <1>1 DEF RollAll, FoldLeft, MapThenFoldSet
<1> HIDE DEF J
<1>9. J[{}] = l
  BY <1>7
<1>10. FollowsTable(J, LedgerState, F, l, seq)
  BY <1>3, <1>4, <1>7, <1>9 DEF FollowsTable
<1>11. \E f : IsRunOf(f, LedgerState, F, l, seq, J[1..n])
  BY <1>2, <1>10, TableIsRun
<1>12. PICK f \in [0..n -> LedgerState] : /\ f[0] = l /\ f[n] = J[1..n]
                                   /\ \A k \in 1..n : f[k] = F[f[k - 1], seq[k]]
  BY <1>11 DEF IsRunOf
<1>13. \A k \in 1..n : f[k] = RollbackBlock(f[k - 1], seq[k])
  <2>1. TAKE k \in 1..n
  <2>2. f[k - 1] \in LedgerState /\ seq[k] \in Block
    BY <1>1
  <2>3. QED BY <2>2, <1>3, <1>12
<1>14. QED BY <1>8, <1>12, <1>13

(* Blocks done on a ledger give a ledger. *)
LEMMA DoAllType ==
  ASSUME NEW l \in LedgerState, NEW blocks \in Seq(Block)
  PROVE  DoAll(l, blocks) \in LedgerState
<1>1. Len(blocks) \in 0..Len(blocks)
  BY LenProperties
<1>2. PICK f \in [0..Len(blocks) -> LedgerState] : f[Len(blocks)] = DoAll(l, blocks)
  BY DoRun
<1>3. QED BY <1>1, <1>2

-----------------------------------------------------------------------------
(* Undoing one step right after it was done. *)
LEMMA UncreditUndoes ==
  ASSUME NEW l \in LedgerState, NEW c \in Coin
  PROVE  Uncredit(Credit(l, c), c) = l
<1> DEFINE m == Credit(l, c)
           bal == [m.bal EXCEPT ![c.to] = @ - c.amount]
<1>1. /\ l = [bal |-> l.bal, nonce |-> l.nonce] /\ l.bal \in [Account -> Int]
      /\ c.to \in Account /\ c.amount \in Int
  BY DEF LedgerState, Coin
<1>2. m = [bal |-> [l.bal EXCEPT ![c.to] = @ + c.amount], nonce |-> l.nonce]
  BY <1>1 DEF Credit
<1>3. m.bal = [l.bal EXCEPT ![c.to] = @ + c.amount] /\ m.nonce = l.nonce
  BY <1>2
<1> HIDE DEF m
<1>4. \A a \in Account : bal[a] = l.bal[a]
  BY <1>1, <1>3
<1>5. bal = l.bal
  BY <1>1, <1>3, <1>4
<1>6. Uncredit(m, c) = [bal |-> bal, nonce |-> m.nonce]
  BY <1>2 DEF Uncredit
<1>7. QED BY <1>1, <1>3, <1>5, <1>6 DEF m

(* The same of a transaction, also of one to its own sender. *)
LEMMA UnspendUndoes ==
  ASSUME NEW l \in LedgerState, NEW t \in TxId
  PROVE  Unspend(Spend(l, t), t) = l
<1> DEFINE a == TxFrom[t]
           b == TxTo[t]
           x == TxAmount[t] + TxFee[t]
           y == TxAmount[t]
           m == Spend(l, t)
<1>1. a \in Account /\ b \in Account /\ x \in Int /\ y \in Int
  BY LedgerAssumption
<1>2. /\ l = [bal |-> l.bal, nonce |-> l.nonce]
      /\ l.bal \in [Account -> Int] /\ l.nonce \in [Account -> Nat]
  BY DEF LedgerState
<1>3. /\ m.bal = [l.bal EXCEPT ![a] = @ - x, ![b] = @ + y]
      /\ m.nonce = [l.nonce EXCEPT ![a] = @ + 1]
  BY DEF Spend
<1> HIDE DEF a, b, x, y
<1> DEFINE bal == [m.bal EXCEPT ![a] = @ + x, ![b] = @ - y]
           nonce == [m.nonce EXCEPT ![a] = IF @ > 0 THEN @ - 1 ELSE 0]
<1> HIDE DEF m
<1>4. bal = l.bal
  <2>1. \A c \in Account : bal[c] = l.bal[c]
    <3>1. CASE a = b
      BY <1>1, <1>2, <1>3, <3>1
    <3>2. CASE a # b
      BY <1>1, <1>2, <1>3, <3>2
    <3>3. QED BY <3>1, <3>2
  <2>2. QED BY <1>1, <1>2, <1>3, <2>1
<1>5. nonce = l.nonce
  <2>1. \A c \in Account : nonce[c] = l.nonce[c]
    BY <1>1, <1>2, <1>3
  <2>2. QED BY <1>1, <1>2, <1>3, <2>1
<1>6. Unspend(m, t) = [bal |-> bal, nonce |-> nonce]
  BY DEF Unspend, a, b, x, y
<1>7. QED BY <1>2, <1>4, <1>5, <1>6 DEF m

(* Taking back all coinbases in reverse order. *)
LEMMA UncreditsUndo ==
  ASSUME NEW l \in LedgerState, NEW cs \in Seq(Coin)
  PROVE  UncreditAll(CreditAll(l, cs), Reverse(cs)) = l
<1> DEFINE n == Len(cs)
           rs == Reverse(cs)
<1>1. n \in Nat /\ \A i \in 1..n : cs[i] \in Coin
  BY LenProperties, ElementOfSeq
<1>2. rs \in Seq(Coin) /\ Len(rs) = n /\ \A k \in 1..n : rs[k] = cs[(n - k) + 1]
  BY ReverseInSeq
<1>3. PICK f \in [0..n -> LedgerState] :
        /\ f[0] = l /\ f[n] = CreditAll(l, cs)
        /\ \A k \in 1..n : f[k] = Credit(f[k - 1], cs[k])
  BY CreditRun
<1>4. f[n] \in LedgerState
  BY <1>1, <1>3
<1>5. PICK g \in [0..n -> LedgerState] :
        /\ g[0] = f[n] /\ g[n] = UncreditAll(f[n], rs)
        /\ \A k \in 1..n : g[k] = Uncredit(g[k - 1], rs[k])
  <2> HIDE DEF rs, n
  <2>1. \E g \in [0..Len(rs) -> LedgerState] :
          /\ g[0] = f[n] /\ g[Len(rs)] = UncreditAll(f[n], rs)
          /\ \A k \in 1..Len(rs) : g[k] = Uncredit(g[k - 1], rs[k])
    BY <1>2, <1>4, UncreditRun
  <2>2. QED BY <1>2, <2>1
<1>6. ASSUME NEW k \in 1..n, g[k - 1] = f[(n - k) + 1] PROVE g[k] = f[n - k]
  <2> DEFINE m == (n - k) + 1
  <2>1. m \in 1..n /\ m - 1 = n - k /\ n - k \in 0..n
    BY <1>1
  <2>2. f[m] = Credit(f[n - k], cs[m]) /\ f[n - k] \in LedgerState /\ cs[m] \in Coin
    BY <1>1, <1>3, <2>1
  <2>3. g[k] = Uncredit(f[m], cs[m])
    BY <1>2, <1>5, <1>6
  <2> HIDE DEF m
  <2>4. QED BY <2>2, <2>3, UncreditUndoes
<1>7. g[n] = f[0]
  <2> HIDE DEF n
  <2>1. QED BY <1>1, <1>5, <1>6, RunsBack
<1>8. QED BY <1>3, <1>5, <1>7

(* A block whose transactions all ran spent them one after the other. *)
LEMMA RunTxsSpends ==
  ASSUME NEW l \in LedgerState, NEW txs \in Seq(TxId), RunTxs(l, txs).ok
  PROVE  \E f \in [0..Len(txs) -> LedgerState] :
           /\ f[0] = l /\ f[Len(txs)] = RunTxs(l, txs).ledger
           /\ \A k \in 1..Len(txs) :
                f[k] = Spend(f[k - 1], txs[k]) /\ FitsTx(f[k - 1], txs[k])
<1> DEFINE n == Len(txs)
           r == [ok |-> TRUE, ledger |-> l]
<1>1. n \in Nat /\ r \in Run
  BY LenProperties DEF Run
<1>2. PICK h \in [0..n -> Run] :
        /\ h[0] = r /\ h[n] = RunTxs(l, txs)
        /\ \A k \in 1..n : h[k] = RunTx(h[k - 1], txs[k])
  <2> HIDE DEF r
  <2>1. \E h \in [0..n -> Run] :
        /\ h[0] = r /\ h[n] = RunAll(r, txs)
        /\ \A k \in 1..n : h[k] = RunTx(h[k - 1], txs[k])
    BY <1>1, TxRun
  <2>2. QED BY <2>1, FoldNames DEF r
<1>3. ASSUME NEW k \in 1..n, h[k].ok
      PROVE  /\ h[k - 1].ok /\ FitsTx(h[k - 1].ledger, txs[k])
             /\ h[k].ledger = Spend(h[k - 1].ledger, txs[k])
  <2>1. k - 1 \in 0..n /\ h[k - 1] \in Run /\ h[k] = RunTx(h[k - 1], txs[k])
    BY <1>1, <1>2
  <2>2. h[k - 1].ok /\ FitsTx(h[k - 1].ledger, txs[k])
    BY <1>3, <2>1 DEF RunTx, Run
  <2>3. QED BY <2>1, <2>2 DEF RunTx
<1>4. \A k \in 0..n : h[k].ok
  <2> DEFINE S == {k \in 0..n : h[n - k].ok}
  <2>1. 0 \in S
    <3>1. n - 0 = n /\ 0 \in 0..n
      BY <1>1
    <3>2. QED BY <1>2, <3>1
  <2>2. \A k \in 0..n : k \in S /\ k < n => k + 1 \in S
    <3>1. TAKE k \in 0..n
    <3>2. ASSUME k \in S, k < n PROVE k + 1 \in S
      <4>1. n - k \in 1..n /\ (n - k) - 1 = n - (k + 1) /\ k + 1 \in 0..n
        BY <1>1, <3>2
      <4>2. QED BY <4>1, <1>3, <3>2
    <3>3. QED BY <3>2
  <2>3. 0..n \subseteq S
    <3> HIDE DEF S, n
    <3>1. QED BY <1>1, <2>1, <2>2, SetInduction
  <2>4. \A k \in 0..n : n - k \in S /\ n - (n - k) = k
    BY <1>1, <2>3
  <2>5. QED BY <2>4
<1> DEFINE f == [k \in 0..n |-> h[k].ledger]
<1>5. f \in [0..n -> LedgerState]
  BY <1>2 DEF Run
<1>6. f[0] = l /\ f[n] = RunTxs(l, txs).ledger
  BY <1>1, <1>2
<1>7. \A k \in 1..n : f[k] = Spend(f[k - 1], txs[k]) /\ FitsTx(f[k - 1], txs[k])
  <2>1. TAKE k \in 1..n
  <2>2. k \in 0..n /\ k - 1 \in 0..n
    BY <1>1
  <2>3. QED BY <1>3, <1>4, <2>2
<1> HIDE DEF f
<1>8. QED BY <1>5, <1>6, <1>7

(* Payments that all ran were spent one after the other. *)
LEMMA RunSpendsAll ==
  ASSUME NEW l \in LedgerState, NEW txs \in Seq(TxId), RunTxs(l, txs).ok
  PROVE  RunTxs(l, txs).ledger = SpendAll(l, txs)
<1> DEFINE n == Len(txs)
<1>1. n \in Nat
  BY LenProperties
<1>2. PICK f \in [0..n -> LedgerState] :
        /\ f[0] = l /\ f[n] = RunTxs(l, txs).ledger
        /\ \A k \in 1..n : f[k] = Spend(f[k - 1], txs[k]) /\ FitsTx(f[k - 1], txs[k])
  BY RunTxsSpends
<1>3. PICK g \in [0..n -> LedgerState] :
        /\ g[0] = l /\ g[n] = SpendAll(l, txs)
        /\ \A k \in 1..n : g[k] = Spend(g[k - 1], txs[k])
  BY SpendRun
<1>4. f[0] = g[0] /\ \A k \in 1..n : f[k - 1] = g[k - 1] => f[k] = g[k]
  BY <1>2, <1>3
<1>5. f[n] = g[n]
  <2> HIDE DEF n
  <2>1. QED BY <1>1, <1>4, RunsAgree
<1>6. QED BY <1>2, <1>3, <1>5

(* ... and taking them back in reverse order gives the ledger before. *)
LEMMA UnspendsUndo ==
  ASSUME NEW l \in LedgerState, NEW txs \in Seq(TxId)
  PROVE  UnspendAll(SpendAll(l, txs), Reverse(txs)) = l
<1> DEFINE n == Len(txs)
           rs == Reverse(txs)
<1>1. n \in Nat /\ \A i \in 1..n : txs[i] \in TxId
  BY LenProperties, ElementOfSeq
<1>2. rs \in Seq(TxId) /\ Len(rs) = n /\ \A k \in 1..n : rs[k] = txs[(n - k) + 1]
  BY ReverseInSeq
<1>3. PICK f \in [0..n -> LedgerState] :
        /\ f[0] = l /\ f[n] = SpendAll(l, txs)
        /\ \A k \in 1..n : f[k] = Spend(f[k - 1], txs[k])
  BY SpendRun
<1>4. f[n] \in LedgerState
  BY <1>1, <1>3
<1>5. PICK g \in [0..n -> LedgerState] :
        /\ g[0] = f[n] /\ g[n] = UnspendAll(f[n], rs)
        /\ \A k \in 1..n : g[k] = Unspend(g[k - 1], rs[k])
  <2> HIDE DEF rs, n
  <2>1. \E g \in [0..Len(rs) -> LedgerState] :
          /\ g[0] = f[n] /\ g[Len(rs)] = UnspendAll(f[n], rs)
          /\ \A k \in 1..Len(rs) : g[k] = Unspend(g[k - 1], rs[k])
    BY <1>2, <1>4, UnspendRun
  <2>2. QED BY <1>2, <2>1
<1>6. ASSUME NEW k \in 1..n, g[k - 1] = f[(n - k) + 1] PROVE g[k] = f[n - k]
  <2> DEFINE m == (n - k) + 1
  <2>1. m \in 1..n /\ m - 1 = n - k /\ n - k \in 0..n
    BY <1>1
  <2>2. f[m] = Spend(f[n - k], txs[m]) /\ f[n - k] \in LedgerState /\ txs[m] \in TxId
    BY <1>1, <1>3, <2>1
  <2>3. g[k] = Unspend(f[m], txs[m])
    BY <1>2, <1>5, <1>6
  <2> HIDE DEF m
  <2>4. QED BY <2>2, <2>3, UnspendUndoes
<1>7. g[n] = f[0]
  <2> HIDE DEF n
  <2>1. QED BY <1>1, <1>5, <1>6, RunsBack
<1>8. QED BY <1>3, <1>5, <1>7

(* rollback_block takes back what a block does, on every ledger. *)
LEMMA RollbackUndoes ==
  ASSUME NEW l \in LedgerState, NEW b \in Block
  PROVE  RollbackBlock(Do(l, b), b) = l
<1> DEFINE m == SpendAll(l, Txs[b])
<1>1. Coinbases[b] \in Seq(Coin) /\ Txs[b] \in Seq(TxId)
  BY LedgerAssumption, BlockAssumption DEF Coin
<1>2. m \in LedgerState
  BY <1>1, SpendAllType
<1>3. UnspendAll(m, Reverse(Txs[b])) = l
  BY <1>1, UnspendsUndo
<1> HIDE DEF m
<1>4. UncreditAll(CreditAll(m, Coinbases[b]), Reverse(Coinbases[b])) = m
  BY <1>1, <1>2, UncreditsUndo
<1>5. Do(l, b) = CreditAll(m, Coinbases[b])
  BY DoIs DEF m
<1>6. QED BY <1>3, <1>4, <1>5, FoldNames

(* apply_block does what the block does, if it applies. *)
LEMMA ApplyDoes ==
  ASSUME NEW l \in LedgerState, NEW b \in Block, Applies(l, b)
  PROVE  ApplyBlock(l, b) = Do(l, b)
<1>1. Txs[b] \in Seq(TxId) /\ RunTxs(l, Txs[b]).ok
  BY BlockAssumption DEF Applies
<1>2. RunTxs(l, Txs[b]).ledger = SpendAll(l, Txs[b])
  BY <1>1, RunSpendsAll
<1>3. QED BY <1>2, FoldNames, DoIs

(* rollback_block on the ledger that apply_block left gives the ledger     *)
(* before, for every ledger and every block: also for transfers to         *)
(* oneself, several transactions of one sender, and a miner who spends in  *)
(* his own block.                                                          *)
THEOREM RollbackUndoesApply ==
  ASSUME NEW l \in LedgerState, NEW b \in Block
  PROVE  UndoesItself(l, b)
  BY ApplyDoes, RollbackUndoes DEF UndoesItself

(* A block has different effects on different ledgers. *)
LEMMA DoInjective ==
  ASSUME NEW l \in LedgerState, NEW m \in LedgerState, NEW b \in Block,
         Do(l, b) = Do(m, b)
  PROVE  l = m
<1>1. RollbackBlock(Do(l, b), b) = l /\ RollbackBlock(Do(m, b), b) = m
  BY RollbackUndoes
<1>2. QED BY <1>1

(* Giving a coinbase again that was taken back. *)
LEMMA CreditRedoes ==
  ASSUME NEW l \in LedgerState, NEW c \in Coin
  PROVE  Credit(Uncredit(l, c), c) = l
<1> DEFINE m == Uncredit(l, c)
           bal == [m.bal EXCEPT ![c.to] = @ + c.amount]
<1>1. /\ l = [bal |-> l.bal, nonce |-> l.nonce] /\ l.bal \in [Account -> Int]
      /\ c.to \in Account /\ c.amount \in Int
  BY DEF LedgerState, Coin
<1>2. m = [bal |-> [l.bal EXCEPT ![c.to] = @ - c.amount], nonce |-> l.nonce]
  BY <1>1 DEF Uncredit
<1>3. m.bal = [l.bal EXCEPT ![c.to] = @ - c.amount] /\ m.nonce = l.nonce
  BY <1>2
<1> HIDE DEF m
<1>4. \A a \in Account : bal[a] = l.bal[a]
  BY <1>1, <1>3
<1>5. bal = l.bal
  BY <1>1, <1>3, <1>4
<1>6. Credit(m, c) = [bal |-> bal, nonce |-> m.nonce]
  BY <1>2 DEF Credit
<1>7. QED BY <1>1, <1>3, <1>5, <1>6 DEF m

(* The same of all coinbases of a block. *)
LEMMA CreditsRedo ==
  ASSUME NEW l \in LedgerState, NEW cs \in Seq(Coin)
  PROVE  CreditAll(UncreditAll(l, Reverse(cs)), cs) = l
<1> DEFINE n == Len(cs)
           rs == Reverse(cs)
<1>1. n \in Nat /\ \A i \in 1..n : cs[i] \in Coin
  BY LenProperties, ElementOfSeq
<1>2. rs \in Seq(Coin) /\ Len(rs) = n /\ \A k \in 1..n : rs[k] = cs[(n - k) + 1]
  BY ReverseInSeq
<1>3. PICK f \in [0..n -> LedgerState] :
        /\ f[0] = l /\ f[n] = UncreditAll(l, rs)
        /\ \A k \in 1..n : f[k] = Uncredit(f[k - 1], rs[k])
  <2> HIDE DEF rs, n
  <2>1. \E f \in [0..Len(rs) -> LedgerState] :
          /\ f[0] = l /\ f[Len(rs)] = UncreditAll(l, rs)
          /\ \A k \in 1..Len(rs) : f[k] = Uncredit(f[k - 1], rs[k])
    BY <1>2, UncreditRun
  <2>2. QED BY <1>2, <2>1
<1>4. f[n] \in LedgerState
  BY <1>1, <1>3
<1>5. PICK g \in [0..n -> LedgerState] :
        /\ g[0] = f[n] /\ g[n] = CreditAll(f[n], cs)
        /\ \A k \in 1..n : g[k] = Credit(g[k - 1], cs[k])
  BY <1>4, CreditRun
<1>6. ASSUME NEW k \in 1..n, g[k - 1] = f[(n - k) + 1] PROVE g[k] = f[n - k]
  <2> DEFINE m == (n - k) + 1
  <2>1. m \in 1..n /\ m - 1 = n - k /\ n - k \in 0..n /\ (n - m) + 1 = k
    BY <1>1
  <2>2. rs[m] = cs[k] /\ cs[k] \in Coin
    BY <1>1, <1>2, <2>1
  <2>3. f[m] = Uncredit(f[n - k], cs[k]) /\ f[n - k] \in LedgerState
    BY <1>3, <2>1, <2>2
  <2>4. g[k] = Credit(f[m], cs[k])
    BY <1>5, <1>6
  <2> HIDE DEF m, rs
  <2>5. QED BY <2>2, <2>3, <2>4, CreditRedoes
<1>7. g[n] = f[0]
  <2> HIDE DEF n
  <2>1. QED BY <1>1, <1>5, <1>6, RunsBack
<1>8. QED BY <1>3, <1>5, <1>7

(* No payments leave a ledger as it is, done or undone. *)
LEMMA NoPayments ==
  ASSUME NEW l \in LedgerState
  PROVE  /\ SpendAll(l, <<>>) = l /\ UnspendAll(l, <<>>) = l /\ RunTxs(l, <<>>).ok
<1>1. <<>> \in Seq(TxId) /\ Len(<<>>) = 0
  BY EmptySeq
<1>2. SpendAll(l, <<>>) = l
  <2>1. PICK f \in [0..Len(<<>>) -> LedgerState] : f[0] = l /\ f[Len(<<>>)] = SpendAll(l, <<>>)
    BY <1>1, SpendRun
  <2>2. QED BY <1>1, <2>1
<1>3. UnspendAll(l, <<>>) = l
  <2>1. PICK f \in [0..Len(<<>>) -> LedgerState] : f[0] = l /\ f[Len(<<>>)] = UnspendAll(l, <<>>)
    BY <1>1, UnspendRun
  <2>2. QED BY <1>1, <2>1
<1>4. RunTxs(l, <<>>).ok
  <2> DEFINE r == [ok |-> TRUE, ledger |-> l]
  <2>1. r \in Run /\ r.ok
    BY DEF Run
  <2>2. RunTxs(l, <<>>) = RunAll(r, <<>>)
    BY FoldNames
  <2> HIDE DEF r
  <2>3. PICK f \in [0..Len(<<>>) -> Run] : f[0] = r /\ f[Len(<<>>)] = RunAll(r, <<>>)
    BY <1>1, <2>1, TxRun
  <2>4. QED BY <1>1, <2>1, <2>2, <2>3
<1>5. QED BY <1>2, <1>3, <1>4

(* A block without payments is undone even on a ledger it was not done to. *)
LEMMA RedoWithoutPayments ==
  ASSUME NEW l \in LedgerState, NEW b \in Block, Txs[b] = <<>>
  PROVE  Do(RollbackBlock(l, b), b) = l
<1> DEFINE m == UncreditAll(l, Reverse(Coinbases[b]))
<1>1. Coinbases[b] \in Seq(Coin) /\ Reverse(Coinbases[b]) \in Seq(Coin)
  BY ReverseInSeq, LedgerAssumption DEF Coin
<1>2. m \in LedgerState
  BY <1>1, FoldsType
<1>3. Reverse(Txs[b]) = <<>>
  <2>1. Txs[b] \in Seq(TxId) /\ Len(Txs[b]) = 0
    BY BlockAssumption
  <2>2. Reverse(Txs[b]) \in Seq(TxId) /\ Len(Reverse(Txs[b])) = 0
    BY <2>1, ReverseInSeq
  <2>3. QED BY <2>2, EmptySeq
<1>4. RollbackBlock(l, b) = UnspendAll(m, <<>>)
  BY <1>3, FoldNames
<1>5. CreditAll(m, Coinbases[b]) = l
  BY <1>1, CreditsRedo
<1> HIDE DEF m
<1>6. RollbackBlock(l, b) = m
  BY <1>2, <1>4, NoPayments
<1>7. Do(m, b) = CreditAll(m, Coinbases[b])
  BY <1>2, NoPayments, DoIs
<1>8. QED BY <1>5, <1>6, <1>7

-----------------------------------------------------------------------------
(* Where a payment leaves the entry of an account. *)
LEMMA SpendAt ==
  ASSUME NEW l \in LedgerState, NEW t \in TxId, NEW a \in Account
  PROVE  /\ Spend(l, t).bal[a] =
              l.bal[a] - (IF a = TxFrom[t] THEN TxAmount[t] + TxFee[t] ELSE 0)
                       + (IF a = TxTo[t] THEN TxAmount[t] ELSE 0)
         /\ Spend(l, t).nonce[a] = l.nonce[a] + (IF a = TxFrom[t] THEN 1 ELSE 0)
<1> DEFINE x == TxAmount[t] + TxFee[t]
           y == TxAmount[t]
           f == TxFrom[t]
           o == TxTo[t]
<1>1. f \in Account /\ o \in Account /\ x \in Int /\ y \in Int
  BY LedgerAssumption
<1>2. l.bal \in [Account -> Int] /\ l.nonce \in [Account -> Nat]
  BY DEF LedgerState
<1>3. /\ Spend(l, t).bal = [l.bal EXCEPT ![f] = @ - x, ![o] = @ + y]
      /\ Spend(l, t).nonce = [l.nonce EXCEPT ![f] = @ + 1]
  BY DEF Spend
<1> HIDE DEF f, o, x, y
<1> DEFINE bal == [l.bal EXCEPT ![f] = @ - x, ![o] = @ + y]
<1>4. bal[a] = l.bal[a] - (IF a = f THEN x ELSE 0) + (IF a = o THEN y ELSE 0)
  <2> DEFINE m == [l.bal EXCEPT ![f] = @ - x]
  <2>1. m \in [Account -> Int] /\ m[a] = l.bal[a] - (IF a = f THEN x ELSE 0)
    BY <1>1, <1>2
  <2>2. bal = [m EXCEPT ![o] = @ + y]
    OBVIOUS
  <2> HIDE DEF m, bal
  <2>3. bal[a] = m[a] + (IF a = o THEN y ELSE 0)
    BY <1>1, <2>1, <2>2
  <2>4. QED BY <2>1, <2>3
<1>5. [l.nonce EXCEPT ![f] = @ + 1][a] = l.nonce[a] + (IF a = f THEN 1 ELSE 0)
  BY <1>1, <1>2
<1> HIDE DEF bal
<1>6. QED BY <1>3, <1>4, <1>5 DEF f, o, x, y, bal

(* The same of a coinbase. *)
LEMMA CreditAt ==
  ASSUME NEW l \in LedgerState, NEW c \in Coin, NEW a \in Account
  PROVE  /\ Credit(l, c).bal[a] = l.bal[a] + (IF a = c.to THEN c.amount ELSE 0)
         /\ Credit(l, c).nonce[a] = l.nonce[a]
<1>1. /\ l = [bal |-> l.bal, nonce |-> l.nonce] /\ l.bal \in [Account -> Int]
      /\ c.to \in Account /\ c.amount \in Int
  BY DEF LedgerState, Coin
<1>2. Credit(l, c) = [bal |-> [l.bal EXCEPT ![c.to] = @ + c.amount], nonce |-> l.nonce]
  BY <1>1 DEF Credit
<1>3. QED BY <1>1, <1>2

(* Two ledgers with the same entries are the same. *)
LEMMA SameLedger ==
  ASSUME NEW l \in LedgerState, NEW m \in LedgerState,
         \A a \in Account : l.bal[a] = m.bal[a] /\ l.nonce[a] = m.nonce[a]
  PROVE  l = m
  BY DEF LedgerState

(* Payments and coinbases may be done in any order: they add. *)
LEMMA StepsCommute ==
  ASSUME NEW l \in LedgerState
  PROVE  /\ \A t, u \in TxId : Spend(Spend(l, t), u) = Spend(Spend(l, u), t)
         /\ \A t \in TxId, c \in Coin : Spend(Credit(l, c), t) = Credit(Spend(l, t), c)
         /\ \A c, d \in Coin : Credit(Credit(l, c), d) = Credit(Credit(l, d), c)
<1>0. \A t \in TxId : TxAmount[t] \in Int /\ TxFee[t] \in Int
  BY LedgerAssumption
<1>01. \A c \in Coin : c.amount \in Int
  BY DEF Coin
<1>02. \A m \in LedgerState, a \in Account : m.bal[a] \in Int /\ m.nonce[a] \in Int
  BY DEF LedgerState
<1>1. ASSUME NEW t \in TxId, NEW u \in TxId
      PROVE  Spend(Spend(l, t), u) = Spend(Spend(l, u), t)
  <2> DEFINE m == Spend(l, t)
             n == Spend(l, u)
  <2>1. m \in LedgerState /\ n \in LedgerState
    BY SpendType
  <2>2. ASSUME NEW a \in Account
        PROVE  Spend(m, u).bal[a] = Spend(n, t).bal[a] /\ Spend(m, u).nonce[a] = Spend(n, t).nonce[a]
    <3> DEFINE out(v) == IF a = TxFrom[v] THEN TxAmount[v] + TxFee[v] ELSE 0
               in(v) == IF a = TxTo[v] THEN TxAmount[v] ELSE 0
               one(v) == IF a = TxFrom[v] THEN 1 ELSE 0
    <3>1. \A v \in TxId : out(v) \in Int /\ in(v) \in Int /\ one(v) \in Int
      BY <1>0
    <3>2. /\ m.bal[a] = l.bal[a] - out(t) + in(t) /\ m.nonce[a] = l.nonce[a] + one(t)
          /\ n.bal[a] = l.bal[a] - out(u) + in(u) /\ n.nonce[a] = l.nonce[a] + one(u)
      BY SpendAt
    <3> HIDE DEF m, n
    <3>3. /\ Spend(m, u).bal[a] = m.bal[a] - out(u) + in(u)
          /\ Spend(m, u).nonce[a] = m.nonce[a] + one(u)
          /\ Spend(n, t).bal[a] = n.bal[a] - out(t) + in(t)
          /\ Spend(n, t).nonce[a] = n.nonce[a] + one(t)
      BY <2>1, SpendAt
    <3>4. l.bal[a] \in Int /\ l.nonce[a] \in Int
      BY <1>02
    <3> HIDE DEF out, in, one
    <3>5. QED BY <3>1, <3>2, <3>3, <3>4
  <2> HIDE DEF m, n
  <2>3. Spend(m, u) \in LedgerState /\ Spend(n, t) \in LedgerState
    BY <2>1, SpendType
  <2>4. Spend(m, u) = Spend(n, t)
    BY <2>2, <2>3, SameLedger
  <2>5. QED BY <2>4 DEF m, n
<1>2. ASSUME NEW t \in TxId, NEW c \in Coin
      PROVE  Spend(Credit(l, c), t) = Credit(Spend(l, t), c)
  <2> DEFINE m == Credit(l, c)
             n == Spend(l, t)
  <2>1. m \in LedgerState /\ n \in LedgerState
    BY SpendType, CreditType
  <2>2. ASSUME NEW a \in Account
        PROVE  Spend(m, t).bal[a] = Credit(n, c).bal[a] /\ Spend(m, t).nonce[a] = Credit(n, c).nonce[a]
    <3> DEFINE out == IF a = TxFrom[t] THEN TxAmount[t] + TxFee[t] ELSE 0
               in == IF a = TxTo[t] THEN TxAmount[t] ELSE 0
               one == IF a = TxFrom[t] THEN 1 ELSE 0
               coin == IF a = c.to THEN c.amount ELSE 0
    <3>1. out \in Int /\ in \in Int /\ one \in Int /\ coin \in Int
      BY <1>0, <1>01
    <3>2. /\ m.bal[a] = l.bal[a] + coin /\ m.nonce[a] = l.nonce[a]
          /\ n.bal[a] = l.bal[a] - out + in /\ n.nonce[a] = l.nonce[a] + one
      BY SpendAt, CreditAt
    <3> HIDE DEF m, n
    <3>3. /\ Spend(m, t).bal[a] = m.bal[a] - out + in
          /\ Spend(m, t).nonce[a] = m.nonce[a] + one
          /\ Credit(n, c).bal[a] = n.bal[a] + coin
          /\ Credit(n, c).nonce[a] = n.nonce[a]
      BY <2>1, SpendAt, CreditAt
    <3>4. l.bal[a] \in Int /\ l.nonce[a] \in Int
      BY <1>02
    <3> HIDE DEF out, in, one, coin
    <3>5. QED BY <3>1, <3>2, <3>3, <3>4
  <2> HIDE DEF m, n
  <2>3. Spend(m, t) \in LedgerState /\ Credit(n, c) \in LedgerState
    BY <2>1, SpendType, CreditType
  <2>4. Spend(m, t) = Credit(n, c)
    BY <2>2, <2>3, SameLedger
  <2>5. QED BY <2>4 DEF m, n
<1>3. ASSUME NEW c \in Coin, NEW d \in Coin
      PROVE  Credit(Credit(l, c), d) = Credit(Credit(l, d), c)
  <2> DEFINE m == Credit(l, c)
             n == Credit(l, d)
  <2>1. m \in LedgerState /\ n \in LedgerState
    BY CreditType
  <2>2. ASSUME NEW a \in Account
        PROVE  Credit(m, d).bal[a] = Credit(n, c).bal[a] /\ Credit(m, d).nonce[a] = Credit(n, c).nonce[a]
    <3> DEFINE coin(e) == IF a = e.to THEN e.amount ELSE 0
    <3>1. coin(c) \in Int /\ coin(d) \in Int
      BY <1>01
    <3>2. /\ m.bal[a] = l.bal[a] + coin(c) /\ m.nonce[a] = l.nonce[a]
          /\ n.bal[a] = l.bal[a] + coin(d) /\ n.nonce[a] = l.nonce[a]
      BY CreditAt
    <3> HIDE DEF m, n
    <3>3. /\ Credit(m, d).bal[a] = m.bal[a] + coin(d)
          /\ Credit(m, d).nonce[a] = m.nonce[a]
          /\ Credit(n, c).bal[a] = n.bal[a] + coin(c)
          /\ Credit(n, c).nonce[a] = n.nonce[a]
      BY <2>1, CreditAt
    <3>4. l.bal[a] \in Int
      BY <1>02
    <3> HIDE DEF coin
    <3>5. QED BY <3>1, <3>2, <3>3, <3>4
  <2> HIDE DEF m, n
  <2>3. Credit(m, d) \in LedgerState /\ Credit(n, c) \in LedgerState
    BY <2>1, CreditType
  <2>4. Credit(m, d) = Credit(n, c)
    BY <2>2, <2>3, SameLedger
  <2>5. QED BY <2>4 DEF m, n
<1>4. QED BY <1>1, <1>2, <1>3

-----------------------------------------------------------------------------
(* A map of ledgers that may be moved past a payment or a coinbase, and    *)
(* one that may be moved past a block.                                     *)
PassesSteps(g) ==
  /\ \A l \in LedgerState, t \in TxId : g[Spend(l, t)] = Spend(g[l], t)
  /\ \A l \in LedgerState, c \in Coin : g[Credit(l, c)] = Credit(g[l], c)
PassesBlocks(g) == \A l \in LedgerState, b \in Block : g[Do(l, b)] = Do(g[l], b)

(* What may be moved past each step may be moved past the fold of them. *)
LEMMA PassesSpends ==
  ASSUME NEW g \in [LedgerState -> LedgerState], PassesSteps(g),
         NEW l \in LedgerState, NEW txs \in Seq(TxId)
  PROVE  g[SpendAll(l, txs)] = SpendAll(g[l], txs)
<1> DEFINE n == Len(txs)
<1>1. n \in Nat /\ g[l] \in LedgerState /\ n \in 0..n
      /\ \A i \in 1..n : txs[i] \in TxId
  BY LenProperties, ElementOfSeq
<1>2. PICK f \in [0..n -> LedgerState] :
        /\ f[0] = l /\ f[n] = SpendAll(l, txs)
        /\ \A k \in 1..n : f[k] = Spend(f[k - 1], txs[k])
  BY SpendRun
<1>3. PICK h \in [0..n -> LedgerState] :
        /\ h[0] = g[l] /\ h[n] = SpendAll(g[l], txs)
        /\ \A k \in 1..n : h[k] = Spend(h[k - 1], txs[k])
  BY <1>1, SpendRun
<1> DEFINE e == [k \in 0..n |-> g[f[k]]]
<1>4. ASSUME NEW k \in 1..n, h[k - 1] = e[k - 1] PROVE h[k] = e[k]
  <2>1. k \in 0..n /\ k - 1 \in 0..n /\ f[k - 1] \in LedgerState /\ txs[k] \in TxId
    BY <1>1
  <2>2. g[Spend(f[k - 1], txs[k])] = Spend(g[f[k - 1]], txs[k])
    BY <2>1 DEF PassesSteps
  <2>3. QED BY <1>2, <1>3, <1>4, <2>1, <2>2
<1>5. h[0] = e[0] /\ e[n] = g[f[n]]
  BY <1>1, <1>2, <1>3
<1> HIDE DEF e, n
<1>6. h[n] = e[n]
  BY <1>1, <1>4, <1>5, RunsAgree
<1>7. QED BY <1>2, <1>3, <1>5, <1>6 DEF n

(* The same of coinbases. *)
LEMMA PassesCredits ==
  ASSUME NEW g \in [LedgerState -> LedgerState], PassesSteps(g),
         NEW l \in LedgerState, NEW cs \in Seq(Coin)
  PROVE  g[CreditAll(l, cs)] = CreditAll(g[l], cs)
<1> DEFINE n == Len(cs)
<1>1. n \in Nat /\ g[l] \in LedgerState /\ n \in 0..n
      /\ \A i \in 1..n : cs[i] \in Coin
  BY LenProperties, ElementOfSeq
<1>2. PICK f \in [0..n -> LedgerState] :
        /\ f[0] = l /\ f[n] = CreditAll(l, cs)
        /\ \A k \in 1..n : f[k] = Credit(f[k - 1], cs[k])
  BY CreditRun
<1>3. PICK h \in [0..n -> LedgerState] :
        /\ h[0] = g[l] /\ h[n] = CreditAll(g[l], cs)
        /\ \A k \in 1..n : h[k] = Credit(h[k - 1], cs[k])
  BY <1>1, CreditRun
<1> DEFINE e == [k \in 0..n |-> g[f[k]]]
<1>4. ASSUME NEW k \in 1..n, h[k - 1] = e[k - 1] PROVE h[k] = e[k]
  <2>1. k \in 0..n /\ k - 1 \in 0..n /\ f[k - 1] \in LedgerState /\ cs[k] \in Coin
    BY <1>1
  <2>2. g[Credit(f[k - 1], cs[k])] = Credit(g[f[k - 1]], cs[k])
    BY <2>1 DEF PassesSteps
  <2>3. QED BY <1>2, <1>3, <1>4, <2>1, <2>2
<1>5. h[0] = e[0] /\ e[n] = g[f[n]]
  BY <1>1, <1>2, <1>3
<1> HIDE DEF e, n
<1>6. h[n] = e[n]
  BY <1>1, <1>4, <1>5, RunsAgree
<1>7. QED BY <1>2, <1>3, <1>5, <1>6 DEF n

(* ... and past a block, *)
LEMMA PassesBlock ==
  ASSUME NEW g \in [LedgerState -> LedgerState], PassesSteps(g)
  PROVE  PassesBlocks(g)
<1> SUFFICES ASSUME NEW l \in LedgerState, NEW b \in Block
             PROVE  g[Do(l, b)] = Do(g[l], b)
  BY DEF PassesBlocks
<1>1. Coinbases[b] \in Seq(Coin) /\ Txs[b] \in Seq(TxId)
  BY LedgerAssumption, BlockAssumption DEF Coin
<1>2. SpendAll(l, Txs[b]) \in LedgerState
  BY <1>1, SpendAllType
<1>3. g[Do(l, b)] = CreditAll(g[SpendAll(l, Txs[b])], Coinbases[b])
  BY <1>1, <1>2, PassesCredits, DoIs
<1>4. g[SpendAll(l, Txs[b])] = SpendAll(g[l], Txs[b])
  BY <1>1, PassesSpends
<1>5. QED BY <1>3, <1>4, DoIs

(* ... and past a list of blocks. *)
LEMMA PassesAll ==
  ASSUME NEW g \in [LedgerState -> LedgerState], PassesBlocks(g),
         NEW l \in LedgerState, NEW blocks \in Seq(Block)
  PROVE  g[DoAll(l, blocks)] = DoAll(g[l], blocks)
<1> DEFINE n == Len(blocks)
<1>1. n \in Nat /\ g[l] \in LedgerState /\ n \in 0..n
      /\ \A i \in 1..n : blocks[i] \in Block
  BY LenProperties, ElementOfSeq
<1>2. PICK f \in [0..n -> LedgerState] :
        /\ f[0] = l /\ f[n] = DoAll(l, blocks)
        /\ \A k \in 1..n : f[k] = Do(f[k - 1], blocks[k])
  BY DoRun
<1>3. PICK h \in [0..n -> LedgerState] :
        /\ h[0] = g[l] /\ h[n] = DoAll(g[l], blocks)
        /\ \A k \in 1..n : h[k] = Do(h[k - 1], blocks[k])
  BY <1>1, DoRun
<1> DEFINE e == [k \in 0..n |-> g[f[k]]]
<1>4. ASSUME NEW k \in 1..n, h[k - 1] = e[k - 1] PROVE h[k] = e[k]
  <2>1. k \in 0..n /\ k - 1 \in 0..n /\ f[k - 1] \in LedgerState /\ blocks[k] \in Block
    BY <1>1
  <2>2. g[Do(f[k - 1], blocks[k])] = Do(g[f[k - 1]], blocks[k])
    BY <2>1 DEF PassesBlocks
  <2>3. QED BY <1>2, <1>3, <1>4, <2>1, <2>2
<1>5. h[0] = e[0] /\ e[n] = g[f[n]]
  BY <1>1, <1>2, <1>3
<1> HIDE DEF e, n
<1>6. h[n] = e[n]
  BY <1>1, <1>4, <1>5, RunsAgree
<1>7. QED BY <1>2, <1>3, <1>5, <1>6 DEF n

(* Each step may be moved past a block, because it may past each step. *)
LEMMA StepsPassBlocks ==
  ASSUME NEW l \in LedgerState, NEW b \in Block
  PROVE  /\ \A t \in TxId : Spend(Do(l, b), t) = Do(Spend(l, t), b)
         /\ \A c \in Coin : Credit(Do(l, b), c) = Do(Credit(l, c), b)
<1>0. Do(l, b) \in LedgerState
  BY DoType
<1>1. ASSUME NEW t \in TxId PROVE Spend(Do(l, b), t) = Do(Spend(l, t), b)
  <2> DEFINE g == [m \in LedgerState |-> Spend(m, t)]
  <2>1. g \in [LedgerState -> LedgerState]
    BY SpendType
  <2>2. PassesSteps(g)
    BY StepsCommute, SpendType, CreditType DEF PassesSteps
  <2>3. g[Do(l, b)] = Spend(Do(l, b), t) /\ g[l] = Spend(l, t)
    BY <1>0
  <2> HIDE DEF g
  <2>4. g[Do(l, b)] = Do(g[l], b)
    BY <2>1, <2>2, PassesBlock DEF PassesBlocks
  <2>5. QED BY <2>3, <2>4
<1>2. ASSUME NEW c \in Coin PROVE Credit(Do(l, b), c) = Do(Credit(l, c), b)
  <2> DEFINE g == [m \in LedgerState |-> Credit(m, c)]
  <2>1. g \in [LedgerState -> LedgerState]
    BY CreditType
  <2>2. PassesSteps(g)
    BY StepsCommute, SpendType, CreditType DEF PassesSteps
  <2>3. g[Do(l, b)] = Credit(Do(l, b), c) /\ g[l] = Credit(l, c)
    BY <1>0
  <2> HIDE DEF g
  <2>4. g[Do(l, b)] = Do(g[l], b)
    BY <2>1, <2>2, PassesBlock DEF PassesBlocks
  <2>5. QED BY <2>3, <2>4
<1>3. QED BY <1>1, <1>2

(* So the effects of blocks add up in any order. *)
LEMMA BlocksCommute ==
  ASSUME NEW l \in LedgerState
  PROVE  /\ \A s \in Seq(Block), b \in Block : DoAll(Do(l, b), s) = Do(DoAll(l, s), b)
         /\ \A s, t \in Seq(Block) : DoAll(DoAll(l, s), t) = DoAll(DoAll(l, t), s)
<1>1. ASSUME NEW s \in Seq(Block), NEW b \in Block, NEW m \in LedgerState
      PROVE  DoAll(Do(m, b), s) = Do(DoAll(m, s), b)
  <2> DEFINE g == [k \in LedgerState |-> Do(k, b)]
  <2>1. g \in [LedgerState -> LedgerState]
    BY DoType
  <2>2. PassesSteps(g)
    BY StepsPassBlocks, SpendType, CreditType DEF PassesSteps
  <2>3. DoAll(m, s) \in LedgerState
    BY DoAllType
  <2>4. g[DoAll(m, s)] = Do(DoAll(m, s), b) /\ g[m] = Do(m, b)
    BY <2>3
  <2> HIDE DEF g
  <2>5. g[DoAll(m, s)] = DoAll(g[m], s)
    BY <2>1, <2>2, PassesBlock, PassesAll
  <2>6. QED BY <2>4, <2>5
<1>2. ASSUME NEW s \in Seq(Block), NEW t \in Seq(Block)
      PROVE  DoAll(DoAll(l, s), t) = DoAll(DoAll(l, t), s)
  <2> DEFINE g == [k \in LedgerState |-> DoAll(k, s)]
  <2>1. g \in [LedgerState -> LedgerState]
    BY DoAllType
  <2>2. PassesBlocks(g)
    BY <1>1, DoType DEF PassesBlocks
  <2>3. DoAll(l, t) \in LedgerState
    BY DoAllType
  <2>4. g[DoAll(l, t)] = DoAll(DoAll(l, t), s) /\ g[l] = DoAll(l, s)
    BY <2>3
  <2> HIDE DEF g
  <2>5. g[DoAll(l, t)] = DoAll(g[l], t)
    BY <2>1, <2>2, PassesAll
  <2>6. QED BY <2>4, <2>5
<1>3. QED BY <1>1, <1>2

(* A list of blocks done in two parts. *)
LEMMA DoConcat ==
  ASSUME NEW l \in LedgerState, NEW s \in Seq(Block), NEW t \in Seq(Block)
  PROVE  DoAll(l, s \o t) = DoAll(DoAll(l, s), t)
<1> DEFINE m == Len(s)
           n == Len(t)
           st == s \o t
<1>1. m \in Nat /\ n \in Nat
  BY LenProperties
<1>2. /\ st \in Seq(Block) /\ Len(st) = m + n
      /\ \A i \in 1..m + n : st[i] = IF i <= m THEN s[i] ELSE t[i - m]
  BY ConcatProperties
<1> HIDE DEF st
<1>3. PICK f \in [0..m + n -> LedgerState] :
        /\ f[0] = l /\ f[m + n] = DoAll(l, st)
        /\ \A k \in 1..m + n : f[k] = Do(f[k - 1], st[k])
  <2>1. \E f \in [0..Len(st) -> LedgerState] :
          /\ f[0] = l /\ f[Len(st)] = DoAll(l, st)
          /\ \A k \in 1..Len(st) : f[k] = Do(f[k - 1], st[k])
    BY <1>2, DoRun
  <2>2. QED BY <1>2, <2>1
<1>4. PICK g \in [0..m -> LedgerState] :
        /\ g[0] = l /\ g[m] = DoAll(l, s)
        /\ \A k \in 1..m : g[k] = Do(g[k - 1], s[k])
  BY DoRun
<1>5. DoAll(l, s) \in LedgerState
  BY DoAllType
<1>6. PICK h \in [0..n -> LedgerState] :
        /\ h[0] = DoAll(l, s) /\ h[n] = DoAll(DoAll(l, s), t)
        /\ \A k \in 1..n : h[k] = Do(h[k - 1], t[k])
  BY <1>5, DoRun
<1>7. f[m] = g[m]
  <2>1. \A k \in 1..m : k \in 1..m + n /\ st[k] = s[k]
    BY <1>1, <1>2
  <2>2. \A k \in 1..m : f[k - 1] = g[k - 1] => f[k] = g[k]
    BY <1>3, <1>4, <2>1
  <2>3. m \in Nat /\ f[0] = g[0]
    BY <1>1, <1>3, <1>4
  <2> HIDE DEF m, n
  <2>4. QED BY <2>2, <2>3, RunsAgree
<1> DEFINE e == [k \in 0..n |-> f[m + k]]
<1>8. ASSUME NEW k \in 1..n, e[k - 1] = h[k - 1] PROVE e[k] = h[k]
  <2>1. /\ m + k \in 1..m + n /\ ~(m + k <= m) /\ (m + k) - m = k
        /\ (m + k) - 1 = m + (k - 1) /\ k - 1 \in 0..n /\ k \in 0..n
    BY <1>1
  <2>2. f[m + k] = Do(f[m + (k - 1)], st[m + k]) /\ st[m + k] = t[k]
    BY <1>2, <1>3, <2>1
  <2>3. h[k] = Do(h[k - 1], t[k])
    BY <1>6
  <2>4. QED BY <1>8, <2>1, <2>2, <2>3
<1>9. e[0] = f[m] /\ e[n] = f[m + n]
  BY <1>1
<1>10. e[n] = h[n]
  <2>1. n \in Nat /\ e[0] = h[0]
    BY <1>1, <1>4, <1>6, <1>7, <1>9
  <2> HIDE DEF e, n
  <2>2. QED BY <1>8, <2>1, RunsAgree
<1> HIDE DEF e, m, n
<1>11. QED BY <1>3, <1>6, <1>9, <1>10 DEF st

(* No block at all, and a single one. *)
LEMMA DoFew ==
  ASSUME NEW l \in LedgerState
  PROVE  /\ DoAll(l, <<>>) = l
         /\ \A b \in Block : DoAll(l, <<b>>) = Do(l, b)
<1>1. DoAll(l, <<>>) = l
  <2>1. <<>> \in Seq(Block) /\ Len(<<>>) = 0
    BY EmptySeq
  <2>2. PICK f \in [0..Len(<<>>) -> LedgerState] : f[0] = l /\ f[Len(<<>>)] = DoAll(l, <<>>)
    BY <2>1, DoRun
  <2>3. QED BY <2>1, <2>2
<1>2. ASSUME NEW b \in Block PROVE DoAll(l, <<b>>) = Do(l, b)
  <2> DEFINE s == <<b>>
  <2>1. s \in Seq(Block) /\ Len(s) = 1 /\ s[1] = b
    OBVIOUS
  <2> HIDE DEF s
  <2>2. PICK f \in [0..1 -> LedgerState] :
          /\ f[0] = l /\ f[1] = DoAll(l, s) /\ \A k \in 1..1 : f[k] = Do(f[k - 1], s[k])
    BY <2>1, DoRun
  <2>3. f[1] = Do(f[1 - 1], s[1]) /\ 1 - 1 = 0
    BY <2>2
  <2>4. DoAll(l, s) = Do(l, b)
    BY <2>1, <2>2, <2>3
  <2>5. QED BY <2>4 DEF s
<1>3. QED BY <1>1, <1>2

(* The beginnings of a list, each done after the one before. *)
LEMMA DoPrefix ==
  ASSUME NEW l \in LedgerState, NEW s \in Seq(Block)
  PROVE  /\ DoAll(l, SubSeq(s, 1, 0)) = l
         /\ DoAll(l, SubSeq(s, 1, Len(s))) = DoAll(l, s)
         /\ \A k \in 1..Len(s) :
              DoAll(l, SubSeq(s, 1, k)) = Do(DoAll(l, SubSeq(s, 1, k - 1)), s[k])
<1>1. Len(s) \in Nat /\ \A i \in 1..Len(s) : s[i] \in Block
  BY LenProperties, ElementOfSeq
<1>2. SubSeq(s, 1, 0) = <<>> /\ SubSeq(s, 1, Len(s)) = s
  BY SubSeqFull, SubSeqEmpty
<1>3. ASSUME NEW k \in 1..Len(s)
      PROVE  DoAll(l, SubSeq(s, 1, k)) = Do(DoAll(l, SubSeq(s, 1, k - 1)), s[k])
  <2> DEFINE u == SubSeq(s, 1, k - 1)
  <2>1. k - 1 \in 0..Len(s) /\ s[k] \in Block /\ <<s[k]>> \in Seq(Block)
    BY <1>1
  <2>2. u \in Seq(Block)
    BY <2>1, CutList
  <2>3. SubSeq(s, 1, k) = u \o <<s[k]>>
    <3>1. 1 \in 1..Len(s) /\ k \in 1..Len(s)
      BY <1>1
    <3>2. QED BY <3>1, SubSeqRecursiveSecond
  <2> HIDE DEF u
  <2>4. DoAll(l, u \o <<s[k]>>) = DoAll(DoAll(l, u), <<s[k]>>)
    BY <2>1, <2>2, DoConcat
  <2>5. DoAll(l, u) \in LedgerState
    BY <2>2, DoAllType
  <2>6. QED BY <2>1, <2>3, <2>4, <2>5, DoFew DEF u
<1>4. QED BY <1>2, <1>3, DoFew

(* A list of blocks and the reversed one do the same. *)
LEMMA DoReverse ==
  ASSUME NEW l \in LedgerState, NEW s \in Seq(Block)
  PROVE  DoAll(l, Reverse(s)) = DoAll(l, s)
<1> DEFINE n == Len(s)
           r == Reverse(s)
<1>1. /\ n \in Nat /\ n \in 0..n /\ r \in Seq(Block) /\ Len(r) = n
      /\ \A k \in 1..n : r[k] = s[(n - k) + 1]
      /\ \A k \in 1..n : s[k] \in Block
  BY LenProperties, ReverseInSeq, ElementOfSeq
<1> HIDE DEF r
<1>2. PICK g \in [0..n -> LedgerState] :
        /\ g[0] = l /\ g[n] = DoAll(l, r)
        /\ \A k \in 1..n : g[k] = Do(g[k - 1], r[k])
  BY <1>1, DoRun
<1> DEFINE D(x, m) == DoAll(x, SubSeq(s, 1, m))
           e == [k \in 0..n |-> D(g[k], n - k)]
           c == [k \in 0..n |-> DoAll(l, s)]
<1>3. \A m \in 0..n : SubSeq(s, 1, m) \in Seq(Block)
  BY CutList
<1>4. ASSUME NEW k \in 1..n PROVE D(g[k], n - k) = D(g[k - 1], n - (k - 1))
  <2> DEFINE m == n - (k - 1)
             x == g[k - 1]
  <2>1. m \in 1..n /\ m - 1 = n - k /\ (n - k) + 1 = m /\ n - k \in 0..n
    BY <1>1
  <2>2. x \in LedgerState /\ s[m] \in Block /\ g[k] = Do(x, s[m])
    <3>1. k - 1 \in 0..n /\ (n - k) + 1 = m
      BY <1>1
    <3>2. r[k] = s[m] /\ s[m] \in Block
      BY <1>1, <2>1, <3>1
    <3>3. QED BY <1>2, <3>1, <3>2
  <2> HIDE DEF x, m
  <2>3. D(Do(x, s[m]), n - k) = Do(D(x, n - k), s[m])
    BY <1>3, <2>1, <2>2, BlocksCommute
  <2>4. D(x, m) = Do(D(x, m - 1), s[m])
    BY <2>1, <2>2, DoPrefix
  <2>5. QED BY <2>1, <2>2, <2>3, <2>4 DEF m, x
<1>5. ASSUME NEW k \in 1..n, e[k - 1] = c[k - 1] PROVE e[k] = c[k]
  <2>1. k \in 0..n /\ k - 1 \in 0..n
    BY <1>1
  <2> HIDE DEF D
  <2>2. QED BY <1>4, <1>5, <2>1
<1>6. e[0] = c[0]
  <2>1. D(l, n) = DoAll(l, s) /\ n - 0 = n /\ 0 \in 0..n
    BY <1>1, DoPrefix
  <2> HIDE DEF D
  <2>2. QED BY <2>1, <1>2
<1>7. e[n] = g[n] /\ c[n] = DoAll(l, s)
  <2>1. g[n] \in LedgerState /\ n - n = 0
    BY <1>1
  <2>2. D(g[n], 0) = g[n]
    BY <2>1, DoPrefix
  <2> HIDE DEF D
  <2>3. QED BY <2>1, <2>2, <1>1
<1> HIDE DEF e, c, n
<1>8. e[n] = c[n]
  BY <1>1, <1>5, <1>6, RunsAgree
<1>9. QED BY <1>2, <1>7, <1>8 DEF r

(* Blocks that were done in any order are undone in any order. *)
LEMMA RollUndoesAll ==
  ASSUME NEW l \in LedgerState, NEW s \in Seq(Block)
  PROVE  RollAll(DoAll(l, s), s) = l
<1> DEFINE n == Len(s)
           r == Reverse(s)
<1>1. /\ n \in Nat /\ n \in 0..n /\ r \in Seq(Block) /\ Len(r) = n
      /\ \A k \in 1..n : r[k] = s[(n - k) + 1]
      /\ \A k \in 1..n : s[k] \in Block
  BY LenProperties, ReverseInSeq, ElementOfSeq
<1>2. DoAll(l, r) = DoAll(l, s)
  BY DoReverse
<1> HIDE DEF r
<1>3. PICK f \in [0..n -> LedgerState] :
        /\ f[0] = l /\ f[n] = DoAll(l, r)
        /\ \A k \in 1..n : f[k] = Do(f[k - 1], r[k])
  BY <1>1, DoRun
<1>4. f[n] \in LedgerState
  BY <1>1, <1>3
<1>5. PICK g \in [0..n -> LedgerState] :
        /\ g[0] = f[n] /\ g[n] = RollAll(f[n], s)
        /\ \A k \in 1..n : g[k] = RollbackBlock(g[k - 1], s[k])
  BY <1>4, RollRun
<1>6. ASSUME NEW k \in 1..n, g[k - 1] = f[(n - k) + 1] PROVE g[k] = f[n - k]
  <2> DEFINE m == (n - k) + 1
  <2>1. m \in 1..n /\ m - 1 = n - k /\ n - k \in 0..n /\ (n - m) + 1 = k
    BY <1>1
  <2>2. r[m] = s[k] /\ s[k] \in Block
    BY <1>1, <2>1
  <2>3. f[m] = Do(f[n - k], s[k]) /\ f[n - k] \in LedgerState
    BY <1>3, <2>1, <2>2
  <2>4. g[k] = RollbackBlock(f[m], s[k])
    BY <1>5, <1>6
  <2> HIDE DEF m
  <2>5. QED BY <2>2, <2>3, <2>4, RollbackUndoes
<1>7. g[n] = f[0]
  <2> HIDE DEF n
  <2>1. QED BY <1>1, <1>5, <1>6, RunsBack
<1>8. QED BY <1>2, <1>3, <1>5, <1>7

-----------------------------------------------------------------------------
(* The nonces of an account along ledgers that never lower one.            *)
LEMMA NoncesGrow ==
  ASSUME NEW n \in Nat, NEW f \in [0..n -> LedgerState], NEW a \in Account,
         \A k \in 1..n : f[k - 1].nonce[a] <= f[k].nonce[a]
  PROVE  \A k \in 0..n : \A i \in 0..k : f[i].nonce[a] <= f[k].nonce[a]
<1> DEFINE T == {k \in 0..n : \A i \in 0..k : f[i].nonce[a] <= f[k].nonce[a]}
<1>1. \A k \in 0..n : f[k].nonce[a] \in Nat
  BY DEF LedgerState
<1>2. 0 \in T
  BY <1>1
<1>3. \A k \in 0..n : k \in T /\ k < n => k + 1 \in T
  <2>1. TAKE k \in 0..n
  <2>2. ASSUME k \in T, k < n PROVE k + 1 \in T
    <3>1. k + 1 \in 1..n /\ (k + 1) - 1 = k /\ k + 1 \in 0..n
      BY <2>2
    <3>2. f[k].nonce[a] <= f[k + 1].nonce[a]
      BY <3>1
    <3>3. \A i \in 0..k + 1 : i \in 0..k \/ i = k + 1
      BY <2>2
    <3>4. ASSUME NEW i \in 0..k + 1 PROVE f[i].nonce[a] <= f[k + 1].nonce[a]
      <4>1. CASE i = k + 1
        <5>1. f[k + 1].nonce[a] \in Nat
          BY <1>1, <3>1
        <5>2. QED BY <4>1, <5>1
      <4>2. CASE i \in 0..k
        <5>1. f[i].nonce[a] <= f[k].nonce[a]
          BY <2>2, <4>2
        <5>2. f[i].nonce[a] \in Nat /\ f[k].nonce[a] \in Nat /\ f[k + 1].nonce[a] \in Nat
          <6>1. i \in 0..n
            BY <4>2, <2>2
          <6>2. QED BY <1>1, <3>1, <6>1
        <5>3. QED BY <5>1, <5>2, <3>2
      <4>3. QED BY <4>1, <4>2, <3>3
    <3>5. QED BY <3>1, <3>4
  <2>3. QED BY <2>2
<1>4. 0..n \subseteq T
  <2> HIDE DEF T
  <2>1. QED BY <1>2, <1>3, SetInduction
<1>5. QED BY <1>4

(* A transaction raises its sender's nonce, and no other changes. *)
LEMMA SpendNonces ==
  ASSUME NEW l \in LedgerState, NEW t \in TxId
  PROVE  /\ \A a \in Account : l.nonce[a] <= Spend(l, t).nonce[a]
         /\ Spend(l, t).nonce[TxFrom[t]] = l.nonce[TxFrom[t]] + 1
<1>1. TxFrom[t] \in Account /\ l.nonce \in [Account -> Nat]
  BY LedgerAssumption DEF LedgerState
<1>2. Spend(l, t).nonce = [l.nonce EXCEPT ![TxFrom[t]] = @ + 1]
  BY DEF Spend
<1>3. QED BY <1>1, <1>2

(* Coinbases change no nonce. *)
LEMMA CreditNonces ==
  ASSUME NEW l \in LedgerState, NEW cs \in Seq(Coin)
  PROVE  CreditAll(l, cs).nonce = l.nonce
<1> DEFINE R == {r \in LedgerState : r.nonce = l.nonce}
<1>1. Len(cs) \in Nat /\ \A i \in 1..Len(cs) : cs[i] \in Coin
  BY LenProperties, ElementOfSeq
<1>2. PICK f \in [0..Len(cs) -> LedgerState] :
           /\ f[0] = l /\ f[Len(cs)] = CreditAll(l, cs)
           /\ \A k \in 1..Len(cs) : f[k] = Credit(f[k - 1], cs[k])
  BY CreditRun
<1>3. \A k \in 1..Len(cs) : f[k - 1] \in R => f[k] \in R
  <2>1. TAKE k \in 1..Len(cs)
  <2>2. k \in 0..Len(cs) /\ f[k] \in LedgerState /\ f[k] = Credit(f[k - 1], cs[k])
    BY <1>1, <1>2
  <2>3. Credit(f[k - 1], cs[k]).nonce = f[k - 1].nonce \/ f[k - 1] \notin R
    BY DEF Credit, LedgerState
  <2>4. QED BY <2>2, <2>3
<1>4. f[0] \in R
  BY <1>2
<1>5. \A k \in 0..Len(cs) : f[k] \in R
  <2> HIDE DEF R
  <2>1. QED BY <1>1, <1>3, <1>4, RunStays
<1>6. QED BY <1>1, <1>2, <1>5

(* Applying a block lowers no nonce, and leaves those of the senders in it *)
(* above the nonces of its transactions, which were not below what they    *)
(* were before.                                                            *)
LEMMA ApplyNonces ==
  ASSUME NEW l \in LedgerState, NEW b \in Block, Applies(l, b)
  PROVE  /\ \A a \in Account : l.nonce[a] <= ApplyBlock(l, b).nonce[a]
         /\ \A t \in Range(Txs[b]) : /\ l.nonce[TxFrom[t]] <= TxNonce[t]
                                    /\ TxNonce[t] < ApplyBlock(l, b).nonce[TxFrom[t]]
<1> DEFINE n == Len(Txs[b])
<1>1. /\ Txs[b] \in Seq(TxId) /\ Coinbases[b] \in Seq(Coin) /\ n \in Nat
      /\ \A i \in 1..n : Txs[b][i] \in TxId
  BY LedgerAssumption, BlockAssumption, LenProperties, ElementOfSeq DEF Coin
<1>2. RunTxs(l, Txs[b]).ok
  BY DEF Applies
<1>3. PICK f \in [0..n -> LedgerState] :
           /\ f[0] = l /\ f[n] = RunTxs(l, Txs[b]).ledger
           /\ \A k \in 1..n : f[k] = Spend(f[k - 1], Txs[b][k]) /\ FitsTx(f[k - 1], Txs[b][k])
  BY <1>1, <1>2, RunTxsSpends
<1>4. ApplyBlock(l, b).nonce = f[n].nonce
  <2>1. ApplyBlock(l, b) = CreditAll(f[n], Coinbases[b])
    BY <1>3, FoldNames
  <2>2. f[n] \in LedgerState
    BY <1>1, <1>3
  <2>3. QED BY <1>1, <2>1, <2>2, CreditNonces
<1>5. \A k \in 1..n : k \in 0..n /\ k - 1 \in 0..n /\ n \in 0..n /\ 0 \in 0..n
  BY <1>1
<1>6. \A a \in Account : \A k \in 1..n : f[k - 1].nonce[a] <= f[k].nonce[a]
  BY <1>1, <1>3, <1>5, SpendNonces
<1>7. \A a \in Account : \A k \in 0..n : \A i \in 0..k : f[i].nonce[a] <= f[k].nonce[a]
  BY <1>1, <1>6, NoncesGrow
<1>8. \A a \in Account : l.nonce[a] <= f[n].nonce[a]
  <2>1. n \in 0..n /\ 0 \in 0..n
    BY <1>1
  <2>2. QED BY <2>1, <1>3, <1>7
<1>9. ASSUME NEW t \in Range(Txs[b])
      PROVE  l.nonce[TxFrom[t]] <= TxNonce[t] /\ TxNonce[t] < f[n].nonce[TxFrom[t]]
  <2>1. PICK k \in 1..n : Txs[b][k] = t
    BY <1>1, RangeEquality
  <2>2. t \in TxId /\ TxFrom[t] \in Account /\ TxNonce[t] \in Nat
    BY <2>1, <1>1, LedgerAssumption
  <2>3. /\ k \in 0..n /\ k - 1 \in 0..n /\ k \in 0..n /\ 0 \in 0..k - 1 /\ n \in 0..n
        /\ f[k] \in LedgerState /\ f[k - 1] \in LedgerState /\ f[n] \in LedgerState
    BY <1>1
  <2>4. TxNonce[t] = f[k - 1].nonce[TxFrom[t]]
    BY <1>3, <2>1 DEF FitsTx, ValidTx
  <2>5. f[k].nonce[TxFrom[t]] = f[k - 1].nonce[TxFrom[t]] + 1
    BY <1>3, <2>1, <2>2, <2>3, SpendNonces
  <2>6. l.nonce[TxFrom[t]] <= f[k - 1].nonce[TxFrom[t]]
    BY <1>3, <1>7, <2>2, <2>3
  <2>7. f[k].nonce[TxFrom[t]] <= f[n].nonce[TxFrom[t]]
    BY <1>7, <2>2, <2>3
  <2>8. f[k - 1].nonce[TxFrom[t]] \in Nat /\ f[n].nonce[TxFrom[t]] \in Nat
    BY <2>2, <2>3 DEF LedgerState
  <2>9. QED BY <2>4, <2>5, <2>6, <2>7, <2>8
<1>10. QED BY <1>4, <1>8, <1>9

-----------------------------------------------------------------------------
NoReplay == [ok |-> TRUE, ledger |-> EmptyLedger]

(* A replay goes through the replays of the beginnings of its chain.       *)
LEMMA ReplayPrefix ==
  ASSUME NEW chain \in Seq(Block)
  PROVE  \E f \in [0..Len(chain) -> Run] :
           /\ f[0] = NoReplay
           /\ \A k \in 1..Len(chain) : f[k] = ReplayBlock(f[k - 1], chain[k])
           /\ \A k \in 0..Len(chain) : f[k].ledger = Rebuild(SubSeq(chain, 1, k))
<1> DEFINE n == Len(chain)
<1>1. n \in Nat /\ NoReplay \in Run
  BY LenProperties, EmptyLedgerType DEF Run, NoReplay
<1>2. PICK f \in [0..n -> Run] :
           /\ f[0] = NoReplay
           /\ \A k \in 1..n : f[k] = ReplayBlock(f[k - 1], chain[k])
  BY <1>1, ReplayRun
<1>3. ASSUME NEW k \in 0..n PROVE f[k].ledger = Rebuild(SubSeq(chain, 1, k))
  <2> DEFINE s == SubSeq(chain, 1, k)
  <2>1. s \in Seq(Block) /\ Len(s) = k /\ \A i \in 1..k : s[i] = chain[i]
    BY CutList
  <2> HIDE DEF s
  <2>2. PICK g \in [0..k -> Run] :
           /\ g[0] = NoReplay /\ g[k] = ReplayAll(NoReplay, s)
           /\ \A i \in 1..k : g[i] = ReplayBlock(g[i - 1], s[i])
    BY <1>1, <2>1, ReplayRun
  <2> DEFINE T == {i \in 0..k : g[i] = f[i]}
  <2>3. 0 \in T
    BY <1>1, <1>2, <2>2
  <2>4. \A i \in 0..k : i \in T /\ i < k => i + 1 \in T
    <3>1. TAKE i \in 0..k
    <3>2. ASSUME i \in T, i < k PROVE i + 1 \in T
      <4>1. i + 1 \in 1..k /\ i + 1 \in 1..n /\ (i + 1) - 1 = i
        BY <1>1, <3>2
      <4>2. g[i] = f[i] /\ s[i + 1] = chain[i + 1]
        BY <4>1, <2>1, <3>2
      <4>3. g[i + 1] = ReplayBlock(g[i], s[i + 1])
        BY <4>1, <2>2
      <4>4. f[i + 1] = ReplayBlock(f[i], chain[i + 1])
        BY <4>1, <1>2
      <4>5. i + 1 \in 0..k
        BY <4>1
      <4>6. QED BY <4>2, <4>3, <4>4, <4>5
    <3>3. QED BY <3>2
  <2>5. k \in Nat /\ k \in 0..k
    BY <1>1
  <2>6. 0..k \subseteq T
    <3> HIDE DEF T
    <3>1. QED BY <2>3, <2>4, <2>5, SetInduction
  <2>7. Rebuild(s) = ReplayAll(NoReplay, s).ledger
    BY DEF Rebuild, ReplayAll, NoReplay
  <2>8. QED BY <2>2, <2>5, <2>6, <2>7 DEF s
<1>4. QED BY <1>2, <1>3

(* If every block applies where it stands, a lineage replays block by      *)
(* block, without an end before its last block.                            *)
LEMMA LineageReplays ==
  ASSUME BlocksApply, NEW b \in Block, NEW k \in 1..Len(Lineage[b])
  PROVE  /\ Applies(Rebuild(SubSeq(Lineage[b], 1, k - 1)), Lineage[b][k])
         /\ Rebuild(SubSeq(Lineage[b], 1, k)) =
              ApplyBlock(Rebuild(SubSeq(Lineage[b], 1, k - 1)), Lineage[b][k])
<1> DEFINE L == Lineage[b]
           n == Len(L)
<1>1. L \in Seq(Block) /\ n \in Nat
  BY LineageEnds
<1>2. ASSUME NEW i \in 1..n
      PROVE  Applies(Rebuild(SubSeq(L, 1, i - 1)), L[i])
  <2>1. L[i] \in Block /\ Lineage[L[i]] = SubSeq(L, 1, i)
    BY LineagePosition, LineagePrefixes DEF LineagePrefixed
  <2>2. i \in 0..n /\ i - 1 \in 0..n /\ i - 1 \in 0..i
    BY <1>1
  <2> HIDE DEF L
  <2>3. /\ SubSeq(L, 1, i) \in Seq(Block) /\ Len(SubSeq(L, 1, i)) = i
        /\ \A j \in 1..i : SubSeq(L, 1, i)[j] = L[j]
    BY <1>1, <2>2, CutList
  <2>4. /\ SubSeq(L, 1, i - 1) \in Seq(Block) /\ Len(SubSeq(L, 1, i - 1)) = i - 1
        /\ \A j \in 1..i - 1 : SubSeq(L, 1, i - 1)[j] = L[j]
    BY <1>1, <2>2, CutList
  <2> DEFINE s == SubSeq(L, 1, i)
  <2>5. /\ SubSeq(s, 1, i - 1) \in Seq(Block) /\ Len(SubSeq(s, 1, i - 1)) = i - 1
        /\ \A j \in 1..i - 1 : SubSeq(s, 1, i - 1)[j] = s[j]
    <3>1. s \in Seq(Block) /\ Len(s) = i
      BY <2>3
    <3> HIDE DEF s
    <3>2. i - 1 \in 0..Len(s)
      BY <2>2, <3>1
    <3>3. QED BY <3>1, <3>2, CutList
  <2>6. \A j \in 1..i - 1 : j \in 1..i
    BY <2>2
  <2>7. \A j \in 1..i - 1 : SubSeq(s, 1, i - 1)[j] = SubSeq(L, 1, i - 1)[j]
    BY <2>3, <2>4, <2>5, <2>6
  <2>8. SubSeq(s, 1, i - 1) = SubSeq(L, 1, i - 1)
    <3> DEFINE u == SubSeq(s, 1, i - 1)
               v == SubSeq(L, 1, i - 1)
    <3>1. u \in Seq(Block) /\ v \in Seq(Block) /\ Len(u) = i - 1 /\ Len(v) = i - 1
          /\ \A j \in 1..i - 1 : u[j] = v[j]
      BY <2>4, <2>5, <2>7
    <3> HIDE DEF u, v
    <3>2. u = v
      BY <3>1, SeqEqual
    <3>3. QED BY <3>2 DEF u, v
  <2>9. Front(Lineage[L[i]]) = SubSeq(L, 1, i - 1)
    BY <2>1, <2>3, <2>8 DEF Front
  <2>10. QED BY <2>1, <2>9 DEF BlocksApply
<1> HIDE DEF L
<1>3. PICK f \in [0..n -> Run] :
           /\ f[0] = NoReplay
           /\ \A i \in 1..n : f[i] = ReplayBlock(f[i - 1], L[i])
           /\ \A i \in 0..n : f[i].ledger = Rebuild(SubSeq(L, 1, i))
  BY <1>1, ReplayPrefix
<1> DEFINE R == {r \in Run : r.ok}
<1>4. ASSUME NEW i \in 1..n, f[i - 1].ok
      PROVE  f[i] = [ok |-> TRUE, ledger |-> ApplyBlock(f[i - 1].ledger, L[i])]
  <2>1. i - 1 \in 0..n
    BY <1>1
  <2>2. Applies(f[i - 1].ledger, L[i])
    BY <1>2, <1>3, <2>1
  <2>3. QED BY <1>3, <1>4, <2>2 DEF ReplayBlock
<1>5. \A i \in 1..n : f[i - 1] \in R => f[i] \in R
  <2>1. TAKE i \in 1..n
  <2>2. i \in 0..n /\ f[i] \in Run
    BY <1>1
  <2>3. ASSUME f[i - 1].ok PROVE f[i].ok
    <3>1. f[i] = [ok |-> TRUE, ledger |-> ApplyBlock(f[i - 1].ledger, L[i])]
      BY <1>4, <2>3
    <3>2. QED BY <3>1
  <2>4. QED BY <2>2, <2>3
<1>6. f[0] \in R
  <2>1. NoReplay.ok /\ NoReplay \in Run
    BY EmptyLedgerType DEF NoReplay, Run
  <2>2. QED BY <1>3, <2>1
<1>7. \A i \in 0..n : f[i] \in R
  <2> HIDE DEF R
  <2>1. QED BY <1>1, <1>5, <1>6, RunStays
<1>8. k \in 1..n /\ k - 1 \in 0..n /\ k \in 0..n
  BY <1>1 DEF L
<1>9. f[k].ledger = ApplyBlock(f[k - 1].ledger, L[k])
  <2>1. f[k - 1].ok
    BY <1>7, <1>8
  <2>2. f[k] = [ok |-> TRUE, ledger |-> ApplyBlock(f[k - 1].ledger, L[k])]
    BY <1>4, <1>8, <2>1
  <2>3. QED BY <2>2
<1>10. QED BY <1>2, <1>3, <1>8, <1>9 DEF L

(* The replay of a lineage does its blocks. *)
LEMMA RebuildDoes ==
  ASSUME BlocksApply, NEW b \in Block
  PROVE  Rebuild(Lineage[b]) = DoAll(EmptyLedger, Lineage[b])
<1> DEFINE L == Lineage[b]
           n == Len(L)
<1>1. L \in Seq(Block) /\ n \in Nat /\ \A k \in 1..n : L[k] \in Block
  BY LineageEnds, ElementOfSeq
<1>2. \A k \in 1..n :
        /\ Applies(Rebuild(SubSeq(L, 1, k - 1)), L[k])
        /\ Rebuild(SubSeq(L, 1, k)) = ApplyBlock(Rebuild(SubSeq(L, 1, k - 1)), L[k])
  BY LineageReplays
<1> HIDE DEF L
<1>3. \A k \in 0..n : Rebuild(SubSeq(L, 1, k)) \in LedgerState
  BY <1>1, CutList, RebuildType
<1>4. Rebuild(SubSeq(L, 1, 0)) = EmptyLedger /\ SubSeq(L, 1, n) = L
  <2>1. PICK f \in [0..n -> Run] :
          f[0] = NoReplay /\ \A k \in 0..n : f[k].ledger = Rebuild(SubSeq(L, 1, k))
    BY <1>1, ReplayPrefix
  <2>2. f[0].ledger = Rebuild(SubSeq(L, 1, 0))
    BY <1>1, <2>1
  <2>3. QED BY <1>1, <2>1, <2>2, SubSeqFull DEF NoReplay
<1>5. PICK g \in [0..n -> LedgerState] :
        /\ g[0] = EmptyLedger /\ g[n] = DoAll(EmptyLedger, L)
        /\ \A k \in 1..n : g[k] = Do(g[k - 1], L[k])
  BY <1>1, EmptyLedgerType, DoRun
<1> DEFINE e == [k \in 0..n |-> Rebuild(SubSeq(L, 1, k))]
<1>6. ASSUME NEW k \in 1..n, e[k - 1] = g[k - 1] PROVE e[k] = g[k]
  <2>1. k - 1 \in 0..n /\ k \in 0..n
    BY <1>1
  <2>2. e[k] = Rebuild(SubSeq(L, 1, k)) /\ e[k - 1] = Rebuild(SubSeq(L, 1, k - 1))
    BY <2>1
  <2>3. e[k] = ApplyBlock(e[k - 1], L[k]) /\ Applies(e[k - 1], L[k]) /\ e[k - 1] \in LedgerState
    BY <1>2, <1>3, <2>1, <2>2
  <2> HIDE DEF e
  <2>4. e[k] = Do(e[k - 1], L[k])
    BY <1>1, <2>3, ApplyDoes
  <2>5. QED BY <1>5, <1>6, <2>4
<1>7. e[0] = g[0] /\ e[n] = Rebuild(L)
  BY <1>1, <1>4, <1>5
<1>8. e[n] = g[n]
  <2> HIDE DEF e, n
  <2>1. QED BY <1>1, <1>6, <1>7, RunsAgree
<1>9. QED BY <1>5, <1>7, <1>8 DEF L

(* The transactions in a list of blocks. *)
ConfirmedIn(chain) == UNION {Range(Txs[chain[i]]) : i \in 1..Len(chain)}

(* Then the ledger of a chain is beyond the nonces of all that it confirms.*)
LEMMA ConfirmedNonces ==
  ASSUME BlocksApply, NEW b \in Block, NEW k \in 0..Len(Lineage[b]),
         NEW t \in ConfirmedIn(SubSeq(Lineage[b], 1, k))
  PROVE  /\ t \in TxId
         /\ TxNonce[t] < Rebuild(SubSeq(Lineage[b], 1, k)).nonce[TxFrom[t]]
<1> DEFINE L == Lineage[b]
           n == Len(L)
           f == [i \in 0..n |-> Rebuild(SubSeq(L, 1, i))]
<1>1. L \in Seq(Block) /\ n \in Nat /\ \A i \in 1..n : L[i] \in Block
  BY LineageEnds, ElementOfSeq
<1>2. \A i \in 1..n : /\ Applies(Rebuild(SubSeq(L, 1, i - 1)), L[i])
                      /\ Rebuild(SubSeq(L, 1, i)) =
                           ApplyBlock(Rebuild(SubSeq(L, 1, i - 1)), L[i])
  BY LineageReplays
<1>3. \A i \in 0..n : Len(SubSeq(L, 1, i)) = i /\ SubSeq(L, 1, i) \in Seq(Block)
                      /\ \A j \in 1..i : SubSeq(L, 1, i)[j] = L[j]
  <2> HIDE DEF L
  <2>1. QED BY <1>1, CutList
<1>4. f \in [0..n -> LedgerState]
  BY <1>3, RebuildType
<1>5. k \in 0..n
  OBVIOUS
<1>6. PICK j \in 1..k : t \in Range(Txs[L[j]])
  <2>1. PICK j \in 1..Len(SubSeq(L, 1, k)) : t \in Range(Txs[SubSeq(L, 1, k)[j]])
    BY DEF ConfirmedIn
  <2>2. QED BY <2>1, <1>3, <1>5
<1>7. j \in 1..n /\ j \in 0..n /\ j - 1 \in 0..n /\ j \in 0..k
  BY <1>1, <1>5
<1>8. \A i \in 1..n : i \in 0..n /\ i - 1 \in 0..n
  BY <1>1
<1>9. \A i \in 1..n : Applies(f[i - 1], L[i]) /\ f[i] = ApplyBlock(f[i - 1], L[i])
                      /\ f[i - 1] \in LedgerState /\ f[i] \in LedgerState
  <2> HIDE DEF L, n
  <2>1. QED BY <1>2, <1>4, <1>8
<1>10. f[k] = Rebuild(SubSeq(L, 1, k)) /\ f[k] \in LedgerState
  BY <1>4, <1>5
<1> HIDE DEF f, L
<1>11. t \in TxId /\ TxFrom[t] \in Account /\ TxNonce[t] \in Nat
  <2>1. L[j] \in Block /\ Txs[L[j]] \in Seq(TxId)
    BY <1>1, <1>7, BlockAssumption
  <2>2. PICK i \in 1..Len(Txs[L[j]]) : t = Txs[L[j]][i]
    BY <1>6, <2>1, RangeEquality
  <2>3. t \in TxId
    BY <2>1, <2>2, ElementOfSeq
  <2>4. QED BY <2>3, LedgerAssumption
<1>12. TxNonce[t] < f[j].nonce[TxFrom[t]]
  BY <1>1, <1>6, <1>7, <1>9, ApplyNonces
<1>13. \A a \in Account : \A i \in 1..n : f[i - 1].nonce[a] <= f[i].nonce[a]
  BY <1>1, <1>9, ApplyNonces
<1>14. f[j].nonce[TxFrom[t]] <= f[k].nonce[TxFrom[t]]
  <2>1. \A i \in 1..n : f[i - 1].nonce[TxFrom[t]] <= f[i].nonce[TxFrom[t]]
    BY <1>11, <1>13
  <2>2. \A m \in 0..n : \A i \in 0..m : f[i].nonce[TxFrom[t]] <= f[m].nonce[TxFrom[t]]
    BY <1>1, <1>4, <1>11, <2>1, NoncesGrow
  <2>3. QED BY <1>5, <1>7, <2>2
<1>15. f[j].nonce[TxFrom[t]] \in Nat /\ f[k].nonce[TxFrom[t]] \in Nat
  BY <1>4, <1>5, <1>7, <1>11 DEF LedgerState
<1>16. QED BY <1>10, <1>11, <1>12, <1>14, <1>15 DEF L

(* ... so that no block repeats a transaction of the blocks below it.      *)
LEMMA NothingTwice ==
  ASSUME BlocksApply, NEW b \in Block, NEW k \in 1..Len(Lineage[b]),
         NEW t \in Range(Txs[Lineage[b][k]])
  PROVE  t \notin ConfirmedIn(SubSeq(Lineage[b], 1, k - 1))
<1> DEFINE L == Lineage[b]
           l == Rebuild(SubSeq(L, 1, k - 1))
<1>1. L \in Seq(Block) /\ Len(L) \in Nat /\ k - 1 \in 0..Len(L) /\ L[k] \in Block
  BY LineageEnds, ElementOfSeq
<1>2. SubSeq(L, 1, k - 1) \in Seq(Block)
  <2> HIDE DEF L
  <2>1. QED BY <1>1, CutList
<1>3. l \in LedgerState
  BY <1>2, RebuildType
<1>4. Applies(l, L[k])
  BY LineageReplays
<1>5. SUFFICES ASSUME t \in ConfirmedIn(SubSeq(L, 1, k - 1)) PROVE FALSE
  OBVIOUS
<1>6. t \in TxId /\ TxNonce[t] < l.nonce[TxFrom[t]]
  BY <1>1, <1>5, ConfirmedNonces
<1>7. l.nonce[TxFrom[t]] <= TxNonce[t]
  <2> HIDE DEF l, L
  <2>1. t \in Range(Txs[L[k]])
    BY DEF L
  <2>2. QED BY <1>1, <1>3, <1>4, <2>1, ApplyNonces
<1>8. TxNonce[t] \in Nat /\ l.nonce[TxFrom[t]] \in Nat
  BY <1>3, <1>6, LedgerAssumption DEF LedgerState
<1>9. QED BY <1>6, <1>7, <1>8

-----------------------------------------------------------------------------
(* What project_with_txs does for one transaction.                         *)
ProjectTx(r, t) == IF /\ TxNonce[t] = r.nonce[TxFrom[t]]
                      /\ r.bal[TxFrom[t]] >= TxAmount[t] + TxFee[t]
                   THEN Spend(r, t) ELSE r

(* The projection is a run of these.                                       *)
LEMMA ProjectRun ==
  ASSUME NEW l \in LedgerState, NEW seq \in Seq(TxId)
  PROVE  \E f \in [0..Len(seq) -> LedgerState] :
           /\ f[0] = l /\ f[Len(seq)] = ProjectTxs(l, seq)
           /\ \A k \in 1..Len(seq) : f[k] = ProjectTx(f[k - 1], seq[k])
<1> DEFINE n == Len(seq)
           F == [p \in LedgerState \X TxId |-> ProjectTx(p[1], p[2])]
           IsTable(it) == it = [s \in SUBSET (1..n) |->
             IF s = {} THEN l ELSE ProjectTx(it[s \ {Max(s)}], seq[Max(s)])]
           J == CHOOSE it : IsTable(it)
<1>1. n \in Nat /\ DOMAIN seq = 1..n /\ \A i \in 1..n : seq[i] \in TxId
  BY LenProperties, ElementOfSeq
<1>2. F \in [LedgerState \X TxId -> LedgerState]
  <2>1. \A r \in LedgerState, t \in TxId : ProjectTx(r, t) \in LedgerState
    BY SpendType DEF ProjectTx
  <2>2. QED BY <2>1
<1>3. \A r \in LedgerState, t \in TxId : F[r, t] = ProjectTx(r, t)
  OBVIOUS
<1>4. \A s \in SUBSET (1..n) : s # {} => Max(s) \in 1..n /\ seq[Max(s)] \in TxId
  BY <1>1, MaxInRange
<1>5. \E it : IsTableOf(it, LedgerState, F, l, seq)
  <2> HIDE DEF F, J
  <2>1. QED BY <1>2, FoldTable
<1> HIDE DEF F
<1>6. \E it : IsTable(it)
  <2>1. PICK it \in [SUBSET (1..n) -> LedgerState] : \A s \in SUBSET (1..n) :
          it[s] = IF s = {} THEN l ELSE F[it[s \ {Max(s)}], seq[Max(s)]]
    BY <1>5 DEF IsTableOf
  <2>2. \A s \in SUBSET (1..n) : s # {} =>
          F[it[s \ {Max(s)}], seq[Max(s)]] = ProjectTx(it[s \ {Max(s)}], seq[Max(s)])
    BY <1>3, <1>4
  <2>3. \A s \in SUBSET (1..n) :
          it[s] = IF s = {} THEN l ELSE ProjectTx(it[s \ {Max(s)}], seq[Max(s)])
    BY <2>1, <2>2
  <2>4. IsTable(it)
    BY <2>1, <2>3
  <2> HIDE DEF IsTable
  <2>5. QED BY <2>4
<1>7. J = [s \in SUBSET (1..n) |->
             IF s = {} THEN l ELSE ProjectTx(J[s \ {Max(s)}], seq[Max(s)])]
  <2>1. IsTable(J)
    <3> HIDE DEF IsTable
    <3>1. QED BY <1>6
  <2>2. QED BY <2>1
<1>8. ProjectTxs(l, seq) = J[1..n]
  BY <1>1 DEF ProjectTxs, ProjectTx, FoldLeft, MapThenFoldSet
<1> HIDE DEF J
<1>9. J[{}] = l
  BY <1>7
<1>10. FollowsTable(J, LedgerState, F, l, seq)
  BY <1>3, <1>4, <1>7, <1>9 DEF FollowsTable
<1>11. \E f : IsRunOf(f, LedgerState, F, l, seq, J[1..n])
  BY <1>2, <1>10, TableIsRun
<1>12. PICK f \in [0..n -> LedgerState] : /\ f[0] = l /\ f[n] = J[1..n]
                                   /\ \A k \in 1..n : f[k] = F[f[k - 1], seq[k]]
  BY <1>11 DEF IsRunOf
<1>13. \A k \in 1..n : f[k] = ProjectTx(f[k - 1], seq[k])
  <2>1. TAKE k \in 1..n
  <2>2. f[k - 1] \in LedgerState /\ seq[k] \in TxId
    BY <1>1
  <2>3. QED BY <2>2, <1>3, <1>12
<1>14. QED BY <1>8, <1>12, <1>13

(* A projection is a ledger with no lower nonces. *)
LEMMA ProjectNonces ==
  ASSUME NEW l \in LedgerState, NEW seq \in Seq(TxId)
  PROVE  /\ ProjectTxs(l, seq) \in LedgerState
         /\ \A a \in Account : l.nonce[a] <= ProjectTxs(l, seq).nonce[a]
<1> DEFINE n == Len(seq)
<1>1. n \in Nat /\ \A i \in 1..n : seq[i] \in TxId
  BY LenProperties, ElementOfSeq
<1>2. PICK f \in [0..n -> LedgerState] :
           /\ f[0] = l /\ f[n] = ProjectTxs(l, seq)
           /\ \A k \in 1..n : f[k] = ProjectTx(f[k - 1], seq[k])
  BY ProjectRun
<1>3. n \in 0..n /\ 0 \in 0..n
  BY <1>1
<1>4. ASSUME NEW a \in Account PROVE l.nonce[a] <= ProjectTxs(l, seq).nonce[a]
  <2>1. ASSUME NEW k \in 1..n PROVE f[k - 1].nonce[a] <= f[k].nonce[a]
    <3>1. k - 1 \in 0..n /\ f[k - 1] \in LedgerState /\ f[k] = ProjectTx(f[k - 1], seq[k])
      BY <1>1, <1>2
    <3>2. f[k - 1].nonce[a] \in Nat /\ f[k - 1].nonce[a] <= f[k - 1].nonce[a]
      BY <3>1 DEF LedgerState
    <3>3. f[k - 1].nonce[a] <= Spend(f[k - 1], seq[k]).nonce[a]
      BY <1>1, <3>1, SpendNonces
    <3>4. QED BY <3>1, <3>2, <3>3 DEF ProjectTx
  <2>2. \A k \in 0..n : \A i \in 0..k : f[i].nonce[a] <= f[k].nonce[a]
    BY <1>1, <2>1, NoncesGrow
  <2>3. QED BY <1>2, <1>3, <2>2
<1>5. QED BY <1>2, <1>3, <1>4

-----------------------------------------------------------------------------
(* What two blocks have in common is a beginning of both their lineages,   *)
(* as long as there are common ancestors.                                  *)
LEMMA SharedBeginning ==
  ASSUME NEW a \in Block, NEW b \in Block
  PROVE  LET n == Cardinality(Ancestry(a) \cap Ancestry(b))
         IN  /\ n \in 0..Len(Lineage[a]) /\ n \in 0..Len(Lineage[b])
             /\ SubSeq(Lineage[a], 1, n) = SubSeq(Lineage[b], 1, n)
             /\ \A i \in 1..Len(Lineage[b]) : Lineage[b][i] \in Ancestry(a) => i <= n
<1> DEFINE common == Ancestry(a) \cap Ancestry(b)
           places == {Len(Lineage[x]) : x \in common}
           A == Lineage[a]
           B == Lineage[b]
<1>1. A \in Seq(Block) /\ B \in Seq(Block) /\ Len(A) \in Nat /\ Len(B) \in Nat
  BY LineageEnds
<1>2. CASE common = {}
  <2>1. Cardinality(common) = 0
    BY <1>2, FS_EmptySet
  <2>2. SubSeq(A, 1, 0) = <<>> /\ SubSeq(B, 1, 0) = <<>>
    BY <1>1, SubSeqEmpty
  <2>3. \A i \in 1..Len(B) : B[i] \notin Ancestry(a)
    BY <1>2, LineagePosition
  <2>4. 0 \in 0..Len(A) /\ 0 \in 0..Len(B) /\ SubSeq(A, 1, 0) = SubSeq(B, 1, 0)
        /\ \A i \in 1..Len(B) : B[i] \in Ancestry(a) => i <= 0
    BY <1>1, <2>2, <2>3
  <2> HIDE DEF A, B
  <2>5. QED BY <2>1, <2>4 DEF A, B
<1>3. CASE common # {}
  <2>1. \A x \in common : /\ x \in Block /\ Len(Lineage[x]) \in 1..Len(A)
                          /\ Len(Lineage[x]) \in 1..Len(B)
                          /\ SubSeq(A, 1, Len(Lineage[x])) = Lineage[x]
                          /\ SubSeq(B, 1, Len(Lineage[x])) = Lineage[x]
                          /\ B[Len(Lineage[x])] = x
    BY AncestorPosition
  <2>2. places \subseteq 0..Len(B) /\ places # {}
    <3>1. 1..Len(B) \subseteq 0..Len(B)
      BY <1>1
    <3>2. \A x \in common : Len(Lineage[x]) \in 1..Len(B)
      BY <2>1
    <3> HIDE DEF common, B
    <3>3. QED BY <1>3, <3>1, <3>2
  <2>3. \E m \in places : \A y \in places : y <= m
    <3> HIDE DEF places
    <3>1. QED BY <1>1, <2>2, HasGreatest
  <2>4. PICK x \in common : \A y \in common : Len(Lineage[y]) <= Len(Lineage[x])
    BY <2>3
  <2> DEFINE m == Len(Lineage[x])
  <2>5. m \in 1..Len(A) /\ m \in 1..Len(B) /\ SubSeq(A, 1, m) = SubSeq(B, 1, m)
    BY <2>1
  <2>6. \A i \in 1..Len(B) : B[i] \in Ancestry(a) => i <= m
    <3>1. TAKE i \in 1..Len(B)
    <3>2. B[i] \in Ancestry(b) /\ Len(Lineage[B[i]]) = i
      BY LineagePosition
    <3>3. QED BY <2>4, <3>2
  <2>7. \A i \in 1..m : B[i] \in common
    <3>1. TAKE i \in 1..m
    <3>2. x \in Block /\ Lineage[x] \in Seq(Block) /\ Lineage[x][i] \in Ancestry(x)
      BY <2>1, LineageEnds, LineagePosition
    <3>3. Lineage[x][i] = B[i]
      <4>1. m \in 0..Len(B)
        BY <2>5
      <4>2. \A k \in 1..m : SubSeq(B, 1, m)[k] = B[k]
        <5> HIDE DEF m, B
        <5>1. QED BY <1>1, <4>1, CutList
      <4>3. SubSeq(B, 1, m) = Lineage[x]
        BY <2>1
      <4>4. QED BY <4>2, <4>3
    <3>4. Ancestry(x) \subseteq common
      BY AncestryTransitive
    <3>5. QED BY <3>2, <3>3, <3>4
  <2> DEFINE g == [i \in 1..m |-> B[i]]
  <2>8. common = {B[i] : i \in 1..m}
    <3>1. \A y \in common : Len(Lineage[y]) \in 1..m /\ B[Len(Lineage[y])] = y
      BY <2>1, <2>4
    <3>2. QED BY <2>7, <3>1
  <2>9. g \in Surjection(1..m, common)
    BY <2>7, <2>8 DEF Surjection
  <2>10. g \in Injection(1..m, common)
    <3>1. g \in [1..m -> common]
      BY <2>7
    <3>2. \A i \in 1..m : Len(Lineage[g[i]]) = i
      BY <2>5, LineagePosition
    <3>3. \A i, j \in 1..m : g[i] = g[j] => i = j
      BY <3>2
    <3> HIDE DEF g
    <3>4. QED BY <3>1, <3>3 DEF Injection, IsInjective
  <2>11. IsFiniteSet(1..m) /\ Cardinality(1..m) = m
    <3>1. m \in Int /\ 1 \in Int /\ ~(1 > m) /\ m - 1 + 1 = m
      BY <1>1, <2>5
    <3> HIDE DEF m
    <3>2. QED BY <3>1, FS_Interval
  <2>12. Cardinality(common) = m
    <3> HIDE DEF g, common, m
    <3>1. QED BY <2>9, <2>10, <2>11, FS_Surjection
  <2>13. m \in 0..Len(A) /\ m \in 0..Len(B)
    BY <2>5
  <2>14. QED BY <2>5, <2>6, <2>12, <2>13
<1>4. QED BY <1>2, <1>3

(* What a chain may have grown by never begins with a root.                *)
LEMMA GrownByNoRoot ==
  ASSUME NEW b \in Block, NEW blocks \in GrownBy(b), NEW c \in Range(blocks)
  PROVE  c \in Block \ Root
<1> DEFINE n == Len(Lineage[b])
<1>1. Lineage[b] \in Seq(Block) /\ n \in Nat \ {0}
  BY LineageEnds
<1>2. PICK h \in 2..n : blocks = SubSeq(Lineage[b], h, n)
  BY DEF GrownBy
<1> HIDE DEF n
<1>3. h \in Int /\ n \in Int /\ \A i \in h..n : Lineage[b][i] \in Block
  BY <1>1, <1>2, LineagePosition DEF n
<1>4. /\ blocks \in Seq(Block) /\ h <= n /\ Len(blocks) = n - h + 1
      /\ \A i \in 1..n - h + 1 : blocks[i] = Lineage[b][h + i - 1]
  BY <1>2, <1>3, SubSeqProperties
<1>5. PICK i \in 1..Len(blocks) : c = blocks[i]
  BY <1>4, RangeEquality
<1>6. h + i - 1 \in 2..n /\ c = Lineage[b][h + i - 1]
  BY <1>2, <1>3, <1>4, <1>5
<1>7. c \in Block /\ Len(Lineage[c]) = h + i - 1
  <2>1. h + i - 1 \in 1..Len(Lineage[b])
    BY <1>1, <1>6 DEF n
  <2>2. QED BY <1>6, <2>1, LineagePosition
<1>8. ASSUME c \in Root PROVE FALSE
  <2>1. Lineage[c] = <<c>> /\ Len(<<c>>) = 1
    BY <1>8, LineageAssumption
  <2>2. QED BY <1>6, <1>7, <2>1
<1>9. QED BY <1>7, <1>8

(* If nobody who pays mines, no block is refused for coinbases that seem   *)
(* immature.                                                               *)
LEMMA NobodySeemsShort ==
  ASSUME NoMinerPays, NEW b \in Block, NEW l,
         NEW grown, \A r \in grown : \E c \in Block : r \in GrownBy(c)
  PROVE  ~SeemsShort(l, Txs[b], grown)
<1>1. SUFFICES ASSUME NEW i \in DOMAIN Txs[b], NEW blocks \in grown, NEW c \in Range(blocks),
                      Earns(c, TxFrom[Txs[b][i]])
               PROVE  FALSE
  BY DEF SeemsShort
<1>2. c \in Block \ Root
  BY GrownByNoRoot
<1>3. Txs[b][i] \in Range(Txs[b])
  BY DEF Range
<1>4. QED BY <1>1, <1>2, <1>3 DEF NoMinerPays

=============================================================================
