---------------------------- MODULE PaymentsProofs ----------------------------
(***************************************************************************)
(* Theorems about Payments: what a mixed flow may do before its transfers  *)
(* are final, and what its reports are worth, for any addresses, amounts,  *)
(* jobs and plans and any number of failures and reorganisations.          *)
(*                                                                         *)
(* Sums over payments are left as they are: nothing below depends on what  *)
(* they come to.  Hence a job is not typed as a whole, but by its fields.  *)
(***************************************************************************)
EXTENDS Payments, TLAPS

IsList(s) == \E S : s \in Seq(S)

JobFields ==
  {"at", "shares", "turn", "balance", "deficit", "transfers", "part", "list", "signed",
   "answered", "seen", "read", "result", "alone", "served", "drained"}

IsShares(s) == s \in Seq([key : Key, amount : Nat])
Chosen(s) == IsShares(s) /\ s # <<>>

(* A payment of the job that is not signed yet, and one that is.           *)
Planned(tx, j, part) ==
  \E from, to, amount, fee : tx = Transfer(j, part, from, to, amount, fee)
Paying(tx, j, part) == tx.job = j /\ tx.part = part

(* The job's own books: what is planned, signed, answered and seen.        *)
Planning(jb) == jb.at \in {"idle", "check", "fund"}
Sending(jb) == jb.at \in {"sign", "increment", "post", "wait"}

Shape(j, jb) ==
  /\ DOMAIN jb = JobFields
  /\ jb.part \in {"main", "internal"}
  /\ Planning(jb) \/ Sending(jb) \/ jb.at = "done"
  /\ Chosen(jb.shares) \/ (jb.at = "idle" /\ IsShares(jb.shares))
  /\ Planning(jb) => jb.transfers = <<>>
  /\ Sending(jb) /\ jb.part = "internal" => jb.transfers = jb.list
  /\ jb.result = "yes" => jb.at = "done" /\ jb.part = "main"

ListsShape(j, jb) ==
  /\ IsList(jb.list) /\ IsList(jb.signed)
  /\ Planning(jb) =>
       /\ jb.part = "main" /\ jb.signed = <<>>
       /\ \A tx \in Range(jb.list) : Planned(tx, j, "internal")
  /\ Sending(jb) => \A tx \in Range(jb.list) : Planned(tx, j, jb.part)
  /\ \A tx \in Range(jb.signed) : Paying(tx, j, jb.part)
  /\ Len(jb.signed) <= Len(jb.list)
  /\ \A m \in 1 .. Len(jb.signed) : Unsigned(jb.signed[m]) = jb.list[m]
  /\ jb.at \in {"idle", "check"} => jb.list = <<>>
  /\ jb.at = "sign" => Len(jb.signed) < Len(jb.list)
  /\ jb.at = "increment" => Len(jb.signed) > 0
  /\ jb.at \in {"post", "wait"} => Len(jb.signed) = Len(jb.list)
  /\ jb.at = "post" => jb.turn \in 1 .. Len(jb.signed)

AnswersShape(jb) ==
  /\ jb.answered \subseteq Range(jb.signed)
  /\ Planning(jb) \/ jb.at \in {"sign", "increment"} => jb.answered = {} /\ jb.seen = <<>>
  /\ jb.at = "post" => jb.seen = <<>>
  /\ DOMAIN jb.seen \subseteq jb.answered
  /\ jb.at = "wait" => DOMAIN jb.seen = jb.answered
  /\ jb.at = "wait" /\ jb.part = "internal" => jb.answered = Range(jb.signed)

(* What the job knows of its payments, against the node: dep and pl are    *)
(* depth and pool, calm that there was no reorganisation and safe that     *)
(* none took back what was final.                                          *)
Calm == reorgs = 0
Safe == longest < FinalDepth

Made(transfer, dep) ==
  \E q \in DOMAIN dep : Unsigned(q) = transfer /\ dep[q] >= FinalDepth

(* The answer that it waits for.                                           *)
Asked(jb, dep, pl, calm) ==
  \E p \in jb.answered, s \in {"none", "invalid"} :
    /\ jb.at = "wait" /\ jb.read = <<[tx |-> p, state |-> s]>>
    /\ s = "invalid" => pl[p] = "invalid" /\ dep[p] = 0
    /\ s = "none" /\ calm => dep[p] > 0

Sound(j, jb, dep, pl, calm, safe) ==
  /\ \A p \in DOMAIN pl : p.job = j =>
       /\ ~Planning(jb)
       /\ jb.part = "internal" => p.part = "internal" /\ p \in Range(jb.signed)
  /\ jb.part = "main" /\ safe => \A i \in DOMAIN jb.transfers : Made(jb.transfers[i], dep)
  /\ jb.answered \subseteq DOMAIN pl
  /\ \A p \in DOMAIN jb.seen :
       /\ jb.seen[p] = "confirmed" /\ safe => dep[p] >= FinalDepth
       /\ jb.seen[p] = "not_found" /\ calm => pl[p] = "invalid" /\ dep[p] = 0
       /\ jb.seen[p] \in {"pending", "confirmed", "not_found"}
  /\ jb.read = <<>> \/ Asked(jb, dep, pl, calm)
  /\ jb.result = "yes" /\ safe => \A p \in jb.answered : dep[p] >= FinalDepth

(* The node: a payment waits for its verdict, was accepted or refused, or  *)
(* is in the chain; only a reorganisation leaves it nowhere.               *)
NodeInv ==
  /\ DOMAIN depth = Sent /\ reorgs \in Nat /\ longest \in Nat
  /\ \A p \in Sent :
       /\ pool[p] \in {"none", "pending", "ok", "invalid"}
       /\ depth[p] \in 0 .. DepthBound
       /\ pool[p] # "none" => depth[p] = 0
       /\ reorgs = 0 /\ pool[p] = "none" => depth[p] > 0
  /\ IsList(queue)
  /\ \A m \in 1 .. Len(queue) : queue[m] \in Sent /\ pool[queue[m]] = "pending"
  /\ \A m, n \in 1 .. Len(queue) : queue[m] = queue[n] => m = n

JobInv(j) ==
  /\ Shape(j, job[j]) /\ ListsShape(j, job[j]) /\ AnswersShape(job[j])
  /\ Sound(j, job[j], depth, pool, Calm, Safe)

(* The inductive invariant. *)
PayInv ==
  /\ NodeInv /\ DOMAIN job = Job
  /\ \A p \in Sent : p.job \in Job
  /\ \A j \in Job : JobInv(j)
-----------------------------------------------------------------------------
(* Lists. *)
LEMMA ListLength ==
  ASSUME NEW s, IsList(s)
  PROVE  /\ Len(s) \in Nat /\ DOMAIN s = 1 .. Len(s)
         /\ \A m \in 1 .. Len(s) : s[m] \in Range(s)
<1>1. PICK S : s \in Seq(S)
  BY DEF IsList
<1>2. QED BY <1>1 DEF Range

LEMMA ListAppend ==
  ASSUME NEW s, IsList(s), NEW x
  PROVE  /\ IsList(Append(s, x)) /\ Len(Append(s, x)) = Len(s) + 1
         /\ \A m \in 1 .. Len(s) : Append(s, x)[m] = s[m]
         /\ Append(s, x)[Len(s) + 1] = x
         /\ Range(Append(s, x)) = Range(s) \cup {x}
<1>1. PICK S : s \in Seq(S)
  BY DEF IsList
<1> DEFINE T == S \cup {x}
<1>2. s \in Seq(T) /\ x \in T
  BY <1>1
<1>3. Append(s, x) \in Seq(T) /\ Len(Append(s, x)) = Len(s) + 1
  BY <1>2
<1>4. /\ \A m \in 1 .. Len(s) : Append(s, x)[m] = s[m]
      /\ Append(s, x)[Len(s) + 1] = x
  BY <1>2
<1>5. /\ DOMAIN s = 1 .. Len(s) /\ DOMAIN Append(s, x) = 1 .. (Len(s) + 1)
      /\ Len(s) \in Nat
  BY <1>2, <1>3
<1>6. Range(Append(s, x)) = Range(s) \cup {x}
  BY <1>4, <1>5 DEF Range
<1>7. QED BY <1>3, <1>4, <1>6 DEF IsList

LEMMA ListTail ==
  ASSUME NEW s, IsList(s), s # <<>>
  PROVE  /\ IsList(Tail(s)) /\ Len(Tail(s)) = Len(s) - 1 /\ Len(s) >= 1
         /\ Head(s) = s[1]
         /\ \A m \in 1 .. Len(Tail(s)) : Tail(s)[m] = s[m + 1]
<1>1. PICK S : s \in Seq(S)
  BY DEF IsList
<1>2. Tail(s) \in Seq(S) /\ Len(Tail(s)) = Len(s) - 1 /\ Len(s) >= 1
  BY <1>1
<1>3. \A m \in 1 .. Len(Tail(s)) : Tail(s)[m] = s[m + 1]
  BY <1>1
<1>4. QED BY <1>1, <1>2, <1>3 DEF IsList

LEMMA ListEmpty == IsList(<<>>) /\ Len(<<>>) = 0 /\ Range(<<>>) = {}
<1>1. <<>> \in Seq({})
  OBVIOUS
<1>2. QED BY <1>1 DEF IsList, Range
-----------------------------------------------------------------------------
LEMMA MaxOfTwo ==
  ASSUME NEW a \in Nat, NEW b \in Nat
  PROVE  Max({a, b}) \in Nat /\ Max({a, b}) >= a /\ Max({a, b}) >= b
<1>1. \E x \in {a, b} : \A y \in {a, b} : x >= y
  <2>1. CASE a >= b
    BY <2>1
  <2>2. CASE b >= a
    BY <2>2
  <2>3. QED BY <2>1, <2>2
<1>2. Max({a, b}) \in {a, b} /\ \A y \in {a, b} : Max({a, b}) >= y
  BY <1>1 DEF Max
<1>3. QED BY <1>2

LEMMA Depths == FinalDepth \in Nat \ {0, 1} /\ DepthBound \in Nat /\ FinalDepth <= DepthBound
BY PaymentsAssumption
-----------------------------------------------------------------------------
(* What a step of the node leaves to the payments that reached it: what is *)
(* final stays final, and what is invalid stays out.                       *)
Survives ==
  /\ Sent \subseteq Sent' /\ DOMAIN depth = Sent /\ DOMAIN depth' = Sent'
  /\ Calm' => Calm
  /\ Safe' => Safe
  /\ \A p \in Sent :
       /\ depth[p] >= FinalDepth /\ Safe' => depth'[p] >= FinalDepth
       /\ pool[p] = "invalid" /\ depth[p] = 0 => pool'[p] = "invalid" /\ depth'[p] = 0
       /\ depth[p] > 0 /\ Calm' => depth'[p] > 0

LEMMA ReceiveKeeps ==
  ASSUME NodeInv, NEW p, Receive(p)
  PROVE  NodeInv' /\ Survives /\ Sent' = Sent \cup {p}
<1>1. Sent' = Sent \cup {p} /\ DOMAIN depth' = Sent'
  BY DEF Receive, Sent
<1>2. \A x \in Sent' :
        /\ pool'[x] = IF x \in Sent THEN pool[x] ELSE "pending"
        /\ depth'[x] = IF x \in Sent THEN depth[x] ELSE 0
  BY <1>1 DEF Receive
<1>3. reorgs' = reorgs /\ longest' = longest
  BY DEF Receive
<1>4. Survives
  BY <1>1, <1>2, <1>3 DEF Survives, NodeInv, Calm, Safe
<1>5. \A x \in Sent' :
        /\ pool'[x] \in {"none", "pending", "ok", "invalid"}
        /\ depth'[x] \in 0 .. DepthBound
        /\ pool'[x] # "none" => depth'[x] = 0
        /\ reorgs' = 0 /\ pool'[x] = "none" => depth'[x] > 0
  BY <1>1, <1>2, <1>3, Depths DEF NodeInv
<1>6. /\ IsList(queue')
      /\ \A m \in 1 .. Len(queue') : queue'[m] \in Sent' /\ pool'[queue'[m]] = "pending"
      /\ \A m, n \in 1 .. Len(queue') : queue'[m] = queue'[n] => m = n
  <2>1. CASE p \in Sent
    BY <2>1, <1>1, <1>2 DEF Receive, NodeInv
  <2>2. CASE p \notin Sent
    <3>1. queue' = Append(queue, p)
      BY <2>2 DEF Receive
    <3>2. Len(queue) \in Nat /\ \A m \in 1 .. Len(queue) : queue[m] # p
      BY <2>2, ListLength DEF NodeInv
    <3>3. /\ IsList(queue') /\ Len(queue') = Len(queue) + 1
          /\ \A m \in 1 .. Len(queue) : queue'[m] = queue[m]
          /\ queue'[Len(queue) + 1] = p
      BY <3>1, ListAppend DEF NodeInv
    <3>4. \A m \in 1 .. Len(queue') : m \in 1 .. Len(queue) \/ m = Len(queue) + 1
      BY <3>2, <3>3
    <3>5. pool'[p] = "pending" /\ p \in Sent'
      BY <1>1, <1>2, <2>2
    <3>6. \A m \in 1 .. Len(queue) : queue[m] \in Sent' /\ pool'[queue[m]] = "pending"
      BY <1>1, <1>2 DEF NodeInv
    <3>7. \A m \in 1 .. Len(queue') : queue'[m] \in Sent' /\ pool'[queue'[m]] = "pending"
      BY <3>3, <3>4, <3>5, <3>6
    <3>8. \A m, n \in 1 .. Len(queue') : queue'[m] = queue'[n] => m = n
      BY <3>2, <3>3, <3>4 DEF NodeInv
    <3>9. QED BY <3>3, <3>7, <3>8
  <2>3. QED BY <2>1, <2>2
<1>7. QED BY <1>1, <1>3, <1>4, <1>5, <1>6 DEF NodeInv

LEMMA DecideKeeps ==
  ASSUME NodeInv, Decide
  PROVE  NodeInv' /\ Survives /\ Sent' = Sent
<1> DEFINE p == Head(queue)
<1>1. /\ queue # <<>> /\ queue' = Tail(queue) /\ depth' = depth /\ reorgs' = reorgs
      /\ longest' = longest
      /\ \E verdict \in {"ok", "invalid"} : pool' = [pool EXCEPT ![p] = verdict]
  BY DEF Decide
<1>2. PICK verdict \in {"ok", "invalid"} : pool' = [pool EXCEPT ![p] = verdict]
  BY <1>1
<1>3. /\ IsList(Tail(queue)) /\ Len(Tail(queue)) = Len(queue) - 1 /\ Len(queue) >= 1
      /\ Len(queue) \in Nat /\ p = queue[1]
      /\ \A m \in 1 .. Len(Tail(queue)) : Tail(queue)[m] = queue[m + 1]
  BY <1>1, ListTail, ListLength DEF NodeInv
<1>4. p \in Sent /\ pool[p] = "pending"
  BY <1>3 DEF NodeInv
<1> HIDE DEF p
<1>5. /\ Sent' = Sent /\ pool'[p] = verdict
      /\ \A x \in Sent : x # p => pool'[x] = pool[x]
  BY <1>2, <1>4 DEF Sent
<1>6. Survives
  BY <1>1, <1>4, <1>5 DEF Survives, NodeInv, Calm, Safe
<1>7. \A x \in Sent :
        /\ pool'[x] \in {"none", "pending", "ok", "invalid"}
        /\ pool'[x] # "none" => depth[x] = 0
        /\ reorgs = 0 /\ pool'[x] = "none" => depth[x] > 0
  BY <1>2, <1>4, <1>5 DEF NodeInv
<1>8. \A m \in 1 .. Len(queue') : m + 1 \in 1 .. Len(queue) /\ m + 1 # 1
  BY <1>1, <1>3
<1>9. \A m \in 1 .. Len(queue') : queue'[m] = queue[m + 1]
  BY <1>1, <1>3
<1>10. \A m \in 1 .. Len(queue') : queue[m + 1] # p
  BY <1>3, <1>8 DEF NodeInv
<1>11. \A m \in 1 .. Len(queue') : queue'[m] \in Sent /\ pool'[queue'[m]] = "pending"
  BY <1>5, <1>8, <1>9, <1>10 DEF NodeInv
<1>12. \A m, n \in 1 .. Len(queue') : queue'[m] = queue'[n] => m = n
  <2> SUFFICES ASSUME NEW m \in 1 .. Len(queue'), NEW n \in 1 .. Len(queue'),
                      queue'[m] = queue'[n]
               PROVE  m = n
    OBVIOUS
  <2>1. m + 1 = n + 1
    BY <1>8, <1>9 DEF NodeInv
  <2>2. QED BY <2>1, <1>1, <1>3
<1>13. IsList(queue')
  BY <1>1, <1>3
<1>14. QED BY <1>1, <1>5, <1>6, <1>7, <1>11, <1>12, <1>13 DEF NodeInv
-----------------------------------------------------------------------------

LEMMA DeeperStays ==
  ASSUME NodeInv, NEW p \in Sent
  PROVE  /\ Deeper(p) \in 0 .. DepthBound /\ Deeper(p) >= depth[p]
         /\ depth[p] = 0 <=> Deeper(p) = 0
<1>1. depth[p] \in 0 .. DepthBound
  BY DEF NodeInv
<1>2. QED BY <1>1, Depths DEF Deeper

LEMMA MineKeeps ==
  ASSUME NodeInv, Mine
  PROVE  NodeInv' /\ Survives /\ Sent' = Sent
<1>1. PICK block : block = Fitting
  OBVIOUS
<1>2. /\ Sent' = Sent /\ DOMAIN depth' = Sent /\ queue' = queue /\ reorgs' = reorgs
      /\ longest' = longest
      /\ \A x \in Sent :
           /\ depth'[x] = IF x \in block THEN 1 ELSE Deeper(x)
           /\ pool'[x] = IF x \in block THEN "none" ELSE pool[x]
  BY <1>1 DEF Mine, Sent
<1>3. \A x \in block : x \in Sent /\ pool[x] = "ok" /\ depth[x] = 0
  BY <1>1 DEF Fitting, NodeInv
<1>4. \A x \in Sent :
        /\ pool'[x] \in {"none", "pending", "ok", "invalid"}
        /\ depth'[x] \in 0 .. DepthBound /\ depth'[x] >= depth[x]
        /\ pool[x] = "invalid" => pool'[x] = "invalid" /\ depth'[x] = 0
        /\ pool[x] = "pending" => pool'[x] = "pending"
        /\ pool'[x] # "none" => depth'[x] = 0
        /\ reorgs = 0 /\ pool'[x] = "none" => depth'[x] > 0
  <2> TAKE x \in Sent
  <2>1. /\ pool[x] \in {"none", "pending", "ok", "invalid"}
        /\ depth[x] \in 0 .. DepthBound
        /\ pool[x] # "none" => depth[x] = 0
        /\ reorgs = 0 /\ pool[x] = "none" => depth[x] > 0
    BY DEF NodeInv
  <2>2. CASE x \in block
    BY <1>2, <1>3, <2>2, Depths
  <2>3. CASE x \notin block
    <3>1. depth'[x] = Deeper(x) /\ pool'[x] = pool[x]
      BY <1>2, <2>3
    <3>2. /\ Deeper(x) \in 0 .. DepthBound /\ Deeper(x) >= depth[x]
          /\ depth[x] = 0 <=> Deeper(x) = 0
      BY DeeperStays
    <3>3. QED BY <2>1, <3>1, <3>2, Depths
  <2>4. QED BY <2>2, <2>3
<1>5. Survives
  <2>1. \A x \in Sent : depth[x] \in Nat /\ depth'[x] \in Nat
    BY <1>4, Depths DEF NodeInv
  <2>2. QED BY <1>2, <1>4, <2>1, Depths DEF Survives, NodeInv, Calm, Safe
<1>6. \A m \in 1 .. Len(queue') : queue'[m] \in Sent /\ pool'[queue'[m]] = "pending"
  BY <1>2, <1>4 DEF NodeInv
<1>7. QED BY <1>2, <1>4, <1>5, <1>6 DEF NodeInv

LEMMA ReorgKeeps ==
  ASSUME NodeInv, NEW blocks \in 1 .. MaxReorg, Reorg(blocks)
  PROVE  NodeInv' /\ Survives /\ Sent' = Sent
<1>1. /\ Sent' = Sent /\ DOMAIN depth' = Sent /\ queue' = queue /\ pool' = pool
      /\ reorgs' = reorgs + 1 /\ longest' = Max({longest, blocks})
      /\ \A x \in Sent : depth'[x] = IF depth[x] <= blocks THEN 0 ELSE Deeper(x)
  BY DEF Reorg, Sent
<1>2. blocks \in Nat /\ longest \in Nat /\ reorgs \in Nat
  BY PaymentsAssumption DEF NodeInv
<1>3. longest' \in Nat /\ longest' >= longest /\ longest' >= blocks
  BY <1>1, <1>2, MaxOfTwo
<1>4. \A x \in Sent :
        /\ depth'[x] \in 0 .. DepthBound
        /\ depth[x] >= FinalDepth /\ Safe' => depth'[x] >= FinalDepth
        /\ depth[x] = 0 => depth'[x] = 0
  <2> TAKE x \in Sent
  <2>1. /\ depth[x] \in 0 .. DepthBound
        /\ Deeper(x) \in 0 .. DepthBound /\ Deeper(x) >= depth[x]
        /\ depth'[x] = IF depth[x] <= blocks THEN 0 ELSE Deeper(x)
    BY <1>1, DeeperStays DEF NodeInv
  <2>2. CASE depth[x] <= blocks
    BY <1>2, <1>3, <2>1, <2>2, Depths DEF Safe
  <2>3. CASE ~(depth[x] <= blocks)
    BY <1>2, <2>1, <2>3, Depths
  <2>4. QED BY <2>2, <2>3
<1>5. reorgs' \in Nat /\ reorgs' # 0 /\ ~Calm' /\ (Safe' => Safe)
  BY <1>1, <1>2, <1>3, Depths DEF Calm, Safe
<1>6. Survives
  BY <1>1, <1>4, <1>5 DEF Survives, NodeInv
<1>7. \A x \in Sent : pool[x] # "none" => depth'[x] = 0
  BY <1>4 DEF NodeInv
<1>8. QED BY <1>1, <1>3, <1>4, <1>5, <1>6, <1>7 DEF NodeInv

LEMMA RequeueKeeps ==
  ASSUME NodeInv, NEW p \in Sent, Requeue(p)
  PROVE  NodeInv' /\ Survives /\ Sent' = Sent
<1>1. /\ pool[p] = "none" /\ depth[p] = 0 /\ depth' = depth /\ reorgs' = reorgs
      /\ longest' = longest
      /\ pool' = [pool EXCEPT ![p] = "pending"] /\ queue' = Append(queue, p)
  BY DEF Requeue
<1>2. /\ Sent' = Sent /\ pool'[p] = "pending"
      /\ \A x \in Sent : x # p => pool'[x] = pool[x]
  BY <1>1 DEF Sent
<1>3. Survives
  BY <1>1, <1>2 DEF Survives, NodeInv, Calm, Safe
<1>4. Len(queue) \in Nat /\ \A m \in 1 .. Len(queue) : queue[m] # p
  BY <1>1, ListLength DEF NodeInv
<1>5. /\ IsList(queue') /\ Len(queue') = Len(queue) + 1
      /\ \A m \in 1 .. Len(queue) : queue'[m] = queue[m]
      /\ queue'[Len(queue) + 1] = p
  BY <1>1, ListAppend DEF NodeInv
<1>6. \A m \in 1 .. Len(queue') : m \in 1 .. Len(queue) \/ m = Len(queue) + 1
  BY <1>4, <1>5
<1>7. \A m \in 1 .. Len(queue) : queue[m] \in Sent /\ pool'[queue[m]] = "pending"
  BY <1>2, <1>4 DEF NodeInv
<1>8. \A m \in 1 .. Len(queue') : queue'[m] \in Sent' /\ pool'[queue'[m]] = "pending"
  BY <1>2, <1>5, <1>6, <1>7
<1>9. \A m, n \in 1 .. Len(queue') : queue'[m] = queue'[n] => m = n
  BY <1>4, <1>5, <1>6 DEF NodeInv
<1>10. \A x \in Sent :
         /\ pool'[x] \in {"none", "pending", "ok", "invalid"}
         /\ pool'[x] # "none" => depth[x] = 0
         /\ reorgs = 0 /\ pool'[x] = "none" => depth[x] > 0
  BY <1>1, <1>2 DEF NodeInv
<1>11. QED BY <1>1, <1>2, <1>3, <1>5, <1>8, <1>9, <1>10 DEF NodeInv
-----------------------------------------------------------------------------
(* A job that keeps its books keeps its invariant through what the node    *)
(* and the other jobs do.                                                  *)
SameBooks(a, b) ==
  /\ DOMAIN b = DOMAIN a
  /\ \A f \in {"at", "shares", "turn", "transfers", "part", "list", "signed", "answered",
                "seen", "read", "result"} : b[f] = a[f]

LEMMA SoundKept ==
  ASSUME NEW i, NEW a, NEW b, Survives, \A p \in Sent' : p.job = i => p \in Sent,
         Sound(i, a, depth, pool, Calm, Safe), AnswersShape(b),
         Planning(b) = Planning(a), b.at = a.at, b.part = a.part, b.signed = a.signed,
         b.transfers = a.transfers, b.answered = a.answered, b.seen = a.seen,
         b.read = a.read, b.result = a.result
  PROVE  Sound(i, b, depth', pool', Calm', Safe')
<1>1. a.answered \subseteq Sent /\ DOMAIN a.seen \subseteq a.answered
  BY DEF Sound, AnswersShape, Sent
<1>2. \A p \in Sent' : p.job = i =>
        /\ ~Planning(b)
        /\ b.part = "internal" => p.part = "internal" /\ p \in Range(b.signed)
  BY DEF Sound, Sent
<1>3. \A t : Safe' /\ Made(t, depth) => Made(t, depth')
  BY DEF Made, Survives
<1>4. b.part = "main" /\ Safe' => \A n \in DOMAIN b.transfers : Made(b.transfers[n], depth')
  BY <1>3 DEF Sound, Survives
<1>5. b.answered \subseteq Sent'
  BY <1>1 DEF Survives
<1>6. \A p \in DOMAIN b.seen :
        /\ b.seen[p] = "confirmed" /\ Safe' => depth'[p] >= FinalDepth
        /\ b.seen[p] = "not_found" /\ Calm' => pool'[p] = "invalid" /\ depth'[p] = 0
        /\ b.seen[p] \in {"pending", "confirmed", "not_found"}
  BY <1>1 DEF Sound, Survives
<1>7. b.result = "yes" /\ Safe' => \A p \in b.answered : depth'[p] >= FinalDepth
  BY <1>1 DEF Sound, Survives
<1>8. Asked(a, depth, pool, Calm) => Asked(b, depth', pool', Calm')
  BY <1>1 DEF Asked, Survives
<1>9. b.read = <<>> \/ Asked(b, depth', pool', Calm')
  BY <1>8 DEF Sound
<1>10. QED BY <1>2, <1>4, <1>5, <1>6, <1>7, <1>9 DEF Sound, Sent

LEMMA BooksKept ==
  ASSUME PayInv, NEW i \in Job, SameBooks(job[i], job'[i]), Survives,
         \A p \in Sent' : p.job = i => p \in Sent
  PROVE  JobInv(i)'
<1> DEFINE a == job[i]
           b == job'[i]
<1>1. /\ DOMAIN b = DOMAIN a /\ b.at = a.at /\ b.shares = a.shares /\ b.turn = a.turn
      /\ b.part = a.part /\ b.list = a.list /\ b.signed = a.signed
      /\ b.answered = a.answered /\ b.seen = a.seen /\ b.result = a.result
      /\ b.transfers = a.transfers /\ b.read = a.read
  BY DEF SameBooks
<1>2. /\ Shape(i, a) /\ ListsShape(i, a) /\ AnswersShape(a)
      /\ Sound(i, a, depth, pool, Calm, Safe)
  BY DEF PayInv, JobInv
<1> HIDE DEF a, b
<1>3. Planning(b) = Planning(a) /\ Sending(b) = Sending(a)
  BY <1>1 DEF Planning, Sending
<1>4. Shape(i, b)
  BY <1>1, <1>2, <1>3 DEF Shape
<1>5. ListsShape(i, b)
  BY <1>1, <1>2, <1>3 DEF ListsShape
<1>6. AnswersShape(b)
  BY <1>1, <1>2, <1>3 DEF AnswersShape
<1>7. Sound(i, b, depth', pool', Calm', Safe')
  BY <1>1, <1>2, <1>3, <1>6, SoundKept
<1>8. QED BY <1>4, <1>5, <1>6, <1>7 DEF JobInv, b

LEMMA SameIsSame == \A r : SameBooks(r, r)
BY DEF SameBooks

(* A step of one job leaves the others alone.                              *)
OneMoves(j) ==
  /\ DOMAIN job' = Job
  /\ \A i \in Job : i # j => SameBooks(job[i], job'[i])

LEMMA OneMovesKeeps ==
  ASSUME PayInv, NEW j \in Job, OneMoves(j), NodeInv', Survives, JobInv(j)',
         \A p \in Sent' : p \in Sent \/ p.job = j
  PROVE  PayInv'
<1>1. \A i \in Job : i # j => JobInv(i)'
  <2> TAKE i \in Job
  <2> HAVE i # j
  <2>1. \A p \in Sent' : p.job = i => p \in Sent
    OBVIOUS
  <2>2. QED BY <2>1, BooksKept DEF OneMoves
<1>2. QED BY <1>1 DEF PayInv, OneMoves

(* The node does not move.                                                 *)
NodeRests == UNCHANGED node

LEMMA RestKeeps ==
  ASSUME NodeInv, NodeRests
  PROVE  NodeInv' /\ Survives /\ Sent' = Sent
BY DEF NodeInv, NodeRests, node, Survives, Sent, Calm, Safe

(* Nor does it in a step of one job on its own books.                      *)
LEMMA BooksMove ==
  ASSUME PayInv, NEW j \in Job, OneMoves(j), NodeRests,
         Shape(j, job'[j]), ListsShape(j, job'[j]), AnswersShape(job'[j]),
         Sound(j, job'[j], depth, pool, Calm, Safe)
  PROVE  PayInv'
<1>1. NodeInv' /\ Survives /\ Sent' = Sent
  BY RestKeeps DEF PayInv
<1>2. JobInv(j)'
  BY DEF JobInv, NodeRests, node, Calm, Safe
<1>3. QED BY <1>1, <1>2, OneMovesKeeps

LEMMA DisturbKeepsBooks ==
  ASSUME NEW jobs, \A i \in Job : DOMAIN jobs[i] = JobFields
  PROVE  /\ DOMAIN Disturb(jobs) = Job
         /\ \A i \in Job : SameBooks(jobs[i], Disturb(jobs)[i])
<1>1. DOMAIN Disturb(jobs) = Job
  BY DEF Disturb
<1>2. \A i \in Job : \/ Disturb(jobs)[i] = jobs[i]
                     \/ Disturb(jobs)[i] = [jobs[i] EXCEPT !.alone = FALSE]
  BY DEF Disturb
<1>3. \A i \in Job : SameBooks(jobs[i], [jobs[i] EXCEPT !.alone = FALSE])
  BY DEF SameBooks, JobFields
<1>4. QED BY <1>1, <1>2, <1>3, SameIsSame

LEMMA BooksShape ==
  ASSUME NEW i, NEW a, NEW b, SameBooks(a, b), NEW calm, NEW safe,
         Shape(i, a), ListsShape(i, a), AnswersShape(a), Sound(i, a, depth, pool, calm, safe)
  PROVE  /\ Shape(i, b) /\ ListsShape(i, b) /\ AnswersShape(b)
         /\ Sound(i, b, depth, pool, calm, safe)
<1>1. /\ DOMAIN b = DOMAIN a /\ b.at = a.at /\ b.shares = a.shares /\ b.turn = a.turn
      /\ b.part = a.part /\ b.list = a.list /\ b.signed = a.signed
      /\ b.answered = a.answered /\ b.seen = a.seen /\ b.result = a.result
      /\ b.transfers = a.transfers /\ b.read = a.read
  BY DEF SameBooks
<1>2. Planning(b) = Planning(a) /\ Sending(b) = Sending(a)
  BY <1>1 DEF Planning, Sending
<1>3. Shape(i, b)
  BY <1>1, <1>2 DEF Shape
<1>4. ListsShape(i, b)
  BY <1>1, <1>2 DEF ListsShape
<1>5. AnswersShape(b)
  BY <1>1, <1>2 DEF AnswersShape
<1>6. Sound(i, b, depth, pool, calm, safe)
  BY <1>1, <1>2 DEF Sound, Asked
<1>7. QED BY <1>3, <1>4, <1>5, <1>6

LEMMA PlanningNothingSent ==
  ASSUME PayInv, NEW j \in Job, Planning(job[j])
  PROVE  /\ \A p \in Sent : p.job # j
         /\ job[j].part = "main" /\ job[j].signed = <<>> /\ job[j].answered = {}
         /\ job[j].seen = <<>> /\ job[j].read = <<>> /\ job[j].transfers = <<>>
         /\ job[j].result # "yes" /\ DOMAIN job[j] = JobFields
         /\ IsList(job[j].list)
         /\ \A tx \in Range(job[j].list) : Planned(tx, j, "internal")
         /\ Chosen(job[j].shares) \/ (job[j].at = "idle" /\ IsShares(job[j].shares))
<1>1. /\ Shape(j, job[j]) /\ ListsShape(j, job[j]) /\ AnswersShape(job[j])
      /\ Sound(j, job[j], depth, pool, Calm, Safe)
  BY DEF PayInv, JobInv
<1>2. job[j].at # "done"
  BY DEF Planning
<1>3. job[j].at # "wait"
  BY DEF Planning
<1>4. job[j].read = <<>>
  BY <1>1, <1>3 DEF Sound, Asked
<1>5. QED BY <1>1, <1>2, <1>4 DEF Shape, ListsShape, AnswersShape, Sound, Sent

(* A job that has sent nothing and knows nothing is sound.                 *)
LEMMA NothingSentIsSound ==
  ASSUME NEW j, NEW b, NEW calm, NEW safe, \A p \in Sent : p.job # j,
         b.answered = {}, b.seen = <<>>, b.read = <<>>,
         b.part = "main" => b.transfers = <<>>
  PROVE  Sound(j, b, depth, pool, calm, safe)
<1>1. DOMAIN b.seen = {} /\ (b.part = "main" => DOMAIN b.transfers = {})
  OBVIOUS
<1>2. QED BY <1>1 DEF Sound, Sent

(* The books of a job before it begins are empty.                          *)
Fresh(s) == [NewJob EXCEPT !.shares = s]

LEMMA NewJobBooks ==
  ASSUME NEW s, NEW b, b = Fresh(s)
  PROVE  /\ DOMAIN b = JobFields /\ b.at = "idle" /\ b.part = "main" /\ b.shares = s
         /\ b.list = <<>> /\ b.signed = <<>> /\ b.answered = {} /\ b.transfers = <<>>
         /\ b.seen = <<>> /\ b.read = <<>> /\ b.result = "none"
BY DEF Fresh, NewJob, JobFields

LEMMA EmptyBooks ==
  ASSUME NEW j, NEW s, IsShares(s), NEW b, b = Fresh(s)
  PROVE  Shape(j, b) /\ ListsShape(j, b) /\ AnswersShape(b)
<1>1. /\ DOMAIN b = JobFields /\ b.at = "idle" /\ b.part = "main" /\ b.shares = s
      /\ b.list = <<>> /\ b.signed = <<>> /\ b.answered = {} /\ b.transfers = <<>>
      /\ b.seen = <<>> /\ b.read = <<>> /\ b.result = "none"
  BY NewJobBooks
<1>2. Planning(b) /\ ~Sending(b)
  BY <1>1 DEF Planning, Sending
<1>3. Shape(j, b)
  BY <1>1, <1>2 DEF Shape
<1>4. ListsShape(j, b)
  BY <1>1, <1>2, ListEmpty DEF ListsShape
<1>5. AnswersShape(b)
  BY <1>1, <1>2 DEF AnswersShape
<1>6. QED BY <1>3, <1>4, <1>5

LEMMA BeginKeeps ==
  ASSUME PayInv, NEW j \in Job, Begin(j)
  PROVE  PayInv'
<1> DEFINE jb == job[j]
           new(x) == [jb EXCEPT !.at = "check", !.alone = x]
<1>1. PICK x : job' = Disturb([job EXCEPT ![j] = new(x)])
  <2>1. job' = Disturb([job EXCEPT ![j].at = "check",
                                   ![j].alone = \A i \in Job : ~Busy(i)])
    BY DEF Begin
  <2>2. [job EXCEPT ![j].at = "check", ![j].alone = \A i \in Job : ~Busy(i)]
          = [job EXCEPT ![j] = new(\A i \in Job : ~Busy(i))]
    BY DEF PayInv
  <2>3. QED BY <2>1, <2>2
<1>2. jb.at = "idle" /\ jb.shares # <<>> /\ Planning(jb)
  BY DEF Begin, Planning
<1>3. /\ DOMAIN jb = JobFields /\ Chosen(jb.shares) /\ jb.part = "main"
      /\ jb.signed = <<>> /\ jb.answered = {} /\ jb.seen = <<>> /\ jb.read = <<>>
      /\ jb.transfers = <<>> /\ jb.result # "yes"
      /\ \A p \in Sent : p.job # j
  BY <1>2, PlanningNothingSent DEF Chosen
<1>4. jb.list = <<>>
  BY <1>2 DEF PayInv, JobInv, ListsShape
<1>5. /\ DOMAIN new(x) = JobFields /\ new(x).at = "check" /\ new(x).shares = jb.shares
      /\ new(x).part = "main" /\ new(x).list = <<>> /\ new(x).signed = <<>>
      /\ new(x).answered = {} /\ new(x).seen = <<>> /\ new(x).result = jb.result
      /\ new(x).read = <<>> /\ new(x).transfers = <<>>
  BY <1>3, <1>4 DEF JobFields
<1> HIDE DEF new
<1> DEFINE jobs == [job EXCEPT ![j] = new(x)]
<1>6. jobs[j] = new(x) /\ \A i \in Job : i # j => jobs[i] = job[i]
  BY DEF PayInv
<1>7. job' = Disturb(jobs)
  BY <1>1
<1>8. \A i \in Job : DOMAIN jobs[i] = JobFields
  BY <1>5, <1>6 DEF PayInv, JobInv, Shape
<1> HIDE DEF jobs
<1>9. DOMAIN job' = Job /\ \A i \in Job : SameBooks(jobs[i], job'[i])
  BY <1>7, <1>8, DisturbKeepsBooks
<1>10. OneMoves(j)
  BY <1>6, <1>9 DEF OneMoves
<1>11. Sound(j, new(x), depth, pool, Calm, Safe)
  BY <1>3, <1>5, NothingSentIsSound
<1>12. Planning(new(x)) /\ ~Sending(new(x))
  BY <1>5 DEF Planning, Sending
<1>13. Shape(j, new(x))
  BY <1>3, <1>5, <1>12 DEF Shape
<1>14. ListsShape(j, new(x)) /\ AnswersShape(new(x))
  BY <1>5, <1>12, ListEmpty DEF ListsShape, AnswersShape
<1>15. SameBooks(new(x), job'[j])
  BY <1>6, <1>9
<1>16. /\ Shape(j, job'[j]) /\ ListsShape(j, job'[j]) /\ AnswersShape(job'[j])
       /\ Sound(j, job'[j], depth, pool, Calm, Safe)
  BY <1>11, <1>13, <1>14, <1>15, BooksShape
<1>17. NodeRests
  BY DEF Begin, NodeRests
<1>18. QED BY <1>10, <1>16, <1>17, BooksMove

LEMMA SyncNonceKeeps ==
  ASSUME PayInv, NEW k \in Key, SyncNonce(k)
  PROVE  PayInv'
<1>1. job' = Disturb(job) /\ NodeRests
  BY DEF SyncNonce, NodeRests
<1>2. NodeInv' /\ Survives /\ Sent' = Sent
  BY <1>1, RestKeeps DEF PayInv
<1>3. \A i \in Job : DOMAIN job[i] = JobFields
  BY DEF PayInv, JobInv, Shape
<1>4. DOMAIN job' = Job /\ \A i \in Job : SameBooks(job[i], job'[i])
  BY <1>1, <1>3, DisturbKeepsBooks
<1>5. QED BY <1>2, <1>4, BooksKept DEF PayInv

(* So do the node's own steps.                                             *)
LEMMA NodeStepsKeep ==
  ASSUME PayInv, \/ Decide \/ Mine
                 \/ \E blocks \in 1 .. MaxReorg : Reorg(blocks)
                 \/ \E p \in Sent : Requeue(p)
  PROVE  PayInv'
<1>1. job' = job
  BY DEF Decide, Mine, Reorg, Requeue
<1>2. NodeInv' /\ Survives /\ Sent' = Sent
  BY DecideKeeps, MineKeeps, ReorgKeeps, RequeueKeeps DEF PayInv
<1>3. QED BY <1>1, <1>2, SameIsSame, BooksKept DEF PayInv
-----------------------------------------------------------------------------
(* A step of one job on its own books, as a record. *)
LEMMA OneJobMoves ==
  ASSUME PayInv, NEW j \in Job, NEW b, job' = [job EXCEPT ![j] = b]
  PROVE  OneMoves(j) /\ job'[j] = b
<1>1. DOMAIN job' = Job /\ job'[j] = b /\ \A i \in Job : i # j => job'[i] = job[i]
  BY DEF PayInv
<1>2. QED BY <1>1, SameIsSame DEF OneMoves

(* While it plans, only internal transfers are put on the list.            *)
LEMMA PlanningKeeps ==
  ASSUME PayInv, NEW j \in Job, NEW b, job' = [job EXCEPT ![j] = b], NodeRests,
         Planning(job[j]), job[j].at # "idle",
         DOMAIN b = JobFields, b.at \in {"check", "fund", "done"},
         b.shares = job[j].shares, b.part = job[j].part, b.signed = job[j].signed,
         b.answered = job[j].answered, b.seen = job[j].seen, b.result # "yes",
         b.read = job[j].read, b.transfers = job[j].transfers, IsList(b.list), \A tx \in Range(b.list) : Planned(tx, j, "internal"),
         b.at = "check" => b.list = <<>>
  PROVE  PayInv'
<1>1. /\ \A p \in Sent : p.job # j
      /\ b.part = "main" /\ b.signed = <<>> /\ b.answered = {} /\ b.seen = <<>>
      /\ b.read = <<>> /\ b.transfers = <<>> /\ Chosen(b.shares)
  BY PlanningNothingSent
<1>2. Sound(j, b, depth, pool, Calm, Safe)
  BY <1>1, NothingSentIsSound
<1>3. ~Sending(b)
  BY DEF Sending
<1>4. Shape(j, b)
  BY <1>1, <1>3 DEF Shape, Planning
<1>5. ListsShape(j, b)
  BY <1>1, <1>3, ListEmpty, ListLength DEF ListsShape
<1>6. AnswersShape(b)
  BY <1>1 DEF AnswersShape
<1>7. QED BY <1>2, <1>4, <1>5, <1>6, OneJobMoves, BooksMove

LEMMA CheckSenderKeeps ==
  ASSUME PayInv, NEW j \in Job, NEW answered \in BOOLEAN, CheckSender(j, answered)
  PROVE  PayInv'
<1> DEFINE jb == job[j]
           s == jb.shares[jb.turn]
           found == IF answered THEN Balance(s.key) ELSE 0
           last == jb.turn = Len(jb.shares)
           b == [jb EXCEPT !.turn = IF last THEN 1 ELSE @ + 1,
                           !.at = IF last THEN "fund" ELSE @,
                           !.balance[s.key] = found,
                           !.deficit[s.key] = Max({0, Buffered(s.amount) - found}),
                           !.served = @ /\ answered]
<1>1. /\ Planning(jb) /\ jb.at = "check" /\ NodeRests
      /\ job' = [job EXCEPT ![j] = b]
  BY DEF CheckSender, Planning, NodeRests
<1>2. DOMAIN jb = JobFields /\ jb.list = <<>> /\ jb.result # "yes"
  BY <1>1, PlanningNothingSent DEF PayInv, JobInv, ListsShape
<1> HIDE DEF found
<1>3. /\ DOMAIN b = JobFields /\ b.at \in {"check", "fund"} /\ b.shares = jb.shares
      /\ b.part = jb.part /\ b.signed = jb.signed /\ b.answered = jb.answered
      /\ b.seen = jb.seen /\ b.result = jb.result /\ b.list = jb.list
      /\ b.read = jb.read /\ b.transfers = jb.transfers
  BY <1>1, <1>2 DEF JobFields
<1> HIDE DEF b
<1>4. IsList(b.list) /\ Range(b.list) = {}
  BY <1>2, <1>3, ListEmpty
<1>5. QED BY <1>1, <1>2, <1>3, <1>4, PlanningKeeps

(* The main payments are a list, and not an empty one.                     *)
LEMMA MainListShape ==
  ASSUME NEW j \in Job, NEW shares, Chosen(shares)
  PROVE  /\ IsList(MainList(j, shares)) /\ Len(MainList(j, shares)) > 0
         /\ \A tx \in Range(MainList(j, shares)) : Planned(tx, j, "main")
<1>1. shares \in Seq([key : Key, amount : Nat]) /\ shares # <<>>
  BY DEF Chosen, IsShares
<1>2. DOMAIN shares = 1 .. Len(shares) /\ Len(shares) \in Nat /\ Len(shares) > 0
  BY <1>1
<1> DEFINE pay(i) == Transfer(j, "main", shares[i].key, Outside, shares[i].amount, 0)
           S == {pay(i) : i \in 1 .. Len(shares)}
           list == [i \in 1 .. Len(shares) |-> pay(i)]
<1>3. MainList(j, shares) = list
  BY <1>2 DEF MainList
<1>4. \A i \in 1 .. Len(shares) : Planned(pay(i), j, "main")
  BY DEF Planned
<1> HIDE DEF pay
<1>5. list \in Seq(S) /\ Len(list) = Len(shares)
  BY <1>2
<1>6. \A tx \in Range(list) : Planned(tx, j, "main")
  BY <1>2, <1>4 DEF Range
<1>7. QED BY <1>2, <1>3, <1>5, <1>6 DEF IsList

(* It begins to sign, its list all of one part.                            *)
LEMMA StartSigningKeeps ==
  ASSUME PayInv, NEW j \in Job, NEW b, job' = [job EXCEPT ![j] = b], NodeRests,
         Planning(job[j]), job[j].at # "idle",
         DOMAIN b = JobFields, b.at = "sign", b.part \in {"main", "internal"},
         b.shares = job[j].shares, b.signed = job[j].signed,
         b.answered = job[j].answered, b.seen = job[j].seen, b.result = job[j].result,
         b.read = job[j].read, IsList(b.list), Len(b.list) > 0,
         b.transfers = IF b.part = "main" THEN <<>> ELSE b.list,
         \A tx \in Range(b.list) : Planned(tx, j, b.part)
  PROVE  PayInv'
<1>1. /\ \A p \in Sent : p.job # j
      /\ b.signed = <<>> /\ b.answered = {} /\ b.seen = <<>> /\ b.result # "yes"
      /\ b.read = <<>> /\ Chosen(b.shares)
  BY PlanningNothingSent
<1>2. Sound(j, b, depth, pool, Calm, Safe)
  BY <1>1, NothingSentIsSound
<1>3. ~Planning(b) /\ Sending(b)
  BY DEF Planning, Sending
<1>4. Shape(j, b)
  BY <1>1, <1>3 DEF Shape
<1>5. ListsShape(j, b)
  BY <1>1, <1>3, ListEmpty, ListLength DEF ListsShape
<1>6. AnswersShape(b)
  BY <1>1, <1>3 DEF AnswersShape
<1>7. QED BY <1>2, <1>4, <1>5, <1>6, OneJobMoves, BooksMove

LEMMA SyncSenderKeeps ==
  ASSUME PayInv, NEW j \in Job, NEW answered \in BOOLEAN, SyncSender(j, answered)
  PROVE  PayInv'
<1> DEFINE jb == job[j]
           list == MainList(j, jb.shares)
           b(v) == [jb EXCEPT !.at = "sign", !.list = list, !.served = v]
<1>1. /\ Planning(jb) /\ jb.at = "check" /\ NodeRests
      /\ \E v : job' = [job EXCEPT ![j] = b(v)]
  BY DEF SyncSender, Planning, NodeRests
<1>2. PICK v : job' = [job EXCEPT ![j] = b(v)]
  BY <1>1
<1>3. /\ DOMAIN jb = JobFields /\ Chosen(jb.shares) /\ jb.part = "main"
      /\ jb.transfers = <<>>
  BY <1>1, PlanningNothingSent
<1>4. IsList(list) /\ Len(list) > 0 /\ \A tx \in Range(list) : Planned(tx, j, "main")
  BY <1>3, MainListShape
<1> HIDE DEF list
<1>5. /\ DOMAIN b(v) = JobFields /\ b(v).at = "sign" /\ b(v).part = "main"
      /\ b(v).shares = jb.shares /\ b(v).signed = jb.signed
      /\ b(v).answered = jb.answered /\ b(v).seen = jb.seen /\ b(v).result = jb.result
      /\ b(v).list = list /\ b(v).read = jb.read /\ b(v).transfers = <<>>
  BY <1>3 DEF JobFields
<1> HIDE DEF b
<1>6. QED BY <1>1, <1>2, <1>4, <1>5, StartSigningKeeps

LEMMA FundKeeps ==
  ASSUME PayInv, NEW j \in Job, NEW deaf \in SUBSET Key, Fund(j, deaf)
  PROVE  PayInv'
<1> DEFINE jb == job[j]
           short == Short(jb)[jb.turn].key
           fresh == [k \in Key |-> IF k \in deaf THEN 0 ELSE Balance(k)]
           from == Head(Sources(jb, short, fresh))
           amount == jb.deficit[short]
           fee == InternalFee(amount)
           y == Transfer(j, "internal", from, short, amount, fee)
           e == End(j, "error")
           c == [jb EXCEPT !.turn = @ + 1,
                           !.list = Append(@, y),
                           !.balance[from] = @ - (amount + fee),
                           !.balance[short] = @ + amount,
                           !.drained = @ \/ jb.deficit[from] > 0,
                           !.served = @ /\ deaf = {}]
<1>1. /\ Planning(jb) /\ jb.at = "fund" /\ NodeRests
      /\ job' = [job EXCEPT ![j] = e] \/ job' = [job EXCEPT ![j] = c]
  BY DEF Fund, Planning, NodeRests
<1>2. /\ DOMAIN jb = JobFields /\ IsList(jb.list) /\ jb.result # "yes"
      /\ \A x \in Range(jb.list) : Planned(x, j, "internal")
  BY <1>1, PlanningNothingSent
<1>3. CASE job' = [job EXCEPT ![j] = e]
  <2>1. /\ DOMAIN e = JobFields /\ e.at = "done" /\ e.shares = jb.shares
        /\ e.part = jb.part /\ e.signed = jb.signed /\ e.answered = jb.answered
        /\ e.seen = jb.seen /\ e.result = "error" /\ e.list = jb.list
        /\ e.read = jb.read /\ e.transfers = jb.transfers
    BY <1>2 DEF End, JobFields
  <2> HIDE DEF e
  <2>2. QED BY <1>1, <1>2, <1>3, <2>1, PlanningKeeps
<1>4. CASE job' = [job EXCEPT ![j] = c]
  <2>1. Planned(y, j, "internal")
    BY DEF Planned
  <2> HIDE DEF y, from, short, amount, fee
  <2>2. /\ DOMAIN c = JobFields /\ c.at = "fund" /\ c.shares = jb.shares
        /\ c.part = jb.part /\ c.signed = jb.signed /\ c.answered = jb.answered
        /\ c.seen = jb.seen /\ c.result = jb.result /\ c.list = Append(jb.list, y)
        /\ c.read = jb.read /\ c.transfers = jb.transfers
    BY <1>1, <1>2 DEF JobFields
  <2> HIDE DEF c
  <2>3. IsList(c.list) /\ \A x \in Range(c.list) : Planned(x, j, "internal")
    BY <1>2, <2>1, <2>2, ListAppend
  <2>4. QED BY <1>1, <1>2, <1>4, <2>2, <2>3, PlanningKeeps
<1>5. QED BY <1>1, <1>3, <1>4

LEMMA PlanMadeKeeps ==
  ASSUME PayInv, NEW j \in Job, PlanMade(j)
  PROVE  PayInv'
<1> DEFINE jb == job[j]
           main == MainList(j, jb.shares)
           b == IF jb.list # <<>>
                THEN [jb EXCEPT !.at = "sign", !.part = "internal", !.transfers = jb.list]
                ELSE [jb EXCEPT !.at = "sign", !.list = main]
<1>1. Planning(jb) /\ jb.at = "fund" /\ NodeRests /\ job' = [job EXCEPT ![j] = b]
  BY DEF PlanMade, Planning, NodeRests
<1>2. /\ DOMAIN jb = JobFields /\ IsList(jb.list) /\ jb.part = "main"
      /\ Chosen(jb.shares) /\ jb.transfers = <<>>
      /\ \A y \in Range(jb.list) : Planned(y, j, "internal")
  BY <1>1, PlanningNothingSent
<1>3. IsList(main) /\ Len(main) > 0 /\ \A tx \in Range(main) : Planned(tx, j, "main")
  BY <1>2, MainListShape
<1>4. jb.list # <<>> => Len(jb.list) > 0
  <2>1. PICK S : jb.list \in Seq(S)
    BY <1>2 DEF IsList
  <2>2. QED BY <2>1
<1> HIDE DEF main
<1>5. /\ DOMAIN b = JobFields /\ b.at = "sign" /\ b.shares = jb.shares
      /\ b.signed = jb.signed /\ b.answered = jb.answered /\ b.seen = jb.seen
      /\ b.result = jb.result /\ b.read = jb.read
      /\ \/ b.part = "internal" /\ b.list = jb.list /\ jb.list # <<>> /\ b.transfers = b.list
         \/ b.part = "main" /\ b.list = main /\ b.transfers = <<>>
  BY <1>2 DEF JobFields
<1> HIDE DEF b
<1>6. /\ IsList(b.list) /\ Len(b.list) > 0 /\ b.part \in {"main", "internal"}
      /\ \A tx \in Range(b.list) : Planned(tx, j, b.part)
  BY <1>2, <1>3, <1>4, <1>5
<1>7. b.transfers = IF b.part = "main" THEN <<>> ELSE b.list
  BY <1>5
<1>8. QED BY <1>1, <1>5, <1>6, <1>7, StartSigningKeeps
-----------------------------------------------------------------------------
(* What the books of a running job say, in one place.                      *)
Open(j, jb) ==
  /\ Sending(jb) /\ ~Planning(jb) /\ DOMAIN jb = JobFields
  /\ jb.part \in {"main", "internal"} /\ jb.result # "yes" /\ Chosen(jb.shares)
  /\ jb.part = "internal" => jb.transfers = jb.list
  /\ IsList(jb.list) /\ IsList(jb.signed)
  /\ \A tx \in Range(jb.list) : Planned(tx, j, jb.part)
  /\ \A tx \in Range(jb.signed) : Paying(tx, j, jb.part)
  /\ Len(jb.signed) <= Len(jb.list)
  /\ \A m \in 1 .. Len(jb.signed) : Unsigned(jb.signed[m]) = jb.list[m]

LEMMA OpenBooks ==
  ASSUME PayInv, NEW j \in Job, Sending(job[j])
  PROVE  /\ Open(j, job[j]) /\ AnswersShape(job[j])
         /\ Sound(j, job[j], depth, pool, Calm, Safe)
<1>1. /\ Shape(j, job[j]) /\ ListsShape(j, job[j]) /\ AnswersShape(job[j])
      /\ Sound(j, job[j], depth, pool, Calm, Safe)
  BY DEF PayInv, JobInv
<1>2. ~Planning(job[j]) /\ job[j].at # "done" /\ job[j].at # "idle"
  BY DEF Planning, Sending
<1>3. QED BY <1>1, <1>2 DEF Shape, ListsShape, Open

LEMMA OpenIsShaped ==
  ASSUME NEW j, NEW b, Open(j, b),
         b.at = "sign" => Len(b.signed) < Len(b.list),
         b.at = "increment" => Len(b.signed) > 0,
         b.at \in {"post", "wait"} => Len(b.signed) = Len(b.list),
         b.at = "post" => b.turn \in 1 .. Len(b.signed)
  PROVE  Shape(j, b) /\ ListsShape(j, b)
<1>1. b.at # "idle" /\ b.at # "check" /\ b.at # "done"
  BY DEF Open, Sending
<1>2. Shape(j, b)
  BY <1>1 DEF Open, Shape
<1>3. ListsShape(j, b)
  BY <1>1 DEF Open, ListsShape
<1>4. QED BY <1>2, <1>3

(* Outside its wait the job has asked nothing.                             *)
LEMMA SoundMoves ==
  ASSUME NEW j, NEW a, NEW b, Sound(j, a, depth, pool, Calm, Safe), a.at # "wait",
         ~Planning(b), b.part = a.part, Range(a.signed) \subseteq Range(b.signed),
         b.transfers = a.transfers, b.answered = a.answered, b.seen = a.seen,
         b.read = a.read, b.result = a.result
  PROVE  Sound(j, b, depth, pool, Calm, Safe)
<1>1. a.read = <<>>
  BY DEF Sound, Asked
<1>2. QED BY <1>1 DEF Sound

LEMMA SignedOnce ==
  ASSUME NEW j, NEW part, NEW tx, Planned(tx, j, part)
  PROVE  Paying(Signed(tx), j, part) /\ Unsigned(Signed(tx)) = tx
<1>1. PICK from, to, amount, fee : tx = Transfer(j, part, from, to, amount, fee)
  BY DEF Planned
<1>2. PICK n : n = nonce[tx.from]
  OBVIOUS
<1> DEFINE x == [job |-> j, part |-> part, from |-> from, to |-> to, amount |-> amount,
                 fee |-> fee, nonce |-> n]
<1>3. Signed(tx) = x
  BY <1>1, <1>2 DEF Signed, Transfer
<1>4. Unsigned(x) = tx
  BY <1>1 DEF Unsigned, Transfer
<1>5. QED BY <1>3, <1>4 DEF Paying

LEMMA SignKeeps ==
  ASSUME PayInv, NEW j \in Job, Sign(j)
  PROVE  PayInv'
<1> DEFINE jb == job[j]
           tx == jb.list[Len(jb.signed) + 1]
           signed == Append(jb.signed, Signed(tx))
           b == [jb EXCEPT !.signed = signed, !.at = "increment"]
<1>1. jb.at = "sign" /\ NodeRests /\ job' = [job EXCEPT ![j] = b]
  BY DEF Sign, NodeRests
<1>2. Sending(jb)
  BY <1>1 DEF Sending
<1>3. Open(j, jb) /\ AnswersShape(jb) /\ Sound(j, jb, depth, pool, Calm, Safe)
  BY <1>2, OpenBooks
<1>4. /\ Len(jb.signed) \in Nat /\ Len(jb.list) \in Nat /\ Len(jb.signed) < Len(jb.list)
      /\ tx \in Range(jb.list)
  <2>1. Len(jb.signed) < Len(jb.list)
    BY <1>1 DEF PayInv, JobInv, ListsShape
  <2>2. Len(jb.signed) \in Nat /\ Len(jb.list) \in Nat
    BY <1>3, ListLength DEF Open
  <2>3. Len(jb.signed) + 1 \in 1 .. Len(jb.list)
    BY <2>1, <2>2
  <2>4. QED BY <1>3, <2>1, <2>2, <2>3, ListLength DEF Open
<1>5. Paying(Signed(tx), j, jb.part) /\ Unsigned(Signed(tx)) = tx
  BY <1>3, <1>4, SignedOnce DEF Open
<1>6. /\ IsList(signed) /\ Len(signed) = Len(jb.signed) + 1
      /\ Range(signed) = Range(jb.signed) \cup {Signed(tx)}
      /\ \A m \in 1 .. Len(jb.signed) : signed[m] = jb.signed[m]
      /\ signed[Len(jb.signed) + 1] = Signed(tx)
  BY <1>3, ListAppend DEF Open
<1>7. \A m \in 1 .. Len(signed) : Unsigned(signed[m]) = jb.list[m]
  <2> TAKE m \in 1 .. Len(signed)
  <2>1. m \in 1 .. Len(jb.signed) \/ m = Len(jb.signed) + 1
    BY <1>4, <1>6
  <2>2. QED BY <1>3, <1>5, <1>6, <2>1 DEF Open
<1>8. /\ DOMAIN b = JobFields /\ b.shares = jb.shares /\ b.part = jb.part
      /\ b.list = jb.list /\ b.signed = signed /\ b.answered = jb.answered
      /\ b.seen = jb.seen /\ b.result = jb.result /\ b.read = jb.read
      /\ b.transfers = jb.transfers /\ b.at = "increment"
  BY <1>3 DEF Open, JobFields
<1> HIDE DEF b, signed, tx
<1>9. ~Planning(b) /\ Sending(b)
  BY <1>8 DEF Planning, Sending
<1>10. Open(j, b)
  BY <1>3, <1>4, <1>5, <1>6, <1>7, <1>8, <1>9 DEF Open
<1>11. Shape(j, b) /\ ListsShape(j, b)
  BY <1>4, <1>6, <1>8, <1>10, OpenIsShaped
<1>12. AnswersShape(b)
  BY <1>1, <1>3, <1>8, <1>9 DEF AnswersShape
<1>13. Sound(j, b, depth, pool, Calm, Safe)
  BY <1>1, <1>3, <1>6, <1>8, <1>9, SoundMoves
<1>14. QED BY <1>1, <1>11, <1>12, <1>13, OneJobMoves, BooksMove

LEMMA IncrementNonceKeeps ==
  ASSUME PayInv, NEW j \in Job, IncrementNonce(j)
  PROVE  PayInv'
<1> DEFINE jb == job[j]
           b == [jb EXCEPT !.turn = 1,
                           !.at = IF Len(jb.signed) = Len(jb.list) THEN "post" ELSE "sign"]
<1>1. jb.at = "increment" /\ NodeRests /\ job' = [job EXCEPT ![j] = b]
  BY DEF IncrementNonce, NodeRests
<1>2. Sending(jb)
  BY <1>1 DEF Sending
<1>3. Open(j, jb) /\ AnswersShape(jb) /\ Sound(j, jb, depth, pool, Calm, Safe)
  BY <1>2, OpenBooks
<1>4. /\ Len(jb.signed) \in Nat /\ Len(jb.list) \in Nat /\ Len(jb.signed) > 0
      /\ Len(jb.signed) <= Len(jb.list)
  BY <1>1, <1>3, ListLength DEF Open, PayInv, JobInv, ListsShape
<1>5. /\ DOMAIN b = JobFields /\ b.shares = jb.shares /\ b.part = jb.part
      /\ b.list = jb.list /\ b.signed = jb.signed /\ b.answered = jb.answered
      /\ b.seen = jb.seen /\ b.result = jb.result /\ b.read = jb.read
      /\ b.transfers = jb.transfers /\ b.turn = 1
      /\ b.at = IF Len(jb.signed) = Len(jb.list) THEN "post" ELSE "sign"
  BY <1>3 DEF Open, JobFields
<1> HIDE DEF b
<1>6. ~Planning(b) /\ Sending(b) /\ b.at \in {"post", "sign"} /\ b.at # "wait"
  BY <1>5 DEF Planning, Sending
<1>7. Open(j, b)
  BY <1>3, <1>5, <1>6 DEF Open
<1>8. /\ b.at = "sign" => Len(b.signed) < Len(b.list)
      /\ b.at = "post" => Len(b.signed) = Len(b.list) /\ b.turn \in 1 .. Len(b.signed)
  BY <1>4, <1>5
<1>9. Shape(j, b) /\ ListsShape(j, b)
  BY <1>6, <1>7, <1>8, OpenIsShaped
<1>10. jb.answered = {} /\ jb.seen = <<>> /\ DOMAIN jb.seen \subseteq jb.answered
  BY <1>1, <1>3 DEF AnswersShape
<1>11. AnswersShape(b)
  BY <1>5, <1>6, <1>10 DEF AnswersShape
<1>12. Sound(j, b, depth, pool, Calm, Safe)
  BY <1>1, <1>3, <1>5, <1>6, SoundMoves
<1>13. QED BY <1>1, <1>9, <1>11, <1>12, OneJobMoves, BooksMove

LEMMA StatusMeans ==
  ASSUME NodeInv, NEW p \in Sent, NEW s \in {"none", "invalid"},
         s = "invalid" => pool[p] = "invalid" /\ depth[p] = 0,
         s = "none" /\ Calm => depth[p] > 0
  PROVE  /\ Status(p, s) \in {"pending", "confirmed", "not_found"}
         /\ Status(p, s) = "confirmed" => depth[p] >= FinalDepth
         /\ Status(p, s) = "not_found" /\ Calm => pool[p] = "invalid" /\ depth[p] = 0
<1>1. /\ TxStatus(p, s).final <=> depth[p] >= FinalDepth
      /\ TxStatus(p, s).mempool_state = s
      /\ TxStatus(p, s).present = "none" => ~(depth[p] > 0) /\ s = "none"
  BY DEF TxStatus
<1>2. /\ Status(p, s) \in {"pending", "confirmed", "not_found"}
      /\ Status(p, s) = "confirmed" => depth[p] >= FinalDepth
      /\ Status(p, s) = "not_found" => TxStatus(p, s).present = "none" \/ s = "invalid"
  BY <1>1 DEF Status
<1>3. QED BY <1>1, <1>2

LEMMA PollKeeps ==
  ASSUME PayInv, NEW j \in Job, NEW p \in job[j].answered, Poll(j, p)
  PROVE  PayInv'
<1> DEFINE jb == job[j]
           b == [jb EXCEPT !.read = <<[tx |-> p, state |-> pool[p]]>>]
<1>1. /\ jb.at = "wait" /\ NodeRests /\ pool[p] \in {"none", "invalid"}
      /\ job' = [job EXCEPT ![j].read = <<[tx |-> p, state |-> pool[p]]>>]
  BY DEF Poll, NodeRests
<1>2. job' = [job EXCEPT ![j] = b]
  BY <1>1
<1>3. Sending(jb)
  BY <1>1 DEF Sending
<1>4. Open(j, jb) /\ AnswersShape(jb) /\ Sound(j, jb, depth, pool, Calm, Safe)
  BY <1>3, OpenBooks
<1>5. p \in Sent
  BY <1>4 DEF Sound, Sent
<1>6. /\ DOMAIN b = JobFields /\ b.at = "wait" /\ b.shares = jb.shares
      /\ b.part = jb.part /\ b.list = jb.list /\ b.signed = jb.signed
      /\ b.answered = jb.answered /\ b.result = jb.result /\ b.seen = jb.seen
      /\ b.transfers = jb.transfers /\ b.read = <<[tx |-> p, state |-> pool[p]]>>
  BY <1>1, <1>4 DEF Open, JobFields
<1> HIDE DEF b
<1>7. ~Planning(b) /\ Sending(b)
  BY <1>6 DEF Planning, Sending
<1>8. Open(j, b)
  BY <1>4, <1>6, <1>7 DEF Open
<1>9. Len(jb.signed) = Len(jb.list)
  BY <1>1 DEF PayInv, JobInv, ListsShape
<1>10. Shape(j, b) /\ ListsShape(j, b)
  BY <1>6, <1>8, <1>9, OpenIsShaped
<1>11. AnswersShape(b)
  BY <1>1, <1>4, <1>6, <1>7 DEF AnswersShape
<1>12. Asked(b, depth, pool, Calm)
  <2>1. /\ pool[p] = "invalid" => depth[p] = 0
        /\ pool[p] = "none" /\ Calm => depth[p] > 0
    BY <1>5 DEF PayInv, NodeInv, Calm
  <2>2. QED BY <1>1, <1>6, <2>1 DEF Asked
<1>13. Sound(j, b, depth, pool, Calm, Safe)
  BY <1>4, <1>6, <1>7, <1>12 DEF Sound
<1>14. OneMoves(j) /\ job'[j] = b
  BY <1>2, OneJobMoves
<1>15. NodeRests
  BY <1>1
<1>16. QED BY <1>10, <1>11, <1>13, <1>14, <1>15, BooksMove

LEMMA PollAnsweredKeeps ==
  ASSUME PayInv, NEW j \in Job, PollAnswered(j)
  PROVE  PayInv'
<1> DEFINE jb == job[j]
<1>1. jb.read # <<>> /\ NodeRests
  BY DEF PollAnswered, NodeRests
<1>2. /\ jb.at = "wait"
      /\ \E p \in jb.answered, s \in {"none", "invalid"} :
           /\ jb.read = <<[tx |-> p, state |-> s]>>
           /\ s = "invalid" => pool[p] = "invalid" /\ depth[p] = 0
           /\ s = "none" /\ Calm => depth[p] > 0
  BY <1>1 DEF PayInv, JobInv, Sound, Asked
<1>3. PICK p \in jb.answered, s \in {"none", "invalid"} :
           /\ jb.read = <<[tx |-> p, state |-> s]>>
           /\ s = "invalid" => pool[p] = "invalid" /\ depth[p] = 0
           /\ s = "none" /\ Calm => depth[p] > 0
  BY <1>2
<1>4. jb.read[1].tx = p /\ jb.read[1].state = s
  BY <1>3
<1>5. Sending(jb)
  BY <1>2 DEF Sending
<1>6. Open(j, jb) /\ AnswersShape(jb) /\ Sound(j, jb, depth, pool, Calm, Safe)
  BY <1>5, OpenBooks
<1>7. p \in Sent /\ DOMAIN jb.seen = jb.answered
  BY <1>2, <1>6 DEF Sound, AnswersShape, Sent
<1> DEFINE status == Status(p, s)
           seen == [jb.seen EXCEPT ![p] = status]
           b == [jb EXCEPT !.read = <<>>, !.seen = seen]
<1>8. job' = [job EXCEPT ![j] = b]
  <2>1. job' = [job EXCEPT ![j] =
                  [jb EXCEPT !.read = <<>>, !.seen[p] = Status(p, s)]]
    BY <1>4 DEF PollAnswered
  <2> HIDE DEF jb
  <2>2. QED BY <2>1
<1>9. /\ status \in {"pending", "confirmed", "not_found"}
      /\ status = "confirmed" => depth[p] >= FinalDepth
      /\ status = "not_found" /\ Calm => pool[p] = "invalid" /\ depth[p] = 0
  BY <1>3, <1>7, StatusMeans DEF PayInv
<1> HIDE DEF status
<1>10. /\ DOMAIN seen = DOMAIN jb.seen /\ seen[p] = status
       /\ \A q \in DOMAIN jb.seen : q # p => seen[q] = jb.seen[q]
  BY <1>7
<1> HIDE DEF seen
<1>11. /\ DOMAIN b = JobFields /\ b.at = "wait" /\ b.shares = jb.shares
       /\ b.part = jb.part /\ b.list = jb.list /\ b.signed = jb.signed
       /\ b.answered = jb.answered /\ b.result = jb.result /\ b.seen = seen
       /\ b.transfers = jb.transfers /\ b.read = <<>>
  BY <1>2, <1>6 DEF Open, JobFields
<1> HIDE DEF b
<1>12. ~Planning(b) /\ Sending(b)
  BY <1>11 DEF Planning, Sending
<1>13. Open(j, b)
  BY <1>6, <1>11, <1>12 DEF Open
<1>14. Len(jb.signed) = Len(jb.list)
  BY <1>2 DEF PayInv, JobInv, ListsShape
<1>15. Shape(j, b) /\ ListsShape(j, b)
  BY <1>11, <1>13, <1>14, OpenIsShaped
<1>16. AnswersShape(b)
  BY <1>2, <1>6, <1>7, <1>10, <1>11, <1>12 DEF AnswersShape
<1>17. \A q \in DOMAIN seen :
         /\ seen[q] = "confirmed" /\ Safe => depth[q] >= FinalDepth
         /\ seen[q] = "not_found" /\ Calm => pool[q] = "invalid" /\ depth[q] = 0
         /\ seen[q] \in {"pending", "confirmed", "not_found"}
  BY <1>6, <1>9, <1>10 DEF Sound
<1>18. Sound(j, b, depth, pool, Calm, Safe)
  BY <1>6, <1>11, <1>12, <1>17 DEF Sound
<1>19. QED BY <1>1, <1>8, <1>15, <1>16, <1>18, OneJobMoves, BooksMove

(* A job that ends keeps its books; success is only reported for the main  *)
(* payments.                                                               *)
Ends(a, b, result) ==
  /\ DOMAIN b = JobFields /\ b.at = "done" /\ b.result = result
  /\ b.shares = a.shares /\ b.part = a.part /\ b.list = a.list
  /\ b.signed = a.signed /\ b.answered = a.answered /\ b.seen = a.seen
  /\ b.read = a.read /\ b.transfers = a.transfers

LEMMA EndEnds ==
  ASSUME NEW j, DOMAIN job[j] = JobFields, NEW result
  PROVE  /\ Ends(job[j], End(j, result), result)
         /\ \A v : Ends(job[j], [End(j, result) EXCEPT !.served = v], result)
BY DEF Ends, End, JobFields

LEMMA EndShape ==
  ASSUME NEW j, NEW a, NEW b, NEW result, Open(j, a), AnswersShape(a), Ends(a, b, result),
         result # "yes" \/ a.part = "main"
  PROVE  Shape(j, b) /\ ListsShape(j, b) /\ AnswersShape(b) /\ ~Planning(b)
<1>1. /\ DOMAIN b = JobFields /\ b.at = "done" /\ b.shares = a.shares
      /\ b.part = a.part /\ b.list = a.list /\ b.signed = a.signed
      /\ b.answered = a.answered /\ b.seen = a.seen /\ b.result = result
  BY DEF Ends
<1>2. ~Planning(b) /\ ~Sending(b)
  BY <1>1 DEF Planning, Sending
<1>3. Shape(j, b)
  BY <1>1, <1>2 DEF Shape, Open
<1>4. ListsShape(j, b)
  BY <1>1, <1>2 DEF ListsShape, Open
<1>5. AnswersShape(b)
  BY <1>1, <1>2 DEF AnswersShape
<1>6. QED BY <1>2, <1>3, <1>4, <1>5

LEMMA WaitEndsKeeps ==
  ASSUME PayInv, NEW j \in Job, WaitEnds(j)
  PROVE  PayInv'
<1> DEFINE jb == job[j]
           confirmed == \A p \in jb.answered : jb.seen[p] = "confirmed"
           main == MainList(j, jb.shares)
           next == [jb EXCEPT !.at = "sign", !.part = "main", !.list = main,
                              !.signed = <<>>, !.answered = {}, !.seen = <<>>]
           b == Waited(j)
<1>1. jb.at = "wait" /\ jb.read = <<>> /\ NodeRests /\ job' = [job EXCEPT ![j] = b]
  BY DEF WaitEnds, NodeRests
<1>2. Sending(jb)
  BY <1>1 DEF Sending
<1>3. Open(j, jb) /\ AnswersShape(jb) /\ Sound(j, jb, depth, pool, Calm, Safe)
  BY <1>2, OpenBooks
<1>4. DOMAIN jb.seen = jb.answered /\ (jb.part = "internal" => jb.answered = Range(jb.signed))
  BY <1>1, <1>3 DEF AnswersShape
<1>5. confirmed /\ Safe => \A p \in jb.answered : depth[p] >= FinalDepth
  BY <1>3, <1>4 DEF Sound
<1>6. \/ b = End(j, "yes") /\ jb.part = "main" /\ confirmed
      \/ b = End(j, "no")
      \/ b = next /\ jb.part = "internal" /\ confirmed
  BY <1>3 DEF Waited, Open
<1>7. OneMoves(j) /\ job'[j] = b
  BY <1>1, OneJobMoves
<1> HIDE DEF b
<1>8. CASE b = End(j, "yes") /\ jb.part = "main" /\ confirmed
  <2>1. Ends(jb, b, "yes")
    BY <1>3, <1>8, EndEnds DEF Open
  <2>2. Shape(j, b) /\ ListsShape(j, b) /\ AnswersShape(b) /\ ~Planning(b)
    BY <1>3, <1>8, <2>1, EndShape
  <2>3. Sound(j, b, depth, pool, Calm, Safe)
    BY <1>1, <1>3, <1>5, <1>8, <2>1, <2>2 DEF Sound, Ends
  <2>4. QED BY <1>1, <1>7, <2>2, <2>3, BooksMove
<1>9. CASE b = End(j, "no")
  <2>1. Ends(jb, b, "no") /\ "no" # "yes"
    BY <1>3, <1>9, EndEnds DEF Open
  <2>2. Shape(j, b) /\ ListsShape(j, b) /\ AnswersShape(b) /\ ~Planning(b)
    BY <1>3, <2>1, EndShape
  <2>3. Sound(j, b, depth, pool, Calm, Safe)
    BY <1>1, <1>3, <2>1, <2>2 DEF Sound, Ends
  <2>4. QED BY <1>1, <1>7, <2>2, <2>3, BooksMove
<1>10. CASE b = next /\ jb.part = "internal" /\ confirmed
  <2>1. IsList(main) /\ Len(main) > 0 /\ \A tx \in Range(main) : Planned(tx, j, "main")
    BY <1>3, MainListShape DEF Open
  <2> HIDE DEF main
  <2>2. /\ DOMAIN b = JobFields /\ b.at = "sign" /\ b.shares = jb.shares
        /\ b.part = "main" /\ b.list = main /\ b.signed = <<>> /\ b.answered = {}
        /\ b.seen = <<>> /\ b.result = jb.result /\ b.read = <<>>
        /\ b.transfers = jb.transfers
    BY <1>1, <1>3, <1>10 DEF Open, JobFields
  <2>3. ~Planning(b) /\ Sending(b) /\ DOMAIN b.seen = {}
    BY <2>2 DEF Planning, Sending
  <2>4. Open(j, b)
    BY <1>3, <2>1, <2>2, <2>3, ListEmpty, ListLength DEF Open
  <2>5. Shape(j, b) /\ ListsShape(j, b)
    BY <2>1, <2>2, <2>4, ListEmpty, OpenIsShaped
  <2>6. AnswersShape(b)
    BY <2>2, <2>3 DEF AnswersShape
  <2>7. \A p \in Sent : p.job = j => p.part = "internal"
    BY <1>3, <1>10 DEF Sound, Sent
  <2>8. Safe => \A i \in DOMAIN jb.transfers : Made(jb.transfers[i], depth)
    <3> SUFFICES ASSUME Safe, NEW i \in DOMAIN jb.transfers
                 PROVE  Made(jb.transfers[i], depth)
      OBVIOUS
    <3>1. jb.transfers = jb.list /\ Len(jb.signed) = Len(jb.list)
      BY <1>1, <1>3, <1>10 DEF Open, PayInv, JobInv, ListsShape
    <3>2. i \in 1 .. Len(jb.signed)
      BY <1>3, <3>1, ListLength DEF Open
    <3>3. jb.signed[i] \in jb.answered /\ Unsigned(jb.signed[i]) = jb.transfers[i]
      BY <1>3, <1>4, <1>10, <3>1, <3>2, ListLength DEF Open
    <3>4. jb.signed[i] \in DOMAIN depth
      BY <1>3, <3>3 DEF Sound, PayInv, NodeInv, Sent
    <3>5. QED BY <1>5, <1>10, <3>3, <3>4 DEF Made
  <2>9. Sound(j, b, depth, pool, Calm, Safe)
    BY <1>3, <2>2, <2>3, <2>7, <2>8 DEF Sound, Sent
  <2>10. QED BY <1>1, <1>7, <2>5, <2>6, <2>9, BooksMove
<1>11. QED BY <1>6, <1>8, <1>9, <1>10

(* What a POST does to the node: nothing, or it gets the payment.          *)
LEMMA PostAtNode ==
  ASSUME PayInv, NEW j \in Job, NEW reply, Post(j, reply),
         NEW tx, tx = job[j].signed[job[j].turn]
  PROVE  /\ NodeInv' /\ Survives /\ Sent \subseteq Sent' /\ Sent' \subseteq Sent \cup {tx}
         /\ reply # "lost" => tx \in Sent'
<1>1. IF reply = "lost" THEN UNCHANGED node ELSE Receive(tx)
  BY DEF Post
<1>2. CASE reply = "lost"
  <2>1. NodeInv' /\ Survives /\ Sent' = Sent
    BY <1>1, <1>2, RestKeeps DEF NodeRests, PayInv
  <2>2. QED BY <1>1, <1>2, <2>1
<1>3. CASE reply # "lost"
  <2>1. NodeInv' /\ Survives /\ Sent' = Sent \cup {tx}
    BY <1>1, <1>3, ReceiveKeeps DEF PayInv
  <2>2. QED BY <1>1, <2>1
<1>4. QED BY <1>2, <1>3

(* Where a POST leaves the job: at the next payment, at its end, or in the *)
(* wait for all that was answered.                                         *)
StaysOpen(a, b) ==
  /\ DOMAIN b = JobFields /\ b.shares = a.shares /\ b.part = a.part
  /\ b.list = a.list /\ b.signed = a.signed /\ b.result = a.result
  /\ b.read = a.read /\ b.transfers = a.transfers

PostsOn(a, b, answered) ==
  /\ StaysOpen(a, b) /\ a.turn < Len(a.signed)
  /\ b.at = "post" /\ b.turn = a.turn + 1 /\ b.answered = answered /\ b.seen = a.seen

Waits(a, b, answered) ==
  /\ StaysOpen(a, b)
  /\ a.part = "internal" => answered = Range(a.signed)
  /\ b.at = "wait" /\ b.answered = answered /\ b.seen = [p \in answered |-> "pending"]

LEMMA PostBooks ==
  ASSUME PayInv, NEW j \in Job, NEW reply, Post(j, reply), NEW tx, NEW answered,
         tx = job[j].signed[job[j].turn],
         answered = job[j].answered \cup (IF reply = "answered" THEN {tx} ELSE {}),
         DOMAIN job[j] = JobFields
  PROVE  /\ OneMoves(j) /\ job[j].at = "post"
         /\ \/ PostsOn(job[j], job'[j], answered)
            \/ Ends(job[j], job'[j], "sent")
            \/ Ends(job[j], job'[j], "no")
            \/ Waits(job[j], job'[j], answered)
<1> DEFINE jb == job[j]
           next == [jb EXCEPT !.turn = @ + 1, !.answered = answered]
           served == jb.served /\ reply = "answered"
           on == IF jb.turn < Len(jb.signed) THEN next ELSE Posted(j, answered)
           b == [on EXCEPT !.served = served]
           wait == [jb EXCEPT !.at = "wait", !.answered = answered,
                              !.seen = [p \in answered |-> "pending"]]
<1>1. jb.at = "post" /\ job' = [job EXCEPT ![j] = b]
  BY DEF Post
<1>2. OneMoves(j) /\ job'[j] = b
  BY <1>1, OneJobMoves
<1>3. \/ on = next /\ jb.turn < Len(jb.signed)
      \/ on = End(j, "sent") \/ on = End(j, "no")
      \/ on = wait /\ (jb.part = "internal" => answered = Range(jb.signed))
  BY DEF Posted
<1> HIDE DEF on, served
<1>4. CASE on = next /\ jb.turn < Len(jb.signed)
  <2>1. PostsOn(jb, b, answered)
    BY <1>1, <1>4 DEF PostsOn, StaysOpen, JobFields
  <2>2. QED BY <1>1, <1>2, <2>1
<1>5. CASE on = End(j, "sent")
  <2>1. Ends(jb, b, "sent")
    BY <1>5, EndEnds
  <2>2. QED BY <1>1, <1>2, <2>1
<1>6. CASE on = End(j, "no")
  <2>1. Ends(jb, b, "no")
    BY <1>6, EndEnds
  <2>2. QED BY <1>1, <1>2, <2>1
<1>7. CASE on = wait /\ (jb.part = "internal" => answered = Range(jb.signed))
  <2>1. Waits(jb, b, answered)
    BY <1>7 DEF Waits, StaysOpen, JobFields
  <2>2. QED BY <1>1, <1>2, <2>1
<1>8. QED BY <1>3, <1>4, <1>5, <1>6, <1>7

LEMMA PostKeeps ==
  ASSUME PayInv, NEW j \in Job, NEW reply, Post(j, reply)
  PROVE  PayInv'
<1> DEFINE jb == job[j]
           b == job'[j]
<1>1. PICK tx : tx = jb.signed[jb.turn]
  OBVIOUS
<1>2. PICK answered : answered = jb.answered \cup (IF reply = "answered" THEN {tx} ELSE {})
  OBVIOUS
<1>3. jb.at = "post"
  BY DEF Post
<1>4. Sending(jb)
  BY <1>3 DEF Sending
<1>5. Open(j, jb) /\ AnswersShape(jb) /\ Sound(j, jb, depth, pool, Calm, Safe)
  BY <1>4, OpenBooks
<1>6. /\ NodeInv' /\ Survives /\ Sent \subseteq Sent' /\ Sent' \subseteq Sent \cup {tx}
      /\ reply # "lost" => tx \in Sent'
  BY <1>1, PostAtNode
<1>7. /\ OneMoves(j)
      /\ \/ PostsOn(jb, b, answered)
         \/ Ends(jb, b, "sent") \/ Ends(jb, b, "no")
         \/ Waits(jb, b, answered)
  BY <1>1, <1>2, <1>5, PostBooks DEF Open
<1> HIDE DEF b
<1>8. /\ jb.turn \in 1 .. Len(jb.signed) /\ Len(jb.signed) \in Nat
      /\ Len(jb.signed) = Len(jb.list)
      /\ tx \in Range(jb.signed) /\ Paying(tx, j, jb.part)
  <2>1. jb.turn \in 1 .. Len(jb.signed) /\ Len(jb.signed) = Len(jb.list)
    BY <1>3 DEF PayInv, JobInv, ListsShape
  <2>2. tx \in Range(jb.signed) /\ Len(jb.signed) \in Nat
    BY <1>1, <1>5, <2>1, ListLength DEF Open
  <2>3. QED BY <1>5, <2>1, <2>2 DEF Open
<1>9. answered \subseteq Range(jb.signed) /\ answered \subseteq Sent' /\ jb.answered \subseteq Sent'
  BY <1>2, <1>5, <1>6, <1>8 DEF AnswersShape, Sound, Sent
<1>10. jb.seen = <<>> /\ DOMAIN jb.seen = {} /\ jb.read = <<>>
  BY <1>3, <1>5 DEF AnswersShape, Sound, Asked
<1>11. /\ \A p \in Sent' : p.job = j /\ jb.part = "internal" =>
            p.part = "internal" /\ p \in Range(jb.signed)
       /\ jb.part = "main" /\ Safe' =>
            \A i \in DOMAIN jb.transfers : Made(jb.transfers[i], depth')
  <2>1. \A p \in Sent : p.job = j /\ jb.part = "internal" =>
            p.part = "internal" /\ p \in Range(jb.signed)
    BY <1>5 DEF Sound, Sent
  <2>2. tx.part = jb.part
    BY <1>8 DEF Paying
  <2>3. \A t : Safe' /\ Made(t, depth) => Made(t, depth')
    BY <1>6 DEF Made, Survives
  <2>4. Safe' => Safe
    BY <1>6 DEF Survives
  <2>5. jb.part = "main" /\ Safe =>
            \A i \in DOMAIN jb.transfers : Made(jb.transfers[i], depth)
    BY <1>5 DEF Sound
  <2>6. QED BY <1>6, <1>8, <2>1, <2>2, <2>3, <2>4, <2>5
<1>12. ASSUME ~Planning(b), b.part = jb.part, b.signed = jb.signed, b.read = jb.read,
              b.transfers = jb.transfers, b.answered \subseteq Sent', b.result # "yes",
              \A p \in DOMAIN b.seen : b.seen[p] = "pending"
       PROVE  Sound(j, b, depth', pool', Calm', Safe')
  BY <1>10, <1>11, <1>12 DEF Sound, Sent
<1>13. ASSUME PostsOn(jb, b, answered)
       PROVE  JobInv(j)'
  <2>1. /\ DOMAIN b = JobFields /\ b.shares = jb.shares /\ b.part = jb.part
        /\ b.list = jb.list /\ b.signed = jb.signed /\ b.result = jb.result
        /\ b.read = jb.read /\ b.transfers = jb.transfers
        /\ jb.turn < Len(jb.signed) /\ b.at = "post" /\ b.turn = jb.turn + 1
        /\ b.answered = answered /\ b.seen = jb.seen
    BY <1>13 DEF PostsOn, StaysOpen
  <2>2. ~Planning(b) /\ Sending(b)
    BY <2>1 DEF Planning, Sending
  <2>3. Open(j, b)
    BY <1>5, <2>1, <2>2 DEF Open
  <2>4. b.turn \in 1 .. Len(b.signed)
    BY <1>8, <2>1
  <2>5. Shape(j, b) /\ ListsShape(j, b)
    BY <1>8, <2>1, <2>3, <2>4, OpenIsShaped
  <2>6. AnswersShape(b)
    BY <1>9, <1>10, <2>1, <2>2 DEF AnswersShape
  <2>7. Sound(j, b, depth', pool', Calm', Safe')
    BY <1>5, <1>9, <1>10, <1>12, <2>1, <2>2 DEF Open
  <2>8. QED BY <2>5, <2>6, <2>7 DEF JobInv, b
<1>14. ASSUME NEW result \in {"sent", "no"}, Ends(jb, b, result)
       PROVE  JobInv(j)'
  <2>1. result # "yes"
    OBVIOUS
  <2>2. Shape(j, b) /\ ListsShape(j, b) /\ AnswersShape(b) /\ ~Planning(b)
    BY <1>5, <1>14, <2>1, EndShape
  <2>3. Sound(j, b, depth', pool', Calm', Safe')
    BY <1>9, <1>10, <1>12, <1>14, <2>1, <2>2 DEF Ends
  <2>4. QED BY <2>2, <2>3 DEF JobInv, b
<1>15. ASSUME Waits(jb, b, answered)
       PROVE  JobInv(j)'
  <2>1. /\ DOMAIN b = JobFields /\ b.shares = jb.shares /\ b.part = jb.part
        /\ b.list = jb.list /\ b.signed = jb.signed /\ b.result = jb.result
        /\ b.read = jb.read /\ b.transfers = jb.transfers
        /\ jb.part = "internal" => answered = Range(jb.signed)
        /\ b.at = "wait" /\ b.answered = answered
        /\ b.seen = [p \in answered |-> "pending"]
    BY <1>15 DEF Waits, StaysOpen
  <2>2. /\ ~Planning(b) /\ Sending(b) /\ DOMAIN b.seen = answered
        /\ \A p \in DOMAIN b.seen : b.seen[p] = "pending"
    BY <2>1 DEF Planning, Sending
  <2>3. Open(j, b)
    BY <1>5, <2>1, <2>2 DEF Open
  <2>4. Shape(j, b) /\ ListsShape(j, b)
    BY <1>8, <2>1, <2>3, OpenIsShaped
  <2>5. AnswersShape(b)
    BY <1>9, <2>1, <2>2 DEF AnswersShape
  <2>6. Sound(j, b, depth', pool', Calm', Safe')
    BY <1>5, <1>9, <1>12, <2>1, <2>2 DEF Open
  <2>7. QED BY <2>4, <2>5, <2>6 DEF JobInv, b
<1>16. JobInv(j)'
  BY <1>7, <1>13, <1>14, <1>15
<1>17. tx.job = j
  BY <1>8 DEF Paying
<1>18. QED BY <1>6, <1>7, <1>16, <1>17, OneMovesKeeps
-----------------------------------------------------------------------------
LEMMA PayInvStarts == PayInit => PayInv
<1> SUFFICES ASSUME PayInit PROVE PayInv
  OBVIOUS
<1>1. /\ Sent = {} /\ DOMAIN depth = {} /\ queue = <<>> /\ reorgs = 0 /\ longest = 0
      /\ DOMAIN job = Job
  BY DEF PayInit, Sent
<1>2. NodeInv
  BY <1>1, ListEmpty DEF NodeInv
<1>3. PICK shares \in Splits : \A j \in Job : job[j] = Fresh(shares[j])
  BY DEF PayInit, Fresh
<1>4. \A j \in Job : IsShares(shares[j])
  BY <1>3, PaymentsAssumption DEF IsShares
<1>5. \A j \in Job : Shape(j, job[j]) /\ ListsShape(j, job[j]) /\ AnswersShape(job[j])
  BY <1>3, <1>4, EmptyBooks
<1>6. \A j \in Job : Sound(j, job[j], depth, pool, Calm, Safe)
  <2> TAKE j \in Job
  <2>1. /\ job[j].answered = {} /\ job[j].seen = <<>> /\ job[j].read = <<>>
        /\ job[j].transfers = <<>>
    BY <1>3, NewJobBooks
  <2>2. QED BY <1>1, <2>1, NothingSentIsSound
<1>7. \A j \in Job : JobInv(j)
  BY <1>5, <1>6 DEF JobInv
<1>8. QED BY <1>1, <1>2, <1>7 DEF PayInv

LEMMA StepKeeps ==
  ASSUME PayInv, NEW j \in Job, Step(j)
  PROVE  PayInv'
<1>1. CASE \E answered \in BOOLEAN : CheckSender(j, answered) \/ SyncSender(j, answered)
  BY <1>1, CheckSenderKeeps, SyncSenderKeeps
<1>2. CASE \E deaf \in SUBSET Key : Fund(j, deaf)
  BY <1>2, FundKeeps
<1>3. CASE PlanMade(j)
  BY <1>3, PlanMadeKeeps
<1>4. CASE Sign(j) \/ IncrementNonce(j)
  BY <1>4, SignKeeps, IncrementNonceKeeps
<1>5. CASE \E reply \in {"answered", "lost", "unanswered"} : Post(j, reply)
  BY <1>5, PostKeeps
<1>6. CASE \E p \in job[j].answered : Poll(j, p)
  BY <1>6, PollKeeps
<1>7. CASE PollAnswered(j)
  BY <1>7, PollAnsweredKeeps
<1>8. CASE WaitEnds(j)
  BY <1>8, WaitEndsKeeps
<1>9. QED BY <1>1, <1>2, <1>3, <1>4, <1>5, <1>6, <1>7, <1>8 DEF Step

LEMMA PayInvStays == PayInv /\ [PayNext]_payVars => PayInv'
<1> SUFFICES ASSUME PayInv, [PayNext]_payVars PROVE PayInv'
  OBVIOUS
<1>1. CASE \E j \in Job : StartMixed(j) \/ StartSingle(j)
  BY <1>1, BeginKeeps DEF StartMixed, StartSingle
<1>2. CASE \E j \in Job : Step(j)
  BY <1>2, StepKeeps
<1>3. CASE \E k \in Key : SyncNonce(k)
  BY <1>3, SyncNonceKeeps
<1>4. CASE \/ Decide \/ Mine
           \/ \E blocks \in 1 .. MaxReorg : Reorg(blocks)
           \/ \E p \in Sent : Requeue(p)
  BY <1>4, NodeStepsKeep
<1>5. CASE UNCHANGED payVars
  <2>1. job' = job /\ NodeRests
    BY <1>5 DEF payVars, NodeRests
  <2>2. NodeInv' /\ Survives /\ Sent' = Sent
    BY <2>1, RestKeeps DEF PayInv
  <2>3. QED BY <2>1, <2>2, SameIsSame, BooksKept DEF PayInv
<1>6. QED BY <1>1, <1>2, <1>3, <1>4, <1>5 DEF PayNext

(* Every job's books agree with the mempool and the chain in every         *)
(* behaviour, for any addresses, balances, jobs and plans, any number of   *)
(* failures and reorganisations of any depth.                              *)
THEOREM PaymentsInvariant == PaySpec => []PayInv
<1>1. QED BY PayInvStarts, PayInvStays, PTL DEF PaySpec

(* A main payment reaches the node only when every transfer that its plan  *)
(* asked for is there and final, whatever is lost, refused or reorganised  *)
(* short of what was final: execute_mixed_transaction_flow does not go on  *)
(* before.                                                                 *)
THEOREM MainAfterInternalHolds == PaySpec => []MainAfterInternal
<1>1. PayInv => MainAfterInternal
  <2> SUFFICES ASSUME PayInv, longest < FinalDepth, NEW p \in Sent, p.part = "main",
                      NEW i \in DOMAIN job[p.job].transfers
               PROVE  \E q \in Sent : /\ Unsigned(q) = job[p.job].transfers[i]
                                      /\ depth[q] >= FinalDepth
    BY DEF MainAfterInternal
  <2>1. PICK j \in Job : j = p.job
    BY DEF PayInv
  <2>2. /\ Sound(j, job[j], depth, pool, Calm, Safe)
        /\ job[j].part \in {"main", "internal"} /\ Safe /\ DOMAIN depth = Sent
    BY DEF PayInv, NodeInv, JobInv, Shape, Safe
  <2>3. job[j].part # "internal"
    BY <2>1, <2>2 DEF Sound, Sent
  <2>4. Made(job[j].transfers[i], depth)
    BY <2>1, <2>2, <2>3 DEF Sound
  <2>5. QED BY <2>1, <2>2, <2>4 DEF Made
<1>2. QED BY <1>1, PaymentsInvariant, PTL

(* A flow that reports success has its answered main payments and all its  *)
(* planned transfers final in the chain, unless a reorganisation took back *)
(* what was final.                                                         *)
THEOREM SuccessMeansPaidHolds == PaySpec => []SuccessMeansPaid
<1>1. PayInv => SuccessMeansPaid
  <2> SUFFICES ASSUME PayInv, longest < FinalDepth, NEW j \in Job, job[j].result = "yes"
               PROVE  /\ \A p \in job[j].answered : depth[p] >= FinalDepth
                      /\ \A i \in DOMAIN job[j].transfers :
                           \E q \in Sent : /\ Unsigned(q) = job[j].transfers[i]
                                           /\ depth[q] >= FinalDepth
    BY DEF SuccessMeansPaid
  <2>1. /\ Sound(j, job[j], depth, pool, Calm, Safe)
        /\ job[j].part = "main" /\ Safe /\ DOMAIN depth = Sent
    BY DEF PayInv, NodeInv, JobInv, Shape, Safe
  <2>2. \A i \in DOMAIN job[j].transfers : Made(job[j].transfers[i], depth)
    BY <2>1 DEF Sound
  <2>3. QED BY <2>1, <2>2 DEF Sound, Made
<1>2. QED BY <1>1, PaymentsInvariant, PTL

(* While the chain only grows, a payment that was given up as not found is *)
(* not in it, and never will be, whatever happens between the node's look  *)
(* at its mempool and its look at its chain.                               *)
THEOREM GivenUpStaysOutHolds == PaySpec => []GivenUpStaysOut
<1>1. PayInv => GivenUpStaysOut
  <2> SUFFICES ASSUME PayInv, reorgs = 0, NEW j \in Job, NEW p \in DOMAIN job[j].seen,
                      job[j].seen[p] = "not_found"
               PROVE  depth[p] = 0
    BY DEF GivenUpStaysOut
  <2>1. Sound(j, job[j], depth, pool, Calm, Safe) /\ Calm
    BY DEF PayInv, JobInv, Calm
  <2>2. QED BY <2>1 DEF Sound
<1>2. QED BY <1>1, PaymentsInvariant, PTL
=============================================================================
