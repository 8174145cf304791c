------------------------------- MODULE Payments -------------------------------
(***************************************************************************)
(* How wallet.py pays: the single payment (send_transaction) and the mixed *)
(* flow, which splits a sum over several addresses of the wallet, first    *)
(* moves money to those that are short, waits, pays and waits again.  Jobs *)
(* run as threads of the wallet server on one wallet file and one node.    *)
(*                                                                         *)
(* Of the file only the nonces are kept, and one change of it is one step: *)
(* WalletFile has the rest.  Of the node, what its API shows: the state of *)
(* a payment in the mempool and its depth in the chain.  An amount stands  *)
(* for amount and fee, in units of the smallest internal fee.              *)
(***************************************************************************)
EXTENDS Integers, Sequences, SequencesExt, FiniteSets, FiniteSetsExt, Functions

CONSTANTS
  Wallet,        \* the addresses in the order of the file, without index 0
  Outside,       \* an address of somebody else
  FirstBalance,  \* of each address
  Job,
  Splits,        \* the ways in which the jobs split their sums: for each job
                 \* a sequence of shares, or none if it is not started
  Single,        \* the jobs that are single payments
  TroubleBound,  \* bound of the model: requests that fail, nonces synced by
                 \* hand and reorganisations of the node's chain, together
  FinalDepth,    \* 3
  MaxReorg,      \* bound of the model: how deep one reorganisation reaches
  DepthBound     \* bound of the model: up to which depth is counted

Key == Range(Wallet)

ASSUME PaymentsAssumption ==
  /\ FirstBalance \in [Key -> Nat] /\ Single \subseteq Job
  /\ Splits \subseteq [Job -> Seq([key : Key, amount : Nat])]
  /\ FinalDepth \in Nat \ {0, 1} /\ TroubleBound \in Nat /\ MaxReorg \in Nat
  /\ DepthBound \in Nat /\ FinalDepth <= DepthBound /\ MaxReorg < DepthBound

VARIABLES
  nonce,     \* the nonce of each address in the wallet file
  job,       \* what each job is at
  pool,      \* _seen of the node's mempool, for each payment that reached it;
             \* "none" for one that is in the chain or was just dropped
  ok,        \* the mempool's accepted payments, in their order
  queue,     \* the mempool's queue of payments to decide on
  depth,     \* how deep it is in the node's chain; 0 if it is not
  failures,  \* requests that failed and nonces synced by hand so far
  reorgs,    \* reorganisations so far
  longest    \* depth of the deepest payment that they dropped

node == <<pool, ok, queue, depth, reorgs, longest>>
payVars == <<nonce, job, node, failures>>
-----------------------------------------------------------------------------
(* The node. *)
Sent == DOMAIN pool

(* What the ledger has applied: what is in the chain, and what was dropped  *)
(* from it and not rolled back yet.                                         *)
Applied == {p \in Sent : pool[p] = "none"}
LedgerNonce(k) == Cardinality({p \in Applied : p.from = k})
Balance(k) ==
  FirstBalance[k] + MapThenSumSet(LAMBDA p : p.amount, {p \in Applied : p.to = k})
                  - MapThenSumSet(LAMBDA p : p.amount + p.fee, {p \in Applied : p.from = k})

(* validate_tx, and the ledger after a payment: l has the balances and      *)
(* nonces of the wallet's addresses.                                        *)
Valid(l, p) == p.nonce = l.nonce[p.from] /\ p.amount + p.fee <= l.balance[p.from]
After(l, p) ==
  [nonce |-> [l.nonce EXCEPT ![p.from] = @ + 1],
   balance |-> [k \in Key |-> l.balance[k] - (IF k = p.from THEN p.amount + p.fee ELSE 0)
                                          + (IF k = p.to THEN p.amount ELSE 0)]]

(* project_with_txs: accepted payments that do not fit are passed over.     *)
Projected(list) ==
  FoldLeft(LAMBDA l, p : IF Valid(l, p) THEN After(l, p) ELSE l,
           [nonce |-> [k \in Key |-> LedgerNonce(k)], balance |-> [k \in Key |-> Balance(k)]],
           list)

(* The accepted payments that fit, one after the other. *)
Fitting ==
  {p \in Sent : /\ pool[p] = "ok"
                /\ \E n \in DOMAIN ok : ok[n] = p /\ Valid(Projected(SubSeq(ok, 1, n - 1)), p)}

(* POST /api/tx; Mempool.add ignores a payment that it has seen.           *)
Receive(p) ==
  /\ pool' = [x \in Sent \cup {p} |-> IF x \in Sent THEN pool[x] ELSE "pending"]
  /\ depth' = [x \in Sent \cup {p} |-> IF x \in Sent THEN depth[x] ELSE 0]
  /\ queue' = IF p \in Sent THEN queue ELSE Append(queue, p)
  /\ UNCHANGED <<ok, reorgs, longest>>

(* The worker takes the oldest payment; admission_validator: valid on the  *)
(* ledger after the accepted payments.                                     *)
Decide ==
  LET p == Head(queue)
      valid == Valid(Projected(ok), p)
  IN  /\ queue # <<>>
      /\ queue' = Tail(queue)
      /\ pool' = [pool EXCEPT ![p] = IF valid THEN "ok" ELSE "invalid"]
      /\ ok' = IF valid THEN Append(ok, p) ELSE ok
      /\ UNCHANGED <<nonce, job, depth, failures, reorgs, longest>>

(* The reactor has rolled back and requeued what was dropped: blocks come  *)
(* much more seldom than its loop comes round (Mempool has what happens    *)
(* when one does not wait).                                                *)
ReactorAtRest == \A p \in Applied : depth[p] > 0

(* The depth of a payment under one block more. *)
Deeper(p) == IF depth[p] \in 1 .. DepthBound - 1 THEN depth[p] + 1 ELSE depth[p]

(* A block with the accepted payments that fit; purge_included_block       *)
(* forgets them.                                                           *)
Mine ==
  LET block == Fitting IN
  /\ ReactorAtRest
  /\ block # {} \/ \E p \in Sent : depth[p] \in 1 .. DepthBound - 1
  /\ depth' = [p \in Sent |-> IF p \in block THEN 1 ELSE Deeper(p)]
  /\ pool' = [p \in Sent |-> IF p \in block THEN "none" ELSE pool[p]]
  /\ ok' = SelectSeq(ok, LAMBDA p : p \notin block)
  /\ UNCHANGED <<nonce, job, queue, failures, reorgs, longest>>

(* _reorg_to: the last blocks, so many that the first of them has one of    *)
(* the wallet's payments, are replaced by one more, which have none;        *)
(* _tx_index forgets those of the old ones at once.                         *)
Reorg(blocks) ==
  /\ failures + reorgs < TroubleBound /\ ReactorAtRest
  /\ \E p \in Sent : depth[p] = blocks
  /\ reorgs' = reorgs + 1 /\ longest' = Max({longest, blocks})
  /\ depth' = [p \in Sent |-> IF depth[p] <= blocks THEN 0 ELSE Deeper(p)]
  /\ UNCHANGED <<nonce, job, pool, ok, queue, failures>>

(* Some time later the reactor rolls them back and requeues them.          *)
Requeue(p) ==
  /\ pool[p] = "none" /\ depth[p] = 0
  /\ pool' = [pool EXCEPT ![p] = "pending"] /\ queue' = Append(queue, p)
  /\ UNCHANGED <<nonce, job, ok, depth, failures, reorgs, longest>>

(* Mutation: a payment is final when it is in the chain. *)
TxStatusInChain(p, state) ==
  [final |-> depth[p] >= 1, mempool_state |-> state,
   present |-> IF depth[p] > 0 THEN "blockchain" ELSE IF state # "none" THEN "mempool" ELSE "none"]

(* Mutation: the chain is only asked whether the payment is final.          *)
TxStatusMempoolOnly(p, state) ==
  [final |-> depth[p] >= FinalDepth, mempool_state |-> state,
   present |-> IF state # "none" THEN "mempool" ELSE "none"]

(* _tx_status_payload: what the chain says of a payment now, and what the  *)
(* mempool said just before.                                               *)
TxStatus(p, state) ==
  [final |-> depth[p] >= FinalDepth, mempool_state |-> state,
   present |-> IF depth[p] > 0 THEN "blockchain" ELSE IF state # "none" THEN "mempool" ELSE "none"]

(* Mutation: an invalid payment is waited for. *)
StatusPatient(p, state) ==
  LET s == TxStatus(p, state) IN
  IF s.final THEN "confirmed" ELSE IF s.present = "none" THEN "not_found" ELSE "pending"

(* How the waiting wallet reads it. *)
Status(p, state) ==
  LET s == TxStatus(p, state) IN
  IF s.final THEN "confirmed"
  ELSE IF s.present = "none" \/ s.mempool_state = "invalid" THEN "not_found"
  ELSE "pending"
-----------------------------------------------------------------------------
(* The planner of the mixed flow. *)
NewJob ==
  [at |-> "idle", shares |-> <<>>, turn |-> 1, balance |-> [k \in Key |-> 0],
   deficit |-> [k \in Key |-> 0], transfers |-> <<>>,
   part |-> "main", list |-> <<>>, signed |-> <<>>,
   answered |-> {}, seen |-> <<>>, read |-> <<>>, result |-> "none",
   alone |-> TRUE, served |-> TRUE, drained |-> FALSE]

Amount(shares, k) == MapThenSumSet(LAMBDA i : shares[i].amount,
                                   {i \in DOMAIN shares : shares[i].key = k})
Senders(shares) == {shares[i].key : i \in DOMAIN shares}

(* BUFFER_MULTIPLIER 1.1: what an address should have, rounded up.         *)
Buffered(amount) == (amount * 11 + 9) \div 10

(* The fee of an internal transfer: 1%, at least one unit.                 *)
InternalFee(deficit) == Max({1, deficit \div 100})

(* The senders that are short, in the order of the shares. *)
Short(jb) == SelectSeq(jb.shares, LAMBDA s : jb.deficit[s.key] > 0)
Enough(jb) == SelectSeq(jb.shares, LAMBDA s : jb.deficit[s.key] = 0)

(* find_funding_source: the first address of the wallet not among the      *)
(* sufficient ones that has 1.15 times what is needed, short or not in the *)
(* plan at all; else the first sufficient one that can spare it.           *)
Sources(jb, short, balances) ==
  LET needed == jb.deficit[short] + InternalFee(jb.deficit[short])
      other == SelectSeq(Wallet, LAMBDA k :
                 /\ k # short /\ k \notin Senders(Enough(jb))
                 /\ balances[k] * 100 > needed * 115)
      spare == SelectSeq(Enough(jb), LAMBDA s :
                 jb.balance[s.key] - needed >= Buffered(s.amount))
  IN  other \o [i \in DOMAIN spare |-> spare[i].key]

Transfer(j, part, from, to, amount, fee) ==
  [job |-> j, part |-> part, from |-> from, to |-> to, amount |-> amount, fee |-> fee,
   nonce |-> 0]

MainList(j, shares) ==
  [i \in DOMAIN shares |->
     Transfer(j, "main", shares[i].key, Outside, shares[i].amount, 0)]
-----------------------------------------------------------------------------
PayInit ==
  /\ nonce = [k \in Key |-> 0]
  /\ \E shares \in Splits : job = [j \in Job |-> [NewJob EXCEPT !.shares = shares[j]]]
  /\ pool = <<>> /\ ok = <<>> /\ queue = <<>> /\ depth = <<>>
  /\ failures = 0 /\ reorgs = 0 /\ longest = 0

Running(j) == job[j].at \notin {"idle", "done"}
Settled(p) == depth[p] > 0 \/ pool[p] = "invalid"

(* A job that runs, or whose payments are not decided and mined yet, is no *)
(* longer alone when another starts.                                       *)
Busy(i) == Running(i) \/ \E p \in Sent : p.job = i /\ ~Settled(p)
Disturb(jobs) == [i \in Job |-> IF Busy(i) THEN [jobs[i] EXCEPT !.alone = FALSE] ELSE jobs[i]]

(* A job begins. *)
Begin(j) ==
  /\ job[j].at = "idle" /\ job[j].shares # <<>>
  /\ job' = Disturb([job EXCEPT ![j].at = "check", ![j].alone = \A i \in Job : ~Busy(i)])
  /\ UNCHANGED <<nonce, node, failures>>

(* The web server starts a thread for a mixed flow, which chooses senders  *)
(* and amounts by chance ...                                               *)
StartMixed(j) == j \notin Single /\ Begin(j)

(* ... or pays once, in the thread of the request. *)
StartSingle(j) == j \in Single /\ Begin(j)

(* A request fails, or not. *)
Ask(answered) ==
  /\ answered \/ failures + reorgs < TroubleBound
  /\ failures' = failures + IF answered THEN 0 ELSE 1

(* Mutation: the nonce of the file is left as it is. *)
SyncedNot(k, answered) == nonce

(* get_account_balance with nonce: the nonce in the file becomes that of   *)
(* the confirmed ledger.                                                   *)
Synced(k, answered) == IF answered THEN [nonce EXCEPT ![k] = LedgerNonce(k)] ELSE nonce

(* The page "Get balance" with its box "sync nonce" ticked, when that      *)
(* changes anything.                                                       *)
SyncNonce(k) ==
  /\ nonce[k] # LedgerNonce(k) /\ failures + reorgs < TroubleBound
  /\ failures' = failures + 1
  /\ nonce' = Synced(k, TRUE)
  /\ job' = Disturb(job)
  /\ UNCHANGED node

(* The loop over the selected senders: balance, requirement, deficit.  A   *)
(* balance that cannot be fetched counts as 0.                             *)
CheckSender(j, answered) ==
  LET jb == job[j]
      s == jb.shares[jb.turn]
      found == IF answered THEN Balance(s.key) ELSE 0
      last == jb.turn = Len(jb.shares)
  IN  /\ jb.at = "check" /\ j \notin Single /\ Ask(answered)
      /\ nonce' = Synced(s.key, answered)
      /\ job' = [job EXCEPT ![j] =
           [jb EXCEPT !.turn = IF last THEN 1 ELSE @ + 1,
                      !.at = IF last THEN "fund" ELSE @,
                      !.balance[s.key] = found,
                      !.deficit[s.key] = Max({0, Buffered(s.amount) - found}),
                      !.served = @ /\ answered]]
      /\ UNCHANGED node

(* send_transaction only syncs the nonce. *)
SyncSender(j, answered) ==
  LET jb == job[j] IN
  /\ jb.at = "check" /\ j \in Single /\ Ask(answered)
  /\ nonce' = Synced(Head(jb.shares).key, answered)
  /\ job' = [job EXCEPT ![j] =
       [jb EXCEPT !.at = "sign", !.list = MainList(j, jb.shares), !.served = @ /\ answered]]
  /\ UNCHANGED node

End(j, result) == [job[j] EXCEPT !.at = "done", !.result = result]

(* perform_internal_mixing for one address that is short; deaf are those   *)
(* whose balance cannot be fetched.  A source that is not in the plan has  *)
(* no entry in address_requirements: a KeyError ends the job, as no source *)
(* does.                                                                   *)
Fund(j, deaf) ==
  LET jb == job[j]
      short == Short(jb)[jb.turn].key
      fresh == [k \in Key |-> IF k \in deaf THEN 0 ELSE Balance(k)]
      sources == Sources(jb, short, fresh)
      from == Head(sources)
      amount == jb.deficit[short]
      fee == InternalFee(amount)
  IN  /\ jb.at = "fund" /\ jb.turn <= Len(Short(jb))
      /\ failures + reorgs + Cardinality(deaf) <= TroubleBound \/ deaf = {}
      /\ failures' = failures + Cardinality(deaf)
      /\ job' = [job EXCEPT ![j] =
           IF sources = <<>> \/ from \notin Senders(jb.shares) THEN End(j, "error")
           ELSE [jb EXCEPT !.turn = @ + 1,
                           !.list = Append(@, Transfer(j, "internal", from, short, amount, fee)),
                           !.balance[from] = @ - (amount + fee),
                           !.balance[short] = @ + amount,
                           !.drained = @ \/ jb.deficit[from] > 0,
                           !.served = @ /\ deaf = {}]]
      /\ UNCHANGED <<nonce, node>>

(* The plan is made: the internal transfers come first, if there are any.  *)
PlanMade(j) ==
  LET jb == job[j] IN
  /\ jb.at = "fund" /\ jb.turn > Len(Short(jb))
  /\ job' = [job EXCEPT ![j] =
       IF jb.list # <<>>
       THEN [jb EXCEPT !.at = "sign", !.part = "internal", !.transfers = jb.list]
       ELSE [jb EXCEPT !.at = "sign", !.list = MainList(j, jb.shares)]]
  /\ UNCHANGED <<nonce, node, failures>>
-----------------------------------------------------------------------------
(* sign_transaction. *)
Signed(tx) == [tx EXCEPT !.nonce = nonce[tx.from]]

(* sign_transactions: all are signed before the first is sent, each with   *)
(* the nonce in the file ...                                               *)
Sign(j) ==
  LET jb == job[j]
      tx == jb.list[Len(jb.signed) + 1]
  IN  /\ jb.at = "sign"
      /\ job' = [job EXCEPT ![j] =
           [jb EXCEPT !.signed = Append(@, Signed(tx)), !.at = "increment"]]
      /\ UNCHANGED <<nonce, node, failures>>

(* ... which is then read again and incremented. *)
IncrementNonce(j) ==
  LET jb == job[j] IN
  /\ jb.at = "increment"
  /\ nonce' = [nonce EXCEPT ![Last(jb.signed).from] = @ + 1]
  /\ job' = [job EXCEPT ![j] =
       [jb EXCEPT !.turn = 1,
                  !.at = IF Len(jb.signed) = Len(jb.list) THEN "post" ELSE "sign"]]
  /\ UNCHANGED <<node, failures>>

(* What follows the last POST: a single payment is reported as submitted;  *)
(* one failure ends the job before its main payments, but of those one     *)
(* success is enough.                                                      *)
Posted(j, answered) ==
  LET jb == job[j] IN
  IF j \in Single THEN End(j, "sent")
  ELSE IF answered = {} \/ (jb.part = "internal" /\ answered # Range(jb.signed))
  THEN End(j, "no")
  ELSE [jb EXCEPT !.at = "wait", !.answered = answered,
                  !.seen = [p \in answered |-> "pending"]]

(* send_transaction_list, one POST.  It is answered, or lost, or its       *)
(* answer is lost; it is not sent again.                                   *)
Post(j, reply) ==
  LET jb == job[j]
      tx == jb.signed[jb.turn]
      answered == jb.answered \cup (IF reply = "answered" THEN {tx} ELSE {})
      next == [jb EXCEPT !.turn = @ + 1, !.answered = answered]
      served == jb.served /\ reply = "answered"
  IN  /\ jb.at = "post" /\ Ask(reply = "answered")
      /\ IF reply = "lost" THEN UNCHANGED node ELSE Receive(tx)
      /\ job' = [job EXCEPT ![j] =
           [(IF jb.turn < Len(jb.signed) THEN next ELSE Posted(j, answered))
              EXCEPT !.served = served]]
      /\ UNCHANGED nonce

(* wait_for_transaction_confirmations asks for one payment that it still    *)
(* takes for pending.  The node looks at its mempool ... (To find it waiting *)
(* there tells the wallet nothing: those looks are left out, and so are     *)
(* answers that get lost.)                                                  *)
Poll(j, p) ==
  /\ job[j].at = "wait" /\ job[j].read = <<>> /\ p \in job[j].answered
  /\ job[j].seen[p] = "pending" /\ pool[p] \in {"none", "invalid"}
  /\ job' = [job EXCEPT ![j].read = <<[tx |-> p, state |-> pool[p]]>>]
  /\ UNCHANGED <<nonce, node, failures>>

(* ... and then at its chain. *)
PollAnswered(j) ==
  LET jb == job[j]
      p == jb.read[1].tx
  IN  /\ jb.read # <<>>
      /\ job' = [job EXCEPT ![j] =
           [jb EXCEPT !.read = <<>>, !.seen[p] = Status(p, jb.read[1].state)]]
      /\ UNCHANGED <<nonce, node, failures>>

(* Mutation: a transfer that was not found does not stop the job.          *)
WaitedAnyway(j) ==
  LET jb == job[j]
      confirmed == \A p \in jb.answered : jb.seen[p] = "confirmed"
  IN  IF jb.part = "main" THEN End(j, IF confirmed THEN "yes" ELSE "no")
      ELSE [jb EXCEPT !.at = "sign", !.part = "main", !.list = MainList(j, jb.shares),
                      !.signed = <<>>, !.answered = {}, !.seen = <<>>]

(* What the job does when none is pending any more. *)
Waited(j) ==
  LET jb == job[j]
      confirmed == \A p \in jb.answered : jb.seen[p] = "confirmed"
  IN  IF jb.part = "main" THEN End(j, IF confirmed THEN "yes" ELSE "no")
      ELSE IF ~confirmed THEN End(j, "no")
      ELSE [jb EXCEPT !.at = "sign", !.part = "main", !.list = MainList(j, jb.shares),
                      !.signed = <<>>, !.answered = {}, !.seen = <<>>]

WaitEnds(j) ==
  /\ job[j].at = "wait" /\ job[j].read = <<>>
  /\ \A p \in job[j].answered : job[j].seen[p] # "pending"
  /\ job' = [job EXCEPT ![j] = Waited(j)]
  /\ UNCHANGED <<nonce, node, failures>>
-----------------------------------------------------------------------------
Step(j) ==
  \/ \E answered \in BOOLEAN : CheckSender(j, answered) \/ SyncSender(j, answered)
  \/ \E deaf \in SUBSET Key : Fund(j, deaf)
  \/ PlanMade(j)
  \/ Sign(j) \/ IncrementNonce(j)
  \/ \E reply \in {"answered", "lost", "unanswered"} : Post(j, reply)
  \/ \E p \in job[j].answered : Poll(j, p)
  \/ PollAnswered(j)
  \/ WaitEnds(j)

PayNext ==
  \/ \E j \in Job : StartMixed(j) \/ StartSingle(j) \/ Step(j)
  \/ \E k \in Key : SyncNonce(k)
  \/ Decide
  \/ \E p \in Sent : Requeue(p)
  \/ Mine
  \/ \E blocks \in 1 .. MaxReorg : Reorg(blocks)

PaySpec == PayInit /\ [][PayNext]_payVars

(* The threads of the wallet server and the node's worker and reactor are  *)
(* not suspended, and somebody mines; nobody must start a job.             *)
PayFairSpec ==
  /\ PaySpec
  /\ \A j \in Job : WF_payVars(Step(j))
  /\ WF_payVars(Decide) /\ WF_payVars(\E p \in Sent : Requeue(p))
  /\ WF_payVars(Mine)
-----------------------------------------------------------------------------
(* wallet.py:861-881 "ABORT ON ANY FAILURE": a main payment reaches the    *)
(* node only when all transfers that were planned for it, of which any may *)
(* be lost, refused or dropped on the way, are there and final; unless the *)
(* chain drops as many blocks as it takes for final, which nothing in the  *)
(* wallet looks at again.                                                  *)
Unsigned(p) == [p EXCEPT !.nonce = 0]
MainAfterInternal ==
  longest < FinalDepth => \A p \in Sent : p.part = "main" =>
    \A i \in DOMAIN job[p.job].transfers :
      \E q \in Sent : Unsigned(q) = job[p.job].transfers[i] /\ depth[q] >= FinalDepth

(* wallet.py:635-655: the node refuses no payment of a mixed flow that ran *)
(* alone, with all earlier payments decided and mined and no request       *)
(* failed, unless its plan drew on an address that was short itself.       *)
AloneNotRefused ==
  \A p \in Sent : LET jb == job[p.job] IN
    p.job \notin Single /\ reorgs = 0 /\ jb.alone /\ jb.served /\ ~jb.drained
      => pool[p] # "invalid"

(* wallet.py:923: a flow that reports success has every main payment that  *)
(* was answered, and all its transfers, final in the chain, also through   *)
(* reorganisations that drop fewer blocks than it takes for final.         *)
SuccessMeansPaid ==
  longest < FinalDepth => \A j \in Job : job[j].result = "yes" =>
    /\ \A p \in job[j].answered : depth[p] >= FinalDepth
    /\ \A i \in DOMAIN job[j].transfers :
         \E q \in Sent : Unsigned(q) = job[j].transfers[i] /\ depth[q] >= FinalDepth

(* webapp.py:567-588, README.md:49 "check status and finality": a payment  *)
(* the wallet gave up as not found does not go through after all, however  *)
(* late the node decides and mines, also between its look at the mempool   *)
(* and its look at the chain, as long as its chain only grows; after a     *)
(* reorganisation it may, since until the reactor requeues it the payment  *)
(* is present nowhere.                                                     *)
GivenUpStaysOut ==
  reorgs = 0 => \A j \in Job : \A p \in job[j].answered :
    job[j].at \in {"wait", "done"} /\ p \in DOMAIN job[j].seen /\ job[j].seen[p] = "not_found"
      => depth[p] = 0

(* wallet.py:523 "ensure all addresses have sufficient funds": when the    *)
(* transfers of a job that runs alone are made, every sender can pay its   *)
(* share.                                                                  *)
PlanCoversShares ==
  \A j \in Job : LET jb == job[j] IN
    jb.at = "sign" /\ jb.part = "main" /\ jb.signed = <<>> /\ jb.alone /\ jb.served
      => \A k \in Senders(jb.shares) : Amount(jb.shares, k) <= Balance(k)

(* wallet.py:771-815: the wait has no limit of its own, yet every job that  *)
(* is started ends, unless the chain drops what was final: then a payment   *)
(* can stay accepted for ever that no block can take.                       *)
FlowsEnd == \A j \in Job : Running(j) ~> ~Running(j) \/ longest >= FinalDepth
=============================================================================
