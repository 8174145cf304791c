-------------------------------- MODULE Mempool --------------------------------
(***************************************************************************)
(* p2p/app/mempool.py with the threads that use it: the receive and HTTP   *)
(* threads that call add, the one worker that decides (_worker_loop), and  *)
(* the reactor that rolls back, requeues, applies and purges               *)
(* (mining_ctrl.py _reactor_loop) what the validator thread hands over     *)
(* through two queues, which the reactor drains at two different times.    *)
(*                                                                         *)
(* The worker decides outside the lock, on a copy of the accepted list and *)
(* a later projection of the ledger, and then looks for its transaction by *)
(* object identity.  So an object is a pair: a transaction and where that  *)
(* copy of it came from, a sender or a block.                              *)
(*                                                                         *)
(* What is only told to others is left out: accepted transactions that are *)
(* relayed (_new_ok) and reports of malformed ones.                        *)
(***************************************************************************)
EXTENDS Ledger, FiniteSets

CONSTANTS
  Source,      \* "user" and the peers
  Submission,  \* bound of the model: which source sends what, once each
  Precheck,    \* tx_precheck: format, address, txid, signature, amounts
  MaxItems,    \* _max
  QueueMax     \* maxsize of _q

ASSUME MempoolAssumption ==
  /\ Submission \subseteq [tx : TxId, from : Source] /\ Source \cap Block = {}
  /\ Precheck \in [TxId -> BOOLEAN]
  /\ MaxItems \in Nat \ {0} /\ QueueMax \in Nat \ {0}

VARIABLES
  submitted,   \* the submissions made so far
  seen,        \* _seen; "none" for a transaction that is not a key
  pending,     \* _pending
  ok,          \* _ok: what the miner puts into its next block
  queue,       \* _q
  putting,     \* objects of add calls between the lock and put_nowait
  worker,      \* where _worker_loop is, and with what
  state,       \* the ledger
  tip,         \* _best_tip
  validator,   \* whether the validator thread is in accept_block, or after it
  entering,    \* blocks that accept_block returns, to be published
  removed,     \* _removed_main
  entered,     \* _entered
  reactor,     \* where _reactor_loop is, and with what
  reorged,     \* history: blocks left the main chain at some time
  tangled      \* history: ... while others were on their way to the reactor

lists == <<seen, pending, ok>>
chainVars == <<tip, validator, entering, removed, entered, reorged, tangled>>
mempoolVars == <<submitted, lists, queue, putting, worker, state, reactor, chainVars>>

Object == [tx : TxId, from : Source \cup Block]
Free == [at |-> "free"]
Turn(at, blocks) == [at |-> at, todo |-> blocks, requeue |-> <<>>]
Rest == Turn("apply", <<>>)

(* _trim_list: the oldest go, and keep the state they had in _seen. *)
Trim(list) == SubSeq(list, 1 + (IF Len(list) > MaxItems THEN Len(list) - MaxItems ELSE 0),
                     Len(list))

(* tx_precheck: what can be said of a transaction without the ledger. *)
TxPrecheck(t) == Precheck[t]

TxsIn(list) == [i \in DOMAIN list |-> list[i].tx]

(* What purge_included_block keeps of a list: the items with other ids. *)
Without(list, txs) ==
  FoldLeft(LAMBDA kept, o : IF o.tx \in txs THEN kept ELSE Append(kept, o), <<>>, list)
-----------------------------------------------------------------------------
MempoolInit ==
  /\ submitted = {} /\ seen = [t \in TxId |-> "none"]
  /\ pending = <<>> /\ ok = <<>> /\ queue = <<>> /\ putting = {}
  /\ worker = Free
  /\ state = Rebuild(<<Genesis>>)
  /\ tip = Genesis /\ validator = "idle" /\ reactor = Rest
  /\ entering = <<>> /\ removed = <<>> /\ entered = <<>>
  /\ reorged = FALSE /\ tangled = FALSE

(* Mutation: a transaction that is pending is taken for a new one. *)
Undecided(t) == seen[t] \notin {"ok", "invalid"}

(* add deals with a transaction once, whatever became of it. *)
Unseen(t) == seen[t] = "none"

(* add, with the lock held. *)
Admit(o) ==
  IF ~Unseen(o.tx) THEN UNCHANGED <<seen, pending>>
  ELSE /\ pending' = Trim(Append(pending, o))
       /\ seen' = [seen EXCEPT ![o.tx] = "pending"]

(* add, the lock released: a full queue drops the youngest pending item,   *)
(* whosever it is by now.                                                  *)
Enqueue(o) ==
  IF Len(queue) < QueueMax THEN queue' = Append(queue, o) /\ UNCHANGED <<seen, pending>>
  ELSE /\ UNCHANGED queue
       /\ IF pending = <<>> THEN UNCHANGED <<seen, pending>>
          ELSE /\ pending' = Front(pending)
               /\ seen' = [seen EXCEPT ![o.tx] = "invalid"]

Submit(o) ==
  /\ o \in Submission \ submitted
  /\ submitted' = submitted \cup {o}
  /\ Admit(o)
  /\ putting' = IF Unseen(o.tx) THEN putting \cup {o} ELSE putting
  /\ UNCHANGED <<ok, queue, worker, state, reactor, chainVars>>

Put(o) ==
  /\ o \in putting
  /\ putting' = putting \ {o}
  /\ Enqueue(o)
  /\ UNCHANGED <<submitted, ok, worker, state, reactor, chainVars>>
-----------------------------------------------------------------------------
Take ==
  /\ worker = Free /\ queue # <<>>
  /\ worker' = [at |-> "taken", obj |-> Head(queue)]
  /\ queue' = Tail(queue)
  /\ UNCHANGED <<submitted, lists, putting, state, reactor, chainVars>>

(* admission_validator: the form first; then a copy of the accepted list ... *)
CopyOk ==
  /\ worker.at = "taken"
  /\ worker' = IF TxPrecheck(worker.obj.tx)
               THEN [at |-> "copied", obj |-> worker.obj, accepted |-> TxsIn(ok)]
               ELSE [at |-> "decided", obj |-> worker.obj, verdict |-> "invalid"]
  /\ UNCHANGED <<submitted, lists, queue, putting, state, reactor, chainVars>>

(* Mutation: a verdict that is not a state of _seen. *)
DecideYesNo ==
  /\ worker.at = "copied"
  /\ worker' = [at |-> "decided", obj |-> worker.obj,
                verdict |-> IF FitsTx(ProjectTxs(state, worker.accepted), worker.obj.tx)
                            THEN "yes" ELSE "no"]
  /\ UNCHANGED <<submitted, lists, queue, putting, state, reactor, chainVars>>

(* What a chain that was the main chain so far may have grown by between   *)
(* the two reads of _ensure_immature_cache: it was not heavier than today's.*)
Grown == UNION {GrownBy(c) : c \in {c \in Block : ChainWork[c] <= ChainWork[tip]}}

(* ... then the ledger as it will be after them: the lock of the ledger. *)
Decide ==
  /\ worker.at = "copied"
  /\ \E short \in BOOLEAN :
       LET t == worker.obj.tx
           l == ProjectTxs(state, worker.accepted)
       IN  /\ short => SeemsShort(l, <<t>>, Grown)
           /\ worker' = [at |-> "decided", obj |-> worker.obj,
                         verdict |-> IF FitsTx(l, t) /\ ~short THEN "ok" ELSE "invalid"]
  /\ UNCHANGED <<submitted, lists, queue, putting, state, reactor, chainVars>>

(* The lock again: the item may have been purged meanwhile. *)
Record ==
  /\ worker.at = "decided"
  /\ worker' = Free
  /\ LET o == worker.obj
         i == SelectLastInSeq(pending, LAMBDA x : x = o)
     IN  IF i = 0
         THEN /\ seen' = [seen EXCEPT ![o.tx] = IF @ = "none" THEN worker.verdict ELSE @]
              /\ UNCHANGED <<pending, ok>>
         ELSE /\ pending' = RemoveAt(pending, i)
              /\ seen' = [seen EXCEPT ![o.tx] = worker.verdict]
              /\ ok' = IF worker.verdict = "ok" THEN Trim(Append(ok, o)) ELSE ok
  /\ UNCHANGED <<submitted, queue, putting, state, reactor, chainVars>>

Worker == Take \/ CopyOk \/ Decide \/ Record
-----------------------------------------------------------------------------
(* The validator moves the chain to a heavier tip, in accept_block, which  *)
(* may do so several times: blocks leave from the tip down, and join from  *)
(* the fork up, each valid where it stands.                                *)
Shared(a, b) == Cardinality(Ancestry(a) \cap Ancestry(b))

(* Blocks that leave the chain now may be rolled back after those of the   *)
(* branch that replaces them were applied, or before they were applied.    *)
Tangling ==
  \/ removed \o entered \o entering # <<>>
  \/ reactor.at \in {"undo", "requeue", "readd", "reput"}

Reorganise(b) ==
  /\ validator # "publishing" /\ validator' = "accepting"
  /\ ChainWork[b] > ChainWork[tip] /\ tip' = b
  /\ LET n    == Shared(tip, b)
         undo == Reverse(SubSeq(Lineage[tip], n + 1, Len(Lineage[tip])))
     IN  /\ removed' = removed \o undo
         /\ entering' = entering \o SubSeq(Lineage[b], n + 1, Len(Lineage[b]))
         /\ reorged' = (reorged \/ undo # <<>>)
         /\ tangled' = (tangled \/ (undo # <<>> /\ Tangling))
  /\ UNCHANGED <<submitted, lists, queue, putting, worker, state, entered, reactor>>

AcceptEnd ==
  /\ validator = "accepting" /\ validator' = "publishing"
  /\ UNCHANGED <<submitted, lists, queue, putting, worker, state, reactor,
                 tip, entering, removed, entered, reorged, tangled>>

(* After the lock is released, one by one. *)
Publish ==
  /\ validator = "publishing" /\ entering # <<>>
  /\ entered' = Append(entered, Head(entering)) /\ entering' = Tail(entering)
  /\ validator' = IF Len(entering) = 1 THEN "idle" ELSE "publishing"
  /\ UNCHANGED <<submitted, lists, queue, putting, worker, state, reactor,
                 tip, removed, reorged, tangled>>

Validator == AcceptEnd \/ Publish
-----------------------------------------------------------------------------
DrainRemoved ==
  /\ reactor = Rest
  /\ reactor' = Turn("undo", removed) /\ removed' = <<>>
  /\ UNCHANGED <<submitted, lists, queue, putting, worker, state,
                 tip, validator, entering, entered, reorged, tangled>>

RollBack ==
  /\ reactor.at = "undo" /\ reactor.todo # <<>>
  /\ LET b == Head(reactor.todo) IN
       /\ state' = RollbackBlock(state, b)
       /\ reactor' = [at |-> "requeue", todo |-> Tail(reactor.todo),
                      requeue |-> [i \in DOMAIN Txs[b] |-> [tx |-> Txs[b][i], from |-> b]]]
  /\ UNCHANGED <<submitted, lists, queue, putting, worker, chainVars>>

(* requeue_from_stale_block, for each transaction: forget what was known   *)
(* of it, and add it like a new one, a lock region each.                   *)
Forget ==
  /\ reactor.at = "requeue" /\ reactor.requeue # <<>>
  /\ seen' = [seen EXCEPT ![Head(reactor.requeue).tx] = "none"]
  /\ reactor' = [reactor EXCEPT !.at = "readd"]
  /\ UNCHANGED <<submitted, pending, ok, queue, putting, worker, state, chainVars>>

Readd ==
  /\ reactor.at = "readd"
  /\ LET o == Head(reactor.requeue) IN
       /\ Admit(o)
       /\ reactor' = IF Unseen(o.tx) THEN [reactor EXCEPT !.at = "reput"]
                     ELSE [reactor EXCEPT !.at = "requeue", !.requeue = Tail(@)]
  /\ UNCHANGED <<submitted, ok, queue, putting, worker, state, chainVars>>

Reput ==
  /\ reactor.at = "reput"
  /\ Enqueue(Head(reactor.requeue))
  /\ reactor' = [reactor EXCEPT !.at = "requeue", !.requeue = Tail(@)]
  /\ UNCHANGED <<submitted, ok, putting, worker, state, chainVars>>

RequeueDone ==
  /\ reactor.at = "requeue" /\ reactor.requeue = <<>>
  /\ reactor' = [reactor EXCEPT !.at = "undo"]
  /\ UNCHANGED <<submitted, lists, queue, putting, worker, state, chainVars>>

(* The other queue, at its own time: what it holds by now. *)
DrainEntered ==
  /\ reactor = Turn("undo", <<>>) /\ validator # "accepting"
  /\ reactor' = Turn("apply", entered) /\ entered' = <<>>
  /\ UNCHANGED <<submitted, lists, queue, putting, worker, state,
                 tip, validator, entering, removed, reorged, tangled>>

(* Whether apply_block succeeded is not looked at. *)
ApplyNext ==
  /\ reactor.at = "apply" /\ reactor.todo # <<>>
  /\ \E short \in BOOLEAN :
       LET b == Head(reactor.todo) IN
       /\ short => SeemsShort(state, Txs[b], Grown)
       /\ state' = IF short THEN state ELSE ApplyBlock(state, b)
  /\ reactor' = [reactor EXCEPT !.at = "purge"]
  /\ UNCHANGED <<submitted, lists, queue, putting, worker, chainVars>>

(* Mutation: accepted transactions are not purged. *)
PurgePending ==
  /\ reactor.at = "purge"
  /\ LET txs == Range(Txs[Head(reactor.todo)])
     IN  /\ pending' = Without(pending, txs)
         /\ seen' = [t \in TxId |-> IF t \in txs \cap Range(TxsIn(pending)) THEN "none"
                                    ELSE seen[t]]
  /\ reactor' = [reactor EXCEPT !.at = "apply", !.todo = Tail(@)]
  /\ UNCHANGED <<submitted, ok, queue, putting, worker, state, chainVars>>

(* Mutation: purged transactions are not forgotten. *)
PurgeUnforgotten ==
  /\ reactor.at = "purge"
  /\ LET txs == Range(Txs[Head(reactor.todo)])
     IN  pending' = Without(pending, txs) /\ ok' = Without(ok, txs)
  /\ reactor' = [reactor EXCEPT !.at = "apply", !.todo = Tail(@)]
  /\ UNCHANGED <<submitted, seen, queue, putting, worker, state, chainVars>>

(* purge_included_block: out of both lists, and forgotten. *)
Purge ==
  /\ reactor.at = "purge"
  /\ LET txs    == Range(Txs[Head(reactor.todo)])
         listed == Range(TxsIn(pending)) \cup Range(TxsIn(ok))
     IN  /\ pending' = Without(pending, txs)
         /\ ok' = Without(ok, txs)
         /\ seen' = [t \in TxId |-> IF t \in txs \cap listed THEN "none" ELSE seen[t]]
  /\ reactor' = [reactor EXCEPT !.at = "apply", !.todo = Tail(@)]
  /\ UNCHANGED <<submitted, queue, putting, worker, state, chainVars>>

Reactor ==
  \/ DrainRemoved \/ RollBack \/ Forget \/ Readd \/ Reput \/ RequeueDone
  \/ DrainEntered \/ ApplyNext \/ Purge

MempoolNext ==
  \/ \E o \in Submission : Submit(o)
  \/ \E o \in putting : Put(o)
  \/ Worker \/ Reactor \/ Validator
  \/ \E b \in Block : Reorganise(b)

MempoolSpec == MempoolInit /\ [][MempoolNext]_mempoolVars

(* No thread is suspended for ever. *)
MempoolFairSpec ==
  /\ MempoolSpec /\ WF_mempoolVars(Worker)
  /\ WF_mempoolVars(Reactor) /\ WF_mempoolVars(Validator)
  /\ \A o \in Submission : WF_mempoolVars(Put(o))
-----------------------------------------------------------------------------
MempoolTypeOK ==
  /\ submitted \subseteq Submission /\ putting \subseteq Submission
  /\ seen \in [TxId -> {"none", "pending", "ok", "invalid"}]
  /\ {pending, ok, queue} \subseteq Seq(Object)
  /\ Len(pending) <= MaxItems /\ Len(ok) <= MaxItems /\ Len(queue) <= QueueMax
  /\ worker.at \in {"free", "taken", "copied", "decided"}
  /\ reactor.at \in {"undo", "requeue", "readd", "reput", "apply", "purge"}
  /\ state \in LedgerState /\ tip \in Block
  /\ validator \in {"idle", "accepting", "publishing"}
  /\ {entering, removed, entered} \subseteq Seq(Block)
  /\ validator = "idle" => entering = <<>>
  /\ {reorged, tangled} \subseteq BOOLEAN /\ (tangled => reorged)

(* As long as no block was rolled back, /api/tx/status never calls a       *)
(* transaction that the miner is about to include anything but accepted,   *)
(* and a second copy of it cannot be accepted: purges, late verdicts and   *)
(* renewed submissions notwithstanding.                                    *)
AcceptedIsKnown ==
  ~reorged => /\ \A o \in Range(ok) : seen[o.tx] = "ok"
              /\ IsInjective(TxsIn(ok))

(* Once the reactor has carried out all that happened to the chain, nothing*)
(* on it is still offered to the miner, not even what the worker decided   *)
(* before a block was applied and recorded after it was purged.  Stated    *)
(* for reorganisations that reach the reactor one at a time: otherwise it  *)
(* may purge a branch before it requeues the one that left.                *)
AcceptedNotConfirmed ==
  reactor = Rest /\ removed \o entered \o entering = <<>> /\ ~tangled =>
    \A c \in Ancestry(tip) : Range(Txs[c]) \cap Range(TxsIn(ok)) = {}

(* As long as no block was rolled back, the accepted list in its order is  *)
(* a valid continuation of the ledger: the block the miner makes of it     *)
(* will be valid.  Stated for one transaction per sender and nonce.        *)
NoConflict ==
  \A s, t \in TxId : TxFrom[s] = TxFrom[t] /\ TxNonce[s] = TxNonce[t] => s = t
TemplateValidOnTrunk ==
  NoConflict /\ reactor = Rest /\ ~reorged => RunTxs(state, TxsIn(ok)).ok

(* README "mempool revalidation": the same after reorganisations, once     *)
(* worker and reactor rest.                                                *)
AtRest ==
  /\ reactor = Rest /\ removed \o entered \o entering = <<>>
  /\ worker = Free /\ queue = <<>> /\ putting = {}
TemplateValidAfterReorg ==
  NoConflict /\ AtRest => RunTxs(state, TxsIn(ok)).ok

(* Nobody waits for ever for a verdict: at rest no transaction is pending. *)
NoneStuckPending == AtRest => \A t \in TxId : seen[t] # "pending"

(* Every transaction that is pending is decided or confirmed. *)
Decided == \A t \in TxId : seen[t] = "pending" ~> seen[t] # "pending"
=============================================================================
