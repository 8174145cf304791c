------------------------------- MODULE MinerCtl -------------------------------
(***************************************************************************)
(* p2p/app/mining_ctrl.py: who starts and who stops the mining threads.    *)
(*                                                                         *)
(* HTTP requests call set_auto and mine_once, the reactor calls            *)
(* on_external_block for every block that joined the main chain, and each  *)
(* mining thread, when it ends, clears _busy and may start its successor.  *)
(* _stop always names the event of the thread started last; a thread is    *)
(* cancelled by the event that _stop named when it began to mine.          *)
(***************************************************************************)
EXTENDS Integers, FiniteSets

CONSTANTS
  Thread,       \* bound of the model: mining threads alive at one time
  Event,        \* threading.Event objects; a new one is one not in use
  NoEvent,      \* the event of a thread that has not begun to mine
  CommandBound, \* bound of the model: HTTP requests
  BlockBound    \* bound of the model: blocks that join the main chain

ASSUME MinerAssumption ==
  /\ Thread # {} /\ IsFiniteSet(Thread) /\ IsFiniteSet(Event)
  /\ Cardinality(Event) > Cardinality(Thread) /\ NoEvent \notin Event
  /\ CommandBound \in Nat /\ BlockBound \in Nat

VARIABLES
  auto,      \* _auto
  busy,      \* _busy
  stop,      \* _stop: which event
  isSet,     \* the events in use that are set
  at,        \* where each thread is in _worker
  cancel,    \* the event each thread watches: cancel_cb
  tipSeen,   \* the main chain's tip when the thread read it
  restarts,  \* try_restart threads that are asleep
  tip,       \* blocks that joined the main chain so far
  handled,   \* how many of them the reactor has told the miner of
  commands,  \* HTTP requests so far
  byHand     \* auto mining was never switched on

control == <<auto, busy, stop, isSet>>
threads == <<at, cancel, tipSeen>>
counts == <<restarts, tip, handled, commands, byHand>>
minerVars == <<control, threads, counts>>

Live == {w \in Thread : at[w] # "none"}
(* Threads that have yet to clear _busy. *)
Mining == {w \in Live : at[w] # "last"}
-----------------------------------------------------------------------------
MinerInit ==
  /\ auto = FALSE /\ busy = FALSE /\ isSet = {}
  /\ stop = CHOOSE e \in Event : TRUE
  /\ at = [w \in Thread |-> "none"]
  /\ cancel = [w \in Thread |-> NoEvent]
  /\ tipSeen = [w \in Thread |-> 0]
  /\ restarts = 0 /\ tip = 0 /\ handled = 0 /\ commands = 0
  /\ byHand = TRUE

(* An event that no thread watches is gone once _stop names another.       *)
Watched(ws) == {cancel[w] : w \in ws}

(* _start_async, with _lock held: a new event, busy, a new thread. ending  *)
(* is the set of threads that end in the same step.  Free threads and      *)
(* events are alike: which one is taken does not matter.                   *)
StartAsync(ending) ==
  LET free == (Thread \ Live) \cup ending
      w    == CHOOSE x \in free : TRUE
      e    == CHOOSE x \in Event : x # stop /\ \A v \in Thread : cancel[v] # x
  IN  /\ free # {}
      /\ stop' = e
      /\ isSet' = isSet \cap Watched(Thread \ ending)
      /\ busy' = TRUE
      /\ at' = [v \in Thread |-> IF v = w THEN "new"
                                 ELSE IF v \in ending THEN "none" ELSE at[v]]
      /\ cancel' = [v \in Thread |-> IF v \in ending \cup {w} THEN NoEvent ELSE cancel[v]]
      /\ tipSeen' = [v \in Thread |-> IF v \in ending \cup {w} THEN 0 ELSE tipSeen[v]]

SetAuto(on) ==
  /\ commands < CommandBound /\ commands' = commands + 1
  /\ auto' = on
  /\ byHand' = (byHand /\ ~on)
  /\ IF on /\ ~busy THEN StartAsync({})
     ELSE /\ isSet' = IF ~on /\ busy THEN isSet \cup {stop} ELSE isSet
          /\ UNCHANGED <<busy, stop, threads>>
  /\ UNCHANGED <<restarts, tip, handled>>

(* Mutation: a second request starts a second thread. *)
MineOnceMore ==
  /\ commands < CommandBound /\ commands' = commands + 1
  /\ StartAsync({})
  /\ UNCHANGED <<auto, restarts, tip, handled, byHand>>
MineOnce ==
  /\ commands < CommandBound /\ commands' = commands + 1
  /\ IF busy THEN UNCHANGED <<busy, stop, isSet, threads>> ELSE StartAsync({})
  /\ UNCHANGED <<auto, restarts, tip, handled, byHand>>

(* The validator moves the main chain; the reactor hears of it later. *)
ChainAdvances ==
  /\ tip < BlockBound /\ tip' = tip + 1
  /\ UNCHANGED <<control, threads, restarts, handled, commands, byHand>>

(* Mutation: the thread is not told. *)
OnExternalBlockQuiet ==
  /\ handled < tip /\ handled' = handled + 1
  /\ restarts' = restarts + 1
  /\ UNCHANGED <<auto, busy, stop, isSet, threads, tip, commands, byHand>>

(* Mutation: two looks for one block. *)
OnExternalBlockTwice ==
  /\ handled < tip /\ handled' = handled + 1
  /\ isSet' = isSet \cup {stop}
  /\ restarts' = restarts + 2
  /\ UNCHANGED <<auto, busy, stop, threads, tip, commands, byHand>>

(* on_external_block: set the event, and look again in a moment. *)
OnExternalBlock ==
  /\ handled < tip /\ handled' = handled + 1
  /\ isSet' = isSet \cup {stop}
  /\ restarts' = restarts + 1
  /\ UNCHANGED <<auto, busy, stop, threads, tip, commands, byHand>>

TryRestart ==
  /\ restarts > 0 /\ restarts' = restarts - 1
  /\ IF auto /\ ~busy THEN StartAsync({}) ELSE UNCHANGED <<busy, stop, isSet, threads>>
  /\ UNCHANGED <<auto, tip, handled, commands, byHand>>
-----------------------------------------------------------------------------
(* _worker reads the mempool and the main chain ... *)
ReadChain(w) ==
  /\ at[w] = "new"
  /\ at' = [at EXCEPT ![w] = "read"]
  /\ tipSeen' = [tipSeen EXCEPT ![w] = tip]
  /\ UNCHANGED <<control, cancel, counts>>

(* ... takes the event that _stop names by now ... *)
Watch(w) ==
  /\ at[w] = "read"
  /\ at' = [at EXCEPT ![w] = "hashing"]
  /\ cancel' = [cancel EXCEPT ![w] = stop]
  /\ UNCHANGED <<control, tipSeen, counts>>

(* ... and hashes until a nonce fits or the event is set. *)
Find(w) ==
  /\ at[w] = "hashing"
  /\ at' = [at EXCEPT ![w] = "found"]
  /\ UNCHANGED <<control, cancel, tipSeen, counts>>

Cancelled(w) ==
  /\ at[w] = "hashing" /\ cancel[w] \in isSet
  /\ at' = [at EXCEPT ![w] = "done"]
  /\ UNCHANGED <<control, cancel, tipSeen, counts>>

(* The block goes to the inbox unless _stop, the current one, is set: the *)
(* look at it, after which inbox.add is the next thing the thread does.    *)
Submit(w) ==
  /\ at[w] = "found"
  /\ at' = [at EXCEPT ![w] = IF stop \in isSet THEN "done" ELSE "given"]
  /\ UNCHANGED <<control, cancel, tipSeen, counts>>
(* Mutation: _busy is left for the next start to overwrite. *)
LeaveBusy(w) ==
  /\ at[w] \in {"given", "done"}
  /\ at' = [at EXCEPT ![w] = "last"]
  /\ UNCHANGED <<auto, busy, stop, isSet, cancel, tipSeen, counts>>

(* The finally clause, one lock region after the other. *)
ClearBusy(w) ==
  /\ at[w] \in {"given", "done"}
  /\ busy' = FALSE
  /\ at' = [at EXCEPT ![w] = "last"]
  /\ UNCHANGED <<auto, stop, isSet, cancel, tipSeen, counts>>

(* Mutation: whether auto is still on is not looked at. *)
RestartAnyway(w) ==
  /\ at[w] = "last"
  /\ IF stop \notin isSet THEN StartAsync({w})
     ELSE /\ at' = [at EXCEPT ![w] = "none"]
          /\ cancel' = [cancel EXCEPT ![w] = NoEvent]
          /\ tipSeen' = [tipSeen EXCEPT ![w] = 0]
          /\ isSet' = isSet \cap ({stop} \cup Watched(Thread \ {w}))
          /\ UNCHANGED <<busy, stop>>
  /\ UNCHANGED <<auto, counts>>

RestartOrEnd(w) ==
  /\ at[w] = "last"
  /\ IF auto /\ stop \notin isSet THEN StartAsync({w})
     ELSE /\ at' = [at EXCEPT ![w] = "none"]
          /\ cancel' = [cancel EXCEPT ![w] = NoEvent]
          /\ tipSeen' = [tipSeen EXCEPT ![w] = 0]
          /\ isSet' = isSet \cap ({stop} \cup Watched(Thread \ {w}))
          /\ UNCHANGED <<busy, stop>>
  /\ UNCHANGED <<auto, counts>>

Worker(w) ==
  ReadChain(w) \/ Watch(w) \/ Find(w) \/ Cancelled(w) \/ Submit(w)
    \/ ClearBusy(w) \/ RestartOrEnd(w)

MinerNext ==
  \/ \E on \in BOOLEAN : SetAuto(on)
  \/ MineOnce \/ ChainAdvances \/ OnExternalBlock \/ TryRestart
  \/ \E w \in Thread : Worker(w)

MinerSpec == MinerInit /\ [][MinerNext]_minerVars

(* Threads run, sleeping threads wake up, the reactor's loop comes round;  *)
(* a hash that fits is found in the end.                                   *)
MinerFairSpec ==
  /\ MinerSpec
  /\ WF_minerVars(OnExternalBlock) /\ WF_minerVars(TryRestart)
  /\ \A w \in Thread : WF_minerVars(Worker(w))
-----------------------------------------------------------------------------
MinerTypeOK ==
  /\ auto \in BOOLEAN /\ busy \in BOOLEAN /\ byHand \in BOOLEAN
  /\ stop \in Event /\ isSet \subseteq Event
  /\ at \in [Thread -> {"none", "new", "read", "hashing", "found", "given", "done", "last"}]
  /\ cancel \in [Thread -> Event \cup {NoEvent}]
  /\ tipSeen \in [Thread -> 0..BlockBound]
  /\ tip \in 0..BlockBound /\ handled \in 0..tip
  /\ restarts \in 0..handled /\ commands \in 0..CommandBound

(* mine_once refuses while _busy: it must never be left set by a thread    *)
(* that is gone, or the node would refuse to mine for ever.  As long as    *)
(* mining is only asked for by hand, there is one mining thread, and _busy *)
(* tells the truth about it, whatever blocks come meanwhile.               *)
BusyMeansMining ==
  /\ busy => Mining # {}
  /\ byHand => Cardinality(Mining) <= 1 /\ (busy <=> Mining # {})

(* By hand, a thread that hashes on top of a block the reactor knows to be *)
(* buried has been told to give up: no work is wasted on a stale tip.      *)
StaleWorkIsCancelled ==
  byHand => \A w \in Thread :
    /\ at[w] = "hashing" /\ tipSeen[w] < handled => cancel[w] \in isSet
    /\ at[w] = "read" /\ tipSeen[w] < handled => stop \in isSet

(* A block mined by hand is let through to the inbox only when its tip is  *)
(* not known to be buried: _worker's last look at _stop (mining_ctrl.py:75) *)
(* is at the event of its own start, because no other start may come        *)
(* between (_busy), and the reactor has set it for every block it handled.  *)
NoStaleBlock ==
  [][\A w \in Thread :
       byHand /\ at[w] = "found" /\ at'[w] = "given" => tipSeen[w] >= handled]_minerVars
(* Switched off for good, mining ends: every thread, also one whose event  *)
(* nobody can set any more, runs out.                                      *)
MiningEnds ==
  [](commands = CommandBound /\ ~auto => <>(Live = {}))

(* README "automatic mining": while auto is on, something mines or is      *)
(* about to.                                                               *)
AutoKeepsMining == auto => Live # {} \/ restarts > 0
=============================================================================
