------------------------------ MODULE MinerProofs ------------------------------
(***************************************************************************)
(* Proofs about MinerCtl, for any number of threads, events, requests and  *)
(* blocks: the types, that _busy means mining, that mining by hand is one  *)
(* thread that stale work cancels, and that a stale block is not let        *)
(* through.                                                                 *)
(***************************************************************************)
EXTENDS MinerCtl, FiniteSetTheorems, TLAPS

(* There is always an event that is in use nowhere: of the threads one     *)
(* watches none, or the one _stop names, which is the last to be started   *)
(* or has ended.                                                           *)
EventLeft == \E v \in Thread : cancel[v] \in {NoEvent, stop}

AtMostOne == \A u, v \in Mining : u = v

(* By hand: auto is off, one thread mines, and it watches the event that   *)
(* _stop still names.                                                      *)
ByHandOnce ==
  byHand => /\ ~auto
            /\ AtMostOne
            /\ busy <=> Mining # {}
            /\ \A w \in Thread : at[w] = "hashing" => cancel[w] = stop

(* By hand, who works on a buried tip is told so by the event that _stop    *)
(* names.                                                                   *)
StaleIsFlagged ==
  byHand => \A w \in Thread :
    at[w] \in {"read", "hashing", "found"} /\ tipSeen[w] < handled => stop \in isSet
MinerInv ==
  /\ MinerTypeOK /\ EventLeft
  /\ busy => Mining # {}
  /\ ByHandOnce
  /\ StaleIsFlagged

(* A new event is found. *)
LEMMA FreshEvent ==
  ASSUME MinerTypeOK, EventLeft
  PROVE  LET e == CHOOSE x \in Event : x # stop /\ \A v \in Thread : cancel[v] # x
         IN  e \in Event /\ e # stop /\ \A v \in Thread : cancel[v] # e
<1>1. SUFFICES ASSUME \A x \in Event : x # stop => \E v \in Thread : cancel[v] = x
               PROVE  FALSE
  OBVIOUS
<1>2. PICK w \in Thread : cancel[w] \in {NoEvent, stop}
  BY DEF EventLeft
<1> DEFINE E == Event \ {stop}
           T == Thread \ {w}
           f == [x \in E |-> CHOOSE v \in Thread : cancel[v] = x]
<1>3. \A x \in E : f[x] \in T /\ cancel[f[x]] = x
  <2> SUFFICES ASSUME NEW x \in E
               PROVE  f[x] \in T /\ cancel[f[x]] = x
    OBVIOUS
  <2>1. \E v \in Thread : cancel[v] = x
    BY <1>1
  <2>2. f[x] \in Thread /\ cancel[f[x]] = x
    BY <2>1
  <2>3. x \notin {NoEvent, stop}
    BY MinerAssumption
  <2>4. QED BY <1>2, <2>2, <2>3
<1>4. f \in [E -> T]
  BY <1>3
<1>5. /\ IsFiniteSet(E) /\ IsFiniteSet(T) /\ Cardinality(E) \in Nat /\ Cardinality(T) \in Nat
      /\ Cardinality(E) = Cardinality(Event) - 1 /\ Cardinality(T) = Cardinality(Thread) - 1
  BY FS_RemoveElement, FS_CardinalityType, MinerAssumption DEF MinerTypeOK
<1>6. Cardinality(T) < Cardinality(E)
  <2>1. Cardinality(Event) \in Nat /\ Cardinality(Thread) \in Nat
    BY FS_CardinalityType, MinerAssumption
  <2>2. QED BY <1>5, <2>1, MinerAssumption
<1> HIDE DEF E, T, f
<1>7. PICK x, y \in E : x # y /\ f[x] = f[y]
  BY <1>4, <1>5, <1>6, FS_PigeonHole
<1>8. QED BY <1>3, <1>7

(* w is started, and the threads that end are gone. *)
StartedAs(w, ending) ==
  /\ stop' \in Event /\ busy' = TRUE
  /\ isSet' \subseteq isSet
  /\ at' \in [Thread -> {"none", "new", "read", "hashing", "found", "given", "done", "last"}]
  /\ cancel' \in [Thread -> Event \cup {NoEvent}]
  /\ tipSeen' \in [Thread -> 0 .. BlockBound]
  /\ at'[w] = "new" /\ cancel'[w] = NoEvent
  /\ \A v \in Thread \ ({w} \cup ending) : at'[v] = at[v]
  /\ \A v \in ending \ {w} : at'[v] = "none"

(* What _start_async does, in one thread that is free or about to end.     *)
LEMMA StartAsyncStarts ==
  ASSUME MinerTypeOK, EventLeft, NEW ending \in SUBSET Thread, StartAsync(ending)
  PROVE  \E w \in (Thread \ Live) \cup ending : StartedAs(w, ending)
<1> DEFINE free == (Thread \ Live) \cup ending
           w == CHOOSE x \in free : TRUE
           e == CHOOSE x \in Event : x # stop /\ \A v \in Thread : cancel[v] # x
<1>1. w \in free /\ w \in Thread
  BY DEF StartAsync
<1>2. e \in Event /\ e # stop /\ \A v \in Thread : cancel[v] # e
  BY FreshEvent
<1>3. /\ stop' = e /\ busy' = TRUE
      /\ isSet' = isSet \cap Watched(Thread \ ending)
      /\ at' = [v \in Thread |-> IF v = w THEN "new"
                                 ELSE IF v \in ending THEN "none" ELSE at[v]]
      /\ cancel' = [v \in Thread |-> IF v \in ending \cup {w} THEN NoEvent ELSE cancel[v]]
      /\ tipSeen' = [v \in Thread |-> IF v \in ending \cup {w} THEN 0 ELSE tipSeen[v]]
  BY DEF StartAsync
<1> HIDE DEF w, e
<1>4. /\ at' \in [Thread -> {"none", "new", "read", "hashing", "found", "given", "done", "last"}]
      /\ cancel' \in [Thread -> Event \cup {NoEvent}]
      /\ tipSeen' \in [Thread -> 0 .. BlockBound]
  BY <1>3, MinerAssumption DEF MinerTypeOK
<1>5. StartedAs(w, ending)
  BY <1>1, <1>2, <1>3, <1>4 DEF StartedAs
<1>6. QED BY <1>1, <1>5

(* A start keeps the invariant; by hand it happens only when nobody mines. *)
LEMMA StartKeeps ==
  ASSUME MinerInv, NEW ending \in SUBSET Thread, \A v \in ending : at[v] = "last",
         StartAsync(ending), byHand' => byHand /\ ~busy /\ ~auto',
         handled' = handled, auto' \in BOOLEAN, byHand' \in BOOLEAN, tip' = tip,
         restarts' \in 0 .. restarts, commands' \in 0 .. CommandBound
  PROVE  MinerInv'
<1>0. MinerTypeOK /\ EventLeft
  BY DEF MinerInv
<1>1. PICK w \in (Thread \ Live) \cup ending : StartedAs(w, ending)
  BY <1>0, StartAsyncStarts
<1>2. w \in Thread /\ w \in Mining'
  BY <1>1 DEF Mining, Live, StartedAs
<1>3. MinerTypeOK'
  BY <1>0, <1>1, MinerAssumption DEF MinerTypeOK, StartedAs
<1>4. EventLeft' /\ (busy' => Mining' # {})
  BY <1>1, <1>2 DEF EventLeft, StartedAs
<1>5. byHand' => \A v \in Thread : v # w => at'[v] \in {"none", "last"}
  <2> SUFFICES ASSUME byHand', NEW v \in Thread, v # w
               PROVE  at'[v] \in {"none", "last"}
    OBVIOUS
  <2>1. Mining = {}
    BY DEF MinerInv, ByHandOnce
  <2>2. at[v] \in {"none", "last"}
    BY <2>1 DEF Mining, Live
  <2>3. QED BY <1>1, <2>2 DEF StartedAs
<1>6. ByHandOnce'
  <2> SUFFICES ASSUME byHand'
               PROVE  /\ ~auto' /\ AtMostOne' /\ Mining' # {}
                      /\ \A v \in Thread : at'[v] = "hashing" => cancel'[v] = stop'
    BY <1>1 DEF ByHandOnce, StartedAs
  <2>1. Mining' = {w}
    BY <1>2, <1>5 DEF Mining, Live
  <2>2. \A v \in Thread : at'[v] # "hashing"
    BY <1>1, <1>5 DEF StartedAs
  <2>3. QED BY <2>1, <2>2 DEF AtMostOne
<1>7. StaleIsFlagged'
  BY <1>1, <1>5 DEF StaleIsFlagged, StartedAs
<1>8. QED BY <1>3, <1>4, <1>6, <1>7 DEF MinerInv

(* A thread goes on from one place to the next, and mines as before: what  *)
(* is left to show is what the step does to its event and its tip.         *)
LEMMA GoesOn ==
  ASSUME MinerInv, NEW w \in Thread, NEW to \in {"read", "hashing", "found", "given", "done"},
         w \in Mining, at' = [at EXCEPT ![w] = to], UNCHANGED <<control, counts>>,
         \/ UNCHANGED cancel
         \/ at[w] = "read" /\ cancel' = [cancel EXCEPT ![w] = stop],
         to = "hashing" => cancel'[w] = stop,
         \/ UNCHANGED tipSeen /\ to # "read"
         \/ tipSeen' = [tipSeen EXCEPT ![w] = tip] /\ to = "read",
         to = "hashing" => at[w] = "read", to = "found" => at[w] = "hashing"
  PROVE  MinerInv'
<1>1. /\ MinerTypeOK /\ UNCHANGED <<auto, busy, stop, isSet, restarts, tip, handled, commands, byHand>>
      /\ at \in [Thread -> {"none", "new", "read", "hashing", "found", "given", "done", "last"}]
      /\ cancel \in [Thread -> Event \cup {NoEvent}]
      /\ tipSeen \in [Thread -> 0 .. BlockBound]
      /\ tip \in 0 .. BlockBound /\ handled \in 0 .. tip /\ stop \in Event
  BY DEF MinerInv, MinerTypeOK, control, counts
<1>2. /\ at'[w] = to /\ at[w] \notin {"none", "last"}
      /\ \A v \in Thread \ {w} : at'[v] = at[v] /\ cancel'[v] = cancel[v] /\ tipSeen'[v] = tipSeen[v]
  BY <1>1 DEF Mining, Live
<1>3. Mining' = Mining
  BY <1>2 DEF Mining, Live
<1>4. MinerTypeOK'
  BY <1>1 DEF MinerTypeOK
<1>5. EventLeft'
  <2>1. CASE UNCHANGED cancel
    BY <1>1, <2>1 DEF MinerInv, EventLeft
  <2>2. CASE cancel' = [cancel EXCEPT ![w] = stop]
    <3>1. cancel'[w] = stop
      BY <1>1, <2>2
    <3>2. QED BY <1>1, <3>1 DEF EventLeft
  <2>3. QED BY <2>1, <2>2
<1>6. (busy' => Mining' # {}) /\ AtMostOne' = AtMostOne
  BY <1>1, <1>3 DEF MinerInv, AtMostOne
<1>7. ByHandOnce'
  BY <1>1, <1>2, <1>3, <1>6 DEF MinerInv, ByHandOnce
<1>8. StaleIsFlagged'
  <2> SUFFICES ASSUME byHand
               PROVE  to \in {"read", "hashing", "found"} /\ tipSeen'[w] < handled
                        => stop \in isSet
    BY <1>1, <1>2 DEF MinerInv, StaleIsFlagged
  <2>1. CASE to = "read"
    <3>1. tipSeen'[w] = tip
      BY <1>1, <2>1
    <3>2. QED BY <1>1, <2>1, <3>1
  <2>2. CASE to # "read"
    BY <1>1, <2>2 DEF MinerInv, StaleIsFlagged
  <2>3. QED BY <2>1, <2>2
<1>9. QED BY <1>4, <1>5, <1>6, <1>7, <1>8 DEF MinerInv

(* Every step of a thread keeps the invariant. *)
LEMMA WorkerKeeps ==
  ASSUME MinerInv, NEW w \in Thread, Worker(w)
  PROVE  MinerInv'
<1>1. /\ MinerTypeOK
      /\ at \in [Thread -> {"none", "new", "read", "hashing", "found", "given", "done", "last"}]
      /\ cancel \in [Thread -> Event \cup {NoEvent}]
      /\ tipSeen \in [Thread -> 0 .. BlockBound]
  BY DEF MinerInv, MinerTypeOK
<1>2. CASE ReadChain(w)
  BY <1>2, GoesOn DEF ReadChain, Mining, Live
<1>3. CASE Watch(w)
  <2>1. cancel'[w] = stop
    BY <1>1, <1>3 DEF Watch
  <2>2. QED BY <1>3, <2>1, GoesOn DEF Watch, Mining, Live
<1>4. CASE Find(w) \/ Cancelled(w) \/ Submit(w)
  BY <1>4, GoesOn DEF Find, Cancelled, Submit, Mining, Live
<1>5. CASE ClearBusy(w)
  <2>1. /\ at[w] \in {"given", "done"} /\ busy' = FALSE /\ at' = [at EXCEPT ![w] = "last"]
        /\ UNCHANGED <<auto, stop, isSet, cancel, tipSeen>>
        /\ UNCHANGED <<restarts, tip, handled, commands, byHand>>
    BY <1>5 DEF ClearBusy, counts
  <2>2. at'[w] = "last" /\ \A v \in Thread \ {w} : at'[v] = at[v]
    BY <1>1, <2>1
  <2>3. w \in Mining /\ Mining' = Mining \ {w}
    BY <2>1, <2>2 DEF Mining, Live
  <2>4. MinerTypeOK' /\ EventLeft'
    BY <1>1, <2>1 DEF MinerInv, MinerTypeOK, EventLeft
  <2>5. ByHandOnce'
    BY <2>1, <2>2, <2>3 DEF MinerInv, ByHandOnce, AtMostOne
  <2>6. StaleIsFlagged'
    BY <2>1, <2>2 DEF MinerInv, StaleIsFlagged
  <2>7. QED BY <2>1, <2>4, <2>5, <2>6 DEF MinerInv
<1>6. CASE RestartOrEnd(w) /\ auto /\ stop \notin isSet
  <2>1. /\ at[w] = "last" /\ StartAsync({w})
        /\ UNCHANGED <<auto, restarts, tip, handled, commands, byHand>>
    BY <1>6 DEF RestartOrEnd, counts
  <2>2. ~byHand /\ auto \in BOOLEAN /\ byHand \in BOOLEAN
        /\ restarts \in 0 .. restarts /\ commands \in 0 .. CommandBound
    BY <1>6, MinerAssumption DEF MinerInv, ByHandOnce, MinerTypeOK
  <2>3. QED BY <2>1, <2>2, StartKeeps
<1>7. CASE RestartOrEnd(w) /\ ~(auto /\ stop \notin isSet)
  <2>1. /\ at[w] = "last" /\ at' = [at EXCEPT ![w] = "none"]
        /\ cancel' = [cancel EXCEPT ![w] = NoEvent] /\ tipSeen' = [tipSeen EXCEPT ![w] = 0]
        /\ isSet' = isSet \cap ({stop} \cup Watched(Thread \ {w}))
        /\ UNCHANGED <<auto, busy, stop, restarts, tip, handled, commands, byHand>>
    BY <1>7 DEF RestartOrEnd, counts
  <2>2. /\ at'[w] = "none" /\ cancel'[w] = NoEvent
        /\ \A v \in Thread \ {w} : at'[v] = at[v] /\ cancel'[v] = cancel[v] /\ tipSeen'[v] = tipSeen[v]
    BY <1>1, <2>1
  <2>3. Mining' = Mining
    BY <2>1, <2>2 DEF Mining, Live
  <2>4. MinerTypeOK'
    BY <1>1, <2>1, MinerAssumption DEF MinerTypeOK
  <2>5. EventLeft'
    BY <2>2 DEF EventLeft
  <2>6. (busy' => Mining' # {}) /\ ByHandOnce'
    BY <2>1, <2>2, <2>3 DEF MinerInv, ByHandOnce, AtMostOne
  <2>7. StaleIsFlagged'
    <3>1. stop \in isSet => stop' \in isSet'
      BY <2>1
    <3>2. QED BY <2>1, <2>2, <3>1 DEF MinerInv, StaleIsFlagged
  <2>8. QED BY <2>4, <2>5, <2>6, <2>7 DEF MinerInv
<1>8. QED BY <1>2, <1>3, <1>4, <1>5, <1>6, <1>7 DEF Worker

(* Every request, block and late restart keeps the invariant. *)
LEMMA ControlKeeps ==
  ASSUME MinerInv,
         \/ \E on \in BOOLEAN : SetAuto(on)
         \/ MineOnce \/ ChainAdvances \/ OnExternalBlock \/ TryRestart
         \/ UNCHANGED minerVars
  PROVE  MinerInv'
<1>1. /\ MinerTypeOK /\ {} \in SUBSET Thread
      /\ auto \in BOOLEAN /\ byHand \in BOOLEAN /\ busy \in BOOLEAN /\ stop \in Event
      /\ tip \in 0 .. BlockBound /\ handled \in 0 .. tip /\ restarts \in 0 .. handled
      /\ commands \in 0 .. CommandBound /\ CommandBound \in Nat /\ BlockBound \in Nat
  BY MinerAssumption DEF MinerInv, MinerTypeOK
<1>2. ASSUME NEW on \in BOOLEAN, SetAuto(on)
      PROVE  MinerInv'
  <2>1. /\ commands' = commands + 1 /\ commands' \in 0 .. CommandBound
        /\ auto' = on /\ byHand' = (byHand /\ ~on)
        /\ UNCHANGED <<restarts, tip, handled>>
    BY <1>1, <1>2 DEF SetAuto
  <2>2. CASE on /\ ~busy
    <3>1. StartAsync({}) /\ ~byHand'
      BY <1>2, <2>1, <2>2 DEF SetAuto
    <3>2. QED BY <1>1, <2>1, <3>1, StartKeeps
  <2>3. CASE ~(on /\ ~busy)
    <3>1. /\ isSet \subseteq isSet' /\ isSet' \subseteq isSet \cup {stop}
          /\ UNCHANGED <<busy, stop, at, cancel, tipSeen>>
      BY <1>2, <2>3 DEF SetAuto, threads
    <3>2. MinerTypeOK' /\ EventLeft' /\ Mining' = Mining
      BY <1>1, <2>1, <3>1 DEF MinerInv, MinerTypeOK, EventLeft, Mining, Live
    <3>3. ByHandOnce' /\ StaleIsFlagged'
      BY <2>1, <3>1, <3>2 DEF MinerInv, ByHandOnce, AtMostOne, StaleIsFlagged
    <3>4. QED BY <3>1, <3>2, <3>3 DEF MinerInv
  <2>4. QED BY <2>2, <2>3
<1>3. CASE MineOnce /\ ~busy
  <2>1. /\ StartAsync({}) /\ commands' \in 0 .. CommandBound
        /\ UNCHANGED <<auto, restarts, tip, handled, byHand>>
    BY <1>1, <1>3 DEF MineOnce
  <2>2. byHand => ~auto
    BY DEF MinerInv, ByHandOnce
  <2>3. QED BY <1>1, <1>3, <2>1, <2>2, StartKeeps
<1>4. CASE TryRestart /\ auto /\ ~busy
  <2>1. /\ StartAsync({}) /\ restarts' \in 0 .. restarts
        /\ UNCHANGED <<auto, tip, handled, commands, byHand>>
    BY <1>1, <1>4 DEF TryRestart
  <2>2. ~byHand
    BY <1>4 DEF MinerInv, ByHandOnce
  <2>3. QED BY <1>1, <2>1, <2>2, StartKeeps
<1>5. CASE \/ (MineOnce /\ busy) \/ (TryRestart /\ ~(auto /\ ~busy))
           \/ ChainAdvances \/ UNCHANGED minerVars
  <2>1. /\ UNCHANGED <<auto, busy, stop, isSet, at, cancel, tipSeen, handled, byHand>>
        /\ tip' \in 0 .. BlockBound /\ tip' >= tip
        /\ restarts' \in 0 .. restarts /\ commands' \in 0 .. CommandBound
    BY <1>1, <1>5 DEF MineOnce, TryRestart, ChainAdvances, minerVars, control, threads, counts
  <2>2. MinerTypeOK'
    BY <1>1, <2>1 DEF MinerTypeOK
  <2>3. QED BY <2>1, <2>2 DEF MinerInv, EventLeft, ByHandOnce, AtMostOne, StaleIsFlagged,
                             Mining, Live
<1>6. CASE OnExternalBlock
  <2>1. /\ handled' = handled + 1 /\ handled' \in 0 .. tip /\ isSet' = isSet \cup {stop}
        /\ restarts' = restarts + 1
        /\ UNCHANGED <<auto, busy, stop, at, cancel, tipSeen, tip, commands, byHand>>
    BY <1>1, <1>6 DEF OnExternalBlock, threads
  <2>2. MinerTypeOK' /\ EventLeft' /\ Mining' = Mining
    BY <1>1, <2>1 DEF MinerInv, MinerTypeOK, EventLeft, Mining, Live
  <2>3. ByHandOnce'
    BY <2>1, <2>2 DEF MinerInv, ByHandOnce, AtMostOne
  <2>4. StaleIsFlagged'
    BY <2>1 DEF MinerInv, ByHandOnce, StaleIsFlagged
  <2>5. QED BY <2>1, <2>2, <2>3, <2>4 DEF MinerInv
<1>7. QED BY <1>2, <1>3, <1>4, <1>5, <1>6
-----------------------------------------------------------------------------
(* The invariant holds in every behaviour, for any number of threads,      *)
(* events, requests and blocks.                                            *)
THEOREM MinerInvariant == MinerSpec => []MinerInv
<1>1. MinerInit => MinerInv
  <2> SUFFICES ASSUME MinerInit
               PROVE  MinerInv
    OBVIOUS
  <2>1. Event # {}
    BY FS_EmptySet, FS_CardinalityType, MinerAssumption
  <2>2. stop \in Event
    BY <2>1 DEF MinerInit
  <2>3. MinerTypeOK /\ Mining = {}
    <3>1. /\ auto = FALSE /\ busy = FALSE /\ byHand = TRUE /\ isSet = {}
          /\ at = [w \in Thread |-> "none"] /\ cancel = [w \in Thread |-> NoEvent]
          /\ tipSeen = [w \in Thread |-> 0]
          /\ restarts = 0 /\ tip = 0 /\ handled = 0 /\ commands = 0
      BY DEF MinerInit
    <3>2. Mining = {}
      BY <3>1 DEF Mining, Live
    <3>3. /\ tip \in 0 .. BlockBound /\ handled \in 0 .. tip /\ restarts \in 0 .. handled
          /\ commands \in 0 .. CommandBound /\ 0 \in 0 .. BlockBound
      BY <3>1, MinerAssumption
    <3>4. /\ auto \in BOOLEAN /\ busy \in BOOLEAN /\ byHand \in BOOLEAN /\ isSet \subseteq Event
          /\ cancel \in [Thread -> Event \cup {NoEvent}]
      BY <3>1
    <3>5. at \in [Thread -> {"none", "new", "read", "hashing", "found", "given", "done", "last"}]
      BY <3>1
    <3>6. tipSeen \in [Thread -> 0 .. BlockBound]
      BY <3>1, <3>3
    <3>7. QED BY <2>2, <3>2, <3>3, <3>4, <3>5, <3>6 DEF MinerTypeOK
  <2>4. ByHandOnce /\ StaleIsFlagged /\ ~busy
    BY <2>3 DEF MinerInit, ByHandOnce, AtMostOne, StaleIsFlagged
  <2>5. EventLeft
    <3>1. \A v \in Thread : cancel[v] = NoEvent
      BY DEF MinerInit
    <3>2. QED BY <3>1, MinerAssumption DEF EventLeft
  <2>6. QED BY <2>3, <2>4, <2>5 DEF MinerInv
<1>2. MinerInv /\ [MinerNext]_minerVars => MinerInv'
  BY WorkerKeeps, ControlKeeps DEF MinerNext
<1>3. QED BY <1>1, <1>2, PTL DEF MinerSpec

(* Every variable of MinerCtl keeps to its type; there is always an event  *)
(* to be had.                                                              *)
THEOREM MinerTypeCorrect == MinerSpec => []MinerTypeOK
<1>1. MinerInv => MinerTypeOK
  BY DEF MinerInv
<1>2. QED BY <1>1, MinerInvariant, PTL

(* _busy is never left set without a thread, and by hand one thread mines. *)
THEOREM BusyMeansMiningHolds == MinerSpec => []BusyMeansMining
<1>1. MinerInv => BusyMeansMining
  <2> SUFFICES ASSUME MinerInv
               PROVE  BusyMeansMining
    OBVIOUS
  <2>1. IsFiniteSet(Mining) /\ Cardinality(Mining) \in Nat
    BY FS_Subset, FS_CardinalityType, MinerAssumption DEF Mining, Live
  <2>2. AtMostOne => Cardinality(Mining) <= 1
    <3> SUFFICES ASSUME AtMostOne
                 PROVE  Cardinality(Mining) <= 1
      OBVIOUS
    <3>1. CASE Mining = {}
      BY <3>1, FS_EmptySet
    <3>2. CASE Mining # {}
      <4>1. PICK w : Mining = {w}
        BY <3>2 DEF AtMostOne
      <4>2. Cardinality(Mining) = 1
        BY <4>1, FS_Singleton
      <4>3. QED BY <4>2
    <3>3. QED BY <3>1, <3>2
  <2>3. QED BY <2>2 DEF MinerInv, ByHandOnce, BusyMeansMining
<1>2. QED BY <1>1, MinerInvariant, PTL

(* By hand, who hashes on a buried tip has been told to give up.           *)
THEOREM StaleWorkIsCancelledHolds == MinerSpec => []StaleWorkIsCancelled
<1>1. MinerInv => StaleWorkIsCancelled
  BY DEF MinerInv, ByHandOnce, StaleIsFlagged, StaleWorkIsCancelled
<1>2. QED BY <1>1, MinerInvariant, PTL
(* By hand, no block on a tip that is known to be buried is let through.   *)
THEOREM NoStaleBlockHolds == MinerSpec => NoStaleBlock
<1> DEFINE Fresh == \A w \in Thread :
             byHand /\ at[w] = "found" /\ at'[w] = "given" => tipSeen[w] >= handled
<1>1. MinerInv /\ [MinerNext]_minerVars => [Fresh]_minerVars
  <2> SUFFICES ASSUME MinerInv, MinerNext, NEW w \in Thread,
                      byHand, at[w] = "found", at'[w] = "given"
               PROVE  tipSeen[w] >= handled
    OBVIOUS
  <2>1. MinerTypeOK
    BY DEF MinerInv
  <2>2. stop \notin isSet
    <3>1. at \in [Thread -> {"none", "new", "read", "hashing", "found", "given", "done", "last"}]
      BY <2>1 DEF MinerTypeOK
    <3>2. ~UNCHANGED at
      OBVIOUS
    <3>3. ASSUME NEW ending \in SUBSET Thread, StartAsync(ending)
          PROVE  FALSE
      <4>1. at'[w] \in {"new", "none", at[w]}
        BY <3>3 DEF StartAsync
      <4>2. QED BY <4>1
    <3>4. ~(\E on \in BOOLEAN : SetAuto(on)) /\ ~MineOnce /\ ~TryRestart
      BY <3>2, <3>3 DEF SetAuto, MineOnce, TryRestart, threads
    <3>5. ~ChainAdvances /\ ~OnExternalBlock
      BY <3>2 DEF ChainAdvances, OnExternalBlock, threads
    <3>6. PICK v \in Thread : Worker(v)
      BY <3>4, <3>5 DEF MinerNext
    <3>7. CASE v = w
      BY <3>1, <3>3, <3>6, <3>7
         DEF Worker, ReadChain, Watch, Find, Cancelled, Submit, ClearBusy, RestartOrEnd
    <3>8. CASE v # w
      BY <3>1, <3>3, <3>6, <3>8
         DEF Worker, ReadChain, Watch, Find, Cancelled, Submit, ClearBusy, RestartOrEnd
    <3>9. QED BY <3>7, <3>8
  <2>3. tipSeen[w] \in Nat /\ handled \in Nat
    BY <2>1 DEF MinerTypeOK
  <2>4. QED BY <2>2, <2>3 DEF MinerInv, StaleIsFlagged
<1>2. QED BY <1>1, MinerInvariant, PTL DEF MinerSpec, NoStaleBlock
=============================================================================
