--------------------------------- MODULE Sync ---------------------------------
(***************************************************************************)
(* How connected nodes bring their chains together: connect and the        *)
(* messages of peers.py that ask for blocks, the fork height of inbox.py,  *)
(* and the reactor's broadcast of the blocks that entered the main chain.  *)
(*                                                                         *)
(* A connection is a pair of FIFO streams; one action is one message       *)
(* handled: head and recent blocks are read together, and the blocks asked *)
(* for are sent in one go.  All blocks are good, and a block is accepted   *)
(* in the step that receives it: Node has the queue, the verdicts and the  *)
(* race with the reactor.                                                  *)
(* Of the chain a node keeps what NodeProofs shows Chain keeps: indexed    *)
(* blocks, orphans, and the lineage of a heaviest indexed block.           *)
(***************************************************************************)
EXTENDS BlockTree, FiniteSets, FiniteSetsExt

CONSTANTS
  Node,
  Dial,         \* the pairs <<m, n>> such that m may connect to n
  FirstTip,     \* the tip of each node before any connection
  Miner,        \* the node that can find a block
  HostOf,       \* the host in a node's address
  Self,         \* the origin "self" of a block the node mined
  Oversize,     \* the blocks whose message is longer than MAX_LINE_BYTES
  Window,       \* how many blocks CHAIN_HEAD lists: 64
  LocalWindow,  \* how many of its own they are looked up in: 256
  RateLimit     \* RATE_LIMIT_MSGS_PER_SEC; bound of the model: all that
                \* happens in an instance happens within one second

ASSUME SyncAssumption ==
  /\ Dial \subseteq Node \X Node
  /\ FirstTip \in [Node -> Block] /\ Miner \in [Block \ Root -> Node]
  /\ Self \notin Node /\ Oversize \subseteq Block
  /\ Window \in Nat \ {0} /\ LocalWindow \in Nat \ {0} /\ RateLimit \in Nat

VARIABLES
  known,    \* the keys of _index, at each node
  orphans,  \* the blocks in _orphans_by_parent
  tip,      \* _best_tip
  entered,  \* Inbox._entered: what the reactor will broadcast, with its origin
  linked,   \* the connected pairs, in both directions
  wire,     \* wire[<<m, n>>]: what m sent to n and n has not read
  heard,    \* _rate_bucket: messages of m that n read in this second
  missed    \* history: the pairs <<m, n>> such that n passed over what m
            \* said, or m left n out (Over, Skips, LeftOut)

blocks == <<known, orphans, tip, entered>>
syncVars == <<blocks, linked, wire, heard, missed>>

Pair == Node \X Node
chain(n) == Lineage[tip[n]]
HeightAt(n) == HeightOf(tip[n])

SyncInit ==
  /\ known = [n \in Node |-> Ancestry(FirstTip[n])]
  /\ orphans = [n \in Node |-> {}]
  /\ tip = FirstTip
  /\ entered = [n \in Node |-> <<>>]
  /\ linked = {} /\ wire = [p \in Pair |-> <<>>] /\ heard = [p \in Pair |-> 0]
  /\ missed = {}
-----------------------------------------------------------------------------
(* chain_recent: the last blocks of the main chain, with their heights.    *)
Recent(n, count) == {b \in Ancestry(tip[n]) : HeightOf(b) > HeightAt(n) - count}

(* _find_fork_height: the highest block of the peer that is on the own     *)
(* main chain; if there is none, one below the lowest the peer listed.     *)
ForkHeight(n, recent) ==
  LET common == {HeightOf(b) : b \in recent \cap Recent(n, LocalWindow)}
  IN  IF common # {} THEN Max(common) ELSE Min({HeightOf(b) : b \in recent}) - 1

Plain(type) == [type |-> type]

(* send_json_line: a message that is too long is replaced. *)
BlockMsg(b) ==
  IF b \in Oversize THEN Plain("ECHO") ELSE [type |-> "BLOCK", payload |-> b]

ChainHead(n) ==
  [type |-> "CHAIN_HEAD", height |-> HeightAt(n), hash |-> tip[n],
   recent |-> Recent(n, Window)]

(* CHAIN_HEAD is followed up when it names a higher block, or another one  *)
(* of the same height.                                                     *)
Wants(n, msg) ==
  \/ msg.height > HeightAt(n)
  \/ msg.height = HeightAt(n) /\ msg.hash # tip[n]

(* A head that names a block n lacks is passed over, or asked for from the *)
(* lowest of the listed blocks because none of them is on n's chain.       *)
Skips(n, msg) ==
  /\ msg.hash \notin known[n]
  /\ Wants(n, msg) => msg.recent \cap Recent(n, LocalWindow) = {}

(* The main chain strictly above one height, up to another. *)
BlocksFrom(n, from, to) ==
  [i \in 1..Min({to, HeightAt(n)}) - from |-> BlockMsg(chain(n)[from + 1 + i])]
-----------------------------------------------------------------------------
(* The orphans that b brings along. *)
Released(n, b) ==
  {o \in orphans[n] : b \in Ancestry(o) /\ Ancestry(o) \ Ancestry(b) \subseteq orphans[n]}

(* Mutation: of a new branch only the tip. *)
AboveTip(x, y) == <<x>>

(* The blocks of one branch above its fork with another. *)
Above(x, y) ==
  SubSeq(Lineage[x], Cardinality(Ancestry(x) \cap Ancestry(y)) + 1, Len(Lineage[x]))

(* accept_block and what _validator_loop publishes of it: a block whose    *)
(* parent is missing waits; another one is indexed with the orphans it     *)
(* releases, and the blocks that enter the main chain are published with   *)
(* their origin.  Of several heaviest the first indexed is taken; the      *)
(* choice is left open.                                                    *)
AcceptFrom(origin, n, b) ==
  IF b \in known[n] \cup orphans[n] THEN UNCHANGED blocks
  ELSE IF b \notin Root /\ Parent[b] \notin known[n]
  THEN /\ orphans' = [orphans EXCEPT ![n] = @ \cup {b}]
       /\ UNCHANGED <<known, tip, entered>>
  ELSE LET new  == {b} \cup Released(n, b)
           best == {x \in new : \A y \in new : ChainWork[y] <= ChainWork[x]}
       IN  /\ known' = [known EXCEPT ![n] = @ \cup new]
           /\ orphans' = [orphans EXCEPT ![n] = @ \ new]
           /\ \E x \in best :
                IF ChainWork[x] <= ChainWork[tip[n]] THEN UNCHANGED <<tip, entered>>
                ELSE LET path == Above(x, tip[n])
                     IN  /\ tip' = [tip EXCEPT ![n] = x]
                         /\ entered' = [entered EXCEPT ![n] =
                              @ \o [i \in DOMAIN path |-> [origin |-> origin, block |-> path[i]]]]
-----------------------------------------------------------------------------
(* Mutation: only the end that dials knows of the connection. *)
ConnectOneWay(m, n) ==
  /\ <<m, n>> \in Dial \ linked
  /\ linked' = linked \cup {<<m, n>>}
  /\ wire' = [wire EXCEPT ![<<m, n>>] = <<Plain("HELLO"), Plain("GET_CHAIN_HEAD")>>]
  /\ UNCHANGED <<blocks, heard, missed>>

(* connect, at the end that dials; the listener of the other only adds it. *)
Connect(m, n) ==
  /\ <<m, n>> \in Dial \ linked
  /\ linked' = linked \cup {<<m, n>>, <<n, m>>}
  /\ wire' = [wire EXCEPT ![<<m, n>>] =
                 <<Plain("HELLO"), Plain("HEALTHCHECK"), Plain("GET_CHAIN_HEAD")>>]
  /\ UNCHANGED <<blocks, heard, missed>>

Incoming(m, n) == Head(wire[<<m, n>>])
Over(m, n) == heard[<<m, n>>] >= RateLimit

(* _recv_loop of n reads the next message of m, of one of some types, and  *)
(* answers; over the rate limit it is dropped unread.                      *)
Answer(m, n, types, reply) ==
  /\ wire[<<m, n>>] # <<>> /\ Incoming(m, n).type \in types
  /\ heard' = [heard EXCEPT ![<<m, n>>] = @ + 1]
  /\ wire' = [wire EXCEPT ![<<m, n>>] = Tail(@),
                          ![<<n, m>>] = @ \o IF Over(m, n) THEN <<>> ELSE reply]
  /\ missed' = missed \cup
       (IF Over(m, n) THEN {<<m, n>>, <<n, m>>}
        ELSE {p \in {<<m, n>>} : Incoming(m, n).type = "CHAIN_HEAD" /\ Skips(n, Incoming(m, n))})
  /\ UNCHANGED linked

OnHello(m, n) ==
  /\ Answer(m, n, {"HELLO"}, <<Plain("HELLO-ACK"), Plain("GET_CHAIN_HEAD")>>)
  /\ UNCHANGED blocks

OnHealthcheck(m, n) ==
  Answer(m, n, {"HEALTHCHECK"}, <<Plain("HEALTHACK")>>) /\ UNCHANGED blocks

(* DATA-ACK is not a type the loop knows: it is echoed. *)
OnDataAck(m, n) == Answer(m, n, {"DATA-ACK"}, <<Plain("ECHO")>>) /\ UNCHANGED blocks

OnSilent(m, n) ==
  Answer(m, n, {"HELLO-ACK", "HEALTHACK", "ECHO"}, <<>>) /\ UNCHANGED blocks

OnGetChainHead(m, n) ==
  Answer(m, n, {"GET_CHAIN_HEAD"}, <<ChainHead(n)>>) /\ UNCHANGED blocks

OnChainHead(m, n) ==
  /\ Answer(m, n, {"CHAIN_HEAD"},
            IF Wants(n, Incoming(m, n))
            THEN <<[type |-> "GET_BLOCKS_FROM", from |-> ForkHeight(n, Incoming(m, n).recent),
                    to |-> Incoming(m, n).height]>>
            ELSE <<>>)
  /\ UNCHANGED blocks

OnGetBlocksFrom(m, n) ==
  /\ Answer(m, n, {"GET_BLOCKS_FROM"}, BlocksFrom(n, Incoming(m, n).from, Incoming(m, n).to))
  /\ UNCHANGED blocks

OnBlock(m, n) ==
  /\ Answer(m, n, {"BLOCK"}, <<Plain("DATA-ACK")>>)
  /\ IF Over(m, n) THEN UNCHANGED blocks ELSE AcceptFrom(m, n, Incoming(m, n).payload)

(* A node finds a block on its tip, which enters its chain as from "self". *)
Mine(n, b) ==
  /\ Miner[b] = n /\ Parent[b] = tip[n] /\ b \notin known[n]
  /\ AcceptFrom(Self, n, b)
  /\ UNCHANGED <<linked, wire, heard, missed>>

(* broadcast_json_except: whom a node sends an entered block, all peers    *)
(* but those on the host that it came from; "self" is nobody's host.       *)
SentTo(n, origin) ==
  {p \in linked : p[1] = n /\ (origin # Self => HostOf[p[2]] # HostOf[origin])}

(* Whom that leaves without the block although it lacks it. *)
LeftOut(n) ==
  LET e == Head(entered[n])
  IN  {p \in linked \ SentTo(n, e.origin) : p[1] = n /\ e.block \notin known[p[2]]}

(* Mutation: a block is kept until there is somebody to send it to.        *)
RelayToSomebody(n) ==
  /\ entered[n] # <<>> /\ SentTo(n, Head(entered[n]).origin) # {}
  /\ entered' = [entered EXCEPT ![n] = Tail(@)]
  /\ wire' = [p \in Pair |-> IF p \in SentTo(n, Head(entered[n]).origin)
                             THEN Append(wire[p], BlockMsg(Head(entered[n]).block)) ELSE wire[p]]
  /\ missed' = missed \cup LeftOut(n)
  /\ UNCHANGED <<known, orphans, tip, linked, heard>>

(* The reactor broadcasts an entered block.                                *)
Relay(n) ==
  /\ entered[n] # <<>>
  /\ entered' = [entered EXCEPT ![n] = Tail(@)]
  /\ LET e == Head(entered[n]) IN
       wire' = [p \in Pair |-> IF p \in SentTo(n, e.origin)
                               THEN Append(wire[p], BlockMsg(e.block)) ELSE wire[p]]
  /\ missed' = missed \cup LeftOut(n)
  /\ UNCHANGED <<known, orphans, tip, linked, heard>>

Receive(m, n) ==
  \/ OnHello(m, n) \/ OnHealthcheck(m, n) \/ OnDataAck(m, n) \/ OnSilent(m, n)
  \/ OnGetChainHead(m, n) \/ OnChainHead(m, n) \/ OnGetBlocksFrom(m, n) \/ OnBlock(m, n)

SyncNext ==
  \/ \E m, n \in Node : Connect(m, n) \/ Receive(m, n)
  \/ \E n \in Node : Relay(n) \/ \E b \in Block \ Root : Mine(n, b)

SyncSpec == SyncInit /\ [][SyncNext]_syncVars

(* Receive threads and reactors are not suspended; nobody must connect or  *)
(* find a block.                                                           *)
SyncFairSpec ==
  /\ SyncSpec
  /\ \A m, n \in Node : WF_syncVars(Receive(m, n))
  /\ \A n \in Node : WF_syncVars(Relay(n))
-----------------------------------------------------------------------------
SyncTypeOK ==
  /\ known \in [Node -> SUBSET Block] /\ orphans \in [Node -> SUBSET Block]
  /\ \A n \in Node : tip[n] \in known[n] /\ known[n] \cap orphans[n] = {}
  /\ \A n \in Node : \A e \in Range(entered[n]) : e.origin \in Node \cup {Self} /\ e.block \in known[n]
  /\ linked \subseteq Pair
  /\ \A p \in Pair : wire[p] # <<>> => p \in linked
  /\ heard \in [Pair -> Nat] /\ missed \subseteq Pair

(* Nothing is on its way between the nodes. *)
Quiet == \A n \in Node : entered[n] = <<>> /\ \A m \in Node : wire[<<m, n>>] = <<>>

(* README "peer management (connections, healthcheck, chain                *)
(* synchronization": once nothing is on its way, connected nodes have      *)
(* chains of equal work.                                                   *)
LinkedNodesAgree ==
  Quiet => \A p \in linked : ChainWork[tip[p[1]]] = ChainWork[tip[p[2]]]

(* What the code achieves of it: once nothing is on its way, a node has    *)
(* all of a peer's chain up to the first block too long for a message,     *)
(* unless it passed over what the peer said or the peer left it out -      *)
(* however forks, connections, requests, new blocks and relays overlapped. *)
(* (Orphans of a branch that the peer has left since may stay: nothing     *)
(* asks for a missing parent.)                                             *)
PeersCatchUp ==
  Quiet => \A m, n \in Node : <<m, n>> \in linked \ missed =>
             \A b \in Ancestry(tip[m]) : Ancestry(b) \cap Oversize = {} => b \in known[n]

(* Asking and relaying come to an end, also between branches of the same   *)
(* work, which are asked for again and again while the hashes differ.      *)
ComesToRest == []<>Quiet
=============================================================================
