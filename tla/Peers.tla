--------------------------------- MODULE Peers ---------------------------------
(***************************************************************************)
(* p2p/app/peers.py: connections, the registry of them by address, and the *)
(* penalties that end in a ban.                                            *)
(*                                                                         *)
(* One thread reads each connection; the listener, HTTP requests, the      *)
(* health monitor, the validator and whoever sends work on the registry    *)
(* too.  They name a peer by its address: the entry they remove is the one *)
(* that is there by then.  A socket closed by another thread does not wake *)
(* the reader in recv, who may still handle what arrives.                  *)
(***************************************************************************)
EXTENDS Integers, FiniteSets, Functions

CONSTANTS
  Addr, NoAddr,  \* "host:port"
  Conn, NoConn,  \* sockets; bound of the model: each is opened once
  AddrOf,        \* the address at the other end of a socket
  Offences,      \* which messages that get their sender a point are sent:
                 \* "flood", "overlong", a bad "BLOCK", a "PING" or PONG
  BanThreshold,  \* MISBEHAVIOR_BAN_THRESHOLD
  MessageBound   \* bound of the model: messages that get their sender a point

ASSUME PeersAssumption ==
  /\ NoAddr \notin Addr /\ NoConn \notin Conn /\ AddrOf \in [Conn -> Addr]
  /\ Offences \subseteq {"flood", "overlong", "BLOCK", "PING"}
  /\ BanThreshold \in Nat \ {0} /\ MessageBound \in Nat

VARIABLES
  registry,    \* _peers: the connection listed for each address
  at,          \* where add and then _recv_loop are for each connection
  displaced,   \* old, in add: the connection the new one takes the place of
  isOpen,      \* sockets not closed at this end
  hungUp,      \* sockets closed at the other end
  closing,     \* sockets taken out of the registry, about to be closed
  silent,      \* connections whose last_seen is older than HEALTH_TIMEOUT
  monitor,     \* the address cleanup_dead is about to remove
  sender,      \* the connection a send_json is about to write to
  toJudge,     \* blocks and PING events of each address in the inbox
  points,      \* _misbehavior
  banned,      \* addresses whose _banned_until is in the future
  costly       \* messages of each address so far that cost a point

conns == <<at, displaced, hungUp>>
helpers == <<silent, monitor, sender>>
penalties == <<toJudge, points, banned, costly>>
peersVars == <<registry, conns, isOpen, closing, helpers, penalties>>

PeersInit ==
  /\ registry = [a \in Addr |-> NoConn]
  /\ at = [c \in Conn |-> "new"] /\ displaced = [c \in Conn |-> NoConn]
  /\ isOpen = {} /\ hungUp = {} /\ closing = {} /\ silent = {}
  /\ monitor = NoAddr /\ sender = NoConn
  /\ toJudge = [a \in Addr |-> 0] /\ points = [a \in Addr |-> 0]
  /\ banned = {} /\ costly = [a \in Addr |-> 0]

Goto(c, place) == at' = [at EXCEPT ![c] = place]
-----------------------------------------------------------------------------
(* remove: pop whatever is listed, and close it once the lock is free.     *)
Remove(a) ==
  /\ registry' = [registry EXCEPT ![a] = NoConn]
  /\ closing' = closing \cup ({registry[a]} \ {NoConn})

(* A socket that remove popped is closed. *)
Close(c) ==
  /\ c \in closing
  /\ closing' = closing \ {c}
  /\ isOpen' = isOpen \ {c}
  /\ UNCHANGED <<registry, conns, helpers, penalties>>

(* Mutation: a report counts twice. *)
ReportTwice(a) ==
  /\ points' = [points EXCEPT ![a] = @ + 2]
  /\ IF points[a] + 2 >= BanThreshold
     THEN /\ banned' = banned \cup {a}
          /\ registry' = [registry EXCEPT ![a] = NoConn]
          /\ isOpen' = isOpen \ {registry[a]}
     ELSE UNCHANGED <<banned, registry, isOpen>>

(* report_misbehavior, all under the lock; points are never taken back.    *)
Report(a) ==
  /\ points' = [points EXCEPT ![a] = @ + 1]
  /\ IF points[a] + 1 >= BanThreshold
     THEN /\ banned' = banned \cup {a}
          /\ registry' = [registry EXCEPT ![a] = NoConn]
          /\ isOpen' = isOpen \ {registry[a]}
     ELSE UNCHANGED <<banned, registry, isOpen>>
-----------------------------------------------------------------------------
(* add: look at the ban without the lock ... *)
Arrive(c) ==
  /\ at[c] = "new"
  /\ IF AddrOf[c] \in banned THEN Goto(c, "gone") /\ UNCHANGED isOpen
     ELSE Goto(c, "checked") /\ isOpen' = isOpen \cup {c}
  /\ UNCHANGED <<registry, displaced, hungUp, closing, helpers, penalties>>

(* ... take the place in the registry ... *)
Register(c) ==
  /\ at[c] = "checked"
  /\ displaced' = [displaced EXCEPT ![c] = registry[AddrOf[c]]]
  /\ registry' = [registry EXCEPT ![AddrOf[c]] = c]
  /\ Goto(c, "listed")
  /\ UNCHANGED <<hungUp, isOpen, closing, helpers, penalties>>

(* Mutation: what was there is left open. *)
StartBeside(c) ==
  /\ at[c] = "listed"
  /\ displaced' = [displaced EXCEPT ![c] = NoConn]
  /\ Goto(c, "reading")
  /\ UNCHANGED <<registry, hungUp, isOpen, closing, helpers, penalties>>

(* ... close what was there, and start the reader. *)
Start(c) ==
  /\ at[c] = "listed"
  /\ isOpen' = isOpen \ {displaced[c]}
  /\ displaced' = [displaced EXCEPT ![c] = NoConn]
  /\ Goto(c, "reading")
  /\ UNCHANGED <<registry, hungUp, closing, helpers, penalties>>

HangUp(c) ==
  /\ at[c] # "new" /\ c \notin hungUp
  /\ hungUp' = hungUp \cup {c}
  /\ UNCHANGED <<registry, at, displaced, isOpen, closing, helpers, penalties>>

(* _recv_loop answers a message.  On a closed socket that fails, on one    *)
(* that hung up it may, and a failure removes whatever is listed.          *)
Answer(c) ==
  \/ c \in isOpen /\ UNCHANGED <<registry, closing>>
  \/ c \notin isOpen \ hungUp /\ Remove(AddrOf[c])

Reading(c) == at[c] = "reading"
Hear(c) == silent' = silent \ {c} /\ UNCHANGED <<monitor, sender>>

Chat(c) ==
  /\ Reading(c)
  /\ Answer(c) /\ Hear(c)
  /\ UNCHANGED <<conns, isOpen, penalties>>

Total(f) == FoldFunction(+, 0, f)
Offend(c, kind) ==
  /\ Reading(c) /\ kind \in Offences
  /\ Total(points) + Total(toJudge) < MessageBound
  /\ costly' = [costly EXCEPT ![AddrOf[c]] = @ + 1]

(* Too many messages in one second: a point for each. *)
Flood(c) ==
  /\ Offend(c, "flood")
  /\ Report(AddrOf[c]) /\ Hear(c)
  /\ UNCHANGED <<conns, closing, toJudge>>

(* A line that does not end: a point, and the connection is removed. *)
Overlong(c) ==
  /\ Offend(c, "overlong")
  /\ Report(AddrOf[c]) /\ Goto(c, "expelled")
  /\ UNCHANGED <<displaced, hungUp, closing, helpers, toJudge>>

Expel(c) ==
  /\ at[c] = "expelled"
  /\ Remove(AddrOf[c]) /\ Goto(c, "leaving")
  /\ isOpen' = isOpen \ {c}
  /\ UNCHANGED <<displaced, hungUp, helpers, penalties>>

(* A bad block goes to the inbox, and so does the event of a PING or PONG, *)
(* which the validator takes for a bad block.                              *)
ToInbox(c, kind) ==
  /\ kind \in {"BLOCK", "PING"} /\ Offend(c, kind)
  /\ toJudge' = [toJudge EXCEPT ![AddrOf[c]] = @ + 1]
  /\ Answer(c) /\ Hear(c)
  /\ UNCHANGED <<conns, isOpen, points, banned>>

(* The end of the loop: end of file, or recv on a closed socket.  The      *)
(* socket is closed, then whatever is listed for the address is removed.   *)
Leave(c) ==
  /\ at[c] = "reading" /\ (c \in hungUp \/ c \notin isOpen)
  /\ isOpen' = isOpen \ {c} /\ Goto(c, "leaving")
  /\ UNCHANGED <<registry, displaced, hungUp, closing, helpers, penalties>>

(* Mutation: the entry stays. *)
FinishListed(c) ==
  /\ at[c] = "leaving" /\ Goto(c, "gone")
  /\ UNCHANGED <<registry, displaced, hungUp, isOpen, closing, helpers, penalties>>

Finish(c) ==
  /\ at[c] = "leaving"
  /\ Remove(AddrOf[c]) /\ Goto(c, "gone")
  /\ UNCHANGED <<displaced, hungUp, isOpen, helpers, penalties>>
-----------------------------------------------------------------------------
(* The validator refuses what came from an address. *)
Refuse(a) ==
  /\ toJudge[a] > 0 /\ toJudge' = [toJudge EXCEPT ![a] = @ - 1]
  /\ Report(a)
  /\ UNCHANGED <<conns, closing, helpers, costly>>

Unban(a) ==
  /\ a \in banned /\ banned' = banned \ {a}
  /\ UNCHANGED <<registry, conns, isOpen, closing, helpers, toJudge, points, costly>>

(* Time goes by without a word on a listed connection.                     *)
FallSilent(c) ==
  /\ registry[AddrOf[c]] = c /\ c \notin silent
  /\ silent' = silent \cup {c}
  /\ UNCHANGED <<registry, conns, isOpen, closing, monitor, sender, penalties>>

(* cleanup_dead: find a silent connection in a copy of the registry, then  *)
(* remove its address.                                                     *)
FindDead(a) ==
  /\ monitor = NoAddr /\ registry[a] \in silent
  /\ monitor' = a
  /\ UNCHANGED <<registry, conns, isOpen, closing, silent, sender, penalties>>

RemoveDead ==
  /\ monitor # NoAddr
  /\ Remove(monitor) /\ monitor' = NoAddr
  /\ UNCHANGED <<conns, isOpen, silent, sender, penalties>>

(* send_json: look the address up, then write; a failure removes it.  What *)
(* is written to a socket that hung up may still be taken.                 *)
Lookup(a) ==
  /\ sender = NoConn /\ registry[a] # NoConn
  /\ sender' = registry[a]
  /\ UNCHANGED <<registry, conns, isOpen, closing, silent, monitor, penalties>>

Write ==
  /\ sender # NoConn /\ sender' = NoConn
  /\ \/ sender \in isOpen /\ UNCHANGED <<registry, closing>>
     \/ sender \notin isOpen \ hungUp /\ Remove(AddrOf[sender])
  /\ UNCHANGED <<conns, isOpen, silent, monitor, penalties>>

(* /api/disconnect *)
Disconnect(a) ==
  /\ registry[a] # NoConn /\ Remove(a)
  /\ UNCHANGED <<conns, isOpen, helpers, penalties>>

Ends(c) == Leave(c) \/ Expel(c) \/ Finish(c)

PeersNext ==
  \/ \E c \in Conn :
       \/ Arrive(c) \/ Register(c) \/ Start(c) \/ HangUp(c)
       \/ Chat(c) \/ Flood(c) \/ Overlong(c)
       \/ \E kind \in Offences : ToInbox(c, kind)
       \/ Ends(c) \/ Close(c) \/ FallSilent(c)
  \/ \E a \in Addr : Refuse(a) \/ Unban(a) \/ FindDead(a) \/ Lookup(a) \/ Disconnect(a)
  \/ RemoveDead \/ Write

PeersSpec == PeersInit /\ [][PeersNext]_peersVars

(* Threads are not suspended for ever.  A reader whose socket was closed   *)
(* gets out of recv with the next thing that arrives: the other end sends  *)
(* its health check, or hangs up.                                          *)
PeersFairSpec ==
  /\ PeersSpec
  /\ \A c \in Conn : /\ WF_peersVars(Register(c)) /\ WF_peersVars(Start(c))
                     /\ WF_peersVars(Close(c)) /\ WF_peersVars(Ends(c))
-----------------------------------------------------------------------------
PeersTypeOK ==
  /\ registry \in [Addr -> Conn \cup {NoConn}]
  /\ at \in [Conn -> {"new", "checked", "listed", "reading", "expelled", "leaving", "gone"}]
  /\ displaced \in [Conn -> Conn \cup {NoConn}]
  /\ isOpen \cup hungUp \cup closing \cup silent \subseteq Conn
  /\ monitor \in Addr \cup {NoAddr} /\ sender \in Conn \cup {NoConn}
  /\ toJudge \in [Addr -> Nat] /\ points \in [Addr -> Nat] /\ costly \in [Addr -> Nat]
  /\ banned \subseteq Addr

(* What is listed has a thread that reads it, or is about to: blocks are   *)
(* never broadcast for ever to a connection whose reader is gone.          *)
ListedIsRead ==
  \A a \in Addr : registry[a] # NoConn =>
    AddrOf[registry[a]] = a /\ at[registry[a]] \in {"listed", "reading", "expelled", "leaving"}

(* What is read is listed, or somebody is about to close it: there is no   *)
(* connection that can send to the node and that no health check, no ban   *)
(* and no disconnect can reach, whatever replaced or removed its entry.    *)
ReadIsListed ==
  \A c \in isOpen : at[c] = "reading" =>
    \/ registry[AddrOf[c]] = c \/ c \in closing
    \/ \E d \in Conn : at[d] = "listed" /\ displaced[d] = c

(* A connection that lost its place in the registry comes to an end. *)
UnlistedEnds ==
  \A c \in Conn : (at[c] = "reading" /\ registry[AddrOf[c]] # c) ~> (at[c] = "gone")

(* Points are what bans are made of: each message that costs one costs      *)
(* exactly one, whether the reader gives it at once or the validator later, *)
(* and whatever connection of the address it came by; a ban takes           *)
(* BanThreshold of them.  It is not "nobody is banned who did not offend":  *)
(* PINGs alone get their sender banned.                                     *)
BanIsEarned ==
  \A a \in Addr : /\ points[a] + toJudge[a] = costly[a]
                  /\ a \in banned => points[a] >= BanThreshold
=============================================================================
