------------------------------ MODULE PeersProofs ------------------------------
(***************************************************************************)
(* Proofs about Peers, for any number of addresses and connections: the    *)
(* types, that what is listed is read, that what is read can be reached,   *)
(* and that points and bans are made of messages that cost a point.         *)
(***************************************************************************)
EXTENDS Peers, TLAPS

(* A connection that is listed or read is in the registry, or somebody is  *)
(* about to close it.                                                      *)
InReach(c) ==
  \/ registry[AddrOf[c]] = c \/ c \in closing
  \/ \E d \in Conn : at[d] = "listed" /\ displaced[d] = c

(* ReadIsListed from the moment a connection takes its place: before that  *)
(* its reader does not run.                                                *)
StartedInReach == \A c \in isOpen : at[c] \in {"listed", "reading"} => InReach(c)

(* The inductive invariant of the registry. *)
PeersInv == PeersTypeOK /\ ListedIsRead /\ StartedInReach

(* remove takes one entry away and hands its socket over to be closed.     *)
LEMMA RemoveKeeps ==
  ASSUME PeersInv, NEW a \in Addr, Remove(a), isOpen' \subseteq isOpen,
         UNCHANGED <<at, displaced>>
  PROVE  ListedIsRead' /\ StartedInReach'
<1>1. /\ registry' = [registry EXCEPT ![a] = NoConn]
      /\ closing' = closing \cup ({registry[a]} \ {NoConn})
      /\ registry \in [Addr -> Conn \cup {NoConn}] /\ isOpen \subseteq Conn
      /\ at' = at /\ displaced' = displaced
  BY DEF Remove, PeersInv, PeersTypeOK
<1>2. ListedIsRead'
  BY <1>1 DEF PeersInv, ListedIsRead
<1>3. StartedInReach'
  <2> SUFFICES ASSUME NEW c \in isOpen', at[c] \in {"listed", "reading"}
               PROVE  InReach(c)'
    BY <1>1 DEF StartedInReach
  <2>1. InReach(c) /\ c \in Conn /\ c # NoConn /\ AddrOf[c] \in Addr
    BY <1>1, PeersAssumption DEF PeersInv, StartedInReach
  <2>2. CASE registry[AddrOf[c]] = c
    BY <1>1, <2>1, <2>2 DEF InReach
  <2>3. CASE registry[AddrOf[c]] # c
    BY <1>1, <2>1, <2>3 DEF InReach
  <2>4. QED BY <2>2, <2>3
<1>4. QED BY <1>2, <1>3

(* What leaves the registry, places and sockets alone keeps the invariant. *)
LEMMA QuietKeeps ==
  ASSUME PeersInv, UNCHANGED <<registry, displaced, at>>,
         isOpen' \subseteq isOpen, closing \ closing' \subseteq Conn \ isOpen'
  PROVE  ListedIsRead' /\ StartedInReach'
BY DEF PeersInv, PeersTypeOK, ListedIsRead, StartedInReach, InReach

(* A report takes the entry away and closes its socket, or does neither.   *)
LEMMA ReportKeeps ==
  ASSUME PeersInv, NEW a \in Addr, Report(a), UNCHANGED <<at, displaced, closing>>
  PROVE  ListedIsRead' /\ StartedInReach'
<1>1. CASE UNCHANGED <<registry, isOpen>>
  BY <1>1, QuietKeeps
<1>2. CASE /\ registry' = [registry EXCEPT ![a] = NoConn]
           /\ isOpen' = isOpen \ {registry[a]}
  <2>1. registry \in [Addr -> Conn \cup {NoConn}] /\ isOpen \subseteq Conn
    BY DEF PeersInv, PeersTypeOK
  <2>2. ListedIsRead'
    BY <1>2, <2>1 DEF PeersInv, ListedIsRead
  <2>3. StartedInReach'
    BY <1>2, <2>1, PeersAssumption DEF PeersInv, StartedInReach, InReach
  <2>4. QED BY <2>2, <2>3
<1>3. QED BY <1>1, <1>2 DEF Report

(* Every step keeps the types. *)
LEMMA TypesAreKept == PeersTypeOK /\ [PeersNext]_peersVars => PeersTypeOK'
<1> SUFFICES ASSUME PeersTypeOK, [PeersNext]_peersVars
             PROVE  PeersTypeOK'
  OBVIOUS
<1> USE PeersAssumption DEF PeersTypeOK
<1>1. ASSUME NEW c \in Conn,
             \/ Arrive(c) \/ Register(c) \/ Start(c) \/ HangUp(c)
             \/ Chat(c) \/ Flood(c) \/ Overlong(c)
             \/ \E kind \in Offences : ToInbox(c, kind)
             \/ Ends(c) \/ Close(c) \/ FallSilent(c)
      PROVE  PeersTypeOK'
  <2>1. CASE Arrive(c)
    BY <2>1 DEF Arrive, Goto, helpers, penalties
  <2>2. CASE Register(c)
    BY <2>2 DEF Register, Goto, helpers, penalties
  <2>3. CASE Start(c)
    BY <2>3 DEF Start, Goto, helpers, penalties
  <2>4. CASE HangUp(c)
    BY <2>4 DEF HangUp, helpers, penalties
  <2>5. CASE Chat(c)
    BY <2>5 DEF Chat, Answer, Remove, Hear, conns, penalties
  <2>6. CASE Flood(c)
    BY <2>6 DEF Flood, Offend, Report, Hear, conns
  <2>7. CASE Overlong(c)
    BY <2>7 DEF Overlong, Offend, Report, Goto, helpers
  <2>8. CASE \E kind \in Offences : ToInbox(c, kind)
    BY <2>8 DEF ToInbox, Offend, Answer, Remove, Hear, conns
  <2>9. CASE Leave(c)
    BY <2>9 DEF Leave, Goto, helpers, penalties
  <2>10. CASE Expel(c)
    BY <2>10 DEF Expel, Remove, Goto, helpers, penalties
  <2>11. CASE Finish(c)
    BY <2>11 DEF Finish, Remove, Goto, helpers, penalties
  <2>12. CASE Close(c)
    BY <2>12 DEF Close, conns, helpers, penalties
  <2>13. CASE FallSilent(c)
    BY <2>13 DEF FallSilent, conns, penalties
  <2>14. QED BY <1>1, <2>1, <2>2, <2>3, <2>4, <2>5, <2>6, <2>7, <2>8, <2>9, <2>10, <2>11, <2>12, <2>13 DEF Ends
<1>2. ASSUME NEW a \in Addr,
             Refuse(a) \/ Unban(a) \/ FindDead(a) \/ Lookup(a) \/ Disconnect(a)
      PROVE  PeersTypeOK'
  <2>1. CASE Refuse(a)
    BY <2>1 DEF Refuse, Report, conns, helpers
  <2>2. CASE Unban(a)
    BY <2>2 DEF Unban, conns, helpers
  <2>3. CASE FindDead(a)
    BY <2>3 DEF FindDead, conns, penalties
  <2>4. CASE Lookup(a)
    BY <2>4 DEF Lookup, conns, penalties
  <2>5. CASE Disconnect(a)
    BY <2>5 DEF Disconnect, Remove, conns, helpers, penalties
  <2>6. QED BY <1>2, <2>1, <2>2, <2>3, <2>4, <2>5
<1>3. CASE RemoveDead
  BY <1>3 DEF RemoveDead, Remove, conns, penalties
<1>4. CASE Write
  BY <1>4 DEF Write, Remove, conns, penalties
<1>5. CASE UNCHANGED peersVars
  BY <1>5 DEF peersVars, conns, helpers, penalties
<1>6. QED BY <1>1, <1>2, <1>3, <1>4, <1>5 DEF PeersNext

(* Every step keeps what is listed read, and what is started in reach.     *)
LEMMA RegistryIsKept == PeersInv /\ [PeersNext]_peersVars => ListedIsRead' /\ StartedInReach'
<1> SUFFICES ASSUME PeersInv, [PeersNext]_peersVars
             PROVE  ListedIsRead' /\ StartedInReach'
  OBVIOUS
<1> USE PeersAssumption
<1>1. ASSUME NEW c \in Conn,
             \/ Arrive(c) \/ Register(c) \/ Start(c) \/ HangUp(c)
             \/ Chat(c) \/ Flood(c) \/ Overlong(c)
             \/ \E kind \in Offences : ToInbox(c, kind)
             \/ Ends(c) \/ Close(c) \/ FallSilent(c)
      PROVE  ListedIsRead' /\ StartedInReach'
  <2>1. CASE Arrive(c)
    BY <2>1 DEF Arrive, Goto, PeersInv, PeersTypeOK, ListedIsRead, StartedInReach, InReach
  <2>2. CASE Register(c)
    BY <2>2 DEF Register, Goto, PeersInv, PeersTypeOK, ListedIsRead, StartedInReach, InReach
  <2>3. CASE Start(c)
    BY <2>3 DEF Start, Goto, PeersInv, PeersTypeOK, ListedIsRead, StartedInReach, InReach
  <2>4. CASE HangUp(c) \/ FallSilent(c)
    BY <2>4, QuietKeeps DEF HangUp, FallSilent, conns
  <2>5. CASE Chat(c) \/ \E kind \in Offences : ToInbox(c, kind)
    <3>1. UNCHANGED <<registry, closing>> \/ Remove(AddrOf[c])
      BY <2>5 DEF Chat, ToInbox, Answer
    <3>2. UNCHANGED <<at, displaced, isOpen>>
      BY <2>5 DEF Chat, ToInbox, conns
    <3>3. QED BY <3>1, <3>2, RemoveKeeps, QuietKeeps
  <2>6. CASE Flood(c)
    BY <2>6, ReportKeeps DEF Flood, conns
  <2>7. CASE Overlong(c)
    BY <2>7 DEF Overlong, Offend, Reading, Report, Goto, PeersInv, PeersTypeOK, ListedIsRead,
                StartedInReach, InReach
  <2>8. CASE Expel(c) \/ Finish(c)
    BY <2>8 DEF Expel, Finish, Remove, Goto, PeersInv, PeersTypeOK, ListedIsRead,
                StartedInReach, InReach
  <2>9. CASE Leave(c)
    BY <2>9 DEF Leave, Goto, PeersInv, PeersTypeOK, ListedIsRead, StartedInReach, InReach
  <2>10. CASE Close(c)
    BY <2>10, QuietKeeps DEF Close, conns
  <2>11. QED BY <1>1, <2>1, <2>2, <2>3, <2>4, <2>5, <2>6, <2>7, <2>8, <2>9, <2>10 DEF Ends
<1>2. ASSUME NEW a \in Addr,
             Refuse(a) \/ Unban(a) \/ FindDead(a) \/ Lookup(a) \/ Disconnect(a)
      PROVE  ListedIsRead' /\ StartedInReach'
  <2>1. CASE Refuse(a)
    BY <2>1, ReportKeeps DEF Refuse, conns
  <2>2. CASE Unban(a) \/ FindDead(a) \/ Lookup(a)
    BY <2>2, QuietKeeps DEF Unban, FindDead, Lookup, conns
  <2>3. CASE Disconnect(a)
    BY <2>3, RemoveKeeps DEF Disconnect, conns
  <2>4. QED BY <1>2, <2>1, <2>2, <2>3
<1>3. CASE RemoveDead
  <2>1. monitor \in Addr /\ Remove(monitor) /\ UNCHANGED <<at, displaced, isOpen>>
    BY <1>3 DEF RemoveDead, conns, PeersInv, PeersTypeOK
  <2>2. QED BY <2>1, RemoveKeeps
<1>4. CASE Write
  <2>1. UNCHANGED <<at, displaced, isOpen>>
    BY <1>4 DEF Write, conns
  <2>2. CASE UNCHANGED <<registry, closing>>
    BY <2>1, <2>2, QuietKeeps
  <2>3. CASE Remove(AddrOf[sender])
    <3>1. AddrOf[sender] \in Addr
      BY <1>4 DEF Write, PeersInv, PeersTypeOK
    <3>2. QED BY <2>1, <2>3, <3>1, RemoveKeeps
  <2>4. QED BY <1>4, <2>2, <2>3 DEF Write
<1>5. CASE UNCHANGED peersVars
  BY <1>5, QuietKeeps DEF peersVars, conns
<1>6. QED BY <1>1, <1>2, <1>3, <1>4, <1>5 DEF PeersNext

(* The invariant holds in every behaviour, for any addresses and           *)
(* connections.                                                            *)
THEOREM PeersInvariant == PeersSpec => []PeersInv
<1>1. PeersInit => PeersInv
  BY PeersAssumption DEF PeersInit, PeersInv, PeersTypeOK, ListedIsRead, StartedInReach
<1>2. PeersInv /\ [PeersNext]_peersVars => PeersInv'
  BY TypesAreKept, RegistryIsKept DEF PeersInv
<1>3. QED BY <1>1, <1>2, PTL DEF PeersSpec

(* Whatever threads replace, remove or ban meanwhile, what is listed has a *)
(* thread that reads it.                                                   *)
THEOREM ListedIsReadHolds == PeersSpec => []ListedIsRead
<1>1. PeersInv => ListedIsRead
  BY DEF PeersInv
<1>2. QED BY <1>1, PeersInvariant, PTL

(* ... and what is read is listed or about to be closed.                   *)
THEOREM ReadIsListedHolds == PeersSpec => []ReadIsListed
<1>1. PeersInv => ReadIsListed
  BY DEF PeersInv, StartedInReach, InReach, ReadIsListed
<1>2. QED BY <1>1, PeersInvariant, PTL
-----------------------------------------------------------------------------
(* A point against an address for one message more that costs one, or one   *)
(* less that is to be judged.                                               *)
LEMMA ReportCounts ==
  ASSUME PeersTypeOK, BanIsEarned, NEW a \in Addr, Report(a),
         costly' \in [Addr -> Nat], toJudge' \in [Addr -> Nat],
         points[a] + 1 + toJudge'[a] = costly'[a],
         \A b \in Addr \ {a} : costly'[b] = costly[b] /\ toJudge'[b] = toJudge[b]
  PROVE  BanIsEarned'
<1>1. points \in [Addr -> Nat] /\ banned \subseteq Addr /\ points' = [points EXCEPT ![a] = @ + 1]
  BY DEF PeersTypeOK, Report
<1>2. points'[a] = points[a] + 1 /\ \A b \in Addr \ {a} : points'[b] = points[b]
  BY <1>1
<1>3. \A b \in Addr : points'[b] + toJudge'[b] = costly'[b]
  BY <1>2 DEF BanIsEarned
<1>4. \/ banned' = banned
      \/ banned' = banned \cup {a} /\ points[a] + 1 >= BanThreshold
  BY DEF Report
<1>5. \A b \in banned' : points'[b] >= BanThreshold
  <2> SUFFICES ASSUME NEW b \in banned'
               PROVE  points'[b] >= BanThreshold
    OBVIOUS
  <2>1. CASE b \in banned
    <3>1. points[b] >= BanThreshold /\ b \in Addr /\ points'[b] >= points[b]
      BY <1>1, <1>2, <2>1 DEF BanIsEarned
    <3>2. QED BY <1>1, <1>2, <3>1, PeersAssumption
  <2>2. CASE b \notin banned
    BY <1>2, <1>4, <2>2
  <2>3. QED BY <2>1, <2>2
<1>6. QED BY <1>3, <1>5 DEF BanIsEarned

(* Whatever threads do meanwhile, every message that costs a point costs     *)
(* exactly one, and a ban takes BanThreshold of them.                        *)
THEOREM BanIsEarnedHolds == PeersSpec => []BanIsEarned
<1>1. PeersInit => BanIsEarned
  BY DEF PeersInit, BanIsEarned
<1>2. PeersInv /\ BanIsEarned /\ [PeersNext]_peersVars => BanIsEarned'
  <2> SUFFICES ASSUME PeersInv, BanIsEarned, [PeersNext]_peersVars
               PROVE  BanIsEarned'
    OBVIOUS
  <2> USE PeersAssumption
  <2>1. /\ PeersTypeOK /\ PeersTypeOK'
        /\ points \in [Addr -> Nat] /\ toJudge \in [Addr -> Nat] /\ costly \in [Addr -> Nat]
    BY TypesAreKept DEF PeersInv, PeersTypeOK
  <2>2. CASE UNCHANGED <<toJudge, points, costly>> /\ banned' \subseteq banned
    BY <2>2 DEF BanIsEarned
  <2>3. ASSUME NEW c \in Conn, Flood(c) \/ Overlong(c)
        PROVE  BanIsEarned'
    <3>1. /\ Report(AddrOf[c]) /\ toJudge' = toJudge
          /\ costly' = [costly EXCEPT ![AddrOf[c]] = @ + 1]
      BY <2>3 DEF Flood, Overlong, Offend
    <3>2. points[AddrOf[c]] + toJudge[AddrOf[c]] = costly[AddrOf[c]]
      BY DEF BanIsEarned
    <3>3. /\ costly'[AddrOf[c]] = costly[AddrOf[c]] + 1
          /\ \A b \in Addr \ {AddrOf[c]} : costly'[b] = costly[b]
      BY <2>1, <3>1
    <3>4. points[AddrOf[c]] + 1 + toJudge'[AddrOf[c]] = costly'[AddrOf[c]]
      BY <2>1, <3>1, <3>2, <3>3
    <3>5. costly' \in [Addr -> Nat] /\ toJudge' \in [Addr -> Nat]
      BY <2>1 DEF PeersTypeOK
    <3>6. QED BY <2>1, <3>1, <3>3, <3>4, <3>5, ReportCounts
  <2>4. ASSUME NEW c \in Conn, NEW kind \in Offences, ToInbox(c, kind)
        PROVE  BanIsEarned'
    <3>1. /\ costly' = [costly EXCEPT ![AddrOf[c]] = @ + 1]
          /\ toJudge' = [toJudge EXCEPT ![AddrOf[c]] = @ + 1]
          /\ points' = points /\ banned' = banned
      BY <2>4 DEF ToInbox, Offend
    <3>2. \A b \in Addr : /\ points[b] + toJudge[b] = costly[b]
                          /\ \/ costly'[b] = costly[b] + 1 /\ toJudge'[b] = toJudge[b] + 1
                             \/ costly'[b] = costly[b] /\ toJudge'[b] = toJudge[b]
      BY <2>1, <3>1 DEF BanIsEarned
    <3>3. \A b \in Addr : points'[b] + toJudge'[b] = costly'[b]
      BY <2>1, <3>1, <3>2
    <3>4. QED BY <3>1, <3>3 DEF BanIsEarned
  <2>5. ASSUME NEW a \in Addr, Refuse(a)
        PROVE  BanIsEarned'
    <3>1. /\ toJudge[a] > 0 /\ toJudge' = [toJudge EXCEPT ![a] = @ - 1]
          /\ Report(a) /\ costly' = costly
      BY <2>5 DEF Refuse
    <3>2. points[a] + toJudge[a] = costly[a]
      BY DEF BanIsEarned
    <3>3. toJudge'[a] = toJudge[a] - 1 /\ \A b \in Addr \ {a} : toJudge'[b] = toJudge[b]
      BY <2>1, <3>1
    <3>4. points[a] + 1 + toJudge'[a] = costly'[a]
      BY <2>1, <3>1, <3>2, <3>3
    <3>5. costly' \in [Addr -> Nat] /\ toJudge' \in [Addr -> Nat]
      BY <2>1 DEF PeersTypeOK
    <3>6. QED BY <2>1, <3>1, <3>3, <3>4, <3>5, ReportCounts
  <2>6. ASSUME NEW c \in Conn,
               \/ Arrive(c) \/ Register(c) \/ Start(c) \/ HangUp(c) \/ Chat(c)
               \/ Ends(c) \/ Close(c) \/ FallSilent(c)
        PROVE  BanIsEarned'
    BY <2>2, <2>6 DEF Arrive, Register, Start, HangUp, Chat, Ends, Leave, Expel, Finish, Close,
                      FallSilent, penalties
  <2>7. ASSUME NEW a \in Addr, Unban(a) \/ FindDead(a) \/ Lookup(a) \/ Disconnect(a)
        PROVE  BanIsEarned'
    BY <2>2, <2>7 DEF Unban, FindDead, Lookup, Disconnect, penalties
  <2>8. CASE RemoveDead \/ Write \/ UNCHANGED peersVars
    BY <2>2, <2>8 DEF RemoveDead, Write, peersVars, penalties
  <2>9. QED BY <2>3, <2>4, <2>5, <2>6, <2>7, <2>8 DEF PeersNext
<1>3. QED BY <1>1, <1>2, PeersInvariant, PTL DEF PeersSpec
=============================================================================
