---------------------------- MODULE HeaviestChain ----------------------------
(***************************************************************************)
(* What chain.py promises the rest of the node, with no orphan pool, no    *)
(* reorganisation and no work list: a set of connected blocks that only    *)
(* grows, and a main chain that is the history of the heaviest of them,    *)
(* the first to have been as heavy.                                        *)
(***************************************************************************)
EXTENDS BlockTree

VARIABLES known, chain
abstractVars == <<known, chain>>

Tip == Last(chain)

Start == known = {Genesis} /\ chain = <<Genesis>>

(* A block joins the known ones and takes over if it is strictly heavier.  *)
Extend(b) ==
  /\ b \notin known
  /\ b \notin Root => Parent[b] \in known
  /\ known' = known \cup {b}
  /\ chain' = IF ChainWork[b] > ChainWork[Tip] THEN Lineage[b] ELSE chain

Advance == \E b \in Block : Extend(b)

AbstractSpec == Start /\ [][Advance]_abstractVars
=============================================================================
