---------------------------- MODULE SpanningTree -----------------------------
(***************************************************************************)
(* The spanning tree of a stack (src/internal/protocols/stp_tree.go): the  *)
(* 802.1D election over the authored trunks, run once when the devices are *)
(* initialised.                                                            *)
(*                                                                         *)
(* Go iterates its map of bridges in any order, so the links of a bridge   *)
(* and the order of the breadth-first search are arbitrary here too.       *)
(***************************************************************************)
EXTENDS Integers, Sequences, FiniteSets, SequencesExt

CONSTANTS
  Bridges,   \* the bridges: numbers, which are their bridge IDs
  Authored,  \* the trunks a configuration may author: sets of [device, interface, remote, remoteInterface, fdbOnly]
  Rank       \* the order of interface names

VARIABLES
  trunks,    \* the authored trunks
  positions, \* the elected position of each bridge
  pc,        \* "electing", "placing" or "running"
  hops, order, at   \* the breadth-first search of the tree being placed

vars == <<trunks, positions, pc, hops, order, at>>

STPPortPathCostDefault == 4

None == 0

-----------------------------------------------------------------------------
(* The election. *)

(* Both ends of a trunk get a link; a trunk that only feeds the forwarding   *)
(* table, leads to no bridge or back to its own is skipped.                  *)
LinksOf(b) ==
  { [local |-> t.interface, remote |-> t.remote] : t \in {u \in trunks : u.device = b /\ u.remote \in Bridges \ {b} /\ ~u.fdbOnly} }
  \cup
  { [local |-> t.remoteInterface, remote |-> t.device] : t \in {u \in trunks : u.remote = b /\ u.device \in Bridges \ {b} /\ ~u.fdbOnly} }

Placed == DOMAIN positions

sortedByBridgeID == CHOOSE b \in Bridges \ Placed : \A c \in Bridges \ Placed : b <= c

(* The link towards the lowest upstream bridge one hop closer; between links *)
(* to one bridge the lower local interface name. Whatever order they are in. *)
Better(l, m) == l.remote < m.remote \/ (l.remote = m.remote /\ Rank[l.local] < Rank[m.local])

rootLink(ls, h, upstreamHops) ==
  FoldLeft(LAMBDA best, l : IF h[l.remote] # upstreamHops THEN best
                            ELSE IF best = <<>> \/ Better(l, best[1]) THEN <<l>> ELSE best, <<>>, ls)

Init ==
  /\ trunks \in Authored
  /\ positions = <<>> /\ hops = <<>> /\ order = <<>> /\ at = 1
  /\ pc = "electing"

(* electSpanningTree: place a tree from the lowest bridge that no tree has   *)
(* reached.                                                                  *)
electSpanningTree ==
  /\ pc = "electing" /\ order = <<>> /\ Placed # Bridges
  /\ LET root == sortedByBridgeID
     IN hops' = [b \in {root} |-> 0] /\ order' = <<root>> /\ at' = 1
  /\ UNCHANGED <<trunks, positions, pc>>

(* placeTree, one step of its breadth-first search, then one bridge of the   *)
(* order at a time; its links come in any order.                             *)
placeHops ==
  /\ pc = "electing" /\ order # <<>> /\ at <= Len(order)
  /\ LET fresh == {l.remote : l \in LinksOf(order[at])} \ DOMAIN hops
     IN /\ hops' = [b \in DOMAIN hops \cup fresh |-> IF b \in fresh THEN hops[order[at]] + 1 ELSE hops[b]]
        /\ \E s \in SetToSeqs(fresh) : order' = order \o s
  /\ at' = at + 1
  /\ UNCHANGED <<trunks, positions, pc>>

searched ==
  /\ pc = "electing" /\ order # <<>> /\ at > Len(order)
  /\ positions' = [b \in Placed \cup {order[1]} |-> IF b = order[1] THEN [root |-> b, cost |-> 0, rootInterface |-> "", upstream |-> None]
                                                                    ELSE positions[b]]
  /\ pc' = "placing" /\ at' = 2
  /\ UNCHANGED <<trunks, hops, order>>

placeTree ==
  /\ pc = "placing" /\ at <= Len(order)
  /\ \E ls \in SetToSeqs(LinksOf(order[at])) :
       LET link == rootLink(ls, hops, hops[order[at]] - 1)[1]
       IN positions' = [b \in Placed \cup {order[at]} |->
                          IF b \in Placed THEN positions[b]
                          ELSE [root |-> order[1], cost |-> hops[b] * STPPortPathCostDefault,
                                rootInterface |-> link.local, upstream |-> link.remote]]
  /\ at' = at + 1
  /\ UNCHANGED <<trunks, pc, hops, order>>

placed ==
  /\ pc = "placing" /\ at > Len(order)
  /\ pc' = "electing" /\ order' = <<>> /\ hops' = <<>> /\ at' = 1
  /\ UNCHANGED <<trunks, positions>>

elected ==
  /\ pc = "electing" /\ order = <<>> /\ Placed = Bridges
  /\ pc' = "running"
  /\ UNCHANGED <<trunks, positions, hops, order, at>>

Next ==
  \/ electSpanningTree \/ placeHops \/ searched \/ placeTree \/ placed \/ elected

Spec == Init /\ [][Next]_vars

-----------------------------------------------------------------------------

Linked(a, b) == \E l \in LinksOf(a) : l.remote = b

(* The elected positions are one spanning tree per connected set of bridges, *)
(* in whatever order the links were found: bridges that are linked agree on  *)
(* their root and are at most one link apart in cost; a root is lower than   *)
(* everyone who follows it and costs nothing; every other bridge reaches a   *)
(* bridge one link cheaper through its root port, and no lower one is there. *)
OneTree ==
  pc = "running" =>
    \A a \in Bridges :
      LET p == positions[a]
      IN /\ p.root <= a /\ (p.root = a <=> p.cost = 0)
         /\ \A b \in Bridges : Linked(a, b) =>
              /\ positions[b].root = p.root
              /\ p.cost - positions[b].cost \in {-STPPortPathCostDefault, 0, STPPortPathCostDefault}
         /\ p.cost # 0 =>
              /\ [local |-> p.rootInterface, remote |-> p.upstream] \in LinksOf(a)
              /\ positions[p.upstream].cost = p.cost - STPPortPathCostDefault
              /\ \A l \in LinksOf(a) : positions[l.remote].cost = p.cost - STPPortPathCostDefault
                                       => l.remote > p.upstream
                                          \/ (l.remote = p.upstream /\ Rank[l.local] >= Rank[p.rootInterface])
=============================================================================
