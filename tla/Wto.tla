--------------------------------- MODULE Wto ---------------------------------
(***************************************************************************)
(* The weak topological order of a control-flow graph: the flat form in    *)
(* which the rest of the project uses it, and what it means for one to be  *)
(* correct.                                                                *)
(*                                                                         *)
(* A WTO is a nesting of components, e.g.  1 2 (3 4 (5 6) 7) 8 .  Written  *)
(* flat it is the sequence of its labels ("order"), the set of positions   *)
(* that open a cycle ("heads") and the last position of each component     *)
(* ("last", the position itself where it opens none).  Walking the         *)
(* components of the Rust structure in iteration order visits exactly the  *)
(* positions of "order" from left to right.                                *)
(***************************************************************************)
EXTENDS Naturals, Sequences

(***************************************************************************)
(* The positions of a flat WTO.                                            *)
(***************************************************************************)
Positions(w) == 1 .. Len(w.order)

(***************************************************************************)
(* is_component_member for the cycle that opens at position h.             *)
(***************************************************************************)
InCycle(w, h, p) == h <= p /\ p <= w.last[h]

(***************************************************************************)
(* WtoNesting::is_superset_of on nestings written inner to outer: strictly *)
(* longer, and equal to the other from the outermost head inwards.         *)
(***************************************************************************)
\* Mutant: a nesting counts as a superset of itself.
IsSupersetOfOrEqual(this, other) ==
    /\ Len(this) >= Len(other)
    /\ \A i \in 0 .. Len(other) - 1 :
          this[Len(this) - i] = other[Len(other) - i]

IsSupersetOf(this, other) ==
    /\ Len(this) > Len(other)
    /\ \A i \in 0 .. Len(other) - 1 :
          this[Len(this) - i] = other[Len(other) - i]

(***************************************************************************)
(* The record is well formed: components are intervals of positions, and   *)
(* two of them are disjoint or nested.                                     *)
(***************************************************************************)
WellNested(w) ==
    /\ w.heads \subseteq Positions(w)
    /\ \A p \in Positions(w) : w.last[p] \in Positions(w) /\ p <= w.last[p]
    /\ \A p \in Positions(w) \ w.heads : w.last[p] = p
    /\ \A p \in w.heads : \A q \in Positions(w) :
          InCycle(w, p, q) => w.last[q] <= w.last[p]

(***************************************************************************)
(* No label has two positions.                                             *)
(***************************************************************************)
OncePerLabel(w) ==
    \A p, q \in Positions(w) : w.order[p] = w.order[q] => p = q

(***************************************************************************)
(* The walk starts at the entry and misses no label the entry reaches.     *)
(***************************************************************************)
CoversReachable(w, entry, edges) ==
    /\ Len(w.order) > 0 /\ w.order[1] = entry
    /\ \A p \in Positions(w) : \A e \in edges :
          e[1] = w.order[p] => \E q \in Positions(w) : w.order[q] = e[2]

(***************************************************************************)
(* The defining property of a weak topological order: an edge goes forward *)
(* or it returns to the head of a cycle that contains its source.          *)
(***************************************************************************)
BackEdgesReturnToHeads(w, edges) ==
    \A p, q \in Positions(w) :
        <<w.order[p], w.order[q]>> \in edges => p < q \/ (q \in w.heads /\ InCycle(w, q, p))

(***************************************************************************)
(* A cycle is opened only where an edge returns.                           *)
(***************************************************************************)
HeadsAreTargets(w, edges) ==
    \A h \in w.heads : \E p \in Positions(w) :
        InCycle(w, h, p) /\ <<w.order[p], w.order[h]>> \in edges

IsWto(w, entry, edges, labels) ==
    /\ w.order \in Seq(labels)
    /\ WellNested(w)
    /\ OncePerLabel(w)
    /\ CoversReachable(w, entry, edges)
    /\ BackEdgesReturnToHeads(w, edges)
    /\ HeadsAreTargets(w, edges)
=============================================================================
