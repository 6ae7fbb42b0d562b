------------------------------ MODULE ZoneGraph ------------------------------
(***************************************************************************)
(* The constraint graphs of the zone domain.                               *)
(*                                                                         *)
(* A graph is a partial function from pairs of vertices to integers: the   *)
(* edge <<s, d>> of weight w says  d - s <= w .  Vertex 0 stands for the   *)
(* number zero, so <<0, v>> is an upper bound of v and <<v, 0>> a lower    *)
(* one.  The sorted adjacency maps, the shared weight vector with its      *)
(* recycled slots and the views (GraphPerm, SubGraph, GraphRev) that the   *)
(* code keeps for speed all denote such a function.                        *)
(*                                                                         *)
(* This module holds the constructions that need no search; those that do  *)
(* (shortest paths, potentials) are in SplitDbm.                           *)
(***************************************************************************)
EXTENDS Integers

NoEdges == [e \in {} |-> 0]

Elem(g, s, d) == <<s, d>> \in DOMAIN g

Succs(g, v) == {e[2] : e \in {x \in DOMAIN g : x[1] = v}}

Preds(g, v) == {e[1] : e \in {x \in DOMAIN g : x[2] = v}}

ForgetVertex(g, v) == [e \in {x \in DOMAIN g : x[1] # v /\ x[2] # v} |-> g[e]]

(***************************************************************************)
(* The views: the graph without vertex 0, the graph with its edges turned  *)
(* round, and the graph renumbered by perm, a function from the new vertex *)
(* numbers to the old ones (undefined where the code holds INVALID_VERT).  *)
(***************************************************************************)
SubGraph(g) == [e \in {x \in DOMAIN g : x[1] # 0 /\ x[2] # 0} |-> g[e]]

GraphRev(g) == [e \in {<<x[2], x[1]>> : x \in DOMAIN g} |-> g[<<e[2], e[1]>>]]

GraphPerm(perm, g) ==
    LET E == {e \in (DOMAIN perm) \X (DOMAIN perm) :
                  <<perm[e[1]], perm[e[2]]>> \in DOMAIN g}
    IN  [e \in E |-> g[<<perm[e[1]], perm[e[2]]>>]]

-----------------------------------------------------------------------------
(***************************************************************************)
(* graph_join: the edges of both, each with the weaker weight.             *)
(***************************************************************************)
GraphJoin(l, r) ==
    [e \in DOMAIN l \cap DOMAIN r |-> IF l[e] < r[e] THEN r[e] ELSE l[e]]

(***************************************************************************)
(* graph_meet: the edges of either, each with the tighter weight.  It is   *)
(* also what a run of relax (or update_edge) over the edges of r does to   *)
(* l: an edge is written when it is absent or when it improves.            *)
(***************************************************************************)
Improves(g, e, w) == e \notin DOMAIN g \/ w < g[e]

GraphMeet(l, r) ==
    [e \in DOMAIN l \cup DOMAIN r |->
        IF e \in DOMAIN r /\ Improves(l, e, r[e]) THEN r[e] ELSE l[e]]

UpdateEdge(g, s, w, d) == GraphMeet(g, [e \in {<<s, d>>} |-> w])

(***************************************************************************)
(* graph_widen: the edges of l that r does not weaken, and the vertices    *)
(* that lost an edge.                                                      *)
(***************************************************************************)
\* Mutant: an edge survives when the right-hand weight is the weaker one.
GraphWidenKeepsUnstable(l, r) ==
    [e \in {x \in DOMAIN l \cap DOMAIN r : l[x] <= r[x]} |-> l[e]]

GraphWiden(l, r) ==
    [e \in {x \in DOMAIN l \cap DOMAIN r : r[x] <= l[x]} |-> l[e]]

WidenUnstable(l, r) == {e[1] : e \in DOMAIN l \ DOMAIN GraphWiden(l, r)}

(***************************************************************************)
(* compute_deferred: a relation of "rel" that "bounds" has only through    *)
(* the bounds of its two ends.                                             *)
(***************************************************************************)
ComputeDeferred(bounds, rel) ==
    LET E == {e \in DOMAIN SubGraph(rel) :
                  Elem(bounds, e[1], 0) /\ Elem(bounds, 0, e[2])}
    IN  [e \in E |-> bounds[<<e[1], 0>>] + bounds[<<0, e[2]>>]]

(***************************************************************************)
(* close_over_edge: the paths through a new edge ii -> jj that avoid       *)
(* vertex 0.  Only sources and destinations whose two-step path improved   *)
(* an edge are combined into three-step paths.                             *)
(***************************************************************************)
CloseOverEdge(g, ii, jj) ==
    LET c      == g[<<ii, jj>>]
        src    == {s \in Preds(g, ii) \ {0, jj} : Improves(g, <<s, jj>>, g[<<s, ii>>] + c)}
        g1     == GraphMeet(g, [e \in src \X {jj} |-> g[<<e[1], ii>>] + c])
        dest   == {d \in Succs(g1, jj) \ {0, ii} : Improves(g1, <<ii, d>>, g1[<<jj, d>>] + c)}
        g2     == GraphMeet(g1, [e \in {ii} \X dest |-> g1[<<jj, e[2]>>] + c])
    IN  GraphMeet(g2, [e \in src \X dest |-> g[<<e[1], ii>>] + c + g1[<<jj, e[2]>>]])

(***************************************************************************)
(* is_subsumed_by: every edge of og is implied by an edge of g between the *)
(* corresponding vertices, or by the bounds of its two ends.               *)
(***************************************************************************)
Implied(g, x, y, w) ==
    \/ Elem(g, x, y) /\ g[<<x, y>>] <= w
    \/ Elem(g, x, 0) /\ Elem(g, 0, y) /\ g[<<x, 0>>] + g[<<0, y>>] <= w

IsSubsumedBy(g, og, perm) ==
    \A e \in DOMAIN og : Implied(g, perm[e[1]], perm[e[2]], og[e])

-----------------------------------------------------------------------------
(***************************************************************************)
(* What a graph means: val maps every vertex of the graph to an integer    *)
(* and satisfies the constraint of every edge.                             *)
(***************************************************************************)
Models(val, g) == \A e \in DOMAIN g : val[e[2]] - val[e[1]] <= g[e]
=============================================================================
