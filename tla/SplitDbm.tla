------------------------------ MODULE SplitDbm ------------------------------
(***************************************************************************)
(* SplitDBM and the graph algorithms under it.                             *)
(*                                                                         *)
(* A core is a record of the graph, the potential of every allocated       *)
(* vertex, and the stack of vertices free for reuse.  The set "unstable"   *)
(* of the code is empty between operations (from_parts normalises at       *)
(* once), so it appears only as the argument of Normalize.                 *)
(*                                                                         *)
(* The potential is a model of the graph: the searches below run on the    *)
(* reduced costs p(s) + w - p(d), which it keeps non-negative.             *)
(***************************************************************************)
EXTENDS ZoneGraph, FiniteSets, SequencesExt

\* The members of a set of integers in the order of the BTreeMaps of the code.
\* The elements of a set as a sequence, one after the other.
Enumerated(S) == FoldSet(LAMBDA x, acc : Append(acc, x), <<>>, S)

Ascending(S) == SortSeq(Enumerated(S), <)

EmptyCore == [g |-> NoEdges, pot |-> 0 :> 0, free |-> <<>>]

Size(c) == Cardinality(DOMAIN c.pot)

Verts(c) == DOMAIN c.pot \ ToSet(c.free)

IsTop(c) == DOMAIN c.g = {}

HasEdges(g, v) == \E e \in DOMAIN g : v \in {e[1], e[2]}

DisconnectedVertices(c) == {v \in Verts(c) \ {0} : ~HasEdges(c.g, v)}

(***************************************************************************)
(* new_vertex: the vertex freed last, or the next number.                  *)
(***************************************************************************)
FreshVertex(c) == IF c.free = <<>> THEN Size(c) ELSE Last(c.free)

NewVertex(c) ==
    [g    |-> c.g,
     pot  |-> (FreshVertex(c) :> 0) @@ c.pot,
     free |-> IF c.free = <<>> THEN <<>> ELSE Front(c.free)]

\* Mutant: the vertex is freed with its edges in place.
ForgetKeepsEdges(c, v) == [g |-> c.g, pot |-> c.pot, free |-> Append(c.free, v)]

ForgetCore(c, v) ==
    [g |-> ForgetVertex(c.g, v), pot |-> c.pot, free |-> Append(c.free, v)]

-----------------------------------------------------------------------------
(***************************************************************************)
(* WeightHeap::remove_min.  Which of several vertices at the same distance *)
(* the heap yields is left open.                                           *)
(***************************************************************************)
RemoveMin(dist, heap) == CHOOSE v \in heap : \A u \in heap : dist[v] <= dist[u]

(***************************************************************************)
(* chromatic_dijkstra and dijkstra_recover.  Every edge has a colour, a    *)
(* subset of "full"; a vertex is marked with the colours of the edges that *)
(* reach it at its distance.  A vertex marked "full" is not expanded, and  *)
(* from the others only edges of a disjoint colour are followed: a path of *)
(* two edges of one colour is already an edge of a closed operand.         *)
(*   after a meet : colours are the operands that own the edge;            *)
(*   after widening: an edge leaving a stable vertex is coloured "stable". *)
(* The result maps each destination whose distance from src improves on    *)
(* the edge of the graph to that distance.                                 *)
(***************************************************************************)
RECURSIVE DijkstraLoop(_, _, _, _, _, _, _, _, _)
DijkstraLoop(g, p, colour, full, src, dist, mark, heap, out) ==
    IF heap = {} THEN out
    ELSE LET es    == RemoveMin(dist, heap)
             val   == dist[es] + p[es] - p[src]
             next  == IF mark[es] = full THEN {}
                      ELSE {d \in Succs(g, es) : colour[<<es, d>>] \cap mark[es] = {}}
             cost(d) == dist[es] + p[es] + g[<<es, d>>] - p[d]
             lower == {d \in next : d \notin DOMAIN dist \/ cost(d) < dist[d]}
             tied  == {d \in next \ lower : cost(d) = dist[d]}
         IN  DijkstraLoop(g, p, colour, full, src,
                 [d \in lower |-> cost(d)] @@ dist,
                 [d \in lower |-> colour[<<es, d>>]]
                     @@ [d \in tied |-> mark[d] \cup colour[<<es, d>>]] @@ mark,
                 (heap \ {es}) \cup lower,
                 IF Improves(g, <<src, es>>, val) THEN (es :> val) @@ out ELSE out)

Dijkstra(g, p, colour, full, src) ==
    DijkstraLoop(g, p, colour, full, src,
        [d \in Succs(g, src) |-> p[src] + g[<<src, d>>] - p[d]] @@ (src :> 0),
        [d \in Succs(g, src) |-> colour[<<src, d>>]] @@ (src :> {}),
        Succs(g, src), [d \in {} |-> 0])

DijkstraDelta(g, p, colour, full, sources) ==
    FoldSet(LAMBDA s, delta :
                LET out == Dijkstra(g, p, colour, full, s)
                IN  [e \in {s} \X DOMAIN out |-> out[e[2]]] @@ delta,
            NoEdges, sources)

CloseAfterMeet(g, p, l, r) ==
    LET own(o, e, name) == IF e \in DOMAIN o /\ o[e] = g[e] THEN {name} ELSE {}
        colour == [e \in DOMAIN g |-> own(l, e, "left") \cup own(r, e, "right")]
    IN  DijkstraDelta(g, p, colour, {"left", "right"}, {e[1] : e \in DOMAIN g})

CloseAfterWiden(g, p, unstable) ==
    LET colour == [e \in DOMAIN g |-> IF e[1] \in unstable THEN {} ELSE {"stable"}]
    IN  DijkstraDelta(g, p, colour, {"stable"}, unstable)

(***************************************************************************)
(* close_after_assign: the paths of at most two edges out of v, then, on   *)
(* the reversed graph, those into v.  The first edges are taken in the     *)
(* order of their slack, and a distance lowered on the way counts for the  *)
(* ones after it.                                                          *)
(***************************************************************************)
CloseAfterAssignFwd(g, p, v) ==
    LET first == [d \in Succs(g, v) |-> g[<<v, d>>]]
        slack(d) == first[d] - p[d]
        queue == SortSeq(Ascending(DOMAIN first),
                     LAMBDA d1, d2 : \/ slack(d1) < slack(d2)
                                     \/ slack(d1) = slack(d2) /\ d1 < d2)
        visit(dist, d) ==
            LET lower == {e \in Succs(g, d) : e \notin DOMAIN dist
                                              \/ dist[d] + g[<<d, e>>] < dist[e]}
            IN  [e \in lower |-> dist[d] + g[<<d, e>>]] @@ dist
        dist == FoldLeft(visit, first @@ (v :> 0), queue)
    IN  [d \in DOMAIN dist \ ({v} \ DOMAIN first) |-> dist[d]]

CloseAfterAssign(g, p, v) ==
    LET out == CloseAfterAssignFwd(g, p, v)
        in  == CloseAfterAssignFwd(GraphRev(g), [u \in DOMAIN p |-> -p[u]], v)
    IN  [e \in (DOMAIN in) \X {v} |-> in[e[1]]] @@ [e \in {v} \X (DOMAIN out) |-> out[e[2]]]

-----------------------------------------------------------------------------
(***************************************************************************)
(* repair_potential: lower the potentials that the new edge ii -> jj       *)
(* violates, nearest first; reaching ii itself with a loss means that the  *)
(* edge closes a negative cycle.  "alt" is the potential being built.      *)
(***************************************************************************)
RECURSIVE RepairLoop(_, _, _, _, _)
RepairLoop(g, p, dist, alt, heap) ==
    IF heap = {} THEN [dist |-> dist, alt |-> alt]
    ELSE LET es    == RemoveMin(dist, heap)
             alt1  == (es :> p[es] + dist[es]) @@ alt
             next(d) == alt1[es] + g[<<es, d>>] - alt1[d]
             lower == {d \in Succs(g, es) : alt1[d] = p[d] /\ next(d) < dist[d]}
         IN  RepairLoop(g, p, [d \in lower |-> next(d)] @@ dist, alt1,
                        (heap \ {es}) \cup lower)

RepairVerdict(p, ii, res) ==
    IF res.dist[ii] < 0 THEN [ok |-> FALSE, pot |-> p] ELSE [ok |-> TRUE, pot |-> res.alt]

RepairPotential(g, p, ii, jj) ==
    LET gap == p[ii] + g[<<ii, jj>>] - p[jj]
    IN  IF gap >= 0 THEN [ok |-> TRUE, pot |-> p]
        ELSE RepairVerdict(p, ii,
                 RepairLoop(g, p, (jj :> gap) @@ [v \in DOMAIN p |-> 0], p, {jj}))

(***************************************************************************)
(* compute_sccs: Tarjan's algorithm.  num and low are the two halves of    *)
(* vert_marks and dual_queue; a vertex is on the stack while its mark has  *)
(* the low bit set.  Components come out in reverse topological order.     *)
(***************************************************************************)
RECURSIVE StrongConnect(_, _, _), ConnectSuccs(_, _, _, _)
StrongConnect(g, st, v) ==
    LET st1  == ConnectSuccs(g,
                    [num   |-> (v :> st.index) @@ st.num,
                     low   |-> (v :> st.index) @@ st.low,
                     index |-> st.index + 1,
                     stack |-> Append(st.stack, v),
                     sccs  |-> st.sccs],
                    v, Succs(g, v))
        at   == CHOOSE i \in DOMAIN st1.stack : st1.stack[i] = v
    IN  IF st1.low[v] = st1.num[v]
        THEN [st1 EXCEPT !.stack = SubSeq(st1.stack, 1, at - 1),
                         !.sccs  = Append(@, Reverse(SubSeq(st1.stack, at, Len(st1.stack))))]
        ELSE st1

ConnectSuccs(g, st, v, ws) ==
    IF ws = {} THEN st
    ELSE LET w   == Min(ws)
             st1 == IF w \in DOMAIN st.num THEN st ELSE StrongConnect(g, st, w)
             new == IF w \notin DOMAIN st.num THEN st1.low[w]
                    ELSE IF w \in ToSet(st.stack) THEN st.num[w] ELSE st1.low[v]
         IN  ConnectSuccs(g, [st1 EXCEPT !.low[v] = Min({@, new})], v, ws \ {w})

RECURSIVE ComputeSccs(_, _, _)
ComputeSccs(g, st, verts) ==
    IF verts = {} THEN st.sccs
    ELSE LET v   == Min(verts)
             st1 == IF v \in DOMAIN st.num THEN st
                    ELSE StrongConnect(g, [st EXCEPT !.index = 1, !.stack = <<>>], v)
         IN  ComputeSccs(g, st1, verts \ {v})

Sccs(g, verts) ==
    ComputeSccs(g, [num |-> [v \in {} |-> 0], low |-> [v \in {} |-> 0], index |-> 1,
                    stack |-> <<>>, sccs |-> <<>>], verts)

(***************************************************************************)
(* select_potentials: Bellman-Ford on one component after the other, in    *)
(* topological order.  A round drains the queue from its end; a vertex of  *)
(* the component whose potential drops waits for the next round unless it  *)
(* is still queued in this one.  There are as many rounds as vertices.     *)
(***************************************************************************)
RECURSIVE DrainQueue(_, _, _, _, _)
DrainQueue(g, scc, p, queue, waiting) ==
    IF queue = <<>> THEN [pot |-> p, queue |-> waiting]
    ELSE LET s     == Last(queue)
             rest  == Front(queue)
             lower == {d \in Succs(g, s) : p[s] + g[<<s, d>>] < p[d]}
             woken == {d \in lower : d \in scc /\ d \notin ToSet(rest) \cup ToSet(waiting)}
         IN  DrainQueue(g, scc, [d \in lower |-> p[s] + g[<<s, d>>]] @@ p,
                        rest, waiting \o Ascending(woken))

RECURSIVE BellmanFord(_, _, _, _, _)
BellmanFord(g, scc, p, queue, rounds) ==
    IF rounds = 0 \/ queue = <<>> THEN [pot |-> p, queue |-> queue]
    ELSE LET res == DrainQueue(g, scc, p, queue, <<>>)
         IN  BellmanFord(g, scc, res.pot, res.queue, rounds - 1)

NegativeCycle(g, res) ==
    \E s \in ToSet(res.queue) : \E d \in Succs(g, s) :
        res.pot[s] + g[<<s, d>>] < res.pot[d]

\* Mutant: the components are taken in the order in which Tarjan emits them.
SelectPotentialsInEmissionOrder(g, verts, p) ==
    FoldLeft(LAMBDA acc, scc :
                 IF ~acc.ok THEN acc
                 ELSE LET res == BellmanFord(g, ToSet(scc), acc.pot, scc, Len(scc))
                      IN  [ok |-> ~NegativeCycle(g, res), pot |-> res.pot],
             [ok |-> TRUE, pot |-> p], Sccs(g, verts))

SelectPotentials(g, verts, p) ==
    FoldLeft(LAMBDA acc, scc :
                 IF ~acc.ok THEN acc
                 ELSE LET res == BellmanFord(g, ToSet(scc), acc.pot, scc, Len(scc))
                      IN  [ok |-> ~NegativeCycle(g, res), pot |-> res.pot],
             [ok |-> TRUE, pot |-> p], Reverse(Sccs(g, verts)))

-----------------------------------------------------------------------------
(***************************************************************************)
(* Operations on a core.  Those that may find the constraints infeasible   *)
(* return [ok, core].                                                      *)
(***************************************************************************)
WithGraph(c, g) == [g |-> g, pot |-> c.pot, free |-> c.free]

\* The edge has just been written into g: repair the potential for it.
WithPotential(c, g, res) ==
    [ok |-> res.ok, core |-> [g |-> g, pot |-> res.pot, free |-> c.free]]

Repaired(c, g, ii, jj) == WithPotential(c, g, RepairPotential(g, c.pot, ii, jj))

(***************************************************************************)
(* The edge of a bound of v: side "left" is the lower bound, stored as the *)
(* edge to vertex 0 with the negated bound, "right" the upper one.         *)
(***************************************************************************)
BoundEdge(v, side) == IF side = "left" THEN <<v, 0>> ELSE <<0, v>>

EdgeWeight(side, n) == IF side = "left" THEN -n ELSE n

\* get_bound: the bound as a set, empty where it is infinite.
GetBound(c, v, side) ==
    IF BoundEdge(v, side) \in DOMAIN c.g
    THEN {EdgeWeight(side, c.g[BoundEdge(v, side)])} ELSE {}

SetBound(c, v, side, n) ==
    [g    |-> (BoundEdge(v, side) :> EdgeWeight(side, n)) @@ c.g,
     pot  |-> (v :> c.pot[0] + n) @@ c.pot,
     free |-> c.free]

\* Mutant: the bound is written whether it is tighter or not.
UpdateBoundAlways(c, v, side, n) ==
    LET e == BoundEdge(v, side)
    IN  Repaired(c, (e :> EdgeWeight(side, n)) @@ c.g, e[1], e[2])

UpdateBoundIfTighter(c, v, side, n) ==
    LET e == BoundEdge(v, side)
    IN  IF Improves(c.g, e, EdgeWeight(side, n))
        THEN Repaired(c, (e :> EdgeWeight(side, n)) @@ c.g, e[1], e[2])
        ELSE [ok |-> TRUE, core |-> c]

ClosedIfFeasible(res, src, dest) ==
    IF ~res.ok THEN res
    ELSE [ok |-> TRUE, core |-> WithGraph(res.core, CloseOverEdge(res.core.g, src, dest))]

AddDifferenceConstraint(c, src, dest, k) ==
    ClosedIfFeasible(Repaired(c, UpdateEdge(c.g, src, k, dest), src, dest), src, dest)

\* Mutant: the bounds are not closed under the relations afterwards.
BoundUpdatesLeftOpen(c) == c

CloseBounds(g, p) == CloseAfterAssign(g, p, 0) @@ g

CloseAfterBoundUpdates(c) == WithGraph(c, CloseBounds(c.g, c.pot))

(***************************************************************************)
(* strengthen_bound: tighten a bound that exists, then the same bound of   *)
(* each neighbour it implies one for, repairing after every edge.          *)
(***************************************************************************)
StrengthenBound(c, v, side, n) ==
    LET e     == BoundEdge(v, side)
        w     == EdgeWeight(side, n)
        near  == IF side = "left" THEN Preds(c.g, v) \ {0} ELSE Succs(c.g, v) \ {0}
        hop(u) == IF side = "left" THEN c.g[<<u, v>>] ELSE c.g[<<v, u>>]
        spread(acc, u) ==
            LET b == BoundEdge(u, side)
            IN  IF ~acc.ok THEN acc
                ELSE Repaired(acc.core, GraphMeet(acc.core.g, b :> hop(u) + w), b[1], b[2])
    IN  IF e \notin DOMAIN c.g \/ c.g[e] <= w THEN [ok |-> TRUE, core |-> c]
        ELSE FoldLeft(spread, Repaired(c, (e :> w) @@ c.g, e[1], e[2]), Ascending(near))

(***************************************************************************)
(* assign_vertex: a fresh vertex with its differences, closed, and only    *)
(* then its bounds (sets, empty where there is none).                      *)
(***************************************************************************)
AssignVertex(c, potential, diffsFrom, diffsTo, lb, ub) ==
    LET vert == FreshVertex(c)
        c1   == NewVertex(c)
        pot  == (vert :> potential) @@ c1.pot
        g1   == [e \in (DOMAIN diffsTo) \X {vert} |-> diffsTo[e[1]]]
                    @@ [e \in {vert} \X (DOMAIN diffsFrom) |-> diffsFrom[e[2]]] @@ c1.g
        g2   == CloseAfterAssign(SubGraph(g1), pot, vert) @@ g1
        g3   == GraphMeet(g2, [e \in {<<vert, 0>> : n \in lb} |-> -(CHOOSE n \in lb : TRUE)])
        g4   == GraphMeet(g3, [e \in {<<0, vert>> : n \in ub} |-> CHOOSE n \in ub : TRUE])
    IN  [g |-> g4, pot |-> pot, free |-> c1.free]

Normalize(c, unstable) ==
    IF unstable = {} THEN c
    ELSE WithGraph(c, CloseBounds(CloseAfterWiden(SubGraph(c.g), c.pot, unstable \ {0}) @@ c.g,
                                  c.pot))

-----------------------------------------------------------------------------
(***************************************************************************)
(* The lattice operations on two cores, seen through the permutations of   *)
(* an aligned pair.                                                        *)
(***************************************************************************)
RelativePotential(c, perm) == [v \in DOMAIN perm |-> c.pot[perm[v]] - c.pot[0]]

CloseDeferred(base, deferred, pot) ==
    LET g == GraphMeet(base, deferred)
    IN  CloseAfterMeet(SubGraph(g), pot, base, deferred) @@ g

(***************************************************************************)
(* join: each side first takes over the relations of the other that its    *)
(* own bounds imply; bounds that moved the same way on two vertices leave  *)
(* a relation between them.                                                *)
(***************************************************************************)
JoinCore(cl, cr, permL, permR) ==
    LET gx    == GraphPerm(permL, cl.g)
        gy    == GraphPerm(permR, cr.g)
        potL  == RelativePotential(cl, permL)
        left  == CloseDeferred(gx, ComputeDeferred(gx, gy), potL)
        right == CloseDeferred(gy, ComputeDeferred(gy, gx), RelativePotential(cr, permR))
        V     == DOMAIN permL \ {0}
        both(e) == e \in DOMAIN gx /\ e \in DOMAIN gy
        ubUp   == {v \in V : both(<<0, v>>) /\ gx[<<0, v>>] < gy[<<0, v>>]}
        ubDown == {v \in V : both(<<0, v>>) /\ gy[<<0, v>>] < gx[<<0, v>>]}
        lbDown == {v \in V : both(<<v, 0>>) /\ gx[<<v, 0>>] < gy[<<v, 0>>]}
        lbUp   == {v \in V : both(<<v, 0>>) /\ gy[<<v, 0>>] < gx[<<v, 0>>]}
        pairs  == {e \in (lbUp \X ubUp) \cup (lbDown \X ubDown) : e[1] # e[2]}
        via(g, e) == g[<<e[1], 0>>] + g[<<0, e[2]>>]
        indep  == [e \in pairs |-> Max({via(gx, e), via(gy, e)})]
    IN  [g |-> GraphMeet(GraphJoin(left, right), indep), pot |-> potL, free |-> <<>>]

WidenCore(cl, cr, permL, permR) ==
    LET gx == GraphPerm(permL, cl.g)
        gy == GraphPerm(permR, cr.g)
    IN  Normalize([g |-> GraphWiden(gx, gy), pot |-> RelativePotential(cl, permL), free |-> <<>>],
                  WidenUnstable(gx, gy))

CloseMeet(gx, gy, g, res) ==
    LET g1 == CloseAfterMeet(SubGraph(g), res.pot, gx, gy) @@ g
    IN  IF res.ok THEN [ok |-> TRUE, core |-> [g |-> CloseBounds(g1, res.pot),
                                               pot |-> res.pot, free |-> <<>>]]
        ELSE [ok |-> FALSE, core |-> EmptyCore]

MeetGraphs(gx, gy, verts, pot) ==
    CloseMeet(gx, gy, GraphMeet(gx, gy), SelectPotentials(GraphMeet(gx, gy), verts, pot))

MeetCore(cl, cr, permL, permR, verts, pot) ==
    MeetGraphs(GraphPerm(permL, cl.g), GraphPerm(permR, cr.g), verts, pot)
=============================================================================
