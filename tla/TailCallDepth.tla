---------------------------- MODULE TailCallDepth ----------------------------
(***************************************************************************)
(* validate_tail_call_chain_depth of src/ir/program.rs: a bound on the     *)
(* number of tail-call sites one execution can pass, computed on the graph *)
(* of the CFG's maximal strongly connected components.                     *)
(*                                                                         *)
(* labels is the set of reachable labels, edges the edges of the CFG, and  *)
(* rep maps a label to the representative of its component: the outermost  *)
(* cycle head around it in the weak topological order, or itself.          *)
(***************************************************************************)
EXTENDS Integers, FiniteSets, SequencesExt

MaximalSccIds(labels, rep) == {rep[l] : l \in labels}

DagSuccessors(labels, edges, rep) ==
    {d \in {<<rep[e[1]], rep[e[2]]>> : e \in {x \in edges : x[1] \in labels /\ x[2] \in labels}} :
        d[1] # d[2]}

TailSites(labels, rep, sites) == {<<rep[l], l>> : l \in labels \cap sites}

(***************************************************************************)
(* The components in topological order.  A component is appended when the  *)
(* last of its predecessors is taken (its indegree counts the ones still   *)
(* to be taken); components on a cycle are never appended.                 *)
(***************************************************************************)
TopoOrder(ids, dag) ==
    LET ready(taken) == {s \in ids : \A p \in ids : <<p, s>> \in dag => p \in taken}
        order[n \in 0 .. Cardinality(ids)] ==
            IF n = 0 THEN SetToSeq(ready({}))
            ELSE LET before == order[n - 1]
                     freed == {s \in ready(ToSet(SubSeq(before, 1, n))) : <<before[n], s>> \in dag}
                 IN  IF n > Len(before) THEN before ELSE before \o SetToSeq(freed)
    IN  order[Cardinality(ids)]

(***************************************************************************)
(* The most sites on a path of components that ends at each component of   *)
(* the order.  (The code pushes a component's depth to its successors when *)
(* it takes it; a component pulls here, when it is taken, what was pushed  *)
(* to it until then.)                                                      *)
(***************************************************************************)
SitesOf(tails, s) == Cardinality({t \in tails : t[1] = s})

\* Mutant: only the sites of the last component count.
MaxTailDepthNoSum(order, dag, tails) == [n \in DOMAIN order |-> SitesOf(tails, order[n])]

MaxTailDepth(order, dag, tails) ==
    LET depth[n \in 1 .. Len(order)] ==
            SitesOf(tails, order[n]) + Max({0} \cup
                {depth[j] : j \in {k \in 1 .. n - 1 : <<order[k], order[n]>> \in dag}})
    IN  depth

(***************************************************************************)
(* "ok", or the error that is returned.                                    *)
(***************************************************************************)
TailCallVerdict(labels, edges, rep, sites, limit) ==
    LET ids == MaximalSccIds(labels, rep)
        dag == DagSuccessors(labels, edges, rep)
        order == TopoOrder(ids, dag)
        depth == MaxTailDepth(order, dag, TailSites(labels, rep, sites))
    IN  IF Len(order) # Cardinality(ids) THEN "not acyclic"
        ELSE IF \E n \in DOMAIN depth : depth[n] > limit THEN "too deep"
        ELSE "ok"
=============================================================================
