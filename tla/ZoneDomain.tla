----------------------------- MODULE ZoneDomain -----------------------------
(***************************************************************************)
(* The zone domain as a machine: it holds two abstract states, as the      *)
(* fixpoint iterator does when it merges the states of two edges, and      *)
(* applies the operations of Zones to them.                                *)
(***************************************************************************)
EXTENDS Zones

CONSTANTS
    MinOnlySets, \* which variables may be is_min_only: the choices considered
    Assigns,     \* the assignments <<x, e>> the program may perform
    Intervals,   \* the intervals it may set a variable to
    Guards,      \* the linear constraints it may assume
    Renamings,   \* the batches of pairs <<from, to>> it may restore registers by
    MaxOps       \* bound: operations performed on the two states together

ASSUME MinOnlyAssumption == MinOnlySets \subseteq SUBSET Vars
ASSUME BoundAssumption == MaxOps \in Nat

VARIABLES dom, ops, last

vars == <<min_only, dom, ops, last>>

-----------------------------------------------------------------------------
TypeOK ==
    /\ ops \in 0 .. MaxOps
    /\ \A r \in {1, 2} : Cardinality(dom[r]) <= 1
    /\ \A r \in {1, 2} : \A z \in dom[r] :
          /\ DOMAIN z.rmap = DOMAIN z.core.pot
          /\ DOMAIN z.vmap \subseteq Vars
          /\ DOMAIN z.core.g \subseteq Verts(z.core) \X Verts(z.core)

Init ==
    /\ min_only \in MinOnlySets
    /\ dom = [r \in {1, 2} |-> {Top}]
    /\ ops = 0
    /\ last = [op |-> "none", r |-> 1, arg |-> 0]

Step(r, op, arg, new) ==
    /\ ops < MaxOps
    /\ ops' = ops + 1
    /\ dom' = [dom EXCEPT ![r] = new]
    /\ last' = [op |-> op, r |-> r, arg |-> arg]
    /\ UNCHANGED min_only

DoAssign(r) == \E a \in Assigns :
    Step(r, "assign", a, Lift(dom[r], LAMBDA z : Assign(z, a[1], a[2])))

DoSet(r) == \E x \in Vars, i \in Intervals :
    Step(r, "set", <<x, i>>,
         IF IsBottomInterval(i) THEN {} ELSE Lift(dom[r], LAMBDA z : Set(z, x, i)))

DoHavoc(r) == \E x \in Vars :
    Step(r, "forget", {x}, Lift(dom[r], LAMBDA z : Havoc(z, x)))

DoForget(r) == \E S \in SUBSET Vars :
    /\ Cardinality(S) = 2
    /\ Step(r, "forget", S, Lift(dom[r], LAMBDA z : Forget(z, S)))

DoAddConstraint(r) == \E cst \in Guards :
    Step(r, "assume", cst, Keep(Lift(dom[r], LAMBDA z : AddConstraint(z, cst))))

DoRestore(r) == \E ren \in Renamings :
    Step(r, "restore", ren, Lift(dom[r], LAMBDA z : Restore(z, ren)))

DoSetToTop(r) == Step(r, "top", 0, {Top})

DoCopy == Step(2, "copy", 0, dom[1])

DoJoin == Step(1, "join", 0, LiftBinary(dom[1], dom[2], Join))

DoWiden == Step(1, "widen", 0, LiftBinary(dom[1], dom[2], Widen))

DoMeet == Step(1, "meet", 0, LiftMeet(dom[1], dom[2]))

DoNarrow == Step(1, "narrow", 0, LiftNarrow(dom[1], dom[2]))

Next ==
    \/ \E r \in {1, 2} : \/ DoAssign(r)
                         \/ DoSet(r)
                         \/ DoHavoc(r)
                         \/ DoForget(r)
                         \/ DoAddConstraint(r)
                         \/ DoRestore(r)
                         \/ DoSetToTop(r)
    \/ DoCopy
    \/ DoJoin
    \/ DoWiden
    \/ DoMeet
    \/ DoNarrow

Spec == Init /\ [][Next]_vars

-----------------------------------------------------------------------------
(***************************************************************************)
(* The properties quantify over a box of valuations (see Sat and In).      *)
(***************************************************************************)
CONSTANT Values
ASSUME ValuesAssumption == Values \subseteq Int

Box == [Vars -> Values]

\* What the concrete operation may turn a valuation into.
Outcomes(op, arg, val) ==
    CASE op = "assign" -> {[val EXCEPT ![arg[1]] = Value(arg[2], val)]}
      [] op = "set"    -> {[val EXCEPT ![arg[1]] = n] :
                              n \in {m \in Values : /\ \A l \in arg[2].lo : l <= m
                                                    /\ \A h \in arg[2].hi : m <= h}}
      [] op = "forget" -> {[y \in Vars |-> IF y \in arg THEN f[y] ELSE val[y]] :
                              f \in [arg -> Values]}
      [] op = "assume" -> IF Holds(arg, val) THEN {val} ELSE {}
      [] op = "restore" -> {[y \in Vars |->
                               IF \E p \in ToSet(arg) : p[2] = y
                               THEN val[(CHOOSE p \in ToSet(arg) : p[2] = y)[1]]
                               ELSE IF \E p \in ToSet(arg) : p[1] = y THEN n ELSE val[y]] :
                              n \in Values}
      [] OTHER         -> {val}

(***************************************************************************)
(* Every operation covers the concrete one: a valuation of the state       *)
(* before the step leads, under the concrete operation, only to valuations *)
(* of the state after it.  In particular a state becomes bottom only when  *)
(* no valuation of the box survives (add_constraint, meet), a join or a    *)
(* widening loses nothing of either side, and restoring registers brings   *)
(* back what was saved and nothing of the callee.                          *)
(***************************************************************************)
SoundStep ==
    LET op == last'.op
        r  == last'.r
    IN  \A val \in Box :
          CASE op \in {"join", "widen"} ->
                   In(dom[1], val) \/ In(dom[2], val) => In(dom'[1], val)
            [] op \in {"meet", "narrow"} ->
                   In(dom[1], val) /\ In(dom[2], val) => In(dom'[1], val)
            [] op = "copy" -> TRUE
            [] OTHER ->
                   In(dom[r], val) =>
                       \A o \in Outcomes(op, last'.arg, val) : In(dom'[r], o)

(***************************************************************************)
(* Learning a constraint or meeting two states adds no valuation: what the *)
(* result admits was admitted before.  (The potential keeps a feasible     *)
(* result from standing for nothing, see PotentialIsModel.)                *)
(***************************************************************************)
OnlyNarrows ==
    \A val \in Box :
        /\ last'.op = "assume" => (In(dom'[last'.r], val) => In(dom[last'.r], val))
        /\ last'.op = "meet" => (In(dom'[1], val) => In(dom[1], val) /\ In(dom[2], val))

(***************************************************************************)
(* Every step is sound, and exact where it can be.                         *)
(***************************************************************************)
SoundSteps == [][SoundStep /\ OnlyNarrows]_vars

(***************************************************************************)
(* The potential of a core is a model of its graph: the searches on        *)
(* reduced costs (chromatic Dijkstra, repair_potential) rely on it, and a  *)
(* state that is not bottom is therefore satisfiable.                      *)
(***************************************************************************)
PotentialIsModel == \A r \in {1, 2} : \A z \in dom[r] : Models(z.core.pot, z.core.g)

(***************************************************************************)
(* The bounds are closed under the relations: if x is bounded and y - x    *)
(* is, then the bound that follows for y is in the graph, or a tighter     *)
(* one.  get_interval reads the two edges of a vertex and nothing else, so *)
(* a bound that a relation implies but no edge holds would be lost.        *)
(* (Stated without min-only variables: an assignment that goes through one *)
(* drops an upper bound that a relation with a third variable implies.)    *)
(***************************************************************************)
BoundsClosed ==
    min_only = {} => \A r \in {1, 2} : \A z \in dom[r] :
        LET g == z.core.g
        IN  \A e \in DOMAIN SubGraph(g) :
              /\ Elem(g, 0, e[1]) => ~Improves(g, <<0, e[2]>>, g[<<0, e[1]>>] + g[e])
              /\ Elem(g, e[2], 0) => ~Improves(g, <<e[1], 0>>, g[e] + g[<<e[2], 0>>])

(***************************************************************************)
(* vert_map and rev_map are inverse to each other, no named vertex is on   *)
(* the free list, and an edge joins named vertices (or vertex 0): a vertex *)
(* that is reused carries nothing over from its previous variable.         *)
(***************************************************************************)
NamesMatch ==
    \A r \in {1, 2} : \A z \in dom[r] :
        /\ \A x \in DOMAIN z.vmap : z.vmap[x] # 0 /\ z.rmap[z.vmap[x]] = x
        /\ \A v \in DOMAIN z.rmap : z.rmap[v] # NoVar =>
              z.rmap[v] \in DOMAIN z.vmap /\ z.vmap[z.rmap[v]] = v
        /\ \A v \in ToSet(z.core.free) : z.rmap[v] = NoVar
        /\ \A e \in DOMAIN z.core.g : \A v \in {e[1], e[2]} : v = 0 \/ z.rmap[v] # NoVar

(***************************************************************************)
(* What every operation relies on: names, edges, free list and potential   *)
(* of both states fit together.                                            *)
(***************************************************************************)
RepresentationOK == TypeOK /\ NamesMatch /\ PotentialIsModel

(***************************************************************************)
(* The tests the verifier decides by are sound: if is_included_in says so, *)
(* every valuation of the first state is one of the second, and a          *)
(* constraint that entail confirms holds in every valuation (so an         *)
(* assertion is discharged rightly); one that intersect denies holds in    *)
(* none.                                                                   *)
(***************************************************************************)
TestsSound ==
    /\ \A a, b \in {1, 2} : IsIncludedInLifted(dom[a], dom[b]) =>
          \A val \in Box : In(dom[a], val) => In(dom[b], val)
    /\ \A cst \in Guards :
          /\ EntailLifted(dom[1], cst) => \A val \in Box : In(dom[1], val) => Holds(cst, val)
          /\ ~IntersectLifted(dom[1], cst) => \A val \in Box : In(dom[1], val) => ~Holds(cst, val)

(***************************************************************************)
(* A join and a widening are upper bounds of both operands, a meet and a   *)
(* narrowing are below the first one, by the code's own test,              *)
(* is_included_in, which is what the fixpoint iterator asks to find out    *)
(* whether a loop has become stable and whether narrowing has ended.       *)
(***************************************************************************)
BoundsByTest ==
    [][/\ last'.op \in {"join", "widen"} =>
              \A r \in {1, 2} : IsIncludedInLifted(dom[r], dom'[1])
       /\ last'.op \in {"meet", "narrow"} => IsIncludedInLifted(dom'[1], dom[1])]_vars
=============================================================================
