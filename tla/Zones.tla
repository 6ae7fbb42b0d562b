------------------------------- MODULE Zones --------------------------------
(***************************************************************************)
(* The operations of the zone domain: a SplitDBM whose vertices carry the  *)
(* names of program variables, lifted with a bottom (AddBottom).           *)
(*                                                                         *)
(* A state is a set: {} is bottom (None in the code) and {z} the zone z, a *)
(* record of the core, the vertex of each variable (vert_map) and the      *)
(* variable of each vertex (rev_map, NoVar where it has none).  Variables  *)
(* are positive integers, the order of their BTreeMap.                     *)
(***************************************************************************)
EXTENDS SplitDbm

CONSTANTS
    Vars,        \* the program's variables
    UintMax      \* u64::MAX at the width of the instance

ASSUME VarsAssumption == Vars \subseteq Nat \ {0}
ASSUME UintMaxAssumption == UintMax \in Nat

VARIABLE min_only  \* the variables whose upper bound is not read; it never changes

NoVar == 0

Top == [core |-> EmptyCore, vmap |-> [x \in {} |-> 0], rmap |-> 0 :> NoVar]

-----------------------------------------------------------------------------
(***************************************************************************)
(* Bounds and intervals.  A bound is the set of its number, empty where it *)
(* is infinite; an interval is a pair of bounds.  An expression is a       *)
(* constant k and a function t from variables to non-zero coefficients.    *)
(***************************************************************************)
The(b) == CHOOSE n \in b : TRUE

IsSingleton(i) == i.lo # {} /\ i.lo = i.hi

IsTopInterval(i) == i.lo = {} /\ i.hi = {}

IsBottomInterval(i) == \E m \in i.lo, n \in i.hi : m > n

\* Division rounds towards zero.
Quotient(a, b) ==
    LET abs(n) == IF n < 0 THEN -n ELSE n
        q      == abs(a) \div abs(b)
    IN  IF (a < 0) = (b < 0) THEN q ELSE -q

\* Interval::div by a constant.
DivInterval(i, k) ==
    LET div(b) == {Quotient(n, k) : n \in b}
    IN  IF k > 0 THEN [lo |-> div(i.lo), hi |-> div(i.hi)]
                 ELSE [lo |-> div(i.hi), hi |-> div(i.lo)]

Negate(e) == [k |-> -e.k, t |-> [y \in DOMAIN e.t |-> -e.t[y]]]

GetLb(z, x) == IF x \in DOMAIN z.vmap THEN GetBound(z.core, z.vmap[x], "left") ELSE {}

GetUb(z, x) == IF x \in DOMAIN z.vmap /\ x \notin min_only
               THEN GetBound(z.core, z.vmap[x], "right") ELSE {}

GetInterval(z, x) == [lo |-> GetLb(z, x), hi |-> GetUb(z, x)]

\* The bound of y that bounds the term n * y from above, and from below.
Highest(z, y, n) == IF n > 0 THEN GetUb(z, y) ELSE GetLb(z, y)

Lowest(z, y, n) == IF n > 0 THEN GetLb(z, y) ELSE GetUb(z, y)

\* The sum of the terms of e at the bounds b, infinite if one of them is.
SumAt(e, b) ==
    IF \E y \in DOMAIN b : b[y] = {} THEN {}
    ELSE {e.k + SumFunction([y \in DOMAIN b |-> e.t[y] * The(b[y])])}

EvalInterval(z, e) ==
    [lo |-> SumAt(e, [y \in DOMAIN e.t |-> Lowest(z, y, e.t[y])]),
     hi |-> SumAt(e, [y \in DOMAIN e.t |-> Highest(z, y, e.t[y])])]

\* compute_residual: the value that the terms other than the pivot's leave.
ComputeResidual(z, e, pivot) ==
    EvalInterval(z, [k |-> -e.k, t |-> [y \in DOMAIN e.t \ {pivot} |-> -e.t[y]]])

\* eval_expression at the potential, relative to that of vertex 0.
EvalExpression(z, e) ==
    LET pot(y) == IF y \in DOMAIN z.vmap THEN z.core.pot[z.vmap[y]] ELSE 0
    IN  e.k + SumFunction([y \in DOMAIN e.t |-> e.t[y] * (pot(y) - z.core.pot[0])])

-----------------------------------------------------------------------------
(***************************************************************************)
(* diffcsts_of_assign: the differences x - y <= w (or x - y >= w) that     *)
(* x := e implies, as a function from y to w.  At most one term may be     *)
(* unbounded on the side in question, and then only with coefficient 1.    *)
(***************************************************************************)
DiffcstsOfAssign(z, e, upper) ==
    LET bound == [y \in DOMAIN e.t |-> IF upper THEN Highest(z, y, e.t[y])
                                                ELSE Lowest(z, y, e.t[y])]
        open  == {y \in DOMAIN bound : bound[y] = {}}
        residual == e.k + SumFunction([y \in DOMAIN bound \ open |-> e.t[y] * The(bound[y])])
        pos   == {y \in DOMAIN bound : e.t[y] > 0}
    IN  IF open = {} THEN [y \in pos |-> residual - The(bound[y])]
        ELSE IF Cardinality(open) = 1 /\ \A y \in open : e.t[y] = 1
             THEN [y \in open |-> residual]
             ELSE [y \in {} |-> 0]

(***************************************************************************)
(* diffcsts_of_lin_leq: what  e <= 0  says of single variables (lbs, ubs)  *)
(* and of differences p - n (csts).  Each other term is replaced by its    *)
(* lowest value; a side with an unbounded term says something of that      *)
(* term's variable only, and with two it says nothing.                     *)
(***************************************************************************)
DiffcstsAt(e, bound) ==
    LET open  == {y \in DOMAIN bound : bound[y] = {}}
        pos   == {y \in DOMAIN bound : e.t[y] > 0}
        neg   == DOMAIN bound \ pos
        at    == [y \in DOMAIN bound |-> IF y \in open THEN 0 ELSE The(bound[y])]
        coef(y) == IF e.t[y] > 0 THEN e.t[y] ELSE -e.t[y]
        expUb == -e.k - SumFunction([y \in DOMAIN bound |-> e.t[y] * at[y]])
        P     == IF pos \cap open = {} THEN pos ELSE pos \cap open
        N     == IF neg \cap open = {} THEN neg ELSE neg \cap open
        none  == [y \in {} |-> 0]
    IN  IF Cardinality(pos \cap open) > 1 \/ Cardinality(neg \cap open) > 1
        THEN [lbs |-> none, ubs |-> none, csts |-> none]
        ELSE [lbs  |-> IF pos \cap open = {}
                       THEN [y \in N |-> Quotient(-expUb, coef(y)) + at[y]] ELSE none,
              ubs  |-> IF neg \cap open = {}
                       THEN [y \in P |-> Quotient(expUb, coef(y)) + at[y]] ELSE none,
              csts |-> IF \A y \in open : coef(y) = 1
                       THEN [e2 \in P \X N |-> expUb - at[e2[2]] + at[e2[1]]] ELSE none]

DiffcstsOfLinLeq(z, e) == DiffcstsAt(e, [y \in DOMAIN e.t |-> Lowest(z, y, e.t[y])])

-----------------------------------------------------------------------------
(***************************************************************************)
(* Vertices and the two maps.                                              *)
(***************************************************************************)
GetVert(z, x) ==
    IF x \in DOMAIN z.vmap THEN z
    ELSE LET v == FreshVertex(z.core)
         IN  [core |-> NewVertex(z.core), vmap |-> (x :> v) @@ z.vmap, rmap |-> (v :> x) @@ z.rmap]

WithCore(z, c) == [core |-> c, vmap |-> z.vmap, rmap |-> z.rmap]

\* Mutant: the vertex keeps its edges and its name, only vert_map forgets it.
HavocKeepsVertex(z, x) ==
    IF x \notin DOMAIN z.vmap THEN z
    ELSE [core |-> z.core, vmap |-> [y \in DOMAIN z.vmap \ {x} |-> z.vmap[y]], rmap |-> z.rmap]

Havoc(z, x) ==
    IF x \notin DOMAIN z.vmap THEN z
    ELSE [core |-> ForgetCore(z.core, z.vmap[x]),
          vmap |-> [y \in DOMAIN z.vmap \ {x} |-> z.vmap[y]],
          rmap |-> (z.vmap[x] :> NoVar) @@ z.rmap]

Forget(z, S) == IF IsTop(z.core) THEN z ELSE FoldLeft(Havoc, z, Ascending(S))

\* rename: one pair after the other; a destination that exists is forgotten.
RenameOne(z, pair) ==
    LET from == pair[1]
        to   == pair[2]
        vert == z.vmap[from]
        z1   == [z EXCEPT !.vmap = [y \in DOMAIN z.vmap \ {from} |-> z.vmap[y]]]
        z2   == Havoc(z1, to)
    IN  IF from \notin DOMAIN z.vmap THEN z
        ELSE [core |-> z2.core, vmap |-> (to :> vert) @@ z2.vmap, rmap |-> (vert :> to) @@ z2.rmap]

Rename(z, renaming) == FoldLeft(RenameOne, z, renaming)

(***************************************************************************)
(* restore_callee_saved_registers, the one user of rename: the registers   *)
(* lose what the callee left in them, then take over the vertices of the   *)
(* frame variables that hold the caller's values.                          *)
(***************************************************************************)
\* Mutant: the registers are not cleared first.
RestoreWithoutHavoc(z, renaming) == Rename(z, renaming)

Restore(z, renaming) ==
    Rename(FoldLeft(LAMBDA acc, pair : Havoc(acc, pair[2]), z, renaming), renaming)

-----------------------------------------------------------------------------
(***************************************************************************)
(* set: a fresh vertex with the bounds of the interval.                    *)
(***************************************************************************)
Set(z, x, i) ==
    LET z1 == GetVert(Havoc(z, x), x)
        v  == z1.vmap[x]
        c1 == IF i.hi # {} /\ x \notin min_only
              THEN SetBound(z1.core, v, "right", The(i.hi)) ELSE z1.core
        c2 == IF i.lo # {} THEN SetBound(c1, v, "left", The(i.lo)) ELSE c1
    IN  IF IsTopInterval(i) THEN Havoc(z, x) ELSE WithCore(z1, c2)

(***************************************************************************)
(* assign: the value is evaluated, and its differences with the variables  *)
(* of the expression extracted, before x loses its old vertex, so that     *)
(* x := x + 1 keeps the relations of x.                                    *)
(***************************************************************************)
MoveTo(z, x, vert) == [z EXCEPT !.vmap = (x :> vert) @@ z.vmap]

AssignFresh(z, x, value, i, lbs, ubs) ==
    LET vert == FreshVertex(z.core)
        core == AssignVertex(z.core, z.core.pot[0] + value,
                    [v \in {z.vmap[y] : y \in DOMAIN lbs} |-> -lbs[z.rmap[v]]],
                    [v \in {z.vmap[y] : y \in DOMAIN ubs} |-> ubs[z.rmap[v]]],
                    i.lo, IF x \in min_only THEN {} ELSE i.hi)
    IN  MoveTo(Havoc([core |-> core, vmap |-> z.vmap, rmap |-> (vert :> x) @@ z.rmap], x), x, vert)

AssignKnowing(z, x, e, i, lbs, ubs) ==
    IF IsSingleton(i) \/ DOMAIN lbs \cup DOMAIN ubs = {} THEN Set(z, x, i)
    ELSE AssignFresh(FoldLeft(GetVert, z, Ascending(DOMAIN lbs) \o Ascending(DOMAIN ubs)),
                     x, EvalExpression(z, e), i, lbs, ubs)

Assign(z, x, e) ==
    AssignKnowing(z, x, e, EvalInterval(z, e),
                  DiffcstsOfAssign(z, e, FALSE), DiffcstsOfAssign(z, e, TRUE))

-----------------------------------------------------------------------------
(***************************************************************************)
(* Constraints.  Each operation returns [ok, z]; ok is FALSE when the zone *)
(* became infeasible, and the caller then drops it.                        *)
(***************************************************************************)
Feasible(z) == [ok |-> TRUE, z |-> z]

Updated(z, res) == [ok |-> res.ok, z |-> WithCore(z, res.core)]

\* One step on the core of an accumulated result, skipped after a failure.
BoundStep(acc, x, side, n) ==
    IF ~acc.ok THEN acc
    ELSE LET z == GetVert(acc.z, x)
         IN  Updated(z, UpdateBoundIfTighter(z.core, z.vmap[x], side, n))

DifferenceStep(acc, p, n, k) ==
    IF ~acc.ok THEN acc
    ELSE LET z == GetVert(GetVert(acc.z, n), p)
         IN  Updated(z, AddDifferenceConstraint(z.core, z.vmap[n], z.vmap[p], k))

AddBounds(acc, side, bounds) ==
    FoldLeft(LAMBDA a, x : BoundStep(a, x, side, bounds[x]), acc, Ascending(DOMAIN bounds))

AddDifferences(acc, csts) ==
    LET Ns == Ascending({c[2] : c \in DOMAIN csts})
        Ps == Ascending({c[1] : c \in DOMAIN csts})
    IN  FoldLeft(LAMBDA a, n :
                     FoldLeft(LAMBDA b, p : DifferenceStep(b, p, n, csts[<<p, n>>]), a, Ps),
                 acc, Ns)

CloseIfFeasible(acc) ==
    IF acc.ok THEN Feasible(WithCore(acc.z, CloseAfterBoundUpdates(acc.z.core))) ELSE acc

AddDiffcsts(z, d) ==
    LET ubs == [x \in DOMAIN d.ubs \ min_only |-> d.ubs[x]]
    IN  CloseIfFeasible(
            AddDifferences(AddBounds(AddBounds(Feasible(z), "left", d.lbs), "right", ubs), d.csts))

AddLinearLeq(z, e) == AddDiffcsts(z, DiffcstsOfLinLeq(z, e))

(***************************************************************************)
(* x # n can only cut off an end of the interval of x.                     *)
(***************************************************************************)
TrimInterval(i, n) ==
    IF i.lo = {n} THEN [lo |-> {n + 1}, hi |-> i.hi]
    ELSE IF i.hi = {n} THEN [lo |-> i.lo, hi |-> {n - 1}]
    ELSE IF IsTopInterval(i) /\ n = 0 THEN [lo |-> {1}, hi |-> {UintMax}]
    ELSE i

StrengthenStep(acc, x, side, b) ==
    IF ~acc.ok \/ b = {} THEN acc
    ELSE Updated(acc.z, StrengthenBound(acc.z.core, acc.z.vmap[x], side, The(b)))

StrengthenTo(z, x, i) ==
    IF IsBottomInterval(i) THEN [ok |-> FALSE, z |-> z]
    ELSE IF IsTopInterval(i) THEN Feasible(z)
    ELSE StrengthenStep(StrengthenStep(Feasible(GetVert(z, x)), x, "left", i.lo),
                        x, "right", IF x \in min_only THEN {} ELSE i.hi)

AddUnivarDisequation(z, x, n) == StrengthenTo(z, x, TrimInterval(GetInterval(z, x), n))

\* A constraint relates an expression e to zero; cst.kind says how.
Tautology(cst) == CASE cst.kind = "eq" -> cst.e.k = 0
                    [] cst.kind = "le" -> cst.e.k <= 0
                    [] cst.kind = "lt" -> cst.e.k < 0
                    [] cst.kind = "ne" -> cst.e.k # 0

ExcludeValue(acc, x, i) ==
    IF acc.ok /\ IsSingleton(i) THEN AddUnivarDisequation(acc.z, x, The(i.lo)) ELSE acc

\* The inequalities e <= 0 that a constraint stands for, one after the other.
Inequalities(cst) ==
    CASE cst.kind = "le" -> <<cst.e>>
      [] cst.kind = "lt" -> <<[k |-> cst.e.k + 1, t |-> cst.e.t]>>
      [] cst.kind = "eq" -> <<cst.e, Negate(cst.e)>>

AddConstraint(z, cst) ==
    IF DOMAIN cst.e.t = {} THEN [ok |-> Tautology(cst), z |-> z]
    ELSE IF cst.kind = "ne"
    THEN FoldLeft(LAMBDA acc, x :
                      ExcludeValue(acc, x, DivInterval(ComputeResidual(acc.z, cst.e, x), cst.e.t[x])),
                  Feasible(z), Ascending(DOMAIN cst.e.t))
    ELSE FoldLeft(LAMBDA acc, e : IF acc.ok THEN AddLinearLeq(acc.z, e) ELSE acc,
                  Feasible(z), Inequalities(cst))

-----------------------------------------------------------------------------
(***************************************************************************)
(* Queries.                                                                *)
(***************************************************************************)
NegateConstraint(cst) ==
    CASE cst.kind = "ne" -> [kind |-> "eq", e |-> cst.e]
      [] cst.kind = "eq" -> [kind |-> "ne", e |-> cst.e]
      [] cst.kind = "lt" -> [kind |-> "le", e |-> Negate(cst.e)]
      [] cst.kind = "le" -> [kind |-> "lt", e |-> Negate(cst.e)]

EntailAux(z, cst) == ~AddConstraint(z, NegateConstraint(cst)).ok

\* Mutant: an equality is entailed as soon as one of its two halves is.
EntailHalfEquality(z, cst) ==
    IF DOMAIN cst.e.t = {} THEN Tautology(cst)
    ELSE IF cst.kind = "eq"
         THEN EntailAux(z, [kind |-> "le", e |-> cst.e])
         ELSE EntailAux(z, cst)

Entail(z, cst) ==
    LET i == EvalInterval(z, cst.e)
        byInterval == CASE cst.kind = "eq" -> i.lo = {0} /\ i.hi = {0}
                        [] cst.kind = "le" -> \E n \in i.hi : n <= 0
                        [] cst.kind = "lt" -> \E n \in i.hi : n < 0
                        [] cst.kind = "ne" -> (\E n \in i.hi : n < 0) \/ (\E n \in i.lo : n > 0)
    IN  IF DOMAIN cst.e.t = {} THEN Tautology(cst)
        ELSE \/ byInterval
             \/ \A half \in IF cst.kind = "eq"
                            THEN {[kind |-> "le", e |-> d] : d \in {cst.e, Negate(cst.e)}}
                            ELSE {cst} : EntailAux(z, half)

IsIncludedIn(z, o) ==
    LET bound == {x \in DOMAIN o.vmap : HasEdges(o.core.g, o.vmap[x])}
        perm  == [v \in {o.vmap[x] : x \in bound} |-> z.vmap[o.rmap[v]]] @@ (0 :> 0)
    IN  \/ IsTop(o.core)
        \/ /\ ~IsTop(z.core)
           /\ Cardinality(DOMAIN z.vmap) >= Cardinality(DOMAIN o.vmap)
           /\ bound \subseteq DOMAIN z.vmap
           /\ IsSubsumedBy(z.core.g, o.core.g, perm)

(***************************************************************************)
(* Alignment: position i of the sequence of variables xs becomes vertex i. *)
(***************************************************************************)
PermOf(z, xs) ==
    [i \in {j \in DOMAIN xs : xs[j] \in DOMAIN z.vmap} |-> z.vmap[xs[i]]] @@ (0 :> 0)

Aligned(core, xs, kept) ==
    LET at == {i \in DOMAIN xs : i \in kept}
    IN  [core |-> core,
         vmap |-> [x \in {xs[i] : i \in at} |-> CHOOSE i \in at : xs[i] = x],
         rmap |-> [i \in DOMAIN xs |-> IF i \in at THEN xs[i] ELSE NoVar] @@ (0 :> NoVar)]

Join(l, r) ==
    LET xs   == Ascending(DOMAIN l.vmap \cap DOMAIN r.vmap)
        core == JoinCore(l.core, r.core, PermOf(l, xs), PermOf(r, xs))
    IN  IF IsTop(r.core) THEN r
        ELSE IF IsTop(l.core) THEN l
        ELSE Aligned(core, xs, DOMAIN xs \ DisconnectedVertices(core))

Widen(l, r) ==
    LET xs == Ascending(DOMAIN l.vmap \cap DOMAIN r.vmap)
    IN  Aligned(WidenCore(l.core, r.core, PermOf(l, xs), PermOf(r, xs)), xs, DOMAIN xs)

Meet(l, r) ==
    LET xs  == Ascending(DOMAIN l.vmap) \o Ascending(DOMAIN r.vmap \ DOMAIN l.vmap)
        rel(z, x) == z.core.pot[z.vmap[x]] - z.core.pot[0]
        pot == [i \in DOMAIN xs |-> IF xs[i] \in DOMAIN l.vmap THEN rel(l, xs[i])
                                                               ELSE rel(r, xs[i])] @@ (0 :> 0)
        name(res) == IF res.ok THEN Feasible(Aligned(res.core, xs, DOMAIN xs))
                     ELSE [ok |-> FALSE, z |-> l]
    IN  IF IsTop(l.core) THEN Feasible(r)
        ELSE IF IsTop(r.core) THEN Feasible(l)
        ELSE name(MeetCore(l.core, r.core, PermOf(l, xs), PermOf(r, xs), DOMAIN pot, pot))

\* Mutant: the result of narrowing is the new state.
NarrowTakesRight(l, r) == r

Narrow(l, r) == IF IsTop(l.core) THEN r ELSE l

-----------------------------------------------------------------------------
(***************************************************************************)
(* AddBottom: the operations on a state that may be bottom.                *)
(***************************************************************************)
Lift(d, Op(_)) == {Op(z) : z \in d}

Keep(results) == {res.z : res \in {x \in results : x.ok}}

LiftBinary(a, b, Op(_, _)) == IF a = {} THEN b ELSE IF b = {} THEN a
                              ELSE {Op(The(a), The(b))}

LiftMeet(a, b) == Keep({Meet(x, y) : x \in a, y \in b})

LiftNarrow(a, b) == {Narrow(x, y) : x \in a, y \in b}

IsIncludedInLifted(a, b) == a = {} \/ (b # {} /\ IsIncludedIn(The(a), The(b)))

EntailLifted(d, cst) == \A z \in d : Entail(z, cst)

IntersectLifted(d, cst) ==
    IF DOMAIN cst.e.t = {} THEN d # {} /\ Tautology(cst)
    ELSE \E z \in d : IsTop(z.core) \/ AddConstraint(z, cst).ok
-----------------------------------------------------------------------------
(***************************************************************************)
(* What a state stands for: the valuations of the variables that satisfy   *)
(* the constraint of every edge.                                           *)
(***************************************************************************)
Sat(z, val) ==
    Models([v \in DOMAIN z.rmap |-> IF z.rmap[v] = NoVar THEN 0 ELSE val[z.rmap[v]]], z.core.g)

In(d, val) == \E z \in d : Sat(z, val)

Value(e, val) == e.k + SumFunction([y \in DOMAIN e.t |-> e.t[y] * val[y]])

Holds(cst, val) ==
    CASE cst.kind = "eq" -> Value(cst.e, val) = 0
      [] cst.kind = "le" -> Value(cst.e, val) <= 0
      [] cst.kind = "lt" -> Value(cst.e, val) < 0
      [] cst.kind = "ne" -> Value(cst.e, val) # 0
=============================================================================
