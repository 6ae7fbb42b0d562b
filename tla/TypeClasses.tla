---------------------------- MODULE TypeClasses -----------------------------
(***************************************************************************)
(* The states of the type domain and its operations: must-equality between *)
(* type variables in a disjoint-set forest, and the set of possible types  *)
(* of every class.  Types are the numbers 1 .. NumTypes (type_to_bit,      *)
(* counted from one).  A state has one element of the forest per type, its *)
(* sentinel, and one for each variable it has seen; elements are never     *)
(* given back.                                                             *)
(*   rep, rank : the forest, with every path compressed;                   *)
(*   types     : class_types, valid at representatives;                    *)
(*   vid, idv  : the two halves of VarIdMap, NoVar marking an orphan.      *)
(***************************************************************************)
EXTENDS Orders

CONSTANT NumTypes    \* how many type encodings there are

ASSUME TypesAssumption == NumTypes \in Nat /\ NumTypes > 1

Types == 1 .. NumTypes

NoVar == 0

Top == [rep   |-> [i \in Types |-> i],
        rank  |-> [i \in Types |-> 0],
        types |-> [i \in Types |-> {i}],
        vid   |-> [v \in {} |-> 0],
        idv   |-> [i \in Types |-> NoVar]]

-----------------------------------------------------------------------------
(***************************************************************************)
(* The disjoint sets.  find_const and find agree; path compression is      *)
(* invisible.                                                              *)
(***************************************************************************)
Size(s) == Len(s.rep)

\* Mutant: only the root of the losing class learns its new representative.
UnionMovesRootOnly(s, x, y) ==
    LET rx == s.rep[x]
        ry == s.rep[y]
    IN  IF s.rank[rx] < s.rank[ry] THEN [s EXCEPT !.rep[rx] = ry] ELSE [s EXCEPT !.rep[ry] = rx]

Union(s, x, y) ==
    LET rx   == s.rep[x]
        ry   == s.rep[y]
        win  == IF s.rank[rx] < s.rank[ry] THEN ry ELSE rx
        lose == IF win = rx THEN ry ELSE rx
    IN  IF rx = ry THEN s
        ELSE [s EXCEPT !.rep  = [i \in DOMAIN s.rep |-> IF s.rep[i] = lose THEN win ELSE s.rep[i]],
                       !.rank = IF s.rank[rx] = s.rank[ry] THEN [s.rank EXCEPT ![rx] = @ + 1]
                                                           ELSE s.rank]

\* class_types at the representative of x.
TypesAt(s, x) == s.types[s.rep[x]]

SetTypes(s, x, ts) == [s EXCEPT !.types[s.rep[x]] = ts]

(***************************************************************************)
(* A class with a single type joins the class of that type's sentinel.     *)
(***************************************************************************)
MergeIfSingleton(s, id) ==
    LET ts == TypesAt(s, id)
        te == CHOOSE t \in ts : TRUE
    IN  IF Cardinality(ts) = 1 /\ s.rep[id] # s.rep[te]
        THEN SetTypes(Union(s, s.rep[id], te), id, ts) ELSE s

-----------------------------------------------------------------------------
(***************************************************************************)
(* Variables and elements.                                                 *)
(***************************************************************************)
Known(s) == DOMAIN s.vid

\* A new element for v, of any type.
Push(s, v) ==
    [rep   |-> Append(s.rep, Size(s) + 1),
     rank  |-> Append(s.rank, 0),
     types |-> Append(s.types, Types),
     vid   |-> [w \in Known(s) \cup {v} |-> IF w = v THEN Size(s) + 1 ELSE s.vid[w]],
     idv   |-> Append(s.idv, v)]

EnsureVar(s, v) == IF v \in Known(s) THEN s ELSE Push(s, v)

Detach(s, v) ==
    Push(IF v \in Known(s) THEN [s EXCEPT !.idv[s.vid[v]] = NoVar] ELSE s, v)

GetTypeset(s, v) == IF v \in Known(s) THEN TypesAt(s, s.vid[v]) ELSE Types

SameClass(s, v, w) == s.rep[s.vid[v]] = s.rep[s.vid[w]]

(***************************************************************************)
(* rename, one pair; an element that carried the destination is orphaned.  *)
(* restore_callee_saved_registers havocs the destination first.            *)
(***************************************************************************)
\* Mutant: the element of the destination keeps its label.
RenameKeepsDestination(s, from, to) ==
    IF from \notin Known(s) THEN s
    ELSE [s EXCEPT !.vid = [v \in (Known(s) \ {from}) \cup {to} |->
                               s.vid[IF v = to THEN from ELSE v]],
                   !.idv = [s.idv EXCEPT ![s.vid[from]] = to]]

Rename(s, from, to) ==
    LET id == s.vid[from]
        idv == IF to \in Known(s) THEN [s.idv EXCEPT ![s.vid[to]] = NoVar] ELSE s.idv
    IN  IF from \notin Known(s) THEN s
        ELSE [s EXCEPT !.vid = [v \in (Known(s) \ {from}) \cup {to} |-> IF v = to THEN id ELSE s.vid[v]],
                       !.idv = [idv EXCEPT ![id] = to]]

RestoreRegister(s, pair) == Rename(Detach(s, pair[2]), pair[1], pair[2])

-----------------------------------------------------------------------------
(***************************************************************************)
(* Assignments.                                                            *)
(***************************************************************************)
AssignTypeEncoding(s, v, te) ==
    LET s1 == Detach(s, v)
        id == s1.vid[v]
    IN  MergeIfSingleton([s1 EXCEPT !.types[id] = {te}], id)

\* assign_from_expr with a constant: one that is no type makes bottom.
AssignConstant(s, v, n) == IF n \in Types THEN {AssignTypeEncoding(s, v, n)} ELSE {}

\* Mutant: the types of the new class are not written.
AssignTypeVarKeepsTypes(s, lhs, rhs) ==
    LET s1 == EnsureVar(Detach(s, lhs), rhs)
    IN  MergeIfSingleton(Union(s1, s1.vid[lhs], s1.vid[rhs]), s1.vid[lhs])

AssignTypeVar(s, lhs, rhs) ==
    LET s1 == EnsureVar(Detach(s, lhs), rhs)
        ts == TypesAt(s1, s1.vid[rhs])
        s2 == Union(s1, s1.vid[lhs], s1.vid[rhs])
    IN  MergeIfSingleton(SetTypes(s2, s1.vid[lhs], ts), s1.vid[lhs])

(***************************************************************************)
(* Assumptions.  An empty set of types makes bottom.                       *)
(***************************************************************************)
\* Mutant: a class narrowed to one type is not merged with its sentinel.
NarrowedNotMerged(s, id, ts) == IF ts = {} THEN {} ELSE {SetTypes(s, id, ts)}

Narrowed(s, id, ts) == IF ts = {} THEN {} ELSE {MergeIfSingleton(SetTypes(s, id, ts), id)}

RestrictTo(s, v, mask) ==
    LET s1 == EnsureVar(s, v)
    IN  Narrowed(s1, s1.vid[v], TypesAt(s1, s1.vid[v]) \cap mask)

RemoveType(s, v, te) ==
    LET s1 == EnsureVar(s, v)
    IN  Narrowed(s1, s1.vid[v], TypesAt(s1, s1.vid[v]) \ {te})

AssumeEq(s, v, w) ==
    LET s1 == EnsureVar(EnsureVar(s, v), w)
        ts == TypesAt(s1, s1.vid[v]) \cap TypesAt(s1, s1.vid[w])
    IN  Narrowed(Union(s1, s1.vid[v], s1.vid[w]), s1.vid[v], ts)

-----------------------------------------------------------------------------
(***************************************************************************)
(* Lattice operations.                                                     *)
(***************************************************************************)
\* The class of v in s; a variable that s does not know is alone in its class.
KeyIn(s, v, U) ==
    IF v \in Known(s) THEN s.rep[s.vid[v]]
    ELSE Size(s) + Cardinality({w \in U \ Known(s) : w <= v})

(***************************************************************************)
(* join: a fresh state in which two variables are equal if they are in     *)
(* both operands, with the types of either.                                *)
(***************************************************************************)
\* One class of the result: its variables, equal and of one of the types ts.
AddClass(s, ms, ts) ==
    LET s1 == Folded(EnsureVar, s, ms)
        s2 == Folded(LAMBDA acc, v : Union(acc, acc.vid[ms[1]], acc.vid[v]), s1, Tail(ms))
    IN  MergeIfSingleton(SetTypes(s2, s2.vid[ms[1]], ts), s2.vid[ms[1]])

JoinStates(a, b) ==
    LET U == Known(a) \cup Known(b)
        key(v) == <<KeyIn(a, v, U), KeyIn(b, v, U)>>
        keys == InOrder({key(v) : v \in U}, LAMBDA k, l : k[1] < l[1] \/ (k[1] = l[1] /\ k[2] < l[2]))
        class(k) == Ascending({v \in Known(a) : key(v) = k}) \o Ascending({v \in U \ Known(a) : key(v) = k})
        types(k) == UNION {GetTypeset(a, v) \cup GetTypeset(b, v) : v \in {w \in U : key(w) = k}}
    IN  Folded(LAMBDA s, k : AddClass(s, class(k), types(k)), Top, keys)

\* The classes of the variables of s, in the order of their representatives.
EquivalenceClasses(s) ==
    LET reps == Ascending({s.rep[s.vid[v]] : v \in Known(s)})
    IN  [i \in DOMAIN reps |-> Ascending({v \in Known(s) : s.rep[s.vid[v]] = reps[i]})]

MeetStates(a, b) ==
    LET start == Folded(EnsureVar, a, Ascending(Known(b)))
        unify(x, ms) == Folded(LAMBDA y, v : UNION {AssumeEq(s, ms[1], v) : s \in y}, x, Tail(ms))
        eqs == Folded(unify, {start}, EquivalenceClasses(b))
    IN  Folded(LAMBDA x, v : UNION {RestrictTo(s, v, GetTypeset(b, v)) : s \in x}, eqs, Ascending(Known(b)))

Join(d, e) == IF d = {} THEN e ELSE IF e = {} THEN d
              ELSE {JoinStates(a, b) : a \in d, b \in e}

Meet(d, e) == UNION {MeetStates(a, b) : a \in d, b \in e}

-----------------------------------------------------------------------------
(***************************************************************************)
(* Queries.                                                                *)
(***************************************************************************)
\* A class of the right-hand state is one of equal variables on the left.
ClassKept(a, ms) ==
    \/ Len(ms) <= 1
    \/ IF ms[1] \in Known(a)
       THEN \A i \in 2 .. Len(ms) : ms[i] \in Known(a) /\ SameClass(a, ms[1], ms[i])
       ELSE \A i \in 2 .. Len(ms) : ms[i] \notin Known(a)

\* Mutant: the equalities are not compared.
IncludedByTypes(a, b) ==
    /\ \A v \in Known(a) : GetTypeset(a, v) \subseteq GetTypeset(b, v)
    /\ \A v \in Known(b) \ Known(a) : GetTypeset(b, v) = Types

Included(a, b) ==
    /\ \A v \in Known(a) : GetTypeset(a, v) \subseteq GetTypeset(b, v)
    /\ \A v \in Known(b) \ Known(a) : GetTypeset(b, v) = Types
    /\ \A i \in DOMAIN EquivalenceClasses(b) : ClassKept(a, EquivalenceClasses(b)[i])

IsIncludedIn(d, e) == d = {} \/ (e # {} /\ \A a \in d, b \in e : Included(a, b))

EntailType(d, v, te) == \A s \in d : GetTypeset(s, v) = {te}

SameType(d, v, w) ==
    \A s \in d : v \in Known(s) /\ w \in Known(s) /\ SameClass(s, v, w)

\* Mutant: the premise is not taken into account.
ImpliesWithoutPremise(d, v, premise, w, conclusion) ==
    \A s \in d : GetTypeset(s, w) \subseteq conclusion

ImpliesSuperset(d, v, premise, w, conclusion) ==
    \A s \in d : \A t \in RestrictTo(s, v, premise) : GetTypeset(t, w) \subseteq conclusion

ImpliesNotType(d, v, te, w, conclusion) ==
    \A s \in d : \A t \in RemoveType(s, v, te) : GetTypeset(t, w) \subseteq conclusion
=============================================================================
