----------------------------- MODULE TypeDomain -----------------------------
(***************************************************************************)
(* The type domain as a machine.  As in ZoneDomain it holds two abstract   *)
(* states and applies the domain's operations to them; {} is bottom and    *)
(* {s} the state s.                                                        *)
(***************************************************************************)
EXTENDS TypeClasses

CONSTANTS
    Vars,        \* type variables: positive integers, in the order of the code
    Masks,       \* the type groups a variable may be restricted to
    Renamings,   \* the pairs <<from, to>> a register may be restored by
    MaxOps       \* bound: operations performed on the two states together

ASSUME TypeVarsAssumption == Vars \subseteq Nat \ {0} /\ Vars # {}
ASSUME MasksAssumption == Masks \subseteq SUBSET Types /\ Renamings \subseteq Vars \X Vars
ASSUME OpsAssumption == MaxOps \in Nat

VARIABLES dom, ops, last

vars == <<dom, ops, last>>

-----------------------------------------------------------------------------
TypeOK ==
    /\ ops \in 0 .. MaxOps
    /\ \A r \in {1, 2} : Cardinality(dom[r]) <= 1
    /\ \A r \in {1, 2} : \A s \in dom[r] :
          /\ Known(s) \subseteq Vars
          /\ \A i \in DOMAIN s.rep : s.rep[i] \in DOMAIN s.rep /\ s.rep[s.rep[i]] = s.rep[i]
          /\ Len(s.rank) = Size(s) /\ Len(s.types) = Size(s) /\ Len(s.idv) = Size(s)

Init ==
    /\ dom = [r \in {1, 2} |-> {Top}]
    /\ ops = 0
    /\ last = <<"none">>

Step(r, label, new) ==
    /\ ops < MaxOps
    /\ ops' = ops + 1
    /\ dom' = [dom EXCEPT ![r] = new]
    /\ last' = label

Each(r, Op(_)) == {Op(s) : s \in dom[r]}

DoAssignType(r) == \E v \in Vars, t \in Types \cup {0} :
    Step(r, <<"type", r, v, t>>, UNION Each(r, LAMBDA s : AssignConstant(s, v, t)))

\* assign_reg leaves a register that is copied to itself alone.
DoCopy(r) == \E v, w \in Vars :
    Step(r, <<"copy", r, v, w>>,
         IF v = w THEN dom[r] ELSE Each(r, LAMBDA s : AssignTypeVar(s, v, w)))

DoHavoc(r) == \E v \in Vars :
    Step(r, <<"havoc", r, v>>, Each(r, LAMBDA s : Detach(s, v)))

DoRestrict(r) == \E v \in Vars, m \in Masks :
    Step(r, <<"restrict", r, v, m>>, UNION Each(r, LAMBDA s : RestrictTo(s, v, m)))

DoRemove(r) == \E v \in Vars, t \in Types :
    Step(r, <<"restrict", r, v, Types \ {t}>>, UNION Each(r, LAMBDA s : RemoveType(s, v, t)))

DoAssumeEq(r) == \E v, w \in Vars :
    Step(r, <<"equal", r, v, w>>, UNION Each(r, LAMBDA s : AssumeEq(s, v, w)))

DoRestore(r) == \E pair \in Renamings :
    Step(r, <<"restore", r, pair>>, Each(r, LAMBDA s : RestoreRegister(s, pair)))

DoSetToTop(r) == Step(r, <<"top", r>>, {Top})

DoClone == Step(2, <<"clone">>, dom[1])

\* widen is join.
DoJoin == Step(1, <<"join">>, Join(dom[1], dom[2]))

\* narrow is meet.
DoMeet == Step(1, <<"meet">>, Meet(dom[1], dom[2]))

Next ==
    \/ \E r \in {1, 2} : \/ DoAssignType(r)
                         \/ DoCopy(r)
                         \/ DoHavoc(r)
                         \/ DoRestrict(r)
                         \/ DoRemove(r)
                         \/ DoAssumeEq(r)
                         \/ DoRestore(r)
                         \/ DoSetToTop(r)
    \/ DoClone
    \/ DoJoin
    \/ DoMeet

Spec == Init /\ [][Next]_vars

-----------------------------------------------------------------------------
(***************************************************************************)
(* The valuations a state stands for.                                      *)
(***************************************************************************)
Gamma(d) ==
    UNION {{f \in [Vars -> Types] :
               \A v \in Known(s) :
                   /\ f[v] \in GetTypeset(s, v)
                   /\ \A w \in Known(s) : SameClass(s, v, w) => f[v] = f[w]} : s \in d}

(***************************************************************************)
(* Every operation does to the valuations exactly what TypeValuations      *)
(* says: an assignment or an assumption loses and invents nothing, a meet  *)
(* is the intersection (bottom exactly when it is empty), and a join is    *)
(* the most precise one there is.                                          *)
(***************************************************************************)
Abstract == INSTANCE TypeValuations WITH meaning <- [r \in {1, 2} |-> Gamma(dom[r])]

ImplementsTypeValuations == Abstract!Spec

(***************************************************************************)
(* The singleton-merging invariant of the code: every element whose class  *)
(* has the one type te is in the class of te's sentinel, and a sentinel    *)
(* never loses its type.                                                   *)
(***************************************************************************)
SingletonsMerged ==
    \A r \in {1, 2} : \A s \in dom[r] :
        /\ \A t \in Types : TypesAt(s, t) = {t}
        /\ \A v \in Known(s), t \in Types :
              TypesAt(s, s.vid[v]) = {t} => s.rep[s.vid[v]] = s.rep[t]

(***************************************************************************)
(* The invariant of VarIdMap: the two maps are inverse to each other, and  *)
(* an element that lost its variable (orphan) is labelled by none.         *)
(***************************************************************************)
IdsMatch ==
    \A r \in {1, 2} : \A s \in dom[r] :
        /\ \A v \in Known(s) : s.idv[s.vid[v]] = v
        /\ \A i \in DOMAIN s.idv : s.idv[i] # NoVar =>
              s.idv[i] \in Known(s) /\ s.vid[s.idv[i]] = i

(***************************************************************************)
(* The union-find, its types and the names of its elements fit together.   *)
(***************************************************************************)
RepresentationOK == TypeOK /\ IdsMatch /\ SingletonsMerged

(***************************************************************************)
(* The questions the checker and the transformer ask are answered exactly: *)
(* yes if and only if it is so in every valuation of the state.  For the   *)
(* equality of types this needs the merging of singletons.                 *)
(***************************************************************************)
QueriesExact ==
    LET G == Gamma(dom[1])
    IN  \A v, w \in Vars :
        LET P == {<<f[v], f[w]>> : f \in G}
        IN  /\ \A t \in Types : EntailType(dom[1], v, t) <=> \A p \in P : p[1] = t
            /\ v # w => (SameType(dom[1], v, w) <=> \A p \in P : p[1] = p[2])
            /\ \A m, c \in Masks : ImpliesSuperset(dom[1], v, m, w, c)
                                      <=> \A p \in P : p[1] \in m => p[2] \in c
            /\ \A t \in Types, c \in Masks : ImpliesNotType(dom[1], v, t, w, c)
                                      <=> \A p \in P : p[1] # t => p[2] \in c

(***************************************************************************)
(* is_included_in is exact, provided the left-hand state has seen the      *)
(* variables of the right-hand one.                                        *)
(***************************************************************************)
InclusionExactWhenKnown ==
    \A a \in dom[1], b \in dom[2] :
        Known(b) \subseteq Known(a) =>
            (IsIncludedIn({a}, {b}) <=> Gamma({a}) \subseteq Gamma({b}))

(***************************************************************************)
(* What the state is asked, by the checker and by the iterator, is answered *)
(* exactly.                                                                *)
(***************************************************************************)
AnswersExact == QueriesExact /\ InclusionExactWhenKnown
=============================================================================
