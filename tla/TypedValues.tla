---------------------------- MODULE TypedValues -----------------------------
(***************************************************************************)
(* The product of the type domain and the numeric domain: what a location  *)
(* may hold (its types) and, for each type, the values that have a meaning *)
(* for it.  A location is a number: 0 for what is not attached to one (the *)
(* size of the packet), 1 .. 12 for the registers, then the slots that     *)
(* keep the callee-saved registers of a caller and the cells of the stack. *)
(* Its type variable has the number of the location; the variable of kind  *)
(* k has the number 32 * location + k.                                     *)
(*                                                                         *)
(* A state has the type domain and the numeric domain, each a set with at  *)
(* most one element, and the stack: the bytes that hold numbers (num) and  *)
(* the cells <<kind, offset, size>>.  It is bottom when values is empty.   *)
(*                                                                         *)
(* What changes a state is a sequence of commands.  A command is a call of *)
(* the numeric domain (see FiniteDomain), one of the commands below, or    *)
(* one that a later module replaces by others, looking at the state.       *)
(***************************************************************************)
EXTENDS ScalarOps

T == INSTANCE TypeClasses WITH NumTypes <- 12

TUninit == 1
TMapPrograms == 2
TMap == 3
TNum == 4
TCtx == 5
TPacket == 6
TStack == 7
TShared == 8
TSocket == 9
TBtfId == 10
TAllocMem == 11
TFunc == 12

Svalues == 1
Uvalues == 2
CtxOffsets == 3
MapFds == 5
MapFdPrograms == 7
PacketOffsets == 9
SharedOffsets == 11
StackOffsets == 13
SharedRegionSizes == 15
StackNumericSizes == 17
SocketOffsets == 19
BtfIdOffsets == 21
AllocMemOffsets == 23
AllocMemSizes == 25
Types == 31

\* The values that have a meaning for a type; the first is its offset.
TypeToKinds ==
    <<<<>>, <<MapFdPrograms>>, <<MapFds>>, <<Svalues>>, <<CtxOffsets>>, <<PacketOffsets>>,
      <<StackOffsets, StackNumericSizes>>, <<SharedOffsets, SharedRegionSizes>>, <<SocketOffsets>>,
      <<BtfIdOffsets>>, <<AllocMemOffsets, AllocMemSizes>>, <<>>>>

TypesWithKinds == {t \in T!Types : TypeToKinds[t] # <<>>}

TypeDependentKinds == UNION {Range(TypeToKinds[t]) : t \in TypesWithKinds}

ValueKinds == TypeDependentKinds \cup {Uvalues}

\* The value of kind k of location l (reg_pack, kind_var).
KindVar(k, l) == 32 * l + k

OffsetVar(l, t) == KindVar(TypeToKinds[t][1], l)

PacketSize == 1
MetaOffset == 3

\* Variables of which only the lower bound is kept (meta_for_kind).
IsMinOnly(x) == x = PacketSize \/ x % 32 \in {SharedRegionSizes, StackNumericSizes}

Reg(r) == r + 1

-----------------------------------------------------------------------------
\* Commands.
AssignType(l, t) == [do |-> "type", l |-> l, t |-> t]
CopyType(l, from) == [do |-> "typevar", l |-> l, from |-> from]
HavocType(l) == [do |-> "untype", l |-> l]
RestrictType(l, mask) == [do |-> "restrict", l |-> l, mask |-> mask]
RemoveType(l, t) == [do |-> "remove", l |-> l, t |-> t]
EqualTypes(l, m) == [do |-> "typeeq", l |-> l, from |-> m]
NumBytes(B) == [do |-> "num", B |-> B]
NonNumBytes(B) == [do |-> "nonnum", B |-> B]
MkCell(c) == [do |-> "mkcell", c |-> c]
RemoveCells(C) == [do |-> "remcells", C |-> C]
SetToBottom == [do |-> "bottom"]
ForgetsAll(X) == [do |-> "forget", X |-> X]
RenameLocs(pairs) == [do |-> "rename", pairs |-> pairs]

TypeCommands == {"type", "typevar", "untype", "restrict", "remove", "typeeq"}
StackCommands == {"num", "nonnum", "mkcell", "remcells"}
ValueCommands == {"assign", "set", "havoc", "assume", "keep", "panic", "wrap", "binop"}

ApplyType(s, c) ==
    CASE c.do = "type"     -> {T!AssignTypeEncoding(s, c.l, c.t)}
      [] c.do = "typevar"  -> {T!AssignTypeVar(s, c.l, c.from)}
      [] c.do = "untype"   -> {T!Detach(s, c.l)}
      [] c.do = "restrict" -> T!RestrictTo(s, c.l, c.mask)
      [] c.do = "remove"   -> T!RemoveType(s, c.l, c.t)
      [] c.do = "typeeq"   -> T!AssumeEq(s, c.l, c.from)

ApplyStack(S, c) ==
    CASE c.do = "num"      -> [S EXCEPT !.num = @ \cup c.B]
      [] c.do = "nonnum"   -> [S EXCEPT !.num = @ \ c.B]
      [] c.do = "mkcell"   -> [S EXCEPT !.cells = @ \cup {c.c}]
      [] c.do = "remcells" -> [S EXCEPT !.cells = @ \ c.C]

ForgetIn(z, X) == FoldLeft(Havoc, z, Ascending(X \cap DOMAIN z.vmap))

\* rename of both halves, one location after the other.
RenameBoth(S, pairs) ==
    [S EXCEPT !.types = {FoldLeft(LAMBDA s, p : T!Rename(s, p[1], p[2]), s0, pairs) : s0 \in @},
              !.values = {FoldLeft(LAMBDA z, p :
                                       Rename(z, [i \in 1 .. Cardinality(ValueKinds) |->
                                           LET k == Ascending(ValueKinds)[i]
                                           IN  <<KindVar(k, p[1]), KindVar(k, p[2])>>]),
                                   z0, pairs) : z0 \in @}]

Apply(S, c) ==
    CASE c.do \in ValueCommands -> [S EXCEPT !.values = Run(@, <<c>>)]
      [] c.do \in TypeCommands  -> [S EXCEPT !.types = UNION {ApplyType(s, c) : s \in @}]
      [] c.do \in StackCommands -> ApplyStack(S, c)
      [] c.do = "forget"        -> [S EXCEPT !.values = {ForgetIn(z, c.X) : z \in @}]
      [] c.do = "rename"        -> RenameBoth(S, c.pairs)
      [] c.do = "bottom"        -> [S EXCEPT !.values = {}]

-----------------------------------------------------------------------------
\* Queries.
IsBottom(S) == S.values = {}

\* A question about an interval is asked of a state that is not bottom.
EvalIn(S, e) == IF IsBottom(S) THEN I!Bottom ELSE Eval(The(S.values), e)
EvalVar(S, x) == EvalIn(S, Var(x))
Entails(S, cst) == EntailLifted(S.values, cst)
Intersects(S, cst) == IntersectLifted(S.values, cst)

TypesOf(S, l) == UNION {T!GetTypeset(s, l) : s \in S.types}
MayHaveType(S, l, t) == t \in TypesOf(S, l)
IsOnly(S, l, mask) == TypesOf(S, l) \subseteq mask
IsInitialized(S, l) == TUninit \notin TypesOf(S, l)
IterateTypes(S, l) == IF MayHaveType(S, l, TUninit) THEN {TUninit} ELSE TypesOf(S, l)
TypeVariables(S) == UNION {T!Known(s) : s \in S.types}

-----------------------------------------------------------------------------
(***************************************************************************)
(* The lattice.                                                            *)
(***************************************************************************)
\* The values that have no meaning for the types that a tracked location may
\* have.
NonexistentKindVariables(S) ==
    {KindVar(k, l) : <<k, l>> \in
        {p \in TypeDependentKinds \X TypeVariables(S) :
            \A t \in TypesWithKinds : p[1] \in Range(TypeToKinds[t]) => ~MayHaveType(S, p[2], t)}}

\* Mutant: the values of types that the left side cannot have are compared.
StateIncludedStrictly(S, other) ==
    \/ IsBottom(S)
    \/ /\ ~IsBottom(other)
       /\ T!IsIncludedIn(S.types, other.types)
       /\ IsIncludedInLifted(S.values, other.values)

StateIncluded(S, other) ==
    \/ IsBottom(S)
    \/ /\ ~IsBottom(other)
       /\ T!IsIncludedIn(S.types, other.types)
       /\ IsIncludedInLifted(S.values,
              {ForgetIn(z, NonexistentKindVariables(S)) : z \in other.values})

\* Mutant: the left side's bounds are put back for the types both sides have.
TypeDependentConstraintsOfLeft(S, right) ==
    LET found == UNION {{<<KindVar(k, p[1]), EvalVar(S, KindVar(k, p[1]))>> : k \in Range(TypeToKinds[p[2]])} :
                           p \in {q \in TypeVariables(S) \X TypesWithKinds : MayHaveType(S, q[1], q[2])}}
    IN  {f \in found : ~I!IsTop(f[2])}

\* The bounds of the values of a type that only one side may have.
TypeDependentConstraints(S, right) ==
    LET one(l, t) == MayHaveType(S, l, t) # MayHaveType(right, l, t)
        source(l, t) == IF MayHaveType(S, l, t) THEN S ELSE right
        found == UNION {{<<KindVar(k, l), EvalVar(source(l, t), KindVar(k, l))>> : k \in Range(TypeToKinds[t])} :
                           <<l, t>> \in {p \in (TypeVariables(S) \cup TypeVariables(right)) \X TypesWithKinds :
                                            one(p[1], p[2])}}
    IN  {f \in found : ~I!IsTop(f[2])}

\* What join_assign and join_selective do to the values.
JoinValues(S, right) ==
    LET extra == SortSeq(Enumerated(TypeDependentConstraints(S, right)), LAMBDA f, g : f[1] < g[1])
    IN  Run(LiftBinary(S.values, right.values, Join), [i \in DOMAIN extra |-> Sets(extra[i][1], extra[i][2])])

JoinStates(S, right) ==
    LET left == IF IsBottom(S) THEN right ELSE S
    IN  IF IsBottom(right) THEN left
        ELSE [left EXCEPT !.values = JoinValues(left, right), !.types = T!Join(left.types, right.types)]

\* Unlike a join, widening does not put the one-sided bounds back.
WidenStates(S, right) ==
    [S EXCEPT !.values = LiftBinary(S.values, right.values, Widen), !.types = T!Join(S.types, right.types)]

MeetStates(S, right) ==
    LET types == T!Meet(S.types, right.types)
    IN  IF types = {} THEN [S EXCEPT !.values = {}, !.types = {T!Top}]
        ELSE [S EXCEPT !.values = LiftMeet(S.values, right.values), !.types = types]

NarrowStates(S, right) ==
    [S EXCEPT !.values = LiftNarrow(S.values, right.values), !.types = T!Meet(S.types, right.types)]

-----------------------------------------------------------------------------
(***************************************************************************)
(* Helpers that keep the two halves in step.                               *)
(***************************************************************************)
ForgetKinds(l, kinds) == <<ForgetsAll({KindVar(k, l) : k \in kinds})>>

ForgetTypeDependentValues(l) == ForgetKinds(l, TypeDependentKinds)
HavocOffsets(l) == ForgetKinds(l, TypeDependentKinds \ {Svalues})
HavocRegisterExceptType(l) == ForgetKinds(l, ValueKinds)
HavocRegister(l) == <<HavocType(l)>> \o HavocRegisterExceptType(l)

AssignReg(S, l, from) ==
    LET kinds == UNION {Range(TypeToKinds[t]) : t \in IterateTypes(S, from)}
    IN  IF l = from THEN <<>>
        ELSE ForgetTypeDependentValues(l)
               \o <<CopyType(l, from), Assigns_(KindVar(Uvalues, l), Var(KindVar(Uvalues, from)))>>
               \o [i \in 1 .. Cardinality(kinds) |->
                      LET k == Ascending(kinds)[i]
                      IN  Assigns_(KindVar(k, l), Var(KindVar(k, from)))]

\* havoc_all_locations_having_type; a location that the state has not seen,
\* and no register, has nothing to lose.
HavocAllLocationsHavingType(S, t) ==
    LET ls == Ascending({l \in TypeVariables(S) \cup (1 .. 12) : MayHaveType(S, l, t)})
    IN  [i \in DOMAIN ls |-> HavocType(ls[i])]
          \o <<ForgetsAll({KindVar(k, l) : k \in ValueKinds, l \in Range(ls)})>>

\* join_over_types: the state in which location l has type t.
OnlyOfType(S, l, t) ==
    LET others == UNION {Range(TypeToKinds[u]) : u \in IterateTypes(S, l) \ {t}}
    IN  [S EXCEPT !.types = UNION {T!RestrictTo(s, l, {t}) : s \in @},
                  !.values = {ForgetIn(z, {KindVar(k, l) : k \in others}) : z \in @}]
=============================================================================
