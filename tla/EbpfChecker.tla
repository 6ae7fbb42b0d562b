---------------------------- MODULE EbpfChecker -----------------------------
(***************************************************************************)
(* The assertions of the instructions (Assertions), and the check of a     *)
(* state against one of them (Check).                                      *)
(***************************************************************************)
EXTENDS EbpfTransformer

CONSTANTS
    Privileged,        \* whether programs of the type may leak pointers
    AllowDivByZero,    \* the options allow_division_by_zero and strict
    Strict,
    LoopLimit,         \* BoundedLoopCount::LIMIT
    SocketLayout,      \* the size of a socket and its fields, or an empty set
    CallbackTargets,   \* code addresses of callbacks, and of those with an exit
    CallbacksWithExit

Pointers == {TCtx, TPacket, TStack, TShared}
SingletonPtrs == {TCtx, TPacket, TStack}
Mem == {TPacket, TStack, TShared}

-----------------------------------------------------------------------------
(***************************************************************************)
(* Assertions.                                                             *)
(***************************************************************************)
TypeConstraint(l, types) == [a |-> "type", l |-> l, types |-> types]
Addable(ptr, num) == [a |-> "addable", ptr |-> ptr, num |-> num]
Comparable(l, m) == [a |-> "comparable", l |-> l, m |-> m]
ValidDivisor(i) == [a |-> "divisor", l |-> i.src, signed |-> i.op \in {"SDIV", "SMOD"}, is64 |-> i.is64]
ValidAccess(l, off, w, orNull, access) ==
    [a |-> "access", l |-> l, off |-> off, w |-> w, orNull |-> orNull, access |-> access]
Compared(l) == ValidAccess(l, 0, Num(0), FALSE, "compare")
ValidStore(mem, val) == [a |-> "store", mem |-> mem, val |-> val]
ValidMapKeyValue(l, fd, key) == [a |-> "mapkeyvalue", l |-> l, fd |-> fd, key |-> key]
MapTypeIs(fd, types) == [a |-> "maptype", fd |-> fd, types |-> types]
ZeroCtxOffset(l, orNull) == [a |-> "ctxoffset", l |-> l, orNull |-> orNull]
CallbackTarget(l) == [a |-> "callback", l |-> l]
Fails == [a |-> "fails"]

\* The assertions that one constraint decides: ValidSize, a register that must
\* be 0, and BoundedLoopCount.
Holds_(cst) == [a |-> "holds", cst |-> cst]
ValidSize(l, canBeZero) == Holds_(Geq(Var(Sv(l)), Num(IF canBeZero THEN 0 ELSE 1)))
IsZero(l) == Holds_(Eq(Var(Sv(l)), Num(0)))
BoundedLoopCount(n) == Holds_(Leq(Var(CounterVar(n)), Num(LoopLimit)))

OrNum(types, orNull) == types \cup IF orNull THEN {TNum} ELSE {}
IfSrc(i, assertions) == IF i.src = 0 THEN {} ELSE assertions

\* Mutant: nothing is said of the operands of an addition.
AssertionsBinNoAddable(i) == {TypeConstraint(i.dst, Pointers \cup {TNum})}

AssertionsBin(i) ==
    CASE i.op = "MOV" -> IF i.is64 THEN {} ELSE IfSrc(i, {TypeConstraint(i.src, {TNum})})
      [] i.op \in DOMAIN MovsxBits -> IfSrc(i, {TypeConstraint(i.src, {TNum})})
      [] i.op = "ADD" -> {TypeConstraint(i.dst, Pointers \cup {TNum})}
                            \cup IfSrc(i, {TypeConstraint(i.src, Pointers \cup {TNum}),
                                           Addable(i.src, i.dst), Addable(i.dst, i.src)})
      [] i.op = "SUB" -> {TypeConstraint(i.dst, Pointers \cup {TNum})} \cup IfSrc(i, {Comparable(i.dst, i.src)})
      [] i.op \in {"UDIV", "UMOD", "SDIV", "SMOD"} ->
             {TypeConstraint(i.dst, {TNum})} \cup IfSrc(i, {ValidDivisor(i)})
      [] OTHER -> {TypeConstraint(i.dst, {TNum})} \cup IfSrc(i, {TypeConstraint(i.src, {TNum})})

\* explicate; the condition of a branch, not of the fall-through of a loop.
AssertionsAssume(i) ==
    CASE Privileged -> {}
      [] ~Privileged /\ i.src = 0 /\ i.imm # 0 -> {TypeConstraint(i.dst, {TNum})}
      [] ~Privileged /\ i.src = 0 /\ i.imm = 0 ->
             {Compared(i.dst)} \cup (IF i.op \in {"SLT", "SLE", "SGT", "SGE"} \/ ~i.is64
                                     THEN {TypeConstraint(i.dst, {TNum})} ELSE {})
      [] OTHER -> {Compared(i.dst), Compared(i.src), Comparable(i.dst, i.src)}
                    \cup (IF i.op \in {"EQ", "NE"} THEN {} ELSE {TypeConstraint(i.dst, Pointers \cup {TNum})})

\* An access through r10 that stays in the frame is not checked.
AssertionsMem(i) ==
    LET n == Bytes[i.size]
        access == ValidAccess(i.base, i.off, Num(n), FALSE, IF i.kind = "load" THEN "read" ELSE "write")
    IN  IF i.base = R10 THEN (IF i.off < -Frame \/ i.off + n > 0 THEN {access} ELSE {})
        ELSE {TypeConstraint(i.base, Dereferenceable), access}
               \cup (IF Privileged \/ i.kind = "load" THEN {}
                     ELSE IfSrc(i, {IF i.size = "d" THEN ValidStore(i.base, i.src)
                                    ELSE TypeConstraint(i.src, {TNum})}))

AssertionsAtomic(i) ==
    {TypeConstraint(i.src, {TNum}), TypeConstraint(i.base, Dereferenceable),
     ValidAccess(i.base, i.off, Num(Bytes[i.size]), FALSE, "write")}

SingleTypes == ("map_fd_programs" :> {TMapPrograms}) @@ ("map_fd" :> {TMap}) @@ ("map_key" :> Mem)
                 @@ ("map_value" :> Mem) @@ ("func" :> {TFunc}) @@ ("socket" :> {TSocket})
                 @@ ("btf_id" :> {TBtfId}) @@ ("alloc_mem" :> {TAllocMem}) @@ ("spin_lock" :> Mem)
                 @@ ("timer" :> Mem) @@ ("size" :> {TNum}) @@ ("writable_long" :> Mem)
                 @@ ("writable_int" :> Mem)

ZeroOffsetCtx(l, orNull) == {TypeConstraint(l, OrNum({TCtx}, orNull)), ZeroCtxOffset(l, orNull)}

\* fd is the register of the map of the call, or 0.
AssertionsSingle(a, fd) ==
    (IF a.kind \in DOMAIN SingleTypes THEN {TypeConstraint(a.reg, SingleTypes[a.kind])} ELSE {})
      \cup (CASE a.kind = "anything" -> IF Privileged THEN {} ELSE {TypeConstraint(a.reg, {TNum})}
              [] a.kind \in {"map_key", "map_value"} -> {ValidMapKeyValue(a.reg, fd, a.kind = "map_key")}
              [] a.kind = "stack" -> {TypeConstraint(a.reg, OrNum({TStack}, a.ornull))}
              [] a.kind = "ctx"   -> ZeroOffsetCtx(a.reg, a.ornull)
              [] a.kind = "func"  -> {CallbackTarget(a.reg)}
              [] a.kind = "size"  -> {ValidSize(a.reg, TRUE)}
              [] a.kind \in DOMAIN SingleWidth ->
                     {ValidAccess(a.reg, 0, Num(Bytes[SingleWidth[a.kind]]), FALSE, "write")}
              [] OTHER -> {})

AssertionsPair(a) ==
    {TypeConstraint(a.size, {TNum}), ValidSize(a.size, a.canzero), TypeConstraint(a.mem, OrNum(Mem, a.ornull)),
     ValidAccess(a.mem, 0, Var(Sv(a.size)), a.ornull, IF a.kind = "readable" THEN "read" ELSE "write")}

AssertionsCall(contract) ==
    LET fd == IF MapRegs(contract) = {} THEN 0 ELSE MapReg(contract)
    IN  UNION {AssertionsSingle(contract.singles[j], fd) : j \in DOMAIN contract.singles}
          \cup (IF fd # 0 /\ contract.maptypes # {} THEN {MapTypeIs(fd, contract.maptypes)} ELSE {})
          \cup UNION {AssertionsPair(contract.pairs[j]) : j \in DOMAIN contract.pairs}
          \cup UNION {{TypeConstraint(r, {TNum}), IsZero(r)} : r \in contract.zero}

\* FuncConstraint: the assertions of the helper that the register names.
AssertionsCallx(helpers) ==
    IF helpers = {} \/ ~(helpers \subseteq DOMAIN Contracts) THEN {Fails}
    ELSE UNION {AssertionsCall(Contracts[f]) : f \in helpers}

\* get_assertions, with the FuncConstraint of a callx resolved in state S.
Assertions(S, i) ==
    CASE i.kind = "bin"    -> AssertionsBin(i)
      [] i.kind = "un"     -> {TypeConstraint(i.dst, {TNum})}
      [] i.kind = "assume" -> AssertionsAssume(i)
      [] i.kind \in {"load", "store"} -> AssertionsMem(i)
      [] i.kind = "atomic" -> AssertionsAtomic(i)
      [] i.kind = "call"   -> AssertionsCall(Contracts[i.func])
      [] i.kind = "callx"  -> {TypeConstraint(i.src, {TNum})} \cup AssertionsCallx(HelperIn(S, i.src))
      [] i.kind = "exit"   -> IF i.depth > 0 THEN {} ELSE {TypeConstraint(R0, {TNum})}
      [] i.kind = "packet" -> ZeroOffsetCtx(Reg(6), FALSE)
      [] i.kind = "increment" -> {BoundedLoopCount(i.loop)}
      [] OTHER -> {}

-----------------------------------------------------------------------------
(***************************************************************************)
(* Accesses of w bytes from lb to ub; w is an expression, and an access of *)
(* no bytes compares an address.  What must hold of the bounds is a set of *)
(* constraints that the state must entail.                                 *)
(***************************************************************************)
IsComparison(w) == w = Num(0)

\* Mutant: a subprogram may reach the frames below its own.
AccessStackAnyFrame(lb, ub) == {Leq(Num(0), lb), Leq(ub, Num(TotalStack))}

CheckAccessStack(lb, ub) ==
    {Leq(Minus(Var(StackOffset(R10)), Num(Frame)), lb), Leq(ub, Num(TotalStack))}

CheckAccessContext(lb, ub) == {Geq(lb, Num(0)), Leq(ub, Num(Context.size))}

\* Mutant: the end of an access is compared with the largest possible packet.
CheckAccessPacketLoose(lb, ub, w) == {Geq(lb, Var(MetaOffset)), Leq(ub, Num(MaxPacketSize))}

CheckAccessPacket(lb, ub, w) ==
    {Geq(lb, Var(MetaOffset)), Leq(ub, IF IsComparison(w) THEN Num(MaxPacketSize) ELSE Var(PacketSize))}

CheckAccessShared(lb, ub, size) == {Geq(lb, Num(0)), Leq(ub, Var(size))}

NotNull(l) == Lt(Num(0), Var(Uv(l)))

\* A comparison, and a pointer that the contract allows to be null, may be null.
NullSafe(a) == IF IsComparison(a.w) \/ a.orNull THEN {} ELSE {NotNull(a.l)}

\* The constraints on an access of type te.
AccessBounds(a, te, lb, ub) ==
    CASE te = TPacket -> CheckAccessPacket(lb, ub, a.w)
      [] te = TStack  -> CheckAccessStack(lb, ub)
      [] te = TCtx    -> CheckAccessContext(lb, ub)
      [] te = TShared -> CheckAccessShared(lb, ub, KindVar(SharedRegionSizes, a.l)) \cup NullSafe(a)
      [] te = TAllocMem -> CheckAccessShared(lb, ub, KindVar(AllocMemSizes, a.l)) \cup NullSafe(a)
      [] te = TNum    -> CASE IsComparison(a.w) -> {}
                           [] ~IsComparison(a.w) /\ a.orNull -> {Eq(Var(Sv(a.l)), Num(0)), Eq(a.w, Num(0))}
                           [] OTHER -> {False}
      [] te = TSocket -> UNION {{Geq(lb, Num(0)), Leq(ub, Num(layout.size))} : layout \in SocketLayout} \cup NullSafe(a)
      [] te \in {TMap, TMapPrograms, TBtfId, TFunc} -> IF IsComparison(a.w) THEN {} ELSE {False}
      [] te = TUninit -> {False}

\* Mutant: a write may reach into a pointer field.
WriteMissesPointersAtStart(S, lb, ub) ==
    Context.end < 0 \/ \A f \in {Context.data, Context.end, Context.meta} : ~Entails(S, Eq(lb, Num(f)))

\* check_ctx_write_not_pointer_field.
WriteMissesPointers(S, lb, ub) ==
    \/ Context.end < 0
    \/ /\ PointerWidth > 0
       /\ \A f \in {f \in {Context.data, Context.end, Context.meta} : f >= 0} :
             \E cst \in {Gt(ub, Num(f)), Lt(lb, Num(f + PointerWidth))} : ~Intersects(S, cst)

\* A read of the stack must find numbers.
StackIsNumeric(S, a, lb, ub) ==
    \/ AllNumLbUb(S, EvalIn(S, lb), EvalIn(S, ub))
    \/ a.off >= 0 /\ Entails(S, Leq(a.w, Minus(Var(NumericSize(a.l)), Num(a.off))))

IsPowerOfTwo(n) == n > 0 /\ BitAnd(n, n - 1) = 0

\* field_allows_access; a socket is only read.
FieldAllows(f, off, n) ==
    /\ f.off >= 0 /\ f.span > 0
    /\ \/ f.narrow /\ n <= f.max /\ IsPowerOfTwo(n) /\ off >= f.off /\ off + n <= f.off + f.span
       \/ ~f.narrow /\ off = f.off /\ n = f.max
       \/ f.extra > 0 /\ n = f.extra /\ IsPowerOfTwo(n) /\ off = f.off

ValidStructAccess(layout, off, n) ==
    /\ n > 0 /\ off >= 0 /\ off < layout.size /\ off + n <= layout.size /\ off % n = 0
    /\ \E f \in layout.fields : FieldAllows(f, off, n)

CheckAccessSocket(a, at) ==
    \E layout \in SocketLayout :
        \/ IsComparison(a.w)
        \/ /\ a.access # "write" /\ DOMAIN a.w.t = {}
           /\ I!IsSingleton(at) /\ ValidStructAccess(layout, at.lb, a.w.k)

CheckTyped(S, a, te, lb, ub) ==
    /\ \A cst \in AccessBounds(a, te, lb, ub) : Entails(S, cst)
    /\ te = TStack /\ a.access = "read" => StackIsNumeric(S, a, lb, ub)
    /\ te = TCtx /\ a.access = "write" => WriteMissesPointers(S, lb, ub)
    /\ te = TSocket => CheckAccessSocket(a, EvalIn(S, lb))

LowerBound(l, te, off) == IF HasOffset(te) THEN Plus(Var(OffsetVar(l, te)), Num(off)) ELSE Num(off)

CheckValidAccess(S, a) ==
    \A te \in IterateTypes(S, a.l) :
        CheckTyped(S, a, te, LowerBound(a.l, te, a.off), Plus(LowerBound(a.l, te, a.off), a.w))

-----------------------------------------------------------------------------
(***************************************************************************)
(* The other checks.                                                       *)
(***************************************************************************)
CheckType(S, l, types) == IsOnly(S, l, types)

CheckAddable(S, ptr, num) == T!ImpliesSuperset(S.types, ptr, Pointers, num, {TNum})

\* What l may be if m is no number.
TypesIfNotNum(S, l, m) ==
    UNION {T!GetTypeset(s, l) : s \in UNION {T!RemoveType(s, m, TNum) : s \in S.types}}

CheckComparable(S, l, m) ==
    IF SameType(S, l, m)
    THEN /\ \E group \in {SingletonPtrs, {TMap}} : TypesIfNotNum(S, l, m) \subseteq group
         /\ \A x \in {l, m} : CheckValidAccess(S, Compared(x))
    ELSE T!EntailType(S.types, m, TNum)

MayBeZero(S, l) ==
    \A x \in {Sv(l), Uv(l)} : I!Contains(EvalWithWidth(Zone(S), Var(x), W32), 0)

CheckValidDivisor(S, a) ==
    /\ T!ImpliesSuperset(S.types, a.l, Pointers, a.l, {TNum})
    /\ \/ AllowDivByZero
       \/ a.is64 /\ Entails(S, Neq(Var(IF a.signed THEN Sv(a.l) ELSE Uv(a.l)), Num(0)))
       \/ ~a.is64 /\ ~MayBeZero(S, a.l)

CheckZeroCtxOffset(S, l, orNull) ==
    \E cst \in {Eq(Var(KindVar(CtxOffsets, l)), Num(0))}
                 \cup (IF orNull /\ OnlyNum(S, l) THEN {Eq(Var(Uv(l)), Num(0))} ELSE {}) : Entails(S, cst)

CheckValidStore(S, mem, val) == T!ImpliesNotType(S.types, mem, TStack, val, {TNum})

CheckCallbackTarget(i) == I!IsSingleton(i) /\ i.lb \in CallbackTargets \cap CallbacksWithExit

\* The key of an array is a number below its length (strict only).
ArrayKeyInRange(S, at, key, types, entries) ==
    LET cell == Var(CellVar(Svalues, at.lb, Bytes["w"]))
    IN  \/ ~Strict \/ types # {"array"}
        \/ /\ I!IsSingleton(at)
           /\ key => /\ ~IsInf(entries.lb)
                     /\ \A cst \in {Lt(cell, Num(entries.lb)), Geq(cell, Num(0))} : Entails(S, cst)

\* The constraints on a key or value of n bytes that is not on the stack.
KeyBounds(l, n, te, lb) ==
    CASE te = TPacket -> CheckAccessPacket(lb, Plus(lb, Num(n)), Num(1))
      [] te = TShared -> CheckAccessShared(lb, Plus(lb, Num(n)), KindVar(SharedRegionSizes, l)) \cup {NotNull(l)}
      [] OTHER -> {False}

CheckKeyTyped(S, a, n, te) ==
    IF te = TStack
    THEN /\ AllNumWidth(S, EvalVar(S, StackOffset(a.l)), I!Just(n))
         /\ ArrayKeyInRange(S, EvalVar(S, StackOffset(a.l)), a.key, MapType(S, a.fd), MapMaxEntries(S, a.fd))
    ELSE \A cst \in KeyBounds(a.l, n, te, LowerBound(a.l, te, 0)) : Entails(S, cst)

CheckKeyOfSize(S, a, size) ==
    I!IsSingleton(size) /\ \A te \in IterateTypes(S, a.l) : CheckKeyTyped(S, a, size.lb, te)

CheckMapKeyValue(S, a) ==
    CheckKeyOfSize(S, a, IF a.key THEN MapKeySize(S, a.fd) ELSE MapValueSize(S, a.fd))

Check(S, a) ==
    CASE a.a = "type"       -> CheckType(S, a.l, a.types)
      [] a.a = "addable"    -> CheckAddable(S, a.ptr, a.num)
      [] a.a = "comparable" -> CheckComparable(S, a.l, a.m)
      [] a.a = "divisor"    -> CheckValidDivisor(S, a)
      [] a.a = "access"     -> CheckValidAccess(S, a)
      [] a.a = "store"      -> CheckValidStore(S, a.mem, a.val)
      [] a.a = "mapkeyvalue" -> CheckMapKeyValue(S, a)
      [] a.a = "maptype"    -> MapType(S, a.fd) \subseteq a.types
      [] a.a = "ctxoffset"  -> CheckZeroCtxOffset(S, a.l, a.orNull)
      [] a.a = "callback"   -> CheckCallbackTarget(EvalVar(S, Uv(a.l)))
      [] a.a = "holds"      -> Entails(S, a.cst)
      [] a.a = "fails"      -> FALSE

Asserted(S, i) == IsBottom(S) \/ \A a \in Assertions(S, i) : Check(S, a)
=============================================================================
