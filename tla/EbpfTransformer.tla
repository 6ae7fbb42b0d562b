-------------------------- MODULE EbpfTransformer ---------------------------
(***************************************************************************)
(* The abstract transformer: what an instruction does to the state.  An    *)
(* instruction is a record with its kind; registers are locations, and the *)
(* source 0 stands for an immediate.  Each function of the transformer is  *)
(* an operator that returns commands; where the code looks at the state    *)
(* again after having changed it, it is a command of its own, replaced by  *)
(* others (Expand) when its turn comes.                                    *)
(***************************************************************************)
EXTENDS EbpfDomain

CONSTANTS
    Bytes,      \* the bytes of an access of size "b", "h", "w" and "d"
    Contracts   \* the usable helpers, by number, and what they require and do

ASSUME SizesAssumption ==
    /\ DOMAIN Bytes = {"b", "h", "w", "d"} /\ Bytes["d"] = WordBytes
    /\ \A s \in {"b", "h", "w"} : Bytes[s] \in 1 .. WordBytes - 1

Dereferenceable == {TCtx, TPacket, TStack, TShared, TSocket, TAllocMem}

-----------------------------------------------------------------------------
\* Commands of this module: step f of instruction i; te and dt are the types
\* that the alternatives they run in have.
Step(f, i) == [do |-> "step", f |-> f, i |-> i, te |-> 0, dt |-> 0]

\* join_over_types: c once for each type that location l may have.
Each(l, c) == [do |-> "each", l |-> l, c |-> c]

\* The operation of instruction i on numbers.
Operates(i) == Step("operation", i)
AddsTo(l, n, w) == [do |-> "add", l |-> l, n |-> n, w |-> w]
Recomputes(l) == [do |-> "recompute", l |-> l]
Resizes(e, w, isNum) == [do |-> "resize", e |-> e, w |-> w, isNum |-> isNum]
ResizesOne(l, c) == [do |-> "resizeone", l |-> l, c |-> c]
LoadsValues(l, i, w) == [do |-> "loadvalues", l |-> l, i |-> i, w |-> w]
StoresAt(i, e) == [do |-> "storeat", i |-> i, e |-> e]

Zone(S) == The(S.values)
OnlyNum(S, l) == IsOnly(S, l, {TNum})
MayBeStack(S, l) == MayHaveType(S, l, TStack)
SameType(S, l, m) == T!SameType(S.types, l, m)
NumericSize(l) == KindVar(StackNumericSizes, l)
StackOffset(l) == KindVar(StackOffsets, l)
HasOffset(t) == t \in TypesWithKinds

Scratch == FlattenSeq([r \in 1 .. 5 |-> HavocRegister(Reg(r))])

\* The kinds of the types in ts, type by type.
KindsOf(ts) == LET seq == Ascending(ts) IN FlattenSeq([j \in DOMAIN seq |-> TypeToKinds[seq[j]]])

\* assign_valid_ptr.
ValidPtr(l, maybeNull) ==
    <<Forgets(Uv(l)), Assumes(IF maybeNull THEN Leq(Num(0), Var(Uv(l))) ELSE Lt(Num(0), Var(Uv(l)))),
      AtMost(Uv(l), Num(PtrMax))>>

-----------------------------------------------------------------------------
(***************************************************************************)
(* Maps and code addresses.                                                *)
(***************************************************************************)
LoadMapFd(l, fd, maybeNull) ==
    ForgetTypeDependentValues(l)
      \o (IF ValueType(Maps[fd].type) = "program"
          THEN <<AssignType(l, TMapPrograms), Assigns_(KindVar(MapFdPrograms, l), Num(fd))>>
          ELSE <<AssignType(l, TMap), Assigns_(KindVar(MapFds, l), Num(fd))>>)
      \o ValidPtr(l, maybeNull)

LoadMapAddress(i) ==
    ForgetTypeDependentValues(i.dst)
      \o <<AssignType(i.dst, TShared), Assigns_(KindVar(SharedOffsets, i.dst), Num(i.off)),
           Assigns_(KindVar(SharedRegionSizes, i.dst), Num(Maps[i.fd].value))>>
      \o ValidPtr(i.dst, FALSE)

\* transform_load_pseudo, of a code address.
LoadPseudo(i) ==
    ForgetTypeDependentValues(i.dst)
      \o <<Assigns_(Uv(i.dst), Num(i.imm)), Wrap(Uv(i.dst), W64, FALSE), AssignType(i.dst, TFunc)>>

-----------------------------------------------------------------------------
(***************************************************************************)
(* How many bytes from where a pointer points hold numbers.                *)
(***************************************************************************)
Recompute(S, l) ==
    LET n == MinAllNumSize(S, EvalVar(S, StackOffset(l)))
    IN  IF MayBeStack(S, l) /\ n > 0 THEN <<Assigns_(NumericSize(l), Num(n))>> ELSE <<>>

\* Mutant: the sizes known before a store that overwrites numbers are kept.
ResizeOneKeeps(S, l, c) == <<Recomputes(l)>>

\* update_stack_numeric_size_after_store, of one location.
ResizeOne(S, l, c) ==
    IF /\ Intersects(S, Leq(c.e, Plus(Var(StackOffset(l)), Var(NumericSize(l)))))
       /\ Intersects(S, Geq(Plus(c.e, Num(c.w)), Var(StackOffset(l))))
    THEN (IF c.isNum THEN <<>> ELSE <<Forgets(NumericSize(l))>>) \o <<Recomputes(l)>>
    ELSE <<>>

Resize(S, c) ==
    LET ls == Ascending({l \in TypeVariables(S) : IsInitialized(S, l) /\ MayBeStack(S, l)})
    IN  [j \in DOMAIN ls |-> ResizesOne(ls[j], c)]

-----------------------------------------------------------------------------
(***************************************************************************)
(* Loads.                                                                  *)
(***************************************************************************)
AddrOf(k, i) == Plus(Var(KindVar(k, i.base)), Num(i.off))

\* The values of register l from the stack, once its type is known.
LoadValues(S, l, addr, w) ==
    LET kinds == KindsOf(IterateTypes(S, l))
    IN  IF ~IsInitialized(S, l) THEN HavocRegister(l)
        ELSE HavocRegisterExceptType(l)
               \o <<Loads(Sv(l), Svalues, addr, w), Loads(Uv(l), Uvalues, addr, w)>>
               \o [j \in DOMAIN kinds |-> Loads(KindVar(kinds[j], l), kinds[j], addr, w)]

LoadStack(S, i, addr) ==
    <<IF Entails(S, Leq(Num(Bytes[i.size]), Var(NumericSize(i.base)))) THEN AssignType(i.dst, TNum)
      ELSE LoadsType(i.dst, addr, Bytes[i.size]),
      LoadsValues(i.dst, addr, Bytes[i.size])>>

\* narrow_num_by_load_width.
NarrowByWidth(i) ==
    CASE i.signed -> <<Sets(Sv(i.dst), I!SignedInt(W8 * Bytes[i.size])), Forgets(Uv(i.dst))>>
      [] ~i.signed /\ i.size \in {"b", "h"} ->
             <<Sets(Sv(i.dst), I!UnsignedInt(W8 * Bytes[i.size])),
               Sets(Uv(i.dst), I!UnsignedInt(W8 * Bytes[i.size]))>>
      [] OTHER -> <<>>

\* do_load_packet_or_shared.
LoadNumber(i) == HavocRegister(i.dst) \o <<AssignType(i.dst, TNum)>> \o NarrowByWidth(i)

PointerWidth == Context.end - Context.data

MayReadPtrField(addr, w, field) ==
    field >= 0 /\ ~I!IsBottom(I!Meet(I!Add(addr, I!New(0, w - 1)), I!New(field, field + PointerWidth - 1)))

\* What a load of a whole pointer field of the context gives.
PacketPointer(l, field) ==
    (CASE field = Context.data -> <<Assigns_(KindVar(PacketOffsets, l), Num(0))>>
       [] field = Context.end  -> <<Assigns_(KindVar(PacketOffsets, l), Var(PacketSize)),
                                    Assumes(Lt(Var(KindVar(PacketOffsets, l)), Num(MaxPacketSize)))>>
       [] OTHER -> <<Assigns_(KindVar(PacketOffsets, l), Var(MetaOffset))>>)
      \o <<AssignType(l, TPacket), AtLeast(Uv(l), Num(MinPacketAddress)), AtMost(Uv(l), Num(PtrMax))>>

LoadCtx(i, addr) ==
    LET fields == {Context.data, Context.end, Context.meta}
    IN  IF Context.end < 0 THEN LoadNumber(i)
        ELSE IF I!IsSingleton(addr) /\ addr.lb \in fields
        THEN HavocRegister(i.dst)
               \o (IF Bytes[i.size] = PointerWidth THEN PacketPointer(i.dst, addr.lb) ELSE <<>>)
        ELSE IF \E field \in fields : MayReadPtrField(addr, Bytes[i.size], field) THEN HavocRegister(i.dst)
        ELSE LoadNumber(i)

LoadFrom(S, i, te) ==
    CASE te = TCtx   -> LoadCtx(i, EvalIn(S, AddrOf(CtxOffsets, i)))
      [] te = TStack -> LoadStack(S, i, EvalIn(S, AddrOf(StackOffsets, i)))
      [] te \in {TPacket, TShared, TSocket, TBtfId, TAllocMem} -> LoadNumber(i)
      [] OTHER -> <<>>

DoLoad(S, i) ==
    IF i.base = R10 THEN LoadStack(S, i, EvalIn(S, AddrOf(StackOffsets, i)))
    ELSE <<Each(i.base, Step("loadfrom", i))>>

-----------------------------------------------------------------------------
(***************************************************************************)
(* Stores.  Only those to the stack change the state.                      *)
(***************************************************************************)
StoredS(i) == IF i.src = 0 THEN Num(i.imm) ELSE Var(Sv(i.src))
StoredU(i) == IF i.src = 0 THEN Num(i.imm) ELSE Var(Uv(i.src))

\* The values of a whole word, of every type it may have.
StoreWord(S, i, addr, n, isNum) ==
    LET kinds == IF isNum THEN <<>> ELSE KindsOf(IterateTypes(S, i.src))
    IN  <<Stores(Svalues, addr, n, StoredS(i)), Stores(Uvalues, addr, n, StoredU(i))>>
          \o [j \in DOMAIN kinds |-> Stores(kinds[j], addr, n, Var(KindVar(kinds[j], i.src)))]

\* A narrower number is stored modulo its width.
StoreNarrow(i, addr, n) ==
    LET wrap(k, signed) == IF IsStrong(addr, n)
                           THEN <<Wrap(CellVar(k, addr.lb, n.lb), W8 * n.lb, signed)>> ELSE <<>>
    IN  <<Stores(Svalues, addr, n, StoredS(i))>> \o wrap(Svalues, TRUE)
          \o <<Stores(Uvalues, addr, n, StoredU(i))>> \o wrap(Uvalues, FALSE)

StoreInit(S, i, addr, n, isNum) ==
    <<StoresType(addr, n, isNum, <<IF isNum THEN AssignType(0, TNum) ELSE CopyType(0, i.src)>>),
      Havocs(Svalues, addr, n), Havocs(Uvalues, addr, n)>>
      \o (IF n.lb = WordBytes THEN StoreWord(S, i, addr, n, isNum)
          ELSE IF isNum THEN StoreNarrow(i, addr, n) ELSE <<>>)

\* do_store_stack at the symbolic address e.
StoreStack(S, i, e, addr, n, isNum) ==
    LET kinds == Ascending(ValueKinds \ {Svalues, Uvalues})
    IN  <<Havocs(Types, addr, n)>> \o [j \in DOMAIN kinds |-> Havocs(kinds[j], addr, n)]
          \o (IF i.src # 0 /\ ~IsInitialized(S, i.src)
              THEN <<Havocs(Svalues, addr, n), Havocs(Uvalues, addr, n)>>
              ELSE StoreInit(S, i, addr, n, isNum))
          \o <<Resizes(e, n.lb, isNum)>>

DoStoreStack(S, i, e) ==
    StoreStack(S, i, e, EvalIn(S, e), I!Just(Bytes[i.size]), i.src = 0 \/ OnlyNum(S, i.src))

\* do_mem_store.
DoMemStore(S, i) ==
    LET r10 == EvalVar(S, StackOffset(R10))
    IN  IF i.base = R10 /\ I!IsSingleton(r10) THEN <<StoresAt(i, Num(r10.lb + i.off))>>
        ELSE <<Each(i.base, Step("storeto", i))>>

StoreTo(i, te) == IF te = TStack THEN <<StoresAt(i, AddrOf(StackOffsets, i))>> ELSE <<>>

MovsxOfSize == ("b" :> "MOVSX8") @@ ("h" :> "MOVSX16") @@ ("w" :> "MOVSX32")

TransformMem(S, i) ==
    IF i.kind = "store" THEN DoMemStore(S, i)
    ELSE DoLoad(S, i)
           \o (IF ~i.signed THEN <<>>
               ELSE <<Step("bin", [kind |-> "bin", op |-> MovsxOfSize[i.size], is64 |-> TRUE,
                                   dst |-> i.dst, src |-> i.dst, imm |-> 0])>>)

-----------------------------------------------------------------------------
(***************************************************************************)
(* Arithmetic.  A pointer moves with its offset; what becomes of a value   *)
(* that may be a pointer and is not moved loses its offsets.               *)
(***************************************************************************)
\* Mutant: the offsets of what may be a pointer are not forgotten.
AddToRegStale(S, l, n, w) == AddSubOverflow(Zone(S), "ADD", Sv(l), Uv(l), Num(n), w)

AddToReg(S, l, n, w) ==
    LET moved == Ascending({t \in IterateTypes(S, l) : HasOffset(t)})
    IN  (IF MayHaveType(S, l, TNum)
         THEN AddSubOverflow(Zone(S), "ADD", Sv(l), Uv(l), Num(n), w)
                \o (IF OnlyNum(S, l) THEN <<>> ELSE HavocOffsets(l))
         ELSE [j \in DOMAIN moved |->
                  Assigns_(OffsetVar(l, moved[j]), Plus(Var(OffsetVar(l, moved[j])), Num(n)))]
                \o ApplyUnsigned("ADD", Sv(l), Uv(l), Uv(l), Num(n), w))
          \o (IF ~MayBeStack(S, l) THEN <<>>
              ELSE (CASE n > 0 -> <<Assigns_(NumericSize(l), Plus(Var(NumericSize(l)), Num(-n)))>>
                      [] n < 0 -> <<Forgets(NumericSize(l))>>
                      [] n = 0 -> <<>>)
                   \o <<Recomputes(l)>>)

\* The end of transform_bin: what is left of a pointer in 32 bits is unknown.
Truncate(S, i) ==
    IF i.is64 THEN <<>> ELSE IF OnlyNum(S, i.dst) THEN <<Step("mask", i)>> ELSE HavocRegister(i.dst)

\* shl_to_reg, lshr_to_reg and ashr_to_reg.
ShiftReg(S, i) ==
    HavocOffsets(i.dst)
      \o (IF OnlyNum(S, i.dst) THEN <<Operates(i)>> ELSE <<Forgets(Sv(i.dst)), Forgets(Uv(i.dst))>>)

ShiftByReg(S, i) ==
    IF ~OnlyNum(S, i.src) \/ (i.op # "ARSH" /\ ~I!IsSingleton(EvalVar(S, Uv(i.src))))
    THEN IF i.op = "LSH" THEN ShiftUnknown(i) \o HavocOffsets(i.dst)
         ELSE HavocRegisterExceptType(i.dst)
    ELSE (IF i.is64 \/ i.op = "ARSH" THEN <<>> ELSE <<Step("mask", i)>>) \o <<Step("shift", i)>>

Shifts == {"LSH", "RSH", "ARSH"}

BinImm(S, i) ==
    CASE i.op = "MOV" -> <<Operates(i), AssignType(i.dst, TNum)>> \o HavocOffsets(i.dst)
      [] i.op = "ADD" -> <<AddsTo(i.dst, i.imm, Width(i))>>
      [] i.op = "SUB" -> <<AddsTo(i.dst, -i.imm, Width(i))>>
      [] i.op \in Shifts -> ShiftReg(S, i)
      [] OTHER -> <<Operates(i)>> \o HavocOffsets(i.dst)

\* A number and a pointer, in an alternative in which their types are known.
NumPlusPtr(S, i, t) ==
    <<AssignType(i.dst, t)>>
      \o (IF HasOffset(t)
          THEN <<Assigns_(OffsetVar(i.dst, t), Plus(Var(Sv(i.dst)), Var(OffsetVar(i.src, t))))>> ELSE <<>>)
      \o ApplyUnsigned("ADD", Sv(i.dst), Uv(i.dst), Uv(i.dst), Var(Uv(i.src)), Width(i))
      \o (IF t = TShared
          THEN <<Assigns_(KindVar(SharedRegionSizes, i.dst), Var(KindVar(SharedRegionSizes, i.src)))>>
          ELSE <<>>)

MoveNumericSize(S, i) ==
    IF Intersects(S, Lt(Var(Sv(i.src)), Num(0))) THEN <<Forgets(NumericSize(i.dst)), Recomputes(i.dst)>>
    ELSE <<Assigns_(NumericSize(i.dst), Minus(Var(NumericSize(i.dst)), Var(Sv(i.src))))>>

PtrPlusNum(S, i, t) ==
    <<AssignType(i.dst, t)>>
      \o (IF HasOffset(t)
          THEN <<Assigns_(OffsetVar(i.dst, t), Plus(Var(OffsetVar(i.dst, t)), Var(Sv(i.src))))>> ELSE <<>>)
      \o (IF t = TStack THEN MoveNumericSize(S, i) ELSE <<>>)
      \o ApplyUnsigned("ADD", Sv(i.dst), Uv(i.dst), Uv(i.dst), Var(Uv(i.src)), Width(i))

AddTyped(S, i, dt, st) ==
    CASE dt = TNum /\ st # TNum -> NumPlusPtr(S, i, st)
      [] dt # TNum /\ st = TNum -> PtrPlusNum(S, i, dt)
      [] dt = TNum /\ st = TNum ->
             ApplySigned("ADD", Sv(i.dst), Uv(i.dst), Sv(i.dst), Var(Sv(i.src)), Width(i))
      [] OTHER -> <<SetToBottom>>

\* Two pointers of one type leave the distance between them.
SubSame(S, i, te) ==
    IF te = TNum
    THEN ApplySigned("SUB", Sv(i.dst), Uv(i.dst), Sv(i.dst), Var(Sv(i.src)), Width(i))
           \o <<AssignType(i.dst, TNum)>> \o HavocOffsets(i.dst)
    ELSE (IF ~HasOffset(te) THEN <<>>
          ELSE ApplySigned("SUB", Sv(i.dst), Uv(i.dst), OffsetVar(i.dst, te),
                           Var(OffsetVar(i.src, te)), Width(i)))
           \o HavocOffsets(i.dst) \o <<AssignType(i.dst, TNum)>>

\* A number is subtracted from a pointer, or from what may be one.
SubNum(S, i) ==
    LET known == {t \in TypesOf(S, i.dst) : TypesOf(S, i.dst) = {t} /\ HasOffset(t)}
        t == The(known)
    IN  (IF MayHaveType(S, i.dst, TNum)
         THEN AddSubOverflow(Zone(S), "SUB", Sv(i.dst), Uv(i.dst), Var(Sv(i.src)), Width(i))
                \o (IF OnlyNum(S, i.dst) THEN <<>> ELSE HavocOffsets(i.dst))
         ELSE (IF known = {} THEN HavocOffsets(i.dst)
               ELSE <<Assigns_(OffsetVar(i.dst, t), Minus(Var(OffsetVar(i.dst, t)), Var(Sv(i.src))))>>)
                \o ApplyUnsigned("SUB", Sv(i.dst), Uv(i.dst), Uv(i.dst), Var(Uv(i.src)), Width(i)))
          \o (IF ~MayBeStack(S, i.dst) THEN <<>>
              ELSE IF Intersects(S, Gt(Var(Sv(i.src)), Num(0)))
              THEN <<Forgets(NumericSize(i.dst)), Recomputes(i.dst)>>
              ELSE <<Assigns_(NumericSize(i.dst), Plus(Var(NumericSize(i.dst)), Var(Sv(i.src))))>>)

Movsx(S, i) ==
    IF MovsxIsNoop(Zone(S), i) THEN <<>>
    ELSE IF ~OnlyNum(S, i.src) THEN HavocRegister(i.dst)
    ELSE HavocOffsets(i.dst) \o <<AssignType(i.dst, TNum), Operates(i)>>

BinReg(S, i) ==
    CASE i.op = "ADD" -> IF SameType(S, i.dst, i.src) THEN <<Operates(i)>>
                         ELSE <<Each(i.dst, Step("addfrom", i))>>
      [] i.op = "SUB" -> IF SameType(S, i.dst, i.src) THEN <<Each(i.dst, Step("subsame", i))>>
                         ELSE IF OnlyNum(S, i.src) THEN SubNum(S, i) ELSE HavocRegister(i.dst)
      [] i.op \in Shifts -> ShiftByReg(S, i)
      [] i.op \in DOMAIN MovsxBits -> Movsx(S, i)
      [] i.op = "MOV" -> IF i.is64 \/ OnlyNum(S, i.src) THEN AssignReg(S, i.dst, i.src)
                         ELSE HavocRegister(i.dst)
      [] OTHER -> <<Operates(i)>> \o HavocOffsets(i.dst)

TransformBin(S, i) ==
    IF ~IsInitialized(S, i.dst) /\ i.op \notin {"MOV"} \cup DOMAIN MovsxBits THEN HavocRegister(i.dst)
    ELSE IF i.src = 0
    THEN Truncate(S, i) \o (IF IsNoop(i) THEN <<>> ELSE <<Step("binimm", i), Step("truncate", i)>>)
    ELSE IF ~IsInitialized(S, i.src) THEN HavocRegister(i.dst)
    ELSE <<Step("binreg", i), Step("truncate", i)>>

\* A view that is not known to be one number is forgotten, and with it the
\* offsets.
TransformUn(S, i) ==
    LET calls == IF i.op = "NEG" \/ OnlyNum(S, i.dst) THEN Un(Zone(S), i)
                 ELSE IF i.op = "LE64" THEN <<>> ELSE <<Forgets(Sv(i.dst)), Forgets(Uv(i.dst))>>
    IN  calls \o (IF i.op = "NEG" \/ \E j \in DOMAIN calls : calls[j].do = "havoc"
                  THEN HavocOffsets(i.dst) ELSE <<>>)

\* assume_cst_offsets_reg.
OffsetConstraint(op, a, b) ==
    CASE op = "EQ" -> Eq(a, b)
      [] op = "NE" -> Neq(a, b)
      [] op \in {"GE", "SGE"} -> Geq(a, b)
      [] op \in {"LE", "SLE"} -> Leq(a, b)
      [] op \in {"GT", "SGT"} -> Gt(a, b)
      [] op \in {"LT", "SLT"} -> Lt(a, b)
      [] OTHER -> True

AssumeTyped(S, i, te) ==
    IF te = TNum THEN <<Step("assumenum", i)>>
    ELSE IF HasOffset(te)
    THEN <<Assumes(OffsetConstraint(i.op, Var(OffsetVar(i.dst, te)), Var(OffsetVar(i.src, te))))>>
    ELSE <<>>

TransformAssume(S, i) ==
    IF i.src # 0 /\ SameType(S, i.dst, i.src) THEN <<Each(i.dst, Step("assumetyped", i))>>
    ELSE IF i.src = 0 \/ T!EntailType(S.types, i.src, TNum) THEN <<Step("assumenum", i)>>
    ELSE <<SetToBottom>>

-----------------------------------------------------------------------------
(***************************************************************************)
(* Local calls.  Slot(depth, l) keeps register l of the caller.            *)
(***************************************************************************)
Slot(depth, l) == 13 + 4 * (depth - 1) + (l - Reg(6))

SaveRegister(S, l, slot) ==
    LET ts == Ascending(IterateTypes(S, l))
        kinds == FlattenSeq([j \in DOMAIN ts |-> Append(TypeToKinds[ts[j]], Uvalues)])
    IN  IF ~IsInitialized(S, l) THEN <<>>
        ELSE ForgetTypeDependentValues(slot) \o <<CopyType(slot, l)>>
               \o [j \in DOMAIN kinds |-> Assigns_(KindVar(kinds[j], slot), Var(KindVar(kinds[j], l)))]

SaveCalleeSaved(S, depth) ==
    FlattenSeq([r \in 1 .. 4 |-> SaveRegister(S, Reg(5 + r), Slot(depth, Reg(5 + r)))])

TransformCallLocal(S, i) == SaveCalleeSaved(S, i.depth) \o <<AddsTo(R10, -Frame, W64)>>

\* Mutant: the registers keep what the callee left in them.
RestoreCalleeSavedOnto(depth) == <<>>

RestoreCalleeSaved(depth) ==
    FlattenSeq([r \in 1 .. 4 |-> HavocRegister(Reg(5 + r))])
      \o <<RenameLocs([r \in 1 .. 4 |-> <<Slot(depth, Reg(5 + r)), Reg(5 + r)>>])>>

HavocKinds(addr, n) ==
    LET kinds == Ascending(ValueKinds)
    IN  [j \in DOMAIN kinds |-> Havocs(kinds[j], addr, n)]

\* Mutant: the callee's part of the stack keeps its contents.
HavocSubprogramStackKeeps(S) == <<>>

HavocSubprogramStack(S) ==
    LET r10 == EvalVar(S, StackOffset(R10))
        addr == I!Just(r10.lb - Frame)
    IN  IF ~I!IsSingleton(r10) THEN <<>>
        ELSE <<Havocs(Types, addr, I!Just(Frame))>> \o HavocKinds(addr, I!Just(Frame))

TransformExit(S, i) ==
    IF i.depth = 0 THEN <<>>
    ELSE HavocSubprogramStack(S) \o RestoreCalleeSaved(i.depth) \o <<AddsTo(R10, Frame, W64)>> \o Scratch

-----------------------------------------------------------------------------
(***************************************************************************)
(* Packet and atomic instructions.                                         *)
(***************************************************************************)
TransformPacket == HavocRegisterExceptType(R0) \o <<AssignType(R0, TNum)>> \o Scratch

AtomicOp == ("ADD" :> "ADD") @@ ("OR" :> "OR") @@ ("AND" :> "AND") @@ ("XOR" :> "XOR")
              @@ ("XCHG" :> "MOV") @@ ("CMPXCHG" :> "MOV")

\* A plain load or store at the place of an atomic access.
AtomicMem(i, kind, l) ==
    Step("mem", [kind |-> kind, base |-> i.base, off |-> i.off, size |-> i.size, dst |-> l, src |-> l,
                 imm |-> 0, signed |-> FALSE])

AtomicBin(i) == Step("bin", [kind |-> "bin", op |-> AtomicOp[i.op], is64 |-> i.size = "d",
                             dst |-> R11, src |-> i.src, imm |-> 0])

TransformAtomic(S, i) ==
    IF ~IsOnly(S, i.base, Dereferenceable) \/ ~OnlyNum(S, i.src) THEN <<>>
    ELSE IF ~MayBeStack(S, i.base)
    THEN IF i.op = "CMPXCHG" THEN HavocRegisterExceptType(R0)
         ELSE IF i.fetch THEN HavocRegisterExceptType(i.src) ELSE <<>>
    ELSE <<AtomicMem(i, "load", R11), AtomicBin(i)>>
           \o (IF i.op = "CMPXCHG" THEN <<AtomicMem(i, "load", R0)>> \o HavocRegisterExceptType(R11)
               ELSE IF i.fetch THEN <<AtomicMem(i, "load", i.src)>> ELSE <<>>)
           \o <<AtomicMem(i, "store", R11)>> \o HavocRegister(R11)

-----------------------------------------------------------------------------
(***************************************************************************)
(* Calls of helpers, by their contracts.                                   *)
(***************************************************************************)
SingleWidth == ("writable_long" :> "d") @@ ("writable_int" :> "w")

\* What a helper writes through a pointer of fixed width.
WriteSingle(S, a, te) ==
    LET addr == EvalVar(S, StackOffset(a.reg))
        n == I!Just(Bytes[SingleWidth[a.kind]])
    IN  IF te # TStack THEN <<>> ELSE HavocKinds(addr, n) \o StoreNumbers(addr, n)

WriteSingles(contract) ==
    FlattenSeq([j \in DOMAIN contract.singles |->
        IF contract.singles[j].kind \in DOMAIN SingleWidth
        THEN <<Each(contract.singles[j].reg, Step("writesingle", contract.singles[j]))>> ELSE <<>>])

\* What a helper writes through a pointer with a size.
WritePair(S, a, te) ==
    IF te # TStack THEN <<>> ELSE HavocKinds(EvalVar(S, StackOffset(a.mem)), EvalVar(S, Sv(a.size)))

WriteMem(S, a) ==
    <<Each(a.mem, Step("writepair", a))>>
      \o (IF IterateTypes(S, a.mem) = {TStack}
          THEN StoreNumbers(EvalVar(S, StackOffset(a.mem)), EvalVar(S, Sv(a.size))) ELSE <<>>)

WritePairs(contract) ==
    FlattenSeq([j \in DOMAIN contract.pairs |->
        IF contract.pairs[j].kind = "writable" THEN <<Step("writemem", contract.pairs[j])>> ELSE <<>>])

\* assign_shared_map_value; size is empty where the size is not known.
SharedMapValue(size) ==
    ForgetTypeDependentValues(R0) \o <<AssignType(R0, TShared)>> \o ValidPtr(R0, TRUE)
      \o <<Assigns_(KindVar(SharedOffsets, R0), Num(0)),
           IF size = {} THEN Forgets(KindVar(SharedRegionSizes, R0))
           ELSE Sets(KindVar(SharedRegionSizes, R0), The(size))>>

\* The register of the map: the last one that the contract names.
MapRegs(contract) == {j \in DOMAIN contract.singles : contract.singles[j].kind = "map_fd"}
MapReg(contract) == contract.singles[MaxOf(MapRegs(contract))].reg

MapLookup(S, contract) ==
    IF MapRegs(contract) = {} THEN SharedMapValue({})
    ELSE IF MapType(S, MapReg(contract)) = {} THEN SharedMapValue({})
    ELSE IF ValueType(The(MapType(S, MapReg(contract)))) # "map"
    THEN SharedMapValue({MapValueSize(S, MapReg(contract))})
    ELSE IF InnerMapFd(S, MapReg(contract)) = {} THEN SharedMapValue({})
    ELSE LoadMapFd(R0, The(InnerMapFd(S, MapReg(contract))), TRUE)

ReturnPointer(S, contract) ==
    ForgetTypeDependentValues(R0) \o <<AssignType(R0, contract.ret)>> \o ValidPtr(R0, contract.nullable)
      \o (CASE contract.ret = TAllocMem /\ contract.alloc # 0 ->
                  <<Assigns_(KindVar(AllocMemOffsets, R0), Num(0)),
                    Sets(KindVar(AllocMemSizes, R0), EvalVar(S, Uv(contract.alloc)))>>
            [] contract.ret = TSocket -> <<Assigns_(KindVar(SocketOffsets, R0), Num(0))>>
            [] OTHER -> HavocOffsets(R0))

ReturnValue(S, contract) ==
    CASE contract.lookup -> MapLookup(S, contract)
      [] ~contract.lookup /\ contract.ret # 0 -> ReturnPointer(S, contract)
      [] OTHER -> HavocRegisterExceptType(R0) \o <<AssignType(R0, TNum)>>

\* forget_packet_pointers.
ForgetPacketPointers(S) == HavocAllLocationsHavingType(S, TPacket) \o InitializePacket

TransformCall(S, contract) ==
    WriteSingles(contract) \o WritePairs(contract) \o <<Forgets(NumericSize(R0))>>
      \o ReturnValue(S, contract) \o Scratch
      \o (IF contract.realloc THEN <<Step("realloc", contract)>> ELSE <<>>)

\* The helper that a register names, as a set with at most one number.
HelperIn(S, l) ==
    LET i == EvalVar(S, Uv(l)) IN IF I!IsSingleton(i) /\ i.lb \in MinInt(W32) .. MaxInt(W32) THEN {i.lb} ELSE {}

TransformCallx(S, i) ==
    IF HelperIn(S, i.src) \subseteq DOMAIN Contracts /\ HelperIn(S, i.src) # {}
    THEN <<Step("call", Contracts[The(HelperIn(S, i.src))])>> ELSE <<>>

-----------------------------------------------------------------------------
(***************************************************************************)
(* Loop counters.                                                          *)
(***************************************************************************)
InitializeLoopCounter(n) == <<Assigns_(CounterVar(n), Num(0))>>
IncrementLoopCounter(i) == <<Assigns_(CounterVar(i.loop), Plus(Var(CounterVar(i.loop)), Num(1)))>>

-----------------------------------------------------------------------------
(***************************************************************************)
(* The interpreter.                                                        *)
(***************************************************************************)
Transform(S, i) ==
    CASE i.kind = "bin"    -> TransformBin(S, i)
      [] i.kind = "un"     -> TransformUn(S, i)
      [] i.kind = "assume" -> TransformAssume(S, i)
      [] i.kind \in {"load", "store"} -> TransformMem(S, i)
      [] i.kind = "atomic" -> TransformAtomic(S, i)
      [] i.kind = "call"   -> TransformCall(S, Contracts[i.func])
      [] i.kind = "callx"  -> TransformCallx(S, i)
      [] i.kind = "call_local" -> TransformCallLocal(S, i)
      [] i.kind = "exit"   -> TransformExit(S, i)
      [] i.kind = "packet" -> TransformPacket
      [] i.kind = "map_fd" -> LoadMapFd(i.dst, i.fd, FALSE)
      [] i.kind = "map_address" -> LoadMapAddress(i)
      [] i.kind = "code_address" -> LoadPseudo(i)
      [] i.kind = "initialize"   -> InitializeLoopCounter(i.loop)
      [] i.kind = "increment"    -> IncrementLoopCounter(i)

LookupFails(S, contract) ==
    /\ contract.lookup /\ MapRegs(contract) # {}
    /\ \E t \in MapType(S, MapReg(contract)) : ValueType(t) = "map"
    /\ \E fd \in InnerMapFd(S, MapReg(contract)) : fd \notin DOMAIN Maps

\* Err of the transformer: the label gets an error and no state.
TransformFails(S, i) ==
    CASE i.kind = "bin"    -> i.op \in DOMAIN MovsxBits /\ i.src = 0
      [] i.kind = "load"   -> i.signed /\ i.size = "d"
      [] i.kind = "call"   -> LookupFails(S, Contracts[i.func])
      [] i.kind = "callx"  -> \E f \in HelperIn(S, i.src) \cap DOMAIN Contracts : LookupFails(S, Contracts[f])
      [] i.kind = "map_fd" -> i.fd \notin DOMAIN Maps
      [] i.kind = "map_address" -> i.fd \notin DOMAIN Maps \/ ValueType(Maps[i.fd].type) = "program"
      [] OTHER -> FALSE

ExpandStep(S, c) ==
    CASE c.f = "instruction" -> Transform(S, c.i)
      [] c.f = "bin"      -> TransformBin(S, c.i)
      [] c.f = "binimm"   -> BinImm(S, c.i)
      [] c.f = "binreg"   -> BinReg(S, c.i)
      [] c.f = "truncate" -> Truncate(S, c.i)
      [] c.f = "mask"     -> Mask32(Zone(S), c.i)
      [] c.f = "shift"    -> ShiftReg(S, c.i)
      [] c.f = "operation" -> Operation(Zone(S), c.i)
      [] c.f = "assumenum" -> AssumeCalls(Zone(S), c.i)
      [] c.f = "addfrom"  -> <<Each(c.i.src, [Step("addtyped", c.i) EXCEPT !.dt = c.te])>>
      [] c.f = "addtyped" -> AddTyped(S, c.i, c.dt, c.te)
      [] c.f = "subsame"  -> SubSame(S, c.i, c.te)
      [] c.f = "assumetyped" -> AssumeTyped(S, c.i, c.te)
      [] c.f = "mem"      -> TransformMem(S, c.i)
      [] c.f = "loadfrom" -> LoadFrom(S, c.i, c.te)
      [] c.f = "storeto"  -> StoreTo(c.i, c.te)
      [] c.f = "call"     -> TransformCall(S, c.i)
      [] c.f = "writesingle" -> WriteSingle(S, c.i, c.te)
      [] c.f = "writemem" -> WriteMem(S, c.i)
      [] c.f = "writepair" -> WritePair(S, c.i, c.te)
      [] c.f = "realloc"  -> ForgetPacketPointers(S)

Expand(S, c) ==
    CASE c.do = "step"       -> ExpandStep(S, c)
      [] c.do = "add"        -> AddToReg(S, c.l, c.n, c.w)
      [] c.do = "recompute"  -> Recompute(S, c.l)
      [] c.do = "resize"     -> Resize(S, c)
      [] c.do = "resizeone"  -> ResizeOne(S, c.l, c.c)
      [] c.do = "loadvalues" -> LoadValues(S, c.l, c.i, c.w)
      [] c.do = "storeat"    -> DoStoreStack(S, c.i, c.e)
      [] c.do \in ArrayCommands -> ExpandStack(S, c)

Primitive == ValueCommands \cup TypeCommands \cup StackCommands \cup {"forget", "rename", "bottom"}

RECURSIVE Exec(_, _), JoinOver(_, _, _, _), JoinNext(_, _, _, _, _)

\* The alternatives of a command, one for each of the types in the sequence ts.
\* The stack is not split: each alternative finds it as the last one left it.
JoinOver(S, acc, ts, c) ==
    IF ts = <<>> THEN acc
    ELSE JoinNext(S, acc, Exec([OnlyOfType(S, c.l, Head(ts)) EXCEPT !.num = acc.num, !.cells = acc.cells],
                               <<[c.c EXCEPT !.te = Head(ts)]>>), ts, c)

JoinNext(S, acc, res, ts, c) ==
    IF res.values = {Panic} THEN res
    ELSE JoinOver(S, [JoinStates(acc, res) EXCEPT !.num = res.num, !.cells = res.cells], Tail(ts), c)

\* A sequence of commands is run half by half.
Exec(S, cmds) ==
    LET half == Len(cmds) \div 2
        c == Head(cmds)
    IN  IF cmds = <<>> \/ IsBottom(S) \/ S.values = {Panic} THEN S
        ELSE IF half > 0 THEN Exec(Exec(S, SubSeq(cmds, 1, half)), SubSeq(cmds, half + 1, Len(cmds)))
        ELSE IF c.do \in Primitive THEN Apply(S, c)
        ELSE IF c.do # "each" THEN Exec(S, Expand(S, c))
        ELSE IF ~IsInitialized(S, c.l) THEN Exec(S, <<[c.c EXCEPT !.te = TUninit]>>)
        ELSE JoinOver(S, [BottomState EXCEPT !.num = S.num, !.cells = S.cells],
                      Ascending(IterateTypes(S, c.l)), c)

TransformState(S, i) == Exec(S, <<Step("instruction", i)>>)

RECURSIVE ApplyAll(_, _)

\* The states that no instruction makes: at the entry, and of the limits.
ApplyAll(S, cmds) ==
    LET half == Len(cmds) \div 2
    IN  IF cmds = <<>> \/ IsBottom(S) THEN S
        ELSE IF half = 0 THEN Apply(S, Head(cmds))
        ELSE ApplyAll(ApplyAll(S, SubSeq(cmds, 1, half)), SubSeq(cmds, half + 1, Len(cmds)))

EntryState == ApplyAll(TopState, SetupEntry)
LimitState == ApplyAll(TopState, ConstantLimits)
=============================================================================
