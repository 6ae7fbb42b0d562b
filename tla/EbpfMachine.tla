---------------------------- MODULE EbpfMachine -----------------------------
(***************************************************************************)
(* The machine that runs the programs: what an instruction does to the     *)
(* registers and the stack, and which executions are faults.  It is the    *)
(* meaning of the abstract states, not a part of the analysis.             *)
(*                                                                         *)
(* A value is a record: its type t, its number or address u, the offset o  *)
(* into the object it points to (the descriptor of a map), and the size z  *)
(* of that object.  A byte of the stack is one byte of a number, one of a  *)
(* stored pointer, or unknown.                                             *)
(***************************************************************************)
EXTENDS EbpfChecker, AluSemantics

CONSTANTS
    Inputs,       \* the numbers that the context, memory and helpers give
    PacketSizes,  \* the sizes of the packet, and the places of its metadata
    Metas,
    Address       \* where the objects of a type start

Uninit == [t |-> TUninit, u |-> 0, o |-> 0, z |-> 0]
NumValue(n) == [t |-> TNum, u |-> ZeroExtend(n, W64), o |-> 0, z |-> 0]
Ptr(t, o, z) == [t |-> t, u |-> ZeroExtend(Address[t] + o, W64), o |-> o, z |-> z]
NullOf(v) == [v EXCEPT !.u = 0]
IsNum(v) == v.t = TNum
SignedOf(v) == SignExtend(v.u, W64)

Numbers(n) == {NumValue(ZeroExtend(u, W8 * n)) : u \in Inputs}

Registers == 1 .. 11

\* The states at the entry.
Entry ==
    {[regs  |-> [l \in Registers |-> CASE l = R1 -> Ptr(TCtx, 0, 0)
                                       [] l = R10 -> Ptr(TStack, TotalStack, 0)
                                       [] OTHER -> Uninit],
      stack |-> [b \in Offsets |-> <<"none">>],
      saved |-> <<>>,
      count |-> [n \in Loops |-> 0],
      psize |-> p, meta |-> m] : p \in PacketSizes, m \in Metas}

-----------------------------------------------------------------------------
\* The stack.
ByteOf(v, j, n) == IF IsNum(v) THEN <<"num", (v.u \div 2 ^ (W8 * j)) % 2 ^ W8>>
                   ELSE IF v.t # TUninit /\ n = WordBytes THEN <<"ptr", v, j>> ELSE <<"none">>

WriteStack(stack, o, n, v) == [b \in Offsets |-> IF b \in o .. o + n - 1 THEN ByteOf(v, b - o, n) ELSE stack[b]]

IsNumByte(stack, b) == stack[b][1] = "num"

InStack(o, n) == o .. o + n - 1 \subseteq Offsets

PointerAt(stack, o) ==
    IF stack[o][1] = "ptr" /\ \A j \in 0 .. WordBytes - 1 : stack[o + j] = <<"ptr", stack[o][2], j>>
    THEN stack[o][2] ELSE Uninit

ReadStack(stack, o, n) ==
    IF ~InStack(o, n) THEN Uninit
    ELSE IF \A b \in o .. o + n - 1 : IsNumByte(stack, b)
    THEN NumValue(SumFunction([j \in 0 .. n - 1 |-> stack[o + j][2] * 2 ^ (W8 * j)]))
    ELSE IF n = WordBytes THEN PointerAt(stack, o) ELSE Uninit

-----------------------------------------------------------------------------
(***************************************************************************)
(* Arithmetic and branches.  A result that has no meaning is not           *)
(* initialized.                                                            *)
(***************************************************************************)
Moved(v, n) == [v EXCEPT !.o = @ + n, !.u = ZeroExtend(@ + n, W64)]

PointerResult(i, a, b) ==
    CASE i.op = "MOV" /\ i.is64 -> b
      [] i.op = "ADD" /\ i.is64 /\ IsNum(b) /\ a.t \in Pointers -> Moved(a, SignedOf(b))
      [] i.op = "ADD" /\ i.is64 /\ IsNum(a) /\ b.t \in Pointers -> Moved(b, SignedOf(a))
      [] i.op = "SUB" /\ i.is64 /\ IsNum(b) /\ a.t \in Pointers -> Moved(a, -SignedOf(b))
      [] i.op = "SUB" /\ i.is64 /\ a.t \in Pointers /\ a.t = b.t /\ a.z = b.z -> NumValue(a.o - b.o)
      [] OTHER -> Uninit

Moves == {"MOV"} \cup DOMAIN MovsxBits

BinResult(i, a, b) ==
    IF IsNum(b) /\ (IsNum(a) \/ i.op \in Moves)
    THEN NumValue(ZeroExtend(Alu(i.op, ZeroExtend(a.u, Width(i)), ZeroExtend(b.u, Width(i)), Width(i)), Width(i)))
    ELSE PointerResult(i, a, b)

Operand(c, i) == IF i.src = 0 THEN NumValue(i.imm) ELSE c.regs[i.src]

Put(c, l, v) == [c EXCEPT !.regs[l] = v]

Taken(i, a, b) == Compare(i.op, ZeroExtend(a.u, Width(i)), ZeroExtend(b.u, Width(i)), Width(i))

-----------------------------------------------------------------------------
(***************************************************************************)
(* Memory.                                                                 *)
(***************************************************************************)
ContextFields == {f \in {Context.data, Context.end, Context.meta} : f >= 0}

FromContext(c, o, n) ==
    CASE o = Context.data /\ n = PointerWidth -> {Ptr(TPacket, 0, 0)}
      [] o = Context.end /\ n = PointerWidth  -> {Ptr(TPacket, c.psize, 0)}
      [] o = Context.meta /\ n = PointerWidth -> {Ptr(TPacket, c.meta, 0)}
      [] \E f \in ContextFields : o < f + PointerWidth /\ f < o + n /\ ~(o = f /\ n = PointerWidth) -> {Uninit}
      [] OTHER -> Numbers(n)

LoadedFrom(c, v, off, n) ==
    CASE v.t = TStack -> {ReadStack(c.stack, v.o + off, n)}
      [] v.t = TCtx   -> FromContext(c, v.o + off, n)
      [] v.t \in {TPacket, TShared, TAllocMem, TSocket} -> Numbers(n)
      [] OTHER -> {Uninit}

Extended(i, v) == IF i.signed /\ IsNum(v) THEN NumValue(SignExtend(v.u, W8 * Bytes[i.size])) ELSE v

StoreThrough(c, v, off, n, x) ==
    IF v.t = TStack THEN [c EXCEPT !.stack = WriteStack(@, v.o + off, n, x)] ELSE c

AtomicResult(i, old, x, r0) ==
    IF i.op = "CMPXCHG"
    THEN IF ZeroExtend(r0.u, W8 * Bytes[i.size]) = old.u THEN x ELSE old
    ELSE IF i.op = "XCHG" THEN x ELSE BinResult([op |-> i.op, is64 |-> TRUE], old, x)

AtomicAt(c, i, old) ==
    LET x == c.regs[i.src]
        stored == StoreThrough(c, c.regs[i.base], i.off, Bytes[i.size],
                               AtomicResult(i, old, x, c.regs[R0]))
    IN  IF i.op = "CMPXCHG" THEN Put(stored, R0, old)
        ELSE IF i.fetch THEN Put(stored, i.src, old) ELSE stored

-----------------------------------------------------------------------------
(***************************************************************************)
(* Calls.                                                                  *)
(***************************************************************************)
WithoutCallerSaved(c) == [c EXCEPT !.regs = [l \in Registers |-> IF l \in CallerSaved THEN Uninit ELSE @[l]]]

\* A helper may leave the bytes or overwrite them with numbers.
Overwritten(c, v, n) ==
    IF v.t # TStack THEN {c}
    ELSE {[c EXCEPT !.stack = [b \in Offsets |-> IF b \in v.o .. v.o + n - 1
                                                 THEN <<"num", ZeroExtend(u, W8)>> ELSE @[b]]] : u \in Inputs}

WrittenBy(c, contract) ==
    LET singles == SelectSeq(contract.singles, LAMBDA a : a.kind \in DOMAIN SingleWidth)
        pairs == SelectSeq(contract.pairs, LAMBDA a : a.kind = "writable")
        writes == [j \in DOMAIN singles |-> <<c.regs[singles[j].reg], Bytes[SingleWidth[singles[j].kind]]>>]
                    \o [j \in DOMAIN pairs |-> <<c.regs[pairs[j].mem], SignedOf(c.regs[pairs[j].size])>>]
    IN  FoldLeft(LAMBDA acc, w : UNION {Overwritten(s, w[1], w[2]) : s \in acc}, {c}, writes)

NullOr(v) == {v, NullOf(v)}

LookedUp(fd) ==
    IF ValueType(Maps[fd].type) = "map" THEN NullOr(Ptr(TMap, Maps[fd].inner, 0))
    ELSE NullOr(Ptr(TShared, 0, Maps[fd].value))

Returned(c, contract) ==
    CASE contract.lookup -> LookedUp(c.regs[MapReg(contract)].o)
      [] ~contract.lookup /\ contract.ret # 0 ->
             LET v == Ptr(contract.ret, 0, IF contract.alloc = 0 THEN 0 ELSE c.regs[contract.alloc].u)
             IN  IF contract.nullable THEN NullOr(v) ELSE {v}
      [] OTHER -> Numbers(WordBytes)

\* Another packet: no pointer into the old one has a meaning.
NoPacket(v) == IF v.t = TPacket THEN Uninit ELSE v

Reallocated(c) ==
    {[c EXCEPT !.regs = [l \in Registers |-> NoPacket(@[l])],
               !.stack = [b \in Offsets |-> IF @[b][1] = "ptr" /\ @[b][2].t = TPacket THEN <<"none">> ELSE @[b]],
               !.saved = [d \in DOMAIN @ |-> [l \in CalleeSaved |-> NoPacket(@[d][l])]],
               !.psize = p, !.meta = m] : p \in PacketSizes, m \in Metas}

Called(c, contract) ==
    LET after == {WithoutCallerSaved(Put(s, R0, v)) : s \in WrittenBy(c, contract), v \in Returned(c, contract)}
    IN  IF contract.realloc THEN UNION {Reallocated(s) : s \in after} ELSE after

CallLocal(c) == [c EXCEPT !.saved = Append(@, [l \in CalleeSaved |-> c.regs[l]]),
                          !.regs[R10] = Moved(@, -Frame)]

\* The frame of the callee is gone.
ReturnFrom(c) ==
    [WithoutCallerSaved(c) EXCEPT
        !.regs = [l \in Registers |-> CASE l \in CalleeSaved -> Last(c.saved)[l]
                                        [] l = R10 -> Moved(c.regs[R10], Frame)
                                        [] OTHER -> @[l]],
        !.stack = [b \in Offsets |-> IF b \in c.regs[R10].o - Frame .. c.regs[R10].o - 1 THEN <<"none">> ELSE @[b]],
        !.saved = Front(@)]

-----------------------------------------------------------------------------
\* The states that instruction i leads to from c.
Machine(c, i) ==
    CASE i.kind = "bin"    -> {Put(c, i.dst, BinResult(i, c.regs[i.dst], Operand(c, i)))}
      [] i.kind = "un"     -> {Put(c, i.dst, IF IsNum(c.regs[i.dst]) THEN NumValue(MachineUn(i, c.regs[i.dst].u))
                                             ELSE Uninit)}
      [] i.kind = "assume" -> IF Taken(i, c.regs[i.dst], Operand(c, i)) THEN {c} ELSE {}
      [] i.kind = "load"   -> {Put(c, i.dst, Extended(i, v)) :
                                  v \in LoadedFrom(c, c.regs[i.base], i.off, Bytes[i.size])}
      [] i.kind = "store"  -> {StoreThrough(c, c.regs[i.base], i.off, Bytes[i.size], Operand(c, i))}
      [] i.kind = "atomic" -> {AtomicAt(c, i, v) : v \in LoadedFrom(c, c.regs[i.base], i.off, Bytes[i.size])}
      [] i.kind = "call"   -> Called(c, Contracts[i.func])
      [] i.kind = "callx"  -> Called(c, Contracts[c.regs[i.src].u])
      [] i.kind = "call_local" -> {CallLocal(c)}
      [] i.kind = "exit"   -> IF i.depth = 0 THEN {c} ELSE {ReturnFrom(c)}
      [] i.kind = "packet" -> {WithoutCallerSaved(Put(c, R0, v)) : v \in Numbers(WordBytes)}
      [] i.kind = "map_fd" -> {Put(c, i.dst, Ptr(IF ValueType(Maps[i.fd].type) = "program" THEN TMapPrograms ELSE TMap,
                                                 i.fd, 0))}
      [] i.kind = "map_address"  -> {Put(c, i.dst, Ptr(TShared, i.off, Maps[i.fd].value))}
      [] i.kind = "code_address" -> {Put(c, i.dst, [Uninit EXCEPT !.t = TFunc, !.u = ZeroExtend(i.imm, W64)])}
      [] i.kind = "initialize"   -> {[c EXCEPT !.count[i.loop] = 0]}
      [] i.kind = "increment"    -> {[c EXCEPT !.count[i.loop] = @ + 1]}

-----------------------------------------------------------------------------
(***************************************************************************)
(* Faults.                                                                 *)
(***************************************************************************)
\* The bytes from o on, n of them, are in an object of size bytes.
InObject(o, n, size) == o >= 0 /\ o + n <= size

\* Whether v + off has n bytes that may be accessed.
Accessible(c, v, off, n) ==
    CASE v.t = TStack  -> v.o + off >= c.regs[R10].o - Frame /\ v.o + off + n <= TotalStack
      [] v.t = TCtx    -> InObject(v.o + off, n, Context.size)
      [] v.t = TPacket -> v.o + off >= c.meta /\ v.o + off + n <= c.psize
      [] v.t \in {TShared, TAllocMem} -> v.u # 0 /\ InObject(v.o + off, n, v.z)
      [] v.t = TSocket -> v.u # 0 /\ \E layout \in SocketLayout : InObject(v.o + off, n, layout.size)
      [] OTHER -> FALSE

ClobbersContext(v, off, n) ==
    v.t = TCtx /\ \E f \in ContextFields : v.o + off < f + PointerWidth /\ f < v.o + off + n

Writable(c, v, off, n) == Accessible(c, v, off, n) /\ ~ClobbersContext(v, off, n)

\* Memory that a helper reads has no pointers.
Readable(c, v, n) ==
    /\ Accessible(c, v, 0, n)
    /\ v.t = TStack => \A b \in v.o .. v.o + n - 1 : IsNumByte(c.stack, b)

\* The low half of a pointer is only unknown, except for a move.
FaultyBin(i, a, b) ==
    \/ i.op \in {"UDIV", "UMOD", "SDIV", "SMOD"} /\ ~AllowDivByZero /\ IsNum(b) /\ ZeroExtend(b.u, Width(i)) = 0
                  /\ i.src # 0
    \/ (i.op = "MOV") # i.is64 /\ BinResult(i, a, b) = Uninit

FaultyMem(c, i, v) ==
    \/ i.kind = "load" /\ ~Accessible(c, v, i.off, Bytes[i.size])
    \/ i.kind # "load" /\ ~Writable(c, v, i.off, Bytes[i.size])
    \/ i.kind = "store" /\ v.t # TStack /\ ~Privileged /\ ~IsNum(Operand(c, i))
    \/ i.kind = "atomic" /\ ~IsNum(c.regs[i.src])

FaultySingle(c, a, contract) ==
    CASE a.kind = "map_fd" -> c.regs[a.reg].t # TMap
      [] a.kind = "map_key" -> ~Readable(c, c.regs[a.reg], Maps[c.regs[MapReg(contract)].o].key)
      [] a.kind = "map_value" -> ~Readable(c, c.regs[a.reg], Maps[c.regs[MapReg(contract)].o].value)
      [] a.kind \in DOMAIN SingleWidth -> ~Writable(c, c.regs[a.reg], 0, Bytes[SingleWidth[a.kind]])
      [] a.kind = "ctx" -> ~(c.regs[a.reg].t = TCtx /\ c.regs[a.reg].o = 0) /\ ~(a.ornull /\ c.regs[a.reg].u = 0)
      [] a.kind = "anything" -> ~Privileged /\ ~IsNum(c.regs[a.reg])
      [] OTHER -> FALSE

FaultyPair(c, a) ==
    LET v == c.regs[a.mem]
        n == SignedOf(c.regs[a.size])
    IN  \/ ~IsNum(c.regs[a.size]) \/ n < (IF a.canzero THEN 0 ELSE 1)
        \/ n > 0 /\ ~(IF a.kind = "readable" THEN Readable(c, v, n) ELSE Writable(c, v, 0, n))
                 /\ ~(a.ornull /\ IsNum(v) /\ v.u = 0)

FaultyCall(c, contract) ==
    \/ \E j \in DOMAIN contract.singles : FaultySingle(c, contract.singles[j], contract)
    \/ \E j \in DOMAIN contract.pairs : FaultyPair(c, contract.pairs[j])

Faults(c, i) ==
    CASE i.kind = "bin"    -> FaultyBin(i, c.regs[i.dst], Operand(c, i))
      [] i.kind = "un"     -> ~IsNum(c.regs[i.dst])
      [] i.kind = "assume" -> ~Privileged /\ Uninit \in {c.regs[i.dst], Operand(c, i)}
      [] i.kind \in {"load", "store", "atomic"} -> FaultyMem(c, i, c.regs[i.base])
      [] i.kind = "call"   -> FaultyCall(c, Contracts[i.func])
      [] i.kind = "callx"  -> FaultyCall(c, Contracts[c.regs[i.src].u])
      [] i.kind = "exit"   -> i.depth = 0 /\ ~IsNum(c.regs[R0])
      [] i.kind = "packet" -> ~(c.regs[Reg(6)].t = TCtx /\ c.regs[Reg(6)].o = 0)
      [] i.kind = "increment" -> c.count[i.loop] > LoopLimit
      [] OTHER -> FALSE
=============================================================================
