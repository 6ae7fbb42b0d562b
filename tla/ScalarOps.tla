------------------------------ MODULE ScalarOps ------------------------------
(***************************************************************************)
(* The instructions on numbers: the binary and unary ALU instructions and  *)
(* the assumptions of branches, on the finite-width domain.  Location r    *)
(* has the views 32 * r + 1 (svalue) and 32 * r + 2 (uvalue).              *)
(*                                                                         *)
(* An instruction is the sequence of methods that the transformer calls;   *)
(* each looks at the zone that the ones before it left.                    *)
(***************************************************************************)
EXTENDS FiniteDomain

Sv(r) == 32 * r + 1
Uv(r) == 32 * r + 2

-----------------------------------------------------------------------------
(***************************************************************************)
(* transform_bin.  The operand of an instruction is an immediate (src = 0) *)
(* or a register.                                                          *)
(***************************************************************************)
Width(i) == IF i.is64 THEN W64 ELSE W32

OperandS(i) == IF i.src = 0 THEN Num(i.imm) ELSE Var(Sv(i.src))
OperandU(i) == IF i.src = 0 THEN Num(i.imm) ELSE Var(Uv(i.src))

\* The names of the arithmetic operations in the domain.
SignedBinop == ("MUL" :> "MUL") @@ ("SDIV" :> "SDIV") @@ ("SMOD" :> "SREM")
UnsignedBinop == ("UDIV" :> "UDIV") @@ ("UMOD" :> "UREM") @@ ("OR" :> "OR") @@ ("XOR" :> "XOR")
                   @@ ("AND" :> "AND")

\* The bitwise operations with an immediate are always those of 64 bits.
BitwiseWidth(i) == IF i.src = 0 /\ i.op \in {"OR", "XOR"} THEN W64 ELSE Width(i)

\* The 32-bit operand of an operation with an immediate, and the 32-bit result
\* of any operation, are truncated to their low half.
Mask32(z, i) == BitwiseAndNum(z, Sv(i.dst), Uv(i.dst), MaxUint(W32))

MovImm(i) == <<Sets(Sv(i.dst), I!Just(i.imm)), Sets(Uv(i.dst), I!Just(i.imm)),
               Wrap(Uv(i.dst), Width(i), FALSE)>>

\* assign_reg forgets what the type of the destination gave a meaning to.
MovReg(i) == IF i.dst = i.src THEN <<>>
             ELSE <<Forgets(Sv(i.dst)), Assigns_(Uv(i.dst), Var(Uv(i.src))),
                    Assigns_(Sv(i.dst), Var(Sv(i.src)))>>

AndImm(z, i) ==
    BitwiseAndNum(z, Sv(i.dst), Uv(i.dst), i.imm)
      \o (IF i.imm <= 0 THEN <<>>
          ELSE <<Assumes(Leq(Var(Sv(i.dst)), Num(i.imm))), Assumes(Leq(Var(Uv(i.dst)), Num(i.imm))),
                 Assumes(Leq(Num(0), Var(Sv(i.dst)))), Assumes(Leq(Num(0), Var(Uv(i.dst))))>>)

MovsxBits == ("MOVSX8" :> W8) @@ ("MOVSX16" :> W16) @@ ("MOVSX32" :> W32)

MovsxIsNoop(z, i) ==
    /\ i.is64 /\ i.dst = i.src
    /\ I!IsIncludedIn(Eval(z, Var(Sv(i.dst))), I!SignedInt(MovsxBits[i.op]))

\* The count of a shift by a register must be known; narrow_to_u64 panics on
\* a number that is not an unsigned 64-bit one.
ShiftCount(z, i) ==
    IF i.src = 0 THEN I!Just(ZeroExtend(i.imm, Width(i)))
    ELSE Eval(z, Var(Uv(i.src)))

ShiftKnown(z, i, n) ==
    CASE n \notin 0 .. MaxUint(W64) -> <<Panics>>
      [] i.op = "LSH" -> ShiftLeft(z, Sv(i.dst), Uv(i.dst), BitAnd(n, Width(i) - 1), Width(i))
      [] i.op = "RSH" -> ShiftRight(z, Sv(i.dst), Uv(i.dst), BitAnd(n, Width(i) - 1), Width(i))

ShiftUnknown(i) ==
    IF i.op = "LSH" THEN ApplyUnsigned("SHL", Sv(i.dst), Uv(i.dst), Uv(i.dst), OperandU(i), W64)
    ELSE <<Forgets(Sv(i.dst)), Forgets(Uv(i.dst))>>

Shift(z, i, count) ==
    IF I!IsSingleton(count) THEN ShiftKnown(z, i, count.lb) ELSE ShiftUnknown(i)

Operation(z, i) ==
    CASE i.op = "MOV" -> IF i.src = 0 THEN MovImm(i) ELSE MovReg(i)
      [] i.op = "ADD" -> AddSubOverflow(z, "ADD", Sv(i.dst), Uv(i.dst), OperandS(i), Width(i))
      [] i.op = "SUB" /\ i.src = 0 ->
             AddSubOverflow(z, "ADD", Sv(i.dst), Uv(i.dst), Num(-i.imm), Width(i))
      [] i.op = "SUB" -> ApplySigned("SUB", Sv(i.dst), Uv(i.dst), Sv(i.dst), OperandS(i), Width(i))
      [] i.op = "AND" /\ i.src = 0 -> AndImm(z, i)
      [] i.op \in DOMAIN SignedBinop ->
             ApplySigned(SignedBinop[i.op], Sv(i.dst), Uv(i.dst), Sv(i.dst), OperandS(i), Width(i))
      [] i.op \in DOMAIN UnsignedBinop /\ ~(i.op = "AND" /\ i.src = 0) ->
             ApplyUnsigned(UnsignedBinop[i.op], Sv(i.dst), Uv(i.dst), Uv(i.dst), OperandU(i),
                           BitwiseWidth(i))
      [] i.op \in {"LSH", "RSH"} -> Shift(z, i, ShiftCount(z, i))
      [] i.op = "ARSH" -> Ashr(z, Sv(i.dst), Uv(i.dst), OperandS(i), Width(i))
      [] i.op \in DOMAIN MovsxBits ->
             IF MovsxIsNoop(z, i) THEN <<>>
             ELSE SignExtendMethod(z, Sv(i.dst), Uv(i.dst), OperandS(i), Width(i), MovsxBits[i.op])

\* A shift by a known register truncates its operand as an immediate does.
MasksFirst(z, i) ==
    ~i.is64 /\ (i.src = 0 \/ (i.op \in {"LSH", "RSH"} /\ I!IsSingleton(ShiftCount(z, i))))

\* Adding or subtracting 0 returns early.
IsNoop(i) == i.op \in {"ADD", "SUB"} /\ i.src = 0 /\ i.imm = 0

-----------------------------------------------------------------------------
(***************************************************************************)
(* transform_un.  Byte swaps are done on a view that is known to be one    *)
(* number that fits 64 signed bits.                                        *)
(***************************************************************************)
\* The bytes of the low w bits of n, in reverse order.
SwapBytes(n, w) ==
    LET m == w \div W8
        byte(j) == (n \div 2 ^ (W8 * j)) % 2 ^ W8
        sum[j \in 0 .. m - 1] == byte(j) * 2 ^ (W8 * (m - 1 - j)) + (IF j = 0 THEN 0 ELSE sum[j - 1])
    IN  sum[m - 1]

UnWidth == ("BE16" :> W16) @@ ("BE32" :> W32) @@ ("BE64" :> W64) @@ ("LE16" :> W16)
             @@ ("LE32" :> W32) @@ ("LE64" :> W64) @@ ("SWAP16" :> W16) @@ ("SWAP32" :> W32)
             @@ ("SWAP64" :> W64)

\* On a little-endian machine the conversion to little endian only truncates.
Swapped(op, n) ==
    IF op \in {"LE16", "LE32"} THEN ZeroExtend(n, UnWidth[op])
    ELSE IF UnWidth[op] = W64 THEN SignExtend(SwapBytes(n, W64), W64)
    ELSE SwapBytes(n, UnWidth[op])

SwapEndianness(x, op, i) ==
    IF I!IsSingleton(i) /\ MinInt(W64) <= i.lb /\ i.lb <= MaxInt(W64)
    THEN Sets(x, I!Just(Swapped(op, i.lb))) ELSE Forgets(x)

Un(z, i) ==
    CASE i.op = "NEG"  -> ApplySigned("MUL", Sv(i.dst), Uv(i.dst), Sv(i.dst), Num(-1), Width(i))
      [] i.op = "LE64" -> <<>>
      [] OTHER -> <<SwapEndianness(Sv(i.dst), i.op, Eval(z, Var(Sv(i.dst)))),
                    SwapEndianness(Uv(i.dst), i.op, Eval(z, Var(Uv(i.dst))))>>

-----------------------------------------------------------------------------
(***************************************************************************)
(* transform_assume, of numbers.  The unsigned view of an immediate is its *)
(* 64-bit pattern.                                                         *)
(***************************************************************************)
ComparisonOf(i) ==
    Comparison(i.op, i.is64, Sv(i.dst), Uv(i.dst), OperandS(i),
               IF i.src = 0 THEN Num(ZeroExtend(i.imm, W64)) ELSE OperandU(i))

Constraints(z, i, c) ==
    IF i.src = 0 THEN AssumeCstImm(c, i.imm, Views(z, c)) ELSE AssumeCstReg(c, Views(z, c))

-----------------------------------------------------------------------------
(***************************************************************************)
(* The methods of an instruction, in order, and what each calls.           *)
(***************************************************************************)
Phases(i) == CASE i.kind = "bin" /\ IsNoop(i) -> <<"mask">>
               [] i.kind = "bin"    -> <<"mask", "op", "truncate">>
               [] i.kind = "un"     -> <<"un">>
               [] i.kind = "assume" -> <<"assume">>

AssumesAll(csts) == [j \in DOMAIN csts |-> Assumes(csts[j])]

AssumeCalls(z, i) == AssumesAll(Constraints(z, i, ComparisonOf(i)))

Calls(z, i, phase) ==
    CASE phase = "mask" -> IF MasksFirst(z, i) THEN Mask32(z, i) ELSE <<>>
      [] phase = "op" -> Operation(z, i)
      [] phase = "truncate" -> IF i.is64 THEN <<>> ELSE Mask32(z, i)
      [] phase = "un" -> Un(z, i)
      [] phase = "assume" -> AssumeCalls(z, i)
=============================================================================
