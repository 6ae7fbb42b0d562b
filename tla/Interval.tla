------------------------------ MODULE Interval ------------------------------
(***************************************************************************)
(* Intervals of extended numbers: [lb, ub], bottom being [0, -1].          *)
(***************************************************************************)
EXTENDS MachineInt

Bottom == [lb |-> 0, ub |-> -1]
Top == [lb |-> MinusInf, ub |-> PlusInf]

New(lb, ub) == IF lb > ub THEN Bottom ELSE [lb |-> lb, ub |-> ub]
Just(n) == [lb |-> n, ub |-> n]

IsBottom(i) == i.lb > i.ub
IsTop(i) == IsInf(i.lb) /\ IsInf(i.ub)
IsSingleton(i) == i.lb = i.ub
IsFinite(i) == ~IsInf(i.lb) /\ ~IsInf(i.ub)
Contains(i, n) == i.lb <= n /\ n <= i.ub

Size(i) == IF IsBottom(i) THEN 0 ELSE BoundAdd(BoundSub(i.ub, i.lb), 1)

SignedInt(w) == [lb |-> MinInt(w), ub |-> MaxInt(w)]
UnsignedInt(w) == [lb |-> 0, ub |-> MaxUint(w)]
Nonnegative(w) == [lb |-> 0, ub |-> MaxInt(w)]
Negative(w) == [lb |-> MinInt(w), ub |-> -1]
UnsignedHigh(w) == [lb |-> MaxInt(w) + 1, ub |-> MaxUint(w)]

-----------------------------------------------------------------------------
\* The lattice.
IsIncludedIn(i, x) == IsBottom(i) \/ (~IsBottom(x) /\ x.lb <= i.lb /\ i.ub <= x.ub)

Join(i, x) ==
    IF IsBottom(i) THEN x ELSE IF IsBottom(x) THEN i
    ELSE [lb |-> MinOf({i.lb, x.lb}), ub |-> MaxOf({i.ub, x.ub})]

Meet(i, x) ==
    IF IsBottom(i) \/ IsBottom(x) THEN Bottom
    ELSE New(MaxOf({i.lb, x.lb}), MinOf({i.ub, x.ub}))

-----------------------------------------------------------------------------
(***************************************************************************)
(* Multiplication and division.  The division operators are defined in     *)
(* layers, as their recursion unfolds: a divisor that contains zero is     *)
(* split around it, then a dividend that does.                             *)
(***************************************************************************)
Hull(S) == New(MinOf(S), MaxOf(S))

Add(i, x) == IF IsBottom(i) \/ IsBottom(x) THEN Bottom
             ELSE New(BoundAdd(i.lb, x.lb), BoundAdd(i.ub, x.ub))

Sub(i, x) == IF IsBottom(i) \/ IsBottom(x) THEN Bottom
             ELSE New(BoundSub(i.lb, x.ub), BoundSub(i.ub, x.lb))

Mul(i, x) == IF IsBottom(i) \/ IsBottom(x) THEN Bottom
             ELSE Hull({BoundMul(a, b) : a \in {i.lb, i.ub}, b \in {x.lb, x.ub}})

NegativeHalf(x) == New(x.lb, -1)
PositiveHalf(x) == New(1, x.ub)

\* A divisor that is a constant: both ends are divided, swapped if it is
\* negative; division by zero yields zero.
DivByConstant(i, c) ==
    IF c = 1 THEN i
    ELSE IF c > 0 THEN New(BoundDiv(i.lb, c), BoundDiv(i.ub, c))
    ELSE IF c < 0 THEN New(BoundDiv(i.ub, c), BoundDiv(i.lb, c))
    ELSE Just(0)

\* Neither operand contains zero.
SdivNonzero(i, x) ==
    IF IsBottom(i) \/ IsBottom(x) THEN Bottom
    ELSE IF IsSingleton(x) THEN DivByConstant(i, x.lb)
    ELSE Hull({BoundDiv(a, b) : a \in {i.lb, i.ub}, b \in {x.lb, x.ub}})

SdivSplit(i, x) ==
    IF IsBottom(i) \/ IsBottom(x) THEN Bottom
    ELSE IF IsSingleton(x) THEN DivByConstant(i, x.lb)
    ELSE IF ~Contains(i, 0) THEN SdivNonzero(i, x)
    ELSE Join(Join(SdivNonzero(NegativeHalf(i), x), SdivNonzero(PositiveHalf(i), x)), Just(0))

Sdiv(i, x) ==
    IF IsBottom(i) \/ IsBottom(x) THEN Bottom
    ELSE IF IsSingleton(x) THEN DivByConstant(i, x.lb)
    ELSE IF ~Contains(x, 0) THEN SdivSplit(i, x)
    ELSE Join(Join(SdivSplit(i, NegativeHalf(x)), SdivSplit(i, PositiveHalf(x))), Just(0))

UdivByConstant(i, c) ==
    IF c = 1 THEN i
    ELSE IF c > 0 THEN New(BoundUdiv(i.lb, c), BoundUdiv(i.ub, c))
    ELSE Just(0)

MakeDividend(i, x) ==
    IF i.ub >= 0 THEN i
    ELSE IF x.ub < 0 THEN Add(Add(i, x), Just(1)) ELSE Sub(Add(i, Just(1)), x)

UdivNonzero(i, x) ==
    IF IsBottom(i) \/ IsBottom(x) THEN Bottom
    ELSE IF IsSingleton(x) /\ FitsCastTo(x.lb, W64) THEN UdivByConstant(i, ZeroExtend(x.lb, W64))
    ELSE Hull({BoundUdiv(a, b) : a \in {MakeDividend(i, x).lb, MakeDividend(i, x).ub},
                                 b \in {x.lb, x.ub}})

UdivSplit(i, x) ==
    IF IsBottom(i) \/ IsBottom(x) THEN Bottom
    ELSE IF (IsSingleton(x) /\ FitsCastTo(x.lb, W64)) \/ ~Contains(i, 0) THEN UdivNonzero(i, x)
    ELSE Join(Join(UdivNonzero(NegativeHalf(i), x), UdivNonzero(PositiveHalf(i), x)), Just(0))

Udiv(i, x) ==
    IF IsBottom(i) \/ IsBottom(x) THEN Bottom
    ELSE IF (IsSingleton(x) /\ FitsCastTo(x.lb, W64)) \/ ~Contains(x, 0) THEN UdivSplit(i, x)
    ELSE Join(Join(UdivSplit(i, NegativeHalf(x)), UdivSplit(i, PositiveHalf(x))), Just(0))

-----------------------------------------------------------------------------
(***************************************************************************)
(* Remainders.  By zero they yield the dividend.                           *)
(***************************************************************************)
\* The divisor does not contain zero; max and min are over its magnitudes.
SremNonzero(i, x) ==
    LET least == MinOf({Abs(x.lb), Abs(x.ub)})
        most  == MaxOf({Abs(x.lb), Abs(x.ub)}) - 1
    IN  IF IsBottom(i) \/ IsBottom(x) THEN Bottom
        ELSE IF IsSingleton(i) /\ IsSingleton(x) THEN Just(Rem(i.lb, x.lb))
        ELSE IF ~IsFinite(x) THEN Join(i, Just(0))
        ELSE IF i.ub < least /\ -i.lb < least THEN i
        ELSE New(IF i.lb < 0 THEN -most ELSE 0, IF i.lb < 0 /\ i.ub <= 0 THEN 0 ELSE most)

Srem(i, x) ==
    IF IsBottom(i) \/ IsBottom(x) THEN Bottom
    ELSE IF x = Just(0) /\ IsSingleton(i) THEN i
    ELSE IF ~Contains(x, 0) THEN SremNonzero(i, x)
    ELSE Join(Join(SremNonzero(i, NegativeHalf(x)), SremNonzero(i, PositiveHalf(x))), i)

BothConstant(i, x) == /\ IsSingleton(i) /\ IsSingleton(x)
                      /\ FitsCastTo(i.lb, W64) /\ FitsCastTo(x.lb, W64)

UremNonzero(i, x) ==
    IF IsBottom(i) \/ IsBottom(x) THEN Bottom
    ELSE IF BothConstant(i, x) THEN Just(ZeroExtend(i.lb, W64) % ZeroExtend(x.lb, W64))
    ELSE IF ~IsFinite(x) THEN (IF i.ub < 0 THEN Top ELSE Join(Sub(i, Just(1)), Just(0)))
    ELSE IF ~IsInf(i.ub) /\ ZeroExtend(i.ub, W64) < ZeroExtend(x.lb, W64) THEN i
    ELSE New(0, ZeroExtend(x.ub, W64) - 1)

UremSplit(i, x) ==
    IF IsBottom(i) \/ IsBottom(x) THEN Bottom
    ELSE IF BothConstant(i, x) \/ ~Contains(i, 0) THEN UremNonzero(i, x)
    ELSE Join(Join(UremNonzero(NegativeHalf(i), x), UremNonzero(PositiveHalf(i), x)), i)

Urem(i, x) ==
    IF IsBottom(i) \/ IsBottom(x) THEN Bottom
    ELSE IF BothConstant(i, x) /\ x.lb = 0 THEN i
    ELSE IF ~Contains(x, 0) THEN UremSplit(i, x)
    ELSE Join(Join(UremSplit(i, NegativeHalf(x)), UremSplit(i, PositiveHalf(x))), i)

-----------------------------------------------------------------------------
(***************************************************************************)
(* Sign and zero extension: an interval that is smaller than the range and *)
(* does not wrap around in it keeps its shape, any other is the range.     *)
(***************************************************************************)
SignExtendTo(i, w) ==
    IF Size(i) < 2 ^ w /\ SignExtend(i.lb, w) <= SignExtend(i.ub, w)
    THEN [lb |-> SignExtend(i.lb, w), ub |-> SignExtend(i.ub, w)] ELSE SignedInt(w)

ZeroExtendTo(i, w) ==
    IF Size(i) < 2 ^ w /\ ZeroExtend(i.lb, w) <= ZeroExtend(i.ub, w)
    THEN [lb |-> ZeroExtend(i.lb, w), ub |-> ZeroExtend(i.ub, w)] ELSE UnsignedInt(w)

-----------------------------------------------------------------------------
(***************************************************************************)
(* Bitwise operations, on unsigned machine values.                         *)
(***************************************************************************)
AsUnsigned(i) == IF ~IsTop(i) /\ i.lb < 0 THEN ZeroExtendTo(i, W64) ELSE i

AndUnsigned(i, x) ==
    IF Just(0) \in {i, x} THEN Just(0)
    ELSE IF IsSingleton(i) /\ IsSingleton(x) THEN Just(BitAnd(i.lb, x.lb))
    ELSE IF \E w \in {W64, W32, W16, W8} : x = Just(MaxUint(w))
    THEN ZeroExtendTo(i, CHOOSE w \in {W64, W32, W16, W8} : x = Just(MaxUint(w)))
    ELSE IF Contains(x, MaxUint(W64)) THEN New(0, ZeroExtendTo(i, W64).ub)
    ELSE New(0, MinOf({y.ub : y \in {z \in {i, x} : ~IsTop(z)}}))

BitwiseAnd(i, x) == IF IsBottom(i) \/ IsBottom(x) THEN Bottom
                    ELSE AndUnsigned(AsUnsigned(i), AsUnsigned(x))

OrUpTo(i, x) ==
    IF i.lb < 0 \/ x.lb < 0 THEN Top
    ELSE IF IsInf(i.ub) \/ IsInf(x.ub) THEN [lb |-> 0, ub |-> PlusInf]
    ELSE New(0, FillOnes(MaxOf({i.ub, x.ub})))

BitwiseOr(i, x) ==
    IF IsBottom(i) \/ IsBottom(x) THEN Bottom
    ELSE IF IsSingleton(i) /\ IsSingleton(x) THEN Just(BitOr(i.lb, x.lb)) ELSE OrUpTo(i, x)

BitwiseXor(i, x) ==
    IF IsBottom(i) \/ IsBottom(x) THEN Bottom
    ELSE IF IsSingleton(i) /\ IsSingleton(x) THEN Just(BitXor(i.lb, x.lb)) ELSE OrUpTo(i, x)

MaskValue(i, w) == IF w < W64 THEN BitwiseAnd(i, Just(MaxUint(w))) ELSE i

MaskShiftCount(i, w) == BitwiseAnd(i, Just(w - 1))

Shl(i, x) ==
    IF IsBottom(i) \/ IsBottom(x) THEN Bottom
    ELSE IF IsSingleton(x) /\ x.lb \in 0 .. 2 * W64 THEN Mul(i, Just(2 ^ x.lb)) ELSE Top
=============================================================================
