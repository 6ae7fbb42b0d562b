----------------------------- MODULE MachineInt -----------------------------
(***************************************************************************)
(* Numbers and bounds: Number, a 128-bit integer whose operations panic on *)
(* overflow, and ExtendedNumber, a number or an infinity.                  *)
(*                                                                         *)
(* The widths are parameters.  Everything the code does with 64, 32, 16    *)
(* and 8 bits is done here with W64, W32, W16 and W8, so that small        *)
(* instances meet every wrap-around.  A number has twice the width W64.    *)
(***************************************************************************)
EXTENDS Integers, FiniteSets

CONSTANTS W64, W32, W16, W8

ASSUME WidthsAssumption ==
    /\ {W64, W32, W16, W8} \subseteq Nat \ {0}
    /\ W8 <= W16 /\ W16 <= W32 /\ W32 < W64

MaxUint(w) == 2 ^ w - 1
MaxInt(w) == 2 ^ (w - 1) - 1
MinInt(w) == -(2 ^ (w - 1))

-----------------------------------------------------------------------------
(***************************************************************************)
(* Number.  The remainder of TLA+ is never negative, so  n % 2^w  is the   *)
(* two's complement of n masked to w bits.                                 *)
(***************************************************************************)
ZeroExtend(n, w) == n % 2 ^ w

SignExtend(n, w) == IF n % 2 ^ w > MaxInt(w) THEN (n % 2 ^ w) - 2 ^ w ELSE n % 2 ^ w

\* fits_cast_to: the signed or the unsigned numbers of w bits.  The casts
\* cast_to_signed_width and cast_to_unsigned_width panic on any other number.
FitsCastTo(n, w) == MinInt(w) <= n /\ n <= MaxUint(w)

Abs(n) == IF n < 0 THEN -n ELSE n

\* The i128 of a Number at this width; outside of it the operations panic.
FitsNumber(n) == MinInt(2 * W64) <= n /\ n <= MaxInt(2 * W64)

\* Division and remainder truncate towards zero.
Quot(a, b) == IF (a < 0) = (b < 0) THEN Abs(a) \div Abs(b) ELSE -(Abs(a) \div Abs(b))

Rem(a, b) == a - b * Quot(a, b)

Bit(n, i) == (n \div 2 ^ i) % 2 = 1

\* The number whose bits are those of the set S; bit 2*W64 - 1 is the sign.
FromBits(S) ==
    LET bits[i \in 0 .. 2 * W64 - 1] ==
            (IF i \notin S THEN 0 ELSE IF i = 2 * W64 - 1 THEN -(2 ^ i) ELSE 2 ^ i)
              + (IF i = 0 THEN 0 ELSE bits[i - 1])
    IN  bits[2 * W64 - 1]

Bits == 0 .. 2 * W64 - 1
BitAnd(a, b) == FromBits({i \in Bits : Bit(a, i) /\ Bit(b, i)})
BitOr(a, b) == FromBits({i \in Bits : Bit(a, i) \/ Bit(b, i)})
BitXor(a, b) == FromBits({i \in Bits : Bit(a, i) # Bit(b, i)})

\* The smallest 2^k - 1 that is not below a number that is not negative.
FillOnes(n) == CHOOSE m \in {2 ^ k - 1 : k \in Bits} :
                   m >= n /\ \A k \in Bits : 2 ^ k - 1 >= n => m <= 2 ^ k - 1

-----------------------------------------------------------------------------
(***************************************************************************)
(* ExtendedNumber.  An infinity is a number beyond all others, so that the *)
(* order of bounds and their negation are those of the integers.           *)
(***************************************************************************)
PlusInf == 2 ^ (4 * W64)
MinusInf == -PlusInf

IsInf(b) == b \in {PlusInf, MinusInf}

BoundAdd(a, b) == IF IsInf(a) THEN a ELSE IF IsInf(b) THEN b ELSE a + b

BoundSub(a, b) == BoundAdd(a, -b)

\* Zero absorbs everything, an infinity included.
BoundMul(a, b) ==
    IF a = 0 \/ b = 0 THEN 0
    ELSE IF IsInf(a) \/ IsInf(b) THEN (IF (a > 0) = (b > 0) THEN PlusInf ELSE MinusInf)
    ELSE a * b

\* Division by a bound that is not zero; an infinite dividend takes the sign
\* of the divisor.
BoundDiv(a, b) ==
    IF IsInf(b) THEN 0 ELSE IF IsInf(a) THEN (IF b < 0 THEN -a ELSE a) ELSE Quot(a, b)

\* to_unsigned: a negative number is read as 64 bits.
ToUnsigned(n) == IF n < 0 THEN ZeroExtend(n, W64) ELSE n

BoundUdiv(a, b) ==
    IF IsInf(b) THEN 0 ELSE IF IsInf(a) THEN a ELSE ToUnsigned(a) \div ToUnsigned(b)

MinOf(S) == CHOOSE x \in S : \A y \in S : x <= y
MaxOf(S) == CHOOSE x \in S : \A y \in S : x >= y
=============================================================================
