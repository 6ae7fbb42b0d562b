---------------------------- MODULE FiniteDomain ----------------------------
(***************************************************************************)
(* Finite-width arithmetic on top of the zone domain.  A register has two  *)
(* variables, the signed and the unsigned view of its value: svalue is odd *)
(* and uvalue even.                                                        *)
(*                                                                         *)
(* An operation of the domain (a method) is the sequence of the calls it   *)
(* makes on the zone.  A call is a record; Resolve looks at the zone the   *)
(* call finds and says what it does to it: assign an expression, set an    *)
(* interval, forget a variable, add a constraint, or nothing.  A call that *)
(* would panic leaves the marker Panic.                                    *)
(***************************************************************************)
EXTENDS Zones, MachineInt

I == INSTANCE Interval

Panic == [core |-> EmptyCore, vmap |-> [x \in {} |-> 0], rmap |-> 0 :> -1]

-----------------------------------------------------------------------------
(***************************************************************************)
(* Expressions and constraints.                                            *)
(***************************************************************************)
Var(x) == [k |-> 0, t |-> x :> 1]
Num(n) == [k |-> n, t |-> [y \in {} |-> 0]]

Coef(e, y) == IF y \in DOMAIN e.t THEN e.t[y] ELSE 0

Plus(a, b) ==
    [k |-> a.k + b.k,
     t |-> [y \in {v \in DOMAIN a.t \cup DOMAIN b.t : Coef(a, v) + Coef(b, v) # 0} |->
               Coef(a, y) + Coef(b, y)]]

Minus(a, b) == Plus(a, Negate(b))

Leq(a, b) == [kind |-> "le", e |-> Minus(a, b)]
Lt(a, b) == [kind |-> "lt", e |-> Minus(a, b)]
Geq(a, b) == Leq(b, a)
Gt(a, b) == Lt(b, a)
Eq(a, b) == [kind |-> "eq", e |-> Minus(a, b)]
Neq(a, b) == [kind |-> "ne", e |-> Minus(a, b)]
True == Eq(Num(0), Num(0))
False == Eq(Num(1), Num(0))

StrictCmp(strict, isLt, a, b) ==
    IF isLt THEN (IF strict THEN Lt(a, b) ELSE Leq(a, b))
            ELSE (IF strict THEN Gt(a, b) ELSE Geq(a, b))

-----------------------------------------------------------------------------
(***************************************************************************)
(* Reading intervals off a zone.  Width 0 is the raw interval.             *)
(***************************************************************************)
FromZone(i) == [lb |-> IF i.lo = {} THEN MinusInf ELSE The(i.lo),
                ub |-> IF i.hi = {} THEN PlusInf ELSE The(i.hi)]

ToZone(i) == [lo |-> IF IsInf(i.lb) THEN {} ELSE {i.lb},
              hi |-> IF IsInf(i.ub) THEN {} ELSE {i.ub}]

Eval(z, e) == FromZone(EvalInterval(z, e))

IsUnsigned(x) == x % 2 = 0

\* eval_interval_with_width; a constant is taken as it is.
EvalWithWidth(z, e, w) ==
    IF w = 0 \/ DOMAIN e.t = {} THEN Eval(z, e)
    ELSE IF \A x \in DOMAIN e.t : IsUnsigned(x) THEN I!ZeroExtendTo(Eval(z, e), w)
    ELSE I!SignExtendTo(Eval(z, e), w)

-----------------------------------------------------------------------------
(***************************************************************************)
(* Binary operations.  The immediate of a division is read as the ISA      *)
(* prescribes for the width (read_imm_for_...).                            *)
(***************************************************************************)
ReadImm(op, e, w) ==
    IF DOMAIN e.t # {} THEN e
    ELSE CASE op \in {"UDIV", "UREM"} -> Num(IF w = W32 THEN ZeroExtend(e.k, W32)
                                                        ELSE SignExtend(e.k, W32))
           [] op \in {"SDIV", "SREM"} -> Num(SignExtend(e.k, w))
           [] op \in {"AND", "OR", "XOR", "SHL"} -> Num(ZeroExtend(e.k, W64))
           [] OTHER -> e

ArithInterval(op, y, x) ==
    CASE op = "MUL"  -> I!Mul(y, x)
      [] op = "SDIV" -> I!Sdiv(y, x)
      [] op = "UDIV" -> I!Udiv(y, x)
      [] op = "SREM" -> I!Srem(y, x)
      [] op = "UREM" -> I!Urem(y, x)

BitwiseInterval(op, y, x, w) ==
    I!MaskValue(CASE op = "AND" -> I!BitwiseAnd(y, x)
                  [] op = "OR"  -> I!BitwiseOr(y, x)
                  [] op = "XOR" -> I!BitwiseXor(y, x)
                  [] op = "SHL" -> I!Shl(y, I!MaskShiftCount(x, w)), w)

BinopInterval(z, op, y, e, w) ==
    IF op \in {"AND", "OR", "XOR", "SHL"}
    THEN BitwiseInterval(op, Eval(z, Var(y)), Eval(z, e), w)
    ELSE ArithInterval(op, EvalWithWidth(z, Var(y), w), EvalWithWidth(z, e, w))

-----------------------------------------------------------------------------
(***************************************************************************)
(* What a call does: the effects.                                          *)
(***************************************************************************)
Assigns_(x, e) == [do |-> "assign", x |-> x, e |-> e]
Forgets(x) == [do |-> "havoc", x |-> x]
Keeps == [do |-> "keep"]
Panics == [do |-> "panic"]

\* set asserts that the interval is not bottom, and a Number overflows where
\* the product of two bounds does not fit its width.
Sets(x, i) ==
    IF I!IsBottom(i) \/ \E b \in {i.lb, i.ub} : ~IsInf(b) /\ ~FitsNumber(b)
    THEN Panics ELSE [do |-> "set", x |-> x, i |-> i]

\* Mutant: the two ends are wrapped and set although they may have crossed.
OverflowBoundsUnordered(i, x, w, signed) ==
    IF I!Size(i) >= 2 ^ w THEN Forgets(x)
    ELSE Sets(x, [lb |-> MinOf({ZeroExtend(i.lb, w), ZeroExtend(i.ub, w)}),
                  ub |-> MaxOf({ZeroExtend(i.lb, w), ZeroExtend(i.ub, w)})])

\* Mutant: what leaves the range is forgotten rather than wrapped around.
OverflowBoundsForgets(i, x, w, signed) ==
    IF I!IsIncludedIn(i, IF signed THEN I!SignedInt(w) ELSE I!UnsignedInt(w)) THEN Keeps ELSE Forgets(x)

\* overflow_bounds of variable x, whose interval is i.
OverflowBounds(i, x, w, signed) ==
    LET wrap(n) == IF signed THEN SignExtend(ZeroExtend(n, w), W64) ELSE ZeroExtend(n, w)
    IN  IF I!Size(i) >= 2 ^ w \/ I!IsBottom(i) THEN Forgets(x)
        ELSE IF wrap(i.lb) > wrap(i.ub) THEN Forgets(x)
        ELSE IF wrap(i.lb) = i.lb /\ wrap(i.ub) = i.ub THEN Keeps
        ELSE Sets(x, [lb |-> wrap(i.lb), ub |-> wrap(i.ub)])

Binop(z, op, x, y, e, w) ==
    CASE op = "ADD" -> Assigns_(x, Plus(Var(y), e))
      [] op = "SUB" -> Assigns_(x, Minus(Var(y), e))
      [] OTHER      -> Sets(x, BinopInterval(z, op, y, ReadImm(op, e, w), w))

\* shl of an unsigned interval by k < w bits.
ShlBy(x, i, k, w) ==
    IF k > 0 /\ i.lb \div 2 ^ (w - k) # i.ub \div 2 ^ (w - k)
    THEN Sets(x, [lb |-> 0, ub |-> ZeroExtend(MaxUint(w) * 2 ^ k, w)])
    ELSE Sets(x, I!New(ZeroExtend(i.lb * 2 ^ k, w), ZeroExtend(i.ub * 2 ^ k, w)))

\* lshr: the casts to the 32-bit width panic on a number that does not fit.
LshrBy(x, i, k, w) ==
    IF w # W64 /\ ~(FitsCastTo(i.lb, w) /\ FitsCastTo(i.ub, w)) THEN Panics
    ELSE Sets(x, I!New(ZeroExtend(i.lb, w) \div 2 ^ k, ZeroExtend(i.ub, w) \div 2 ^ k))

\* Mutant: the two ends are shifted and set although they may have crossed.
AshrByUnordered(x, i, k, w) ==
    Sets(x, [lb |-> ZeroExtend(i.lb \div 2 ^ k, w), ub |-> ZeroExtend(i.ub \div 2 ^ k, w)])

AshrBy(x, i, k, w) ==
    LET shifted(n) == IF w = W64 THEN n \div 2 ^ k ELSE ZeroExtend(n \div 2 ^ k, W32)
    IN  IF shifted(i.lb) <= shifted(i.ub)
        THEN Sets(x, [lb |-> shifted(i.lb), ub |-> shifted(i.ub)])
        ELSE Sets(x, [lb |-> MinInt(W64) \div 2 ^ k, ub |-> MaxInt(W64) \div 2 ^ k])

\* overflow_bounds and the binary operations look at what the calls before
\* them left.
Wrap(x, w, signed) == [do |-> "wrap", x |-> x, w |-> w, signed |-> signed]
Computes(op, x, y, e, w) == [do |-> "binop", op |-> op, x |-> x, y |-> y, e |-> e, w |-> w]

Assumes(cst) == [do |-> "assume", cst |-> cst]

\* Mutant: the state before a condition is kept beside the one after it.
PerformKeepsBoth(z, c) ==
    CASE c.do = "assign" -> {Assign(z, c.x, c.e)}
      [] c.do = "set"    -> {Set(z, c.x, ToZone(c.i))}
      [] c.do = "havoc"  -> {Havoc(z, c.x)}
      [] c.do = "assume" -> {z} \cup Keep({AddConstraint(z, c.cst)})
      [] c.do \in {"keep", "panic"} -> {z}

Perform(z, c) ==
    CASE c.do = "assign" -> {Assign(z, c.x, c.e)}
      [] c.do = "set"    -> {Set(z, c.x, ToZone(c.i))}
      [] c.do = "havoc"  -> {Havoc(z, c.x)}
      [] c.do = "assume" -> Keep({AddConstraint(z, c.cst)})
      [] c.do = "keep"   -> {z}
      [] c.do = "panic"  -> {Panic}

Resolve(z, c) ==
    CASE c.do = "wrap"  -> OverflowBounds(Eval(z, Var(c.x)), c.x, c.w, c.signed)
      [] c.do = "binop" -> Binop(z, c.op, c.x, c.y, c.e, c.w)
      [] OTHER -> c

Run(d, calls) ==
    FoldLeft(LAMBDA acc, c :
                 UNION {IF z = Panic THEN {z} ELSE Perform(z, Resolve(z, c)) : z \in acc},
             d, calls)

-----------------------------------------------------------------------------
(***************************************************************************)
(* The methods: what each of them calls, in order.                         *)
(***************************************************************************)
WrapPair(s, u, w) == <<Wrap(s, w, TRUE), Wrap(u, w, FALSE)>>

ApplySigned(op, s, u, y, e, w) ==
    <<Computes(op, s, y, e, w)>>
      \o (IF w = 0 THEN <<>> ELSE <<Assigns_(u, Var(s))>> \o WrapPair(s, u, w))

ApplyUnsigned(op, s, u, y, e, w) ==
    <<Computes(op, u, y, e, w)>>
      \o (IF w = 0 THEN <<>> ELSE <<Assigns_(s, Var(u))>> \o WrapPair(s, u, w))

\* add_overflow and sub_overflow start from the view that is known.
AddSubOverflow(z, op, s, u, e, w) ==
    ApplySigned(op, s, u, IF I!IsTop(Eval(z, Var(s))) THEN u ELSE s, e, w)

\* A mask of low bits that both views are known to be below changes nothing.
MaskIsNoop(z, s, u, k) ==
    /\ k > 0 /\ BitAnd(k, k + 1) = 0
    /\ I!IsIncludedIn(Eval(z, Var(s)), [lb |-> 0, ub |-> k])
    /\ Eval(z, Var(s)) = Eval(z, Var(u))
    /\ Entail(z, Eq(Var(s), Var(u)))

BitwiseAndNum(z, s, u, k) ==
    IF MaskIsNoop(z, s, u, k) THEN <<>> ELSE ApplyUnsigned("AND", s, u, u, Num(k), W64)

ShiftLeft(z, s, u, k, w) ==
    IF ~I!IsFinite(Eval(z, Var(u))) THEN ApplyUnsigned("SHL", s, u, u, Num(k), W64)
    ELSE <<ShlBy(u, I!ZeroExtendTo(Eval(z, Var(u)), W64), k, w), Assigns_(s, Var(u))>>
           \o WrapPair(s, u, w)

ShiftRight(z, s, u, k, w) ==
    <<IF I!IsFinite(Eval(z, Var(u))) THEN LshrBy(u, I!ZeroExtendTo(Eval(z, Var(u)), W64), k, w)
      ELSE Sets(u, [lb |-> 0, ub |-> MaxUint(W64) \div 2 ^ k]),
      Assigns_(s, Var(u))>> \o WrapPair(s, u, w)

SignExtendMethod(z, s, u, e, target, source) ==
    <<Sets(s, I!SignExtendTo(Eval(z, e), source)), Assigns_(u, Var(s))>> \o WrapPair(s, u, target)

-----------------------------------------------------------------------------
(***************************************************************************)
(* Comparisons.  They work on the intervals of the two sides; a 32-bit     *)
(* comparison of values that all lie in one half of the 32-bit range is    *)
(* done as a 64-bit one.  The result has the left side, split at the sign, *)
(* and the right side.                                                     *)
(***************************************************************************)
SplitSigned(l, lu, r, w) ==
    [l |-> I!SignExtendTo(IF I!IsTop(l) THEN lu ELSE l, W64),
     r |-> I!SignExtendTo(r, W64),
     pos |-> CASE ~I!IsTop(l)  -> I!Meet(l, I!Nonnegative(w))
               [] ~I!IsTop(lu) -> I!Meet(lu, I!Nonnegative(w))
               [] OTHER        -> I!Nonnegative(w),
     neg |-> CASE ~I!IsTop(l)  -> I!Meet(l, I!Negative(w))
               [] ~I!IsTop(lu) -> I!New(MinInt(W64), IF IsInf(lu.ub) THEN -1 ELSE SignExtend(lu.ub, W64))
               [] OTHER        -> I!Negative(w)]

Both(l, r, i) == I!IsIncludedIn(l, i) /\ I!IsIncludedIn(r, i)

GetSignedIntervals(is64, l, lu, r) ==
    IF is64 \/ Both(l, r, I!Nonnegative(W32)) \/ Both(l, r, I!Negative(W32))
    THEN SplitSigned(l, lu, r, W64)
    ELSE SplitSigned(I!SignExtendTo(l, W32), lu, I!SignExtendTo(r, W32), W32)

SplitUnsigned(l, ls, r, w) ==
    [l |-> I!ZeroExtendTo(IF I!IsTop(l) THEN ls ELSE l, W64),
     r |-> I!ZeroExtendTo(r, W64),
     low  |-> CASE ~I!IsTop(l)  -> I!Meet(l, I!Nonnegative(w))
                [] ~I!IsTop(ls) -> I!ZeroExtendTo(I!New(0, ls.ub), W64)
                [] OTHER        -> I!Nonnegative(w),
     high |-> CASE ~I!IsTop(l)  -> I!Meet(l, I!UnsignedHigh(w))
                [] ~I!IsTop(ls) -> I!ZeroExtendTo(I!New(ls.lb, -1), W64)
                [] OTHER        -> I!UnsignedHigh(w)]

GetUnsignedIntervals(is64, l, ls, r) ==
    IF is64 \/ Both(l, r, I!Nonnegative(W32)) \/ Both(l, r, I!UnsignedHigh(W32))
    THEN SplitUnsigned(l, ls, r, W64)
    ELSE SplitUnsigned(I!ZeroExtendTo(l, W32), ls, I!ZeroExtendTo(r, W32), W32)

AshrMethod(z, s, u, v, w) ==
    IF ~I!IsSingleton(v.r) THEN <<Forgets(s), Forgets(u)>>
    ELSE <<AshrBy(s, v.l, v.r.lb % w, w), Assigns_(u, Var(s))>> \o WrapPair(s, u, w)

Ashr(z, s, u, e, w) ==
    AshrMethod(z, s, u,
               GetSignedIntervals(w = W64, Eval(z, Var(s)), Eval(z, Var(u)), Eval(z, e)), w)

-----------------------------------------------------------------------------
(***************************************************************************)
(* The constraints of a comparison c: its left views are the variables c.s *)
(* and c.u, its right views the expressions c.rs and c.ru.  v holds the    *)
(* intervals of get_signed_intervals or get_unsigned_intervals; i those of *)
(* the four views themselves.                                              *)
(***************************************************************************)
CmpS(c, isLt) == StrictCmp(c.strict, isLt, Var(c.s), c.rs)
CmpU(c, isLt) == StrictCmp(c.strict, isLt, Var(c.u), c.ru)
IsNonnegative(x) == Geq(Var(x), Num(0))

Views(z, c) == [s |-> Eval(z, Var(c.s)), u |-> Eval(z, Var(c.u)),
                rs |-> Eval(z, c.rs), ru |-> Eval(z, c.ru)]

Within(a, b, x, y) == I!IsIncludedIn(a, x) /\ I!IsIncludedIn(b, y)

AssumeSigned64Eq(c, v) ==
    <<Eq(Var(c.s), c.rs), Eq(Var(c.u), c.ru)>>
      \o (IF I!IsIncludedIn(v.r, I!Nonnegative(W64)) /\ ~I!IsSingleton(v.r)
          THEN <<Eq(Var(c.s), Var(c.u))>> ELSE <<>>)

\* The least value not below lb, the greatest not above ub, with the low half
\* of n; the empty set if there is none in 64 bits.
LowHalf(hi, n) == hi - ZeroExtend(hi, W32) + ZeroExtend(n, W32)
MatchUp(lb, n) ==
    IF LowHalf(lb, n) >= lb THEN {LowHalf(lb, n)}
    ELSE IF LowHalf(lb, n) > MaxInt(W64) - 2 ^ W32 THEN {} ELSE {LowHalf(lb, n) + 2 ^ W32}
MatchDown(ub, n) ==
    IF LowHalf(ub, n) <= ub THEN {LowHalf(ub, n)}
    ELSE IF LowHalf(ub, n) < MinInt(W64) + 2 ^ W32 THEN {} ELSE {LowHalf(ub, n) - 2 ^ W32}

Signed32EqBounds(c, lbs, ubs) ==
    IF lbs = {} \/ ubs = {} THEN <<>>
    ELSE <<Geq(Var(c.s), Num(The(lbs))), Leq(Var(c.s), Num(The(ubs)))>>
           \o (IF ZeroExtend(The(lbs), W64) > ZeroExtend(The(ubs), W64) THEN <<>>
               ELSE <<Geq(Var(c.u), Num(ZeroExtend(The(lbs), W64))),
                      Leq(Var(c.u), Num(ZeroExtend(The(ubs), W64)))>>)

AssumeSigned32Eq(c, v, l) ==
    IF ~I!IsSingleton(v.r) THEN <<>>
    ELSE Signed32EqBounds(c, MatchUp(l.lb, v.r.lb), MatchDown(l.ub, v.r.lb))

\* Both views of the left side are the same number, at most ub.
BothViews(c, isLt, ub) ==
    <<IsNonnegative(c.s), CmpS(c, isLt), Leq(Var(c.s), Var(c.u)), Geq(Var(c.s), Var(c.u)),
      IsNonnegative(c.u), CmpU(c, isLt), Leq(Var(c.u), Num(ub))>>

AssumeSigned64Lt(c, v) ==
    IF \/ I!IsIncludedIn(v.r, I!Negative(W64))
       \/ Within(I!Join(v.neg, v.pos), v.r, I!Nonnegative(W64), I!Nonnegative(W64))
    THEN <<CmpS(c, TRUE), IsNonnegative(c.u), CmpU(c, TRUE)>> ELSE <<CmpS(c, TRUE)>>

AssumeSigned32Lt(c, v, i) ==
    IF Within(i.s, i.rs, I!SignedInt(W32), I!Negative(W32))
    THEN <<Gt(Var(c.u), Num(MaxInt(W32))), CmpU(c, TRUE), CmpS(c, TRUE)>>
    ELSE IF Within(i.s, i.rs, I!Nonnegative(W32), I!Nonnegative(W32))
    THEN BothViews(c, TRUE, I!SignExtendTo(v.pos, W32).ub)
    ELSE IF Within(i.s, i.rs, I!SignedInt(W32), I!SignedInt(W32)) THEN <<CmpS(c, TRUE)>>
    ELSE <<>>

AssumeSigned64Gt(c, v) ==
    IF I!IsIncludedIn(v.r, I!Nonnegative(W64))
    THEN BothViews(c, FALSE, I!SignExtendTo(v.pos, W64).ub)
    ELSE IF Within(I!Join(v.neg, v.pos), v.r, I!Negative(W64), I!Negative(W64))
    THEN <<Gt(Var(c.u), Num(MaxInt(W64))), CmpU(c, FALSE), CmpS(c, FALSE)>>
    ELSE <<CmpS(c, FALSE)>>

AssumeSigned32Gt(c, v, i) ==
    IF Within(i.s, i.rs, I!SignedInt(W32), I!Nonnegative(W32))
    THEN BothViews(c, FALSE, I!SignExtendTo(v.pos, W32).ub)
    ELSE IF Within(i.s, i.rs, I!Negative(W32), I!Negative(W32))
    THEN <<Geq(Var(c.u), Num(MaxInt(W32) + 1)), CmpU(c, FALSE), CmpS(c, FALSE)>>
    ELSE IF Within(i.s, i.rs, I!SignedInt(W32), I!SignedInt(W32)) THEN <<CmpS(c, FALSE)>>
    ELSE <<>>

\* What the ends of the intervals decide by themselves.
NeverHolds(c, v) ==
    IF c.lt THEN (IF c.strict THEN v.l.lb >= v.r.ub ELSE v.l.lb > v.r.ub)
            ELSE (IF c.strict THEN v.l.ub <= v.r.lb ELSE v.l.ub < v.r.lb)
AlwaysHolds(c, v) ==
    IF c.lt THEN (IF c.strict THEN v.l.ub < v.r.lb ELSE v.l.ub <= v.r.lb)
            ELSE (IF c.strict THEN v.l.lb > v.r.ub ELSE v.l.lb >= v.r.ub)

AssumeSigned(c, v, i) ==
    IF c.op = "EQ"
    THEN (IF c.is64 THEN AssumeSigned64Eq(c, v)
                    ELSE AssumeSigned32Eq(c, v, I!SignExtendTo(i.s, W64)))
    ELSE IF NeverHolds(c, v) THEN <<False>>
    ELSE IF AlwaysHolds(c, v) THEN <<True>>
    ELSE IF c.is64 THEN (IF c.lt THEN AssumeSigned64Lt(c, v) ELSE AssumeSigned64Gt(c, v))
    ELSE IF c.lt THEN AssumeSigned32Lt(c, v, i) ELSE AssumeSigned32Gt(c, v, i)

-----------------------------------------------------------------------------
\* The left side is at most what its signed view allows.
BelowSigned(c, i, cmp) ==
    <<IsNonnegative(c.u), cmp>>
      \o (IF IsInf(i.s.ub) THEN <<>> ELSE <<Leq(Var(c.u), Num(i.s.ub))>>)
      \o <<IsNonnegative(c.s)>>

AssumeUnsigned64Lt(c, v, i, low, high) ==
    IF /\ I!IsIncludedIn(v.r, I!Nonnegative(W64))
       /\ IF c.strict THEN low.lb >= v.r.ub ELSE low.lb > v.r.ub
    THEN BelowSigned(c, i, CmpU(c, TRUE))
    ELSE IF /\ I!IsIncludedIn(v.r, I!UnsignedHigh(W64))
            /\ IF c.strict THEN high.lb >= v.r.ub ELSE high.lb > v.r.ub
    THEN BelowSigned(c, i, StrictCmp(c.strict, TRUE, Var(c.u), Num(v.r.ub)))
    ELSE IF I!IsIncludedIn(v.r, I!SignedInt(W64))
    THEN <<IsNonnegative(c.u), CmpU(c, TRUE), Leq(Var(c.u), Num(low.ub)),
           IsNonnegative(c.s), CmpS(c, TRUE)>>
    ELSE IF I!IsBottom(v.low) /\ I!IsIncludedIn(v.r, I!UnsignedHigh(W64))
    THEN <<IsNonnegative(c.u), CmpU(c, TRUE), CmpS(c, TRUE)>>
    ELSE IF I!Join(v.low, v.high) = I!UnsignedInt(W64) THEN <<CmpU(c, TRUE)>>
    ELSE <<IsNonnegative(c.u), CmpU(c, TRUE)>>

AssumeUnsigned32Lt(c, i) ==
    IF \/ Within(i.u, i.ru, I!Nonnegative(W32), I!Nonnegative(W32))
       \/ Within(i.s, i.rs, I!Negative(W32), I!Negative(W32))
    THEN <<IsNonnegative(c.u), CmpU(c, TRUE), CmpS(c, TRUE)>>
    ELSE IF Within(i.u, i.ru, I!UnsignedInt(W32), I!UnsignedInt(W32))
    THEN <<IsNonnegative(c.u), CmpU(c, TRUE)>> ELSE <<>>

AssumeUnsigned64Gt(c, v, low, high) ==
    IF /\ I!IsIncludedIn(v.r, I!Nonnegative(W64))
       /\ IF c.strict THEN low.ub <= v.r.lb ELSE low.ub < v.r.lb
    THEN <<CmpU(c, FALSE),
           IF high.lb = MaxUint(W64) THEN Eq(Var(c.u), Num(high.lb)) ELSE Geq(Var(c.u), Num(high.lb)),
           Lt(Var(c.s), Num(0))>>
    ELSE IF \/ I!IsIncludedIn(v.r, I!UnsignedHigh(W64))
            \/ Within(I!Join(v.low, v.high), v.r, I!Nonnegative(W64), I!Nonnegative(W64))
    THEN <<IsNonnegative(c.u), CmpU(c, FALSE), CmpS(c, FALSE)>>
    ELSE <<IsNonnegative(c.u), CmpU(c, FALSE)>>

AssumeUnsigned32Gt(c, i) ==
    IF Within(i.s, i.rs, I!SignedInt(W32), I!Negative(W32))
    THEN <<IsNonnegative(c.u), CmpU(c, FALSE), CmpS(c, FALSE)>>
    ELSE IF Within(i.u, i.ru, I!UnsignedInt(W32), I!UnsignedInt(W32))
    THEN <<IsNonnegative(c.u), CmpU(c, FALSE)>> ELSE <<>>

UnsignedOrder(c, v, i) ==
    IF NeverHolds(c, v) THEN <<False>>
    ELSE IF AlwaysHolds(c, v) THEN (IF c.is64 THEN <<CmpU(c, c.lt)>> ELSE <<>>)
    ELSE IF c.is64 /\ c.lt
    THEN AssumeUnsigned64Lt(c, v, i, I!ZeroExtendTo(v.low, W64), I!ZeroExtendTo(v.high, W64))
    ELSE IF c.is64
    THEN AssumeUnsigned64Gt(c, v, I!ZeroExtendTo(v.low, W64), I!ZeroExtendTo(v.high, W64))
    ELSE IF c.lt THEN AssumeUnsigned32Lt(c, i) ELSE AssumeUnsigned32Gt(c, i)

\* Inequality with a constant that is an end of the left interval is an order.
NotEqual(c, v, i) ==
    IF ~I!IsSingleton(v.r) THEN <<>>
    ELSE IF I!ZeroExtendTo(v.l, IF c.is64 THEN W64 ELSE W32).lb = v.r.lb
    THEN UnsignedOrder([c EXCEPT !.lt = FALSE, !.strict = TRUE],
                       [v EXCEPT !.r = I!New(v.l.lb, v.l.lb)], i)
    ELSE IF v.l.ub = v.r.lb
    THEN UnsignedOrder([c EXCEPT !.lt = TRUE, !.strict = TRUE],
                       [v EXCEPT !.r = I!New(v.l.ub, v.l.ub)], i)
    ELSE <<>>

AssumeUnsigned(c, v, i) == IF c.op = "NE" THEN NotEqual(c, v, i) ELSE UnsignedOrder(c, v, i)

\* SET and NSET are decided only between two constants.
AssumeBit(c, d, x) ==
    IF ~(I!IsSingleton(d) /\ I!IsSingleton(x) /\ FitsCastTo(d.lb, W64) /\ FitsCastTo(x.lb, W64))
    THEN <<>>
    ELSE IF (c.op = "SET") = (BitAnd(ZeroExtend(d.lb, W64),
                                     ZeroExtend(x.lb, IF c.is64 THEN W64 ELSE W32)) # 0)
    THEN <<True>> ELSE <<False>>

SignedOps == {"EQ", "SGE", "SLE", "SGT", "SLT"}
BitOps == {"SET", "NSET"}
UnsignedOps == {"NE", "GE", "LE", "GT", "LT"}

Comparison(op, is64, s, u, rs, ru) ==
    [op |-> op, is64 |-> is64, s |-> s, u |-> u, rs |-> rs, ru |-> ru,
     lt |-> op \in {"LT", "LE", "SLT", "SLE"}, strict |-> op \in {"LT", "GT", "SLT", "SGT"}]

AssumeByIntervals(c, i) ==
    IF c.op \in SignedOps THEN AssumeSigned(c, GetSignedIntervals(c.is64, i.s, i.u, i.rs), i)
    ELSE AssumeUnsigned(c, GetUnsignedIntervals(c.is64, i.u, i.s, i.ru), i)

AssumeCstImm(c, imm, i) ==
    IF c.op \in BitOps THEN AssumeBit(c, i.u, I!Just(imm)) ELSE AssumeByIntervals(c, i)

AssumeCstReg(c, i) ==
    IF c.op \in BitOps THEN AssumeBit(c, i.u, i.ru)
    ELSE IF ~c.is64 \/ c.op \in {"GE", "LE", "GT", "LT"} THEN AssumeByIntervals(c, i)
    ELSE CASE c.op = "EQ" -> <<Eq(Var(c.s), c.rs), Eq(Var(c.u), c.ru)>>
                               \o (IF ~I!IsSingleton(i.rs) /\ I!IsIncludedIn(i.rs, I!Nonnegative(W64))
                                   THEN <<Eq(Var(c.s), Var(c.u))>> ELSE <<>>)
           [] c.op = "NE" -> <<Neq(Var(c.s), c.rs)>>
           [] OTHER       -> <<CmpS(c, c.lt)>>
=============================================================================
