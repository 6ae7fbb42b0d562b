---------------------------- MODULE AluSemantics ----------------------------
(***************************************************************************)
(* What the instruction set prescribes for the values of registers, which  *)
(* are unsigned numbers of W64 bits.  The modules that state what the      *)
(* transformer must cover use it; no part of the analysis does.            *)
(***************************************************************************)
EXTENDS ScalarOps

\* The operations on unsigned numbers a and b of w bits.
Alu(op, a, b, w) ==
    LET sa == SignExtend(a, w)
        sb == SignExtend(b, w)
    IN  CASE op = "MOV"  -> b
          [] op = "ADD"  -> a + b
          [] op = "SUB"  -> a - b
          [] op = "MUL"  -> a * b
          [] op = "UDIV" -> IF b = 0 THEN 0 ELSE a \div b
          [] op = "UMOD" -> IF b = 0 THEN a ELSE a % b
          [] op = "SDIV" -> IF b = 0 THEN 0 ELSE Quot(sa, sb)
          [] op = "SMOD" -> IF b = 0 THEN a ELSE Rem(sa, sb)
          [] op = "OR"   -> BitOr(a, b)
          [] op = "AND"  -> BitAnd(a, b)
          [] op = "XOR"  -> BitXor(a, b)
          [] op = "LSH"  -> a * 2 ^ BitAnd(b, w - 1)
          [] op = "RSH"  -> a \div 2 ^ BitAnd(b, w - 1)
          [] op = "ARSH" -> sa \div 2 ^ BitAnd(b, w - 1)
          [] op \in DOMAIN MovsxBits -> SignExtend(b, MovsxBits[op])

MachineUn(i, a) ==
    CASE i.op = "NEG" -> ZeroExtend(-ZeroExtend(a, Width(i)), Width(i))
      [] i.op \in {"LE16", "LE32", "LE64"} -> ZeroExtend(a, UnWidth[i.op])
      [] OTHER -> SwapBytes(a, UnWidth[i.op])

Compare(op, a, b, w) ==
    LET sa == SignExtend(a, w)
        sb == SignExtend(b, w)
    IN  CASE op = "EQ"  -> a = b
          [] op = "NE"  -> a # b
          [] op = "SET"  -> BitAnd(a, b) # 0
          [] op = "NSET" -> BitAnd(a, b) = 0
          [] op = "LT"  -> a < b
          [] op = "LE"  -> a <= b
          [] op = "GT"  -> a > b
          [] op = "GE"  -> a >= b
          [] op = "SLT" -> sa < sb
          [] op = "SLE" -> sa <= sb
          [] op = "SGT" -> sa > sb
          [] op = "SGE" -> sa >= sb
=============================================================================
