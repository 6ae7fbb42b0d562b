------------------------------ MODULE MCScalar ------------------------------
EXTENDS ScalarTransformer

BinOf(ops, widths, operands) ==
    {[kind |-> "bin", op |-> o, is64 |-> w, dst |-> 1, src |-> v[1], imm |-> v[2]] :
        o \in ops, w \in widths, v \in operands}
UnOf(ops, widths) ==
    {[kind |-> "un", op |-> o, is64 |-> w, dst |-> 1, src |-> 0, imm |-> 0] : o \in ops, w \in widths}
AssumeOf(ops, widths, r, operands) ==
    {[kind |-> "assume", op |-> o, is64 |-> w, dst |-> r, src |-> v[1], imm |-> v[2]] :
        o \in ops, w \in widths, v \in operands}

Imms(S) == {<<0, n>> : n \in S}
Narrow32 == MinInt(W32) .. MaxInt(W32)

\* A program first learns something of register 1, then of register 2, and
\* then does anything with them.
MCInstructions(n) ==
    CASE n = 1 -> AssumeOf({"SGE", "GE"}, {TRUE}, 1, Imms(Narrow32))
                     \cup BinOf({"MOV"}, {TRUE}, Imms({-8, -3, 5}))
      [] n = 2 -> AssumeOf({"SLE", "LE"}, {TRUE}, 1, Imms(Narrow32))
                     \cup AssumeOf({"LE"}, {FALSE}, 1, Imms({1}))
      [] n = 3 -> AssumeOf({"EQ"}, {TRUE}, 2, Imms(Narrow32))
                     \cup AssumeOf({"SLE"}, {TRUE}, 2, Imms({-1}))
                     \cup AssumeOf({"GT"}, {TRUE}, 2, {<<1, 0>>})
      [] OTHER  ->
             BinOf({"MOV", "ADD", "SUB", "MUL", "UDIV", "UMOD", "SDIV", "SMOD", "OR", "AND", "XOR",
                    "LSH", "RSH", "ARSH"}, BOOLEAN, Imms(Narrow32) \cup {<<2, 0>>, <<1, 0>>})
               \cup BinOf({"MOVSX8", "MOVSX16", "MOVSX32"}, BOOLEAN, {<<1, 0>>, <<2, 0>>})
               \cup UnOf({"NEG"}, BOOLEAN)
               \cup UnOf({"BE16", "BE32", "BE64", "LE16", "LE32", "LE64", "SWAP16", "SWAP32", "SWAP64"}, {TRUE})
               \cup AssumeOf(SignedOps \cup UnsignedOps \cup BitOps, BOOLEAN, 1,
                             Imms(Narrow32) \cup {<<2, 0>>})
=============================================================================
