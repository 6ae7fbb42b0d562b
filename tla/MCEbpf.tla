------------------------------- MODULE MCEbpf -------------------------------
EXTENDS EbpfAnalysis

MCVars == {1, 3, 5, 7} \cup {KindVar(k, l) : k \in ValueKinds, l \in 1 .. 20}
              \cup {CellVar(k, o, n) : k \in ValueKinds, o \in 0 .. 15, n \in 1 .. 7}

MCBytes == ("b" :> 1) @@ ("h" :> 1) @@ ("w" :> 1) @@ ("d" :> 2)
MCContext == [size |-> 4, data |-> 0, end |-> 1, meta |-> 2]
MCMaps == 1 :> [type |-> "hash", key |-> 2, value |-> 3, max |-> 4, inner |-> 0]
            @@ 2 :> [type |-> "array", key |-> 1, value |-> 2, max |-> 2, inner |-> 0]
            @@ 3 :> [type |-> "hash_of_maps", key |-> 1, value |-> 2, max |-> 2, inner |-> 1]

NoContract == [singles |-> <<>>, pairs |-> <<>>, lookup |-> FALSE, ret |-> 0, nullable |-> FALSE,
               alloc |-> 0, realloc |-> FALSE, maptypes |-> {}, zero |-> {}]
Single(kind, l) == [kind |-> kind, reg |-> l, ornull |-> FALSE]
Pair(kind, l, m, zero) == [kind |-> kind, mem |-> l, size |-> m, ornull |-> FALSE, canzero |-> zero]
MCContracts ==
    1 :> [NoContract EXCEPT !.singles = <<Single("map_fd", 2), Single("map_key", 3)>>, !.lookup = TRUE]
      @@ 2 :> [NoContract EXCEPT !.pairs = <<Pair("writable", 2, 3, FALSE)>>]
      @@ 3 :> [NoContract EXCEPT !.pairs = <<Pair("readable", 2, 3, TRUE)>>]
      @@ 4 :> [NoContract EXCEPT !.singles = <<Single("ctx", 2)>>, !.realloc = TRUE]
      @@ 5 :> [NoContract EXCEPT !.singles = <<Single("writable_long", 2)>>]
      @@ 6 :> [NoContract EXCEPT !.ret = TAllocMem, !.nullable = TRUE, !.alloc = 2,
                                 !.singles = <<Single("size", 2)>>]
      @@ 7 :> NoContract

MCMetas == {0, -1}

MCAddress == [t \in T!Types |-> CASE t = TStack -> 2 [] t = TPacket -> 4 [] OTHER -> 6]

-----------------------------------------------------------------------------
Bin(op, l, m) == [kind |-> "bin", op |-> op, is64 |-> TRUE, dst |-> Reg(l), src |-> Reg(m), imm |-> 0]
BinI(op, l, n) == [kind |-> "bin", op |-> op, is64 |-> TRUE, dst |-> Reg(l), src |-> 0, imm |-> n]
If(op, l, m) == [kind |-> "assume", op |-> op, is64 |-> TRUE, dst |-> Reg(l), src |-> Reg(m), imm |-> 0]
IfI(op, l, n) == [kind |-> "assume", op |-> op, is64 |-> TRUE, dst |-> Reg(l), src |-> 0, imm |-> n]
Ld(size, l, base, off) ==
    [kind |-> "load", size |-> size, dst |-> Reg(l), src |-> Reg(l), base |-> Reg(base), off |-> off,
     imm |-> 0, signed |-> FALSE]
St(size, base, off, l) ==
    [kind |-> "store", size |-> size, base |-> Reg(base), off |-> off, src |-> Reg(l), imm |-> 0]
StI(size, base, off, n) ==
    [kind |-> "store", size |-> size, base |-> Reg(base), off |-> off, src |-> 0, imm |-> n]
Call(f) == [kind |-> "call", func |-> f]
MapFd(l, fd) == [kind |-> "map_fd", dst |-> Reg(l), fd |-> fd]
Exit(depth) == [kind |-> "exit", depth |-> depth]
Calls_(depth) == [kind |-> "call_local", depth |-> depth]

R(is) == [do |-> "run", is |-> is]
Move(do) == [do |-> do, is |-> {}]

\* Numbers on the stack, overwritten in part and read back.
Overwrites ==
    <<R({BinI("MOV", 2, 5), BinI("MOV", 2, -3), Ld("b", 2, 1, 3)}),
      R({St("d", 10, -4, 2), St("d", 10, -3, 2), St("b", 10, -4, 2)}),
      R({StI("b", 10, -3, 1), StI("b", 10, -4, 0), StI("d", 10, -4, 1), StI("d", 10, -5, 6), StI("d", 10, -3, 6)}),
      R({Ld("d", 3, 10, -4), Ld("d", 3, 10, -5), Ld("d", 3, 10, -3), Ld("b", 3, 10, -4), Ld("b", 3, 10, -3),
         St("d", 10, -4, 10)}),
      R({Ld("d", 3, 10, -4), Bin("ADD", 2, 3)})>>

\* Pointers on the stack, next to numbers.
Spills ==
    <<R({BinI("MOV", 2, 5), Bin("MOV", 2, 10), Ld("b", 2, 1, 0)}),
      R({St("d", 10, -2, 2), St("d", 10, -3, 2)}),
      R({StI("b", 10, -1, 1), StI("b", 10, -3, 1), StI("d", 10, -4, 7), St("d", 10, -4, 1)}),
      R({Ld("d", 3, 10, -2), Ld("d", 3, 10, -3), Ld("d", 3, 10, -4)}),
      R({Ld("b", 4, 3, -1), St("b", 3, -2, 3), StI("d", 3, -1, 2), Ld("b", 4, 3, 3)}),
      R({Ld("d", 2, 10, -2)})>>

\* A pointer to the stack that moves by a number that is not known.
Moving ==
    <<R({StI("d", 10, -4, 6)}),
      R({Ld("b", 3, 1, 3), BinI("MOV", 3, 1)}),
      R({IfI("LE", 3, 1), IfI("LE", 3, 0)}),
      R({Bin("MOV", 2, 10)}),
      R({BinI("ADD", 2, -4), BinI("ADD", 2, -3)}),
      R({Bin("ADD", 2, 3), Bin("SUB", 2, 3)}),
      R({StI("b", 2, 0, 1), StI("d", 2, 0, 6), St("d", 2, 0, 10), Ld("d", 4, 2, 0), Ld("b", 4, 2, 1)}),
      R({Ld("d", 5, 10, -4), Ld("b", 5, 10, -3), Ld("d", 5, 10, -3)}),
      R({Bin("ADD", 5, 3)})>>

\* Accesses of the packet after a test of its end.
Packet ==
    <<R({Ld("b", 2, 1, 0), Ld("b", 2, 1, 2)}),
      R({Ld("b", 3, 1, 1), Ld("b", 3, 1, 0)}),
      R({Bin("MOV", 4, 2)}),
      R({BinI("ADD", 4, 1), BinI("ADD", 4, 2)}),
      R({If("LE", 4, 3), If("GT", 4, 3), If("EQ", 4, 3), If("NE", 4, 3)}),
      R({Ld("b", 5, 2, 0), Ld("b", 5, 2, 1), Ld("d", 5, 2, 0), Ld("b", 5, 4, -1), StI("b", 4, 0, 1), Bin("SUB", 3, 2)}),
      R({Ld("b", 5, 2, 0), Bin("ADD", 2, 5)})>>

\* A location that is a number on one branch and a pointer on the other.
Mixed ==
    <<R({Ld("b", 3, 1, 3)}), Move("branch"),
      R({BinI("MOV", 2, 3), Bin("MOV", 2, 3)}), R({IfI("EQ", 3, 1), IfI("GT", 3, 1)}),
      Move("other"),
      R({Bin("MOV", 2, 10), Bin("MOV", 2, 1), MapFd(2, 1)}), R({IfI("NE", 3, 1), IfI("LE", 3, 1)}),
      Move("join"),
      R({Bin("ADD", 2, 3), Bin("MOV", 4, 2), St("d", 10, -4, 2), Bin("SUB", 2, 10), Bin("ADD", 3, 2)}),
      R({St("d", 2, -2, 3), Ld("d", 4, 10, -4), Ld("b", 4, 2, 0), IfI("NE", 3, 1), IfI("EQ", 2, 0)}),
      R({StI("b", 4, -1, 1), BinI("MOV", 0, 0), IfI("GT", 4, 2)})>>

\* Two pointers of different types, or to different places.
TwoPointers ==
    <<R({Ld("b", 3, 1, 3)}), R({IfI("LE", 3, 1)}), Move("branch"),
      R({Bin("MOV", 2, 10), Ld("b", 2, 1, 0)}), R({BinI("ADD", 2, -3), BinI("ADD", 2, 1)}),
      Move("other"),
      R({Bin("MOV", 2, 10), Bin("MOV", 2, 1)}), R({BinI("ADD", 2, -2), Bin("ADD", 2, 3)}),
      Move("join"),
      R({BinI("ADD", 2, -1), Bin("ADD", 2, 3), Bin("SUB", 2, 3), St("d", 10, -4, 2), Bin("SUB", 2, 10), Bin("MOV", 4, 2)}),
      R({StI("b", 2, 0, 1), St("d", 2, 0, 3), Ld("d", 4, 10, -4), Ld("b", 4, 2, 0), St("b", 4, 0, 3)}),
      R({StI("b", 4, 0, 1), Ld("d", 5, 10, -3), If("LT", 4, 2)})>>

\* Values of maps.
Lookups ==
    <<R({MapFd(1, 1), MapFd(1, 2), MapFd(1, 3)}),
      R({Bin("MOV", 2, 10)}), R({BinI("ADD", 2, -2)}),
      R({StI("d", 10, -2, 1), StI("b", 10, -2, 1), StI("b", 10, -2, 3)}),
      R({Call(1)}),
      R({IfI("NE", 0, 0), IfI("EQ", 0, 0), Bin("MOV", 1, 0)}),
      R({Ld("b", 3, 0, 2), StI("d", 0, 0, 1), St("d", 0, 0, 10), StI("d", 0, 2, 1), BinI("ADD", 0, 1)}),
      R({Ld("b", 3, 0, 1), Exit(0)})>>

\* A subprogram with registers and a frame of its own.
Subprogram ==
    <<R({BinI("MOV", 6, 4), Bin("MOV", 6, 10)}), R({St("d", 10, -2, 6)}),
      R({Bin("MOV", 1, 10)}), R({Calls_(1)}),
      R({BinI("MOV", 6, 1), Bin("MOV", 6, 1), StI("d", 10, -2, 5), StI("b", 1, -2, 1), StI("b", 1, -6, 1)}),
      R({St("d", 10, -2, 6), StI("b", 10, -3, 1), StI("d", 10, 0, 1), StI("d", 10, -5, 1)}),
      R({Exit(1)}),
      R({Bin("MOV", 2, 10)}), R({BinI("ADD", 2, -6), BinI("ADD", 2, -2)}),
      R({Ld("d", 3, 2, 0), Ld("d", 3, 10, -2), St("d", 6, -2, 6)}),
      R({Bin("MOV", 4, 6)})>>

\* Helpers that write and read memory of a given size.
Buffers ==
    <<R({StI("d", 10, -4, 2), St("b", 10, -4, 10)}),
      R({Ld("b", 3, 1, 3)}), R({IfI("LE", 3, 2)}),
      R({Bin("MOV", 1, 10)}), R({BinI("ADD", 1, -4), BinI("ADD", 1, -3)}),
      R({Bin("MOV", 2, 3), BinI("MOV", 2, 2)}), R({IfI("GT", 2, 0), BinI("ADD", 2, 0)}),
      R({Call(2), Call(3), Call(5)}),
      R({Ld("d", 5, 10, -4), Ld("b", 5, 10, -4), Ld("b", 5, 10, -3)}), R({Bin("MOV", 0, 5)}), R({Exit(0)})>>

\* One of two branches makes a part of the stack numeric.
OneWrites ==
    <<R({Bin("MOV", 1, 10)}), R({BinI("ADD", 1, -4)}), R({BinI("MOV", 2, 2)}), Move("branch"),
      R({Call(7), Call(2)}), Move("other"), R({Call(2), Call(7)}), Move("join"),
      R({Ld("d", 5, 10, -4), Ld("b", 5, 10, -4), St("d", 10, -4, 10)}), R({Bin("MOV", 0, 5)}), R({Exit(0)})>>

\* A helper overwrites a pointer on the stack.
OverwrittenBy(size) ==
    <<R({St("d", 10, -4, 10), St("d", 10, -4, 1)}),
      R({Ld("b", 3, 1, 3)}), R({IfI("LE", 3, 2)}), R({IfI("GT", 3, 0)}),
      R({Bin("MOV", 1, 10)}), R({BinI("ADD", 1, -4)}), R({size}),
      R({Call(2)}), R({Ld("d", 5, 10, -4), Ld("b", 5, 10, -3)}), R({Bin("MOV", 0, 5)}), R({Exit(0)})>>

\* Memory that a helper gives, a new packet, and a helper in a register.
Helpers ==
    <<R({Bin("MOV", 6, 1)}), R({Ld("b", 7, 6, 0), Ld("b", 7, 6, 1)}),
      R({BinI("MOV", 1, 3), St("d", 10, -2, 7)}),
      R({Bin("MOV", 1, 6), BinI("MOV", 1, 2)}),
      R({Call(4), Call(6)}),
      R({IfI("NE", 0, 0), IfI("EQ", 0, 0)}),
      R({Ld("b", 3, 7, 0), Ld("d", 3, 10, -2), StI("b", 0, 1, 1), StI("d", 0, 1, 1)}),
      R({Ld("b", 3, 3, 0), BinI("MOV", 4, 4), BinI("MOV", 4, 5)}),
      R({Bin("MOV", 1, 6)}), R({[kind |-> "callx", src |-> Reg(4)]}),
      R({Bin("MOV", 2, 7)})>>

Atomic(op, fetch, size, base, off, l) ==
    [kind |-> "atomic", op |-> op, fetch |-> fetch, size |-> size, base |-> Reg(base), off |-> off, src |-> Reg(l)]

AtomicOn(initials, ops) ==
    <<R(initials), R({BinI("MOV", 0, 6)}), R({BinI("MOV", 2, 3), Ld("b", 2, 1, 3)}),
      R({Bin("MOV", 3, 10), MapFd(3, 1), [kind |-> "map_address", dst |-> Reg(3), fd |-> 1, off |-> 4]}),
      R({Atomic(op, fetch, size, 3, -4, 2) : op \in ops, fetch \in BOOLEAN, size \in {"w", "d"}}),
      R({Ld("d", 4, 10, -4), Ld("b", 4, 10, -3)}), R({Bin("ADD", 4, 2), Bin("ADD", 4, 0)})>>

\* Atomic instructions, on numbers of both widths, on a pointer and elsewhere.
Atomics == AtomicOn({StI("d", 10, -4, 6), StI("d", 10, -4, 3)}, {"ADD", "XOR", "XCHG", "CMPXCHG"})
AtomicsOnPointer == AtomicOn({St("d", 10, -4, 1), St("d", 10, -4, 10)}, {"ADD", "XCHG"})

\* A loop over a buffer, with its counter.
Loop ==
    <<R({StI("d", 10, -2, 0)}),
      R({BinI("MOV", 2, 0)}), R({Bin("MOV", 3, 10)}), R({BinI("ADD", 3, -4)}),
      R({[kind |-> "initialize", loop |-> 1]}), Move("branch"),
      R({StI("b", 3, 0, 1), St("b", 3, 0, 2), St("d", 10, -4, 3)}), R({BinI("ADD", 2, 1)}),
      R({BinI("ADD", 3, 1), Bin("ADD", 3, 2)}),
      R({IfI("LE", 2, 2)}), R({[kind |-> "increment", loop |-> 1]}),
      Move("join"), Move("widen"), Move("branch"),
      R({StI("b", 3, 0, 1), Ld("b", 4, 10, -2)}), R({BinI("ADD", 2, 1)}), R({BinI("ADD", 3, 1)}),
      R({IfI("LE", 2, 2)}), Move("join"), Move("limit"), Move("branch"),
      R({BinI("ADD", 2, 1)}), R({IfI("LE", 2, 2)}), Move("narrow"), R({Ld("d", 4, 10, -4)})>>

\* Writes to the context and moves of the pointer to it.
ContextWrites ==
    <<R({Ld("b", 3, 1, 3), Ld("d", 3, 1, 2), Ld("d", 3, 1, 1)}), R({IfI("LE", 3, 1), IfI("LE", 3, 2)}),
      R({Bin("MOV", 2, 1)}), R({Bin("ADD", 2, 3), BinI("ADD", 2, 1)}),
      R({Ld("b", 4, 2, 0), Ld("b", 4, 2, 2), StI("b", 2, 2, 1), StI("b", 2, 1, 1), StI("d", 2, 2, 1)}),
      R({Bin("MOV", 6, 2), Bin("MOV", 6, 1)}), R({[kind |-> "packet"], Bin("MOV", 5, 4)}),
      R({Bin("SUB", 2, 6), Bin("SUB", 6, 1), Bin("MOV", 5, 2)}), R({IfI("EQ", 5, 0), Ld("b", 5, 2, 0)})>>

Half(i) == [i EXCEPT !.is64 = FALSE]
Neg == [kind |-> "un", op |-> "NEG", is64 |-> TRUE, dst |-> Reg(2), src |-> 0, imm |-> 0]

\* Arithmetic on what is or may be a pointer.
Arithmetic ==
    <<R({Bin("MOV", 2, 10), Ld("b", 2, 1, 0), Ld("b", 2, 1, 3)}),
      R({Ld("b", 3, 1, 3)}),
      R({Bin("ADD", 2, 1)} \cup {Bin(op, 2, 3) : op \in {"MUL", "OR", "LSH", "ARSH", "UDIV"}}
          \cup {Half(Bin("ADD", 2, 3)), Half(Bin("MOV", 2, 3)), Half(Bin("MOV", 2, 2)), Half(BinI("ADD", 2, 1)),
                BinI("AND", 2, 1), Neg, [Neg EXCEPT !.op = "BE32"], Bin("MOVSX8", 2, 3)}),
      R({Bin("ADD", 2, 3), Bin("SUB", 3, 2), [Ld("b", 2, 1, 3) EXCEPT !.signed = TRUE]}),
      R({St("d", 10, -2, 2), IfI("SLT", 2, 1), If("LT", 2, 3)}),
      R({[Ld("b", 5, 10, -2) EXCEPT !.signed = TRUE],
         [kind |-> "code_address", dst |-> Reg(2), imm |-> 2]})>>

MCPrograms == <<Overwrites, Spills, Moving, Packet, Mixed, TwoPointers, Lookups, Subprogram, Buffers, OneWrites,
                OverwrittenBy(BinI("MOV", 2, 2)), Helpers, Atomics, AtomicsOnPointer, Loop, ContextWrites, Arithmetic>>

\* How much the helper overwrites is not known.
MCHelperPrograms == <<OverwrittenBy(Bin("MOV", 2, 3))>>
=============================================================================
