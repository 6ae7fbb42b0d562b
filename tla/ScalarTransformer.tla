-------------------------- MODULE ScalarTransformer --------------------------
(***************************************************************************)
(* The transformer on programs whose registers hold numbers.               *)
(***************************************************************************)
EXTENDS AluSemantics

CONSTANTS
    Registers,       \* the registers, 1 .. n; Vars are their views
    Length,          \* bound on the number of instructions of a program
    Instructions(_)  \* the instructions that a program may have at a position

ASSUME RegistersAssumption ==
    /\ Length \in Nat
    /\ Registers = 1 .. Cardinality(Registers)
    /\ Vars = {Sv(r) : r \in Registers} \cup {Uv(r) : r \in Registers}

VARIABLES
    d,     \* the abstract state
    last,  \* the last instruction
    pc     \* the position of the next one

vars == <<d, last, pc, min_only>>

Transform(state, i) ==
    FoldLeft(LAMBDA acc, phase :
                 UNION {IF z = Panic THEN {z} ELSE Run({z}, Calls(z, i, phase)) : z \in acc},
             state, Phases(i))

-----------------------------------------------------------------------------
NoInstruction == [kind |-> "none"]

\* setup_entry leaves nothing known about a register that holds a number.
Init ==
    /\ d = {Top}
    /\ last = NoInstruction
    /\ pc = 1
    /\ min_only = {}

Execute(kind) ==
    /\ pc <= Length /\ d # {Panic}
    /\ \E i \in Instructions(pc) :
          /\ i.kind = kind
          /\ d' = Transform(d, i)
          /\ last' = i
    /\ pc' = pc + 1
    /\ UNCHANGED min_only

TransformBin == Execute("bin")
TransformUn == Execute("un")
TransformAssume == Execute("assume")

Next == TransformBin \/ TransformUn \/ TransformAssume

Spec == Init /\ [][Next]_vars

-----------------------------------------------------------------------------
(***************************************************************************)
(* The machine: what the instruction set prescribes for the values, which  *)
(* are unsigned numbers of W64 bits.                                       *)
(***************************************************************************)
Values == 0 .. MaxUint(W64)

Valuation(regs) == [x \in Vars |-> IF IsUnsigned(x) THEN regs[x \div 32]
                                   ELSE SignExtend(regs[x \div 32], W64)]

RegistersOf(state) == {regs \in [Registers -> Values] : In(state, Valuation(regs))}

\* The operand at the width of the operation, as an unsigned number.
OperandValue(i, regs) == IF i.src = 0 THEN ZeroExtend(i.imm, Width(i))
                         ELSE ZeroExtend(regs[i.src], Width(i))

\* The register files that an instruction leads to: none where the condition
\* of a branch is false.
Machine(i, regs) ==
    LET a == ZeroExtend(regs[i.dst], Width(i))
        b == OperandValue(i, regs)
    IN  CASE i.kind = "bin" -> {[regs EXCEPT ![i.dst] = ZeroExtend(Alu(i.op, a, b, Width(i)), Width(i))]}
          [] i.kind = "un"  -> {[regs EXCEPT ![i.dst] = MachineUn(i, @)]}
          [] i.kind = "assume" -> IF Compare(i.op, a, b, Width(i)) THEN {regs} ELSE {}

-----------------------------------------------------------------------------
\* The abstract state has at most one zone, over the views of the registers.
TypeOK ==
    /\ pc \in 1 .. Length + 1
    /\ Cardinality(d) <= 1
    /\ \A z \in d \ {Panic} : DOMAIN z.vmap \subseteq Vars

\* A 64-bit byte swap whose result has the top bit set (see the finding).
SwapsIntoSign(i, regs) ==
    i.op \in {"BE64", "SWAP64"} /\ SwapBytes(regs[i.dst], W64) > MaxInt(W64)

(***************************************************************************)
(* Every instruction of the abstract machine covers the machine: the       *)
(* register files the state stands for go to register files that the new   *)
(* state stands for, whatever wraps around, whichever of the two views of  *)
(* a register is known, and through both widths (transform_bin,            *)
(* transform_un, transform_assume).  Swaps into the sign are left to       *)
(* SwapsOnlyLosePrecision.                                                 *)
(***************************************************************************)
StepsCoverMachine ==
    [][\A regs \in RegistersOf(d) : SwapsIntoSign(last', regs) \/
           \A next \in Machine(last', regs) : In(d', Valuation(next))]_vars

(***************************************************************************)
(* No operation panics: set is never given an empty interval, no product   *)
(* of bounds leaves the range of a Number, no cast meets a number outside  *)
(* its width (Number's checked operations, finite_domain.rs); what comes   *)
(* out is a state.                                                         *)
(***************************************************************************)
NoPanic == TypeOK /\ Panic \notin d

\* Both views of every register are known to be one number.
Known(z) == \A x \in Vars : I!IsSingleton(Eval(z, Var(x)))

(***************************************************************************)
(* Where all registers are known, an instruction leaves them known, or the *)
(* branch is known not to be taken: the analysis runs a program without    *)
(* unknown inputs as the machine does (singleton cases of interval.rs,     *)
(* overflow_bounds, the assume_... methods).  A byte swap forgets the      *)
(* unsigned view of a number whose top bit is set.                         *)
(***************************************************************************)
ConstantsStayKnown ==
    [][(last'.op \notin DOMAIN UnWidth /\ \A z \in d : Known(z)) => \A z \in d' : Known(z)]_vars

(***************************************************************************)
(* After a 64-bit byte swap of a known number, a branch that the machine   *)
(* takes is still possible: what tests/conformance_tests.rs calls          *)
(* "Domain imprecision" does not lose an execution.                        *)
(***************************************************************************)
SwapsOnlyLosePrecision ==
    [][last'.op \in {"BE64", "SWAP64"} =>
          \A regs \in RegistersOf(d), n \in MinInt(W32) .. MaxInt(W32) :
              LET branch == [kind |-> "assume", op |-> "GT", is64 |-> TRUE,
                             dst |-> last'.dst, src |-> 0, imm |-> n]
              IN  (\E next \in Machine(last', regs) : Machine(branch, next) # {})
                    => Transform(d', branch) # {}]_vars
=============================================================================
