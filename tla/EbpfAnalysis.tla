---------------------------- MODULE EbpfAnalysis ----------------------------
(***************************************************************************)
(* The analysis of a program along its control flow, next to the machine:  *)
(* each instruction is checked and then transforms the state, states meet  *)
(* in joins and widenings.  The states of the machine that can be where    *)
(* the analysis is go along (reach).  A second pair, kept, is the other    *)
(* branch.                                                                 *)
(***************************************************************************)
EXTENDS EbpfMachine

CONSTANT Programs    \* sequences of steps: instructions to choose from, or moves

VARIABLES
    dom,    \* the abstract state
    reach,  \* the states of the machine
    kept,   \* the pair of the other branch
    last,   \* the last instruction, and whether its assertions held
    prog,   \* the program and the position in it
    pc

vars == <<dom, reach, kept, last, prog, pc, min_only>>

(***************************************************************************)
(* What an abstract state stands for.  A variable has a value in a state   *)
(* of the machine if it belongs to the type of what is there.              *)
(***************************************************************************)
CellOffset(l) == (l - CellBase) \div 8
CellSize(l) == (l - CellBase) % 8

\* What is at location l.
ValueAt(c, l) ==
    CASE l \in Registers -> c.regs[l]
      [] l \in 13 .. 12 + 4 * Len(c.saved) -> c.saved[(l - 13) \div 4 + 1][Reg(6) + ((l - 13) % 4)]
      [] l > CellBase -> ReadStack(c.stack, CellOffset(l), CellSize(l))
      [] OTHER -> Uninit

ValueOf(v, k) ==
    IF k = Uvalues THEN v.u
    ELSE IF k = Svalues THEN SignedOf(v)
    ELSE IF k = TypeToKinds[v.t][1] THEN v.o ELSE v.z

HasValue(v, k) ==
    \/ k = Uvalues /\ v.t # TUninit
    \/ k = Svalues /\ IsNum(v)
    \/ k \in Range(TypeToKinds[v.t]) \ {Svalues, StackNumericSizes}

LoopOf(x) == (x - MetaOffset) \div 2

\* The meaning of the variables X in c, as far as they have one.
Meaning(c, X) ==
    [x \in {x \in X : x < 32 \/ HasValue(ValueAt(c, x \div 32), x % 32)} |->
        CASE x = PacketSize -> c.psize
          [] x = MetaOffset -> c.meta
          [] x < 32 /\ x > MetaOffset -> c.count[LoopOf(x)]
          [] OTHER -> ValueOf(ValueAt(c, x \div 32), x % 32)]

ZoneHolds(z, val) == Sat(ForgetIn(z, DOMAIN z.vmap \ DOMAIN val), val)

\* At least as many bytes as the state says hold numbers where l points.
NumericSizeHolds(z, c, l) ==
    LET v == ValueAt(c, l)
        n == Eval(z, Var(NumericSize(l))).lb
    IN  v.t = TStack /\ n > 0 => \A b \in v.o .. v.o + n - 1 : b \in Offsets /\ IsNumByte(c.stack, b)

ValuesHold(z, c) ==
    /\ ZoneHolds(z, Meaning(c, DOMAIN z.vmap))
    /\ \A x \in DOMAIN z.vmap : x % 32 = StackNumericSizes => NumericSizeHolds(z, c, x \div 32)

\* Of a cell, only the type of a whole word that no byte of is known to be a
\* number's is ever read.
Typed(S, s, c) ==
    {l \in T!Known(s) :
        \/ l \in Registers \/ l \in 13 .. 12 + 4 * Len(c.saved)
        \/ /\ l > CellBase /\ CellSize(l) = WordBytes /\ InStack(CellOffset(l), WordBytes)
           /\ CellOffset(l) .. CellOffset(l) + WordBytes - 1 \cap S.num = {}}

TypesHold(S, s, c) ==
    /\ \A l \in Typed(S, s, c) : ValueAt(c, l).t \in T!GetTypeset(s, l)
    /\ \A l, m \in Typed(S, s, c) : T!SameClass(s, l, m) => ValueAt(c, l).t = ValueAt(c, m).t

BytesStandFor(S, c) == \A b \in S.num : IsNumByte(c.stack, b)
TypesStandFor(S, c) == \E s \in S.types : TypesHold(S, s, c)
ValuesStandFor(S, c) == \E z \in S.values : ValuesHold(z, c)

StandsFor(S, c) == BytesStandFor(S, c) /\ TypesStandFor(S, c) /\ ValuesStandFor(S, c)

-----------------------------------------------------------------------------
NoInstruction == [ok |-> FALSE, i |-> [kind |-> "none"]]

Init ==
    /\ min_only = {x \in Vars : IsMinOnly(x)}
    /\ dom = EntryState
    /\ reach = Entry
    /\ kept = [dom |-> BottomState, reach |-> {}]
    /\ last = NoInstruction
    /\ prog \in DOMAIN Programs
    /\ pc = 1

At(move) == pc <= Len(Programs[prog]) /\ Programs[prog][pc].do = move

Advance == pc' = pc + 1 /\ UNCHANGED <<prog, min_only>>

\* An instruction whose assertions fail, or that the transformer refuses, leaves
\* no state.
Execute ==
    /\ At("run") /\ ~IsBottom(dom)
    /\ \E i \in Programs[prog][pc].is :
          \E ok \in {Asserted(dom, i) /\ ~TransformFails(dom, i)} :
             /\ last' = [ok |-> ok, i |-> i]
             /\ dom' = IF ok THEN TransformState(dom, i) ELSE BottomState
             /\ reach' = IF ok THEN UNION {Machine(c, i) : c \in reach} ELSE {}
    /\ Advance /\ UNCHANGED kept

\* A branch that is not possible goes on as bottom.
Skip ==
    /\ At("run") /\ IsBottom(dom)
    /\ last' = NoInstruction
    /\ Advance /\ UNCHANGED <<dom, reach, kept>>

Branch ==
    /\ At("branch")
    /\ kept' = [dom |-> dom, reach |-> reach]
    /\ last' = NoInstruction
    /\ Advance /\ UNCHANGED <<dom, reach>>

OtherBranch ==
    /\ At("other")
    /\ kept' = [dom |-> dom, reach |-> reach]
    /\ dom' = kept.dom /\ reach' = kept.reach
    /\ last' = NoInstruction
    /\ Advance

JoinBranches ==
    /\ At("join")
    /\ dom' = JoinDomains(kept.dom, dom)
    /\ reach' = kept.reach \cup reach
    /\ last' = [ok |-> FALSE, i |-> [kind |-> "join"]]
    /\ Advance /\ UNCHANGED kept

\* extrapolate: the old state at the head of a cycle, widened with the new one.
WidenBranches ==
    /\ At("widen")
    /\ dom' = WidenDomains(kept.dom, dom)
    /\ reach' = kept.reach \cup reach
    /\ last' = [ok |-> FALSE, i |-> [kind |-> "widen"]]
    /\ Advance /\ UNCHANGED kept

\* The second widening of a cycle also assumes the constant limits.  They may
\* leave states out, and the iteration goes on until its state includes the new
\* one.
WidenToLimits ==
    /\ At("limit")
    /\ dom' = MeetDomains(WidenDomains(kept.dom, dom), LimitState)
    /\ reach' = {c \in kept.reach \cup reach : StandsFor(dom', c)}
    /\ last' = [ok |-> FALSE, i |-> [kind |-> "limit"]]
    /\ Advance /\ UNCHANGED kept

\* refine: the new state only has to cover what both cover.
NarrowBranches ==
    /\ At("narrow")
    /\ dom' = NarrowDomains(kept.dom, dom)
    /\ reach' = kept.reach \cap reach
    /\ last' = [ok |-> FALSE, i |-> [kind |-> "narrow"]]
    /\ Advance /\ UNCHANGED kept

Next == \/ Execute \/ Skip \/ Branch \/ OtherBranch
        \/ JoinBranches \/ WidenBranches \/ WidenToLimits \/ NarrowBranches

Spec == Init /\ [][Next]_vars

-----------------------------------------------------------------------------
(***************************************************************************)
(* Properties.                                                             *)
(***************************************************************************)
\* The state has at most one zone and one type state, numeric bytes and cells
\* lie on the stack, and only known variables have a value.
TypeOK ==
    /\ pc \in 1 .. Len(Programs[prog]) + 1
    /\ Cardinality(dom.values) <= 1 /\ Cardinality(dom.types) <= 1
    /\ dom.num \subseteq Offsets
    /\ \A c \in dom.cells : c[1] \in ValueKinds \cup {Types} /\ c[2] \in Offsets /\ c[3] \in 1 .. Frame
    /\ \A z \in dom.values : DOMAIN z.vmap \subseteq Vars

\* Every register, saved register and word of the stack has one of the types
\* that the state gives it, and those in one class have the same type, whatever
\* was stored over it or called, also after joins and widenings.  A byte of the
\* stack that the array domain counts as numeric is a byte of a number: no store,
\* spill, helper or return of a subprogram leaves a byte marked that it may have
\* overwritten with a pointer.
TypesCovered == \A c \in reach : TypesStandFor(dom, c) /\ BytesStandFor(dom, c)

\* The signed and unsigned values, the offsets and region sizes of pointers, the
\* contents of stack cells, the counts of numeric bytes behind stack pointers,
\* the packet size and the loop counters satisfy the zone of the state, as far
\* as the type of what is there gives them a meaning.
ValuesCovered == \A c \in reach : ValuesStandFor(dom, c)

\* An instruction whose assertions the checker accepts does not go wrong in any
\* state of the machine: it stays inside the object, frame or packet that it
\* accesses, does not overwrite packet pointers of the context, does not divide
\* by zero, and passes helpers what their contracts require.
CheckedStepsDoNotFault == [][last'.ok => \A c \in reach : ~Faults(c, last'.i)]_vars

\* No instruction panics, and one that is no assumption never makes the rest of
\* the program unreachable: what the checker accepts, the transformer can do, and
\* what it leaves is a well-formed state.
NoBug ==
    /\ TypeOK
    /\ dom.values # {Panic}
    /\ last.ok /\ last.i.kind # "assume" => ~IsBottom(dom)

\* is_included_in recognises that a join or a widening includes what was joined,
\* bounds of values of a type that only one side has included, and that what
\* refine makes of the state at the head of a cycle, by a meet or by narrowing, is
\* included in it.  The iterator stops on this test, upwards and downwards.
BoundsByInclusion ==
    [][/\ last'.i.kind \in {"join", "widen"} =>
              \A d \in {dom, kept.dom} : IsBottom(d) \/ IsIncluded(d, dom')
       /\ last'.i.kind = "narrow" =>
              \A d \in {dom', MeetDomains(kept.dom, dom)} : IsBottom(d) \/ IsIncluded(d, kept.dom)]_vars

\* When is_included_in says that one state is included in another, the other
\* stands for everything that the one stands for: the iterator does not stop
\* before its state covers what reaches it.
IncludedMeansCovered ==
    [][\A p \in {[dom |-> dom, reach |-> reach], kept}, q \in {dom', kept.dom} :
          IsIncluded(p.dom, q) => \A c \in p.reach : StandsFor(q, c)]_vars
=============================================================================
