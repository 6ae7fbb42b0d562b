----------------------------- MODULE EbpfDomain -----------------------------
(***************************************************************************)
(* The abstract state of a program: its lattice, the state at the entry,   *)
(* and what it knows about the maps it uses.                               *)
(***************************************************************************)
EXTENDS ArrayDomain

CONSTANTS
    Frame,             \* bytes of the stack of one subprogram
    PtrMax,            \* the largest address of an object
    MinPacketAddress,  \* the least address of the packet (4098)
    MaxPacketSize,     \* bound of the size of a packet
    Context,           \* the context: its size, and where the packet's data, end and meta are
    Maps,              \* the maps, by descriptor
    Loops              \* the loops whose iterations are counted

BottomState == [types |-> {T!Top}, values |-> {}, num |-> {}, cells |-> {}]
TopState == [types |-> {T!Top}, values |-> {Top}, num |-> {}, cells |-> {}]

R0 == Reg(0)
R1 == Reg(1)
R10 == Reg(10)
R11 == Reg(11)
CallerSaved == {Reg(r) : r \in 1 .. 5}
CalleeSaved == {Reg(r) : r \in 6 .. 9}

-----------------------------------------------------------------------------
\* Mutant: the numeric bytes of the stack are not compared.
IncludedWithoutStack(S, other) == StateIncluded(S, other)

IsIncluded(S, other) == other.num \subseteq S.num /\ StateIncluded(S, other)

\* Mutant: a byte holds a number after a join if it did on one side.
JoinDomainsKeepsNumbers(S, other) ==
    IF IsBottom(other) THEN S ELSE IF IsBottom(S) THEN other
    ELSE [JoinStates(S, other) EXCEPT !.num = S.num \cup other.num, !.cells = S.cells \cup other.cells]

JoinDomains(S, other) ==
    IF IsBottom(other) THEN S ELSE IF IsBottom(S) THEN other
    ELSE [JoinStates(S, other) EXCEPT !.num = S.num \cap other.num, !.cells = S.cells \cup other.cells]

MeetDomains(S, other) ==
    LET state == MeetStates(S, other)
    IN  IF IsBottom(state) THEN [state EXCEPT !.num = {}, !.cells = {}]
        ELSE [state EXCEPT !.num = S.num \cup other.num, !.cells = S.cells \cup other.cells]

WidenDomains(S, other) ==
    IF IsBottom(S) THEN other ELSE IF IsBottom(other) THEN S
    ELSE [WidenStates(S, other) EXCEPT !.num = S.num \cap other.num, !.cells = S.cells \cup other.cells]

NarrowDomains(S, other) ==
    [NarrowStates(S, other) EXCEPT !.num = S.num \cup other.num, !.cells = S.cells \cup other.cells]

\* calculate_constant_limits, as calls on the top state.
Between(lo, x, hi) == <<Assumes(Leq(Var(x), hi)), Assumes(Geq(Var(x), lo))>>

CounterVar(n) == MetaOffset + 2 * n

LimitsOfCounter(x, l) == Between(Num(0), x, Num(MaxInt(W32))) \o <<Assumes(Leq(Var(x), Var(KindVar(Svalues, l))))>>

LimitsOf(l) ==
    Between(Num(MinInt(W32)), KindVar(Svalues, l), Num(MaxInt(W32)))
      \o Between(Num(0), KindVar(Uvalues, l), Num(MaxUint(W32)))
      \o Between(Num(0), KindVar(StackOffsets, l), Num(TotalStack))
      \o Between(Num(0), KindVar(SharedOffsets, l), Var(KindVar(SharedRegionSizes, l)))
      \o Between(Num(0), KindVar(PacketOffsets, l), Var(PacketSize))
      \o FlattenSeq([n \in 1 .. Cardinality(Loops) |-> LimitsOfCounter(CounterVar(Ascending(Loops)[n]), l)])

ConstantLimits == FlattenSeq([r \in 1 .. 10 |-> LimitsOf(r)])

-----------------------------------------------------------------------------
(***************************************************************************)
(* Entry.                                                                  *)
(***************************************************************************)
AtLeast(x, e) == Assumes(Leq(e, Var(x)))
AtMost(x, e) == Assumes(Leq(Var(x), e))

InitializePacket ==
    <<Forgets(PacketSize), Forgets(MetaOffset), AtLeast(PacketSize, Num(0)),
      Assumes(Lt(Var(PacketSize), Num(MaxPacketSize)))>>
      \o (IF Context.meta >= 0
          THEN <<AtMost(MetaOffset, Num(0)), AtLeast(MetaOffset, Num(-MinPacketAddress))>>
          ELSE <<Assigns_(MetaOffset, Num(0))>>)

SetupEntry ==
    <<AtLeast(KindVar(Uvalues, R10), Num(TotalStack)), AtMost(KindVar(Uvalues, R10), Num(PtrMax)),
      Assigns_(KindVar(StackOffsets, R10), Num(TotalStack)), AssignType(R10, TStack),
      AtLeast(KindVar(Uvalues, R1), Num(1)), AtMost(KindVar(Uvalues, R1), Num(PtrMax)),
      Assigns_(KindVar(CtxOffsets, R1), Num(0)), AssignType(R1, TCtx)>> \o InitializePacket

-----------------------------------------------------------------------------
(***************************************************************************)
(* The maps that register l may stand for; the empty set when the range of *)
(* its descriptor is not known or has one that is no map.                  *)
(***************************************************************************)
MaxFdRange == 32

MapsAt(S, l) ==
    LET i == EvalVar(S, KindVar(MapFds, l))
    IN  IF ~I!IsFinite(i) \/ i.ub - i.lb + 1 >= MaxFdRange \/ ~(i.lb .. i.ub \subseteq DOMAIN Maps)
        THEN {} ELSE {Maps[fd] : fd \in i.lb .. i.ub}

\* get_map_type, get_map_inner_map_fd: known if all of them agree.
OneOf(values) == IF Cardinality(values) = 1 THEN values ELSE {}
MapType(S, l) == OneOf({m.type : m \in MapsAt(S, l)})
InnerMapFd(S, l) == OneOf({m.inner : m \in MapsAt(S, l)})

\* get_map_field_range.
FieldRange(values) == IF values = {} THEN I!Top ELSE I!Hull(values)
MapKeySize(S, l) == FieldRange({m.key : m \in MapsAt(S, l)})
MapValueSize(S, l) == FieldRange({m.value : m \in MapsAt(S, l)})
MapMaxEntries(S, l) == FieldRange({m.max : m \in MapsAt(S, l)})

\* What the values of a map of a type are.
ValueType(type) == CASE type = "prog_array" -> "program"
                     [] type = "hash_of_maps" -> "map"
                     [] OTHER -> "any"
=============================================================================
