---------------------------- MODULE ArrayDomain -----------------------------
(***************************************************************************)
(* The stack: which bytes hold numbers, and the cells whose contents the   *)
(* other two domains know.  Offsets and sizes are intervals; an access at  *)
(* one known place of one known size is strong, any other is weak.  The    *)
(* operations are sequences of commands.                                   *)
(***************************************************************************)
EXTENDS TypedValues

CONSTANTS
    TotalStack,  \* bytes of the stack
    WordBytes    \* bytes of a register (8)

Offsets == 0 .. TotalStack - 1

\* The location of a cell; offsets are unsigned 64-bit numbers.
CellBase == 24
CellLoc(o, n) == CellBase + 8 * ZeroExtend(o, W64) + n
CellVar(k, o, n) == IF k = Types THEN CellLoc(o, n) ELSE KindVar(k, CellLoc(o, n))

\* mk_cell leaves a cell that starts outside of the stack out.
NewCell(k, o, n) == IF ZeroExtend(o, W64) \in Offsets THEN <<MkCell(<<k, o, n>>)>> ELSE <<>>

-----------------------------------------------------------------------------
\* The bytes that hold numbers (BitsetDomain).
Uniformly(S, o, n) ==
    LET B == o .. MinOf({o + n, TotalStack}) - 1
    IN  IF ZeroExtend(o, W64) >= TotalStack THEN [num |-> TRUE, nonnum |-> TRUE]
        ELSE [num |-> B \subseteq S.num, nonnum |-> B \cap S.num = {}]

\* How many bytes from o on hold numbers.
NumWidth(S, o) ==
    IF o \notin Offsets THEN 0
    ELSE CHOOSE n \in 0 .. TotalStack - o :
            /\ o .. o + n - 1 \subseteq S.num
            /\ o + n \notin S.num

AllNum(S, lb, ub) == MaxOf({lb, 0}) .. MinOf({ub, TotalStack}) - 1 \subseteq S.num

ClampedLb(i) == IF IsInf(i.lb) THEN 0 ELSE MaxOf({i.lb, 0})
ClampedUb(i) == IF IsInf(i.ub) THEN TotalStack ELSE MinOf({i.ub, TotalStack})

NumBytesRange(i, n) == I!Join(i, I!Add(i, n))

AllNumIn(S, i) == ClampedLb(i) < ClampedUb(i) /\ AllNum(S, ClampedLb(i), ClampedUb(i))

AllNumWidth(S, i, n) == AllNumIn(S, NumBytesRange(i, n))
AllNumLbUb(S, lb, ub) == AllNumIn(S, I!Join(lb, ub))

\* Mutant: the width at the lowest place is taken for all of them.
MinAllNumSizeAtLowest(S, i) == IF I!IsFinite(i) THEN NumWidth(S, i.lb) ELSE 0

\* min_all_num_size: how many bytes hold numbers wherever in i one starts.
MinAllNumSize(S, i) ==
    IF I!IsFinite(i) THEN MaxOf({0, NumWidth(S, i.lb) - (i.ub - i.lb)}) ELSE 0

-----------------------------------------------------------------------------
(***************************************************************************)
(* Cells that an access touches.                                           *)
(***************************************************************************)
IsStrong(i, n) == /\ I!IsSingleton(i) /\ I!IsSingleton(n) /\ i.lb \in 0 .. MaxUint(W64)

CellsOf(S, k) == {c \in S.cells : c[1] = k}

\* get_overlap_cells: without the cell itself.
OverlapCells(S, k, o, n) ==
    {c \in CellsOf(S, k) : c[2] < o + n /\ c[2] + c[3] > o /\ <<o, n>> # <<c[2], c[3]>>}

\* get_overlap_cells_symbolic: all cells at an offset whose largest one meets
\* the range.
OverlapCellsSymbolic(S, k, i) ==
    {c \in CellsOf(S, k) :
        \E e \in CellsOf(S, k) : e[2] = c[2] /\ e[2] <= i.ub /\ e[2] + e[3] - 1 >= i.lb}

\* Mutant: a cell that starts before the store is not looked for.
TouchedCellsFromOffset(S, k, i, n) ==
    IF IsStrong(i, n)
    THEN {c \in CellsOf(S, k) : c[2] \in i.lb .. i.lb + n.lb - 1}
    ELSE OverlapCellsSymbolic(S, k, I!Join(i, I!Sub(I!Add(i, n), I!Just(1))))

TouchedCells(S, k, i, n) ==
    IF IsStrong(i, n)
    THEN OverlapCells(S, k, i.lb, n.lb) \cup (CellsOf(S, k) \cap {<<k, i.lb, n.lb>>})
    ELSE OverlapCellsSymbolic(S, k, I!Join(i, I!Sub(I!Add(i, n), I!Just(1))))

ByPlace(C) == SortSeq(Enumerated(C), LAMBDA a, b : a[2] < b[2] \/ (a[2] = b[2] /\ a[3] < b[3]))

\* kill_and_find_var: both views of a number go together.
KillCell(c) ==
    CASE c[1] = Types -> <<HavocType(CellVar(Types, c[2], c[3]))>>
      [] c[1] \in {Svalues, Uvalues} ->
             <<Forgets(CellVar(Svalues, c[2], c[3])), Forgets(CellVar(Uvalues, c[2], c[3]))>>
      [] OTHER -> <<Forgets(CellVar(c[1], c[2], c[3]))>>

KillCells(C) ==
    <<RemoveCells(C)>> \o FlattenSeq([j \in 1 .. Cardinality(C) |-> KillCell(ByPlace(C)[j])])

Kill(S, k, i, n) == KillCells(TouchedCells(S, k, i, n))

-----------------------------------------------------------------------------
(***************************************************************************)
(* Loads.  The bytes of a number may be known from cells of other sizes.   *)
(***************************************************************************)
\* The widths of cells, widest first, whose values bytes are taken from.
CellWidths == SetToSortSeq({w \in {1, 2, 4, 8} : w <= WordBytes}, >)

\* Byte b from the cell of width w around it, as a set with at most one byte.
GetValueByte(S, b, w) ==
    LET i == EvalVar(S, CellVar(Svalues, (b \div w) * w, w))
    IN  IF I!IsSingleton(i) THEN {(ZeroExtend(i.lb, w * W8) \div 2 ^ (W8 * (b % w))) % 2 ^ W8} ELSE {}

ByteFrom(S, b) ==
    FoldLeft(LAMBDA acc, w : IF acc # {} THEN acc ELSE GetValueByte(S, b, w), {}, CellWidths)

\* Little endian: byte j of bytes has the weight 2^(W8 * (j - 1)).
ReconstructValue(bytes) ==
    IF {} \in Range(bytes) THEN {}
    ELSE {SumFunction([j \in DOMAIN bytes |-> The(bytes[j]) * 2 ^ (W8 * (j - 1))])}

ReconstructFromBytes(S, o, n) ==
    IF n \in Range(CellWidths) THEN ReconstructValue([j \in 1 .. n |-> ByteFrom(S, o + j - 1)]) ELSE {}

\* load: the commands that give x what the cell at o holds, if that is known.
LoadCell(S, x, k, o, n, value) ==
    IF <<k, o, n>> \in S.cells THEN <<Assigns_(x, Var(CellVar(k, o, n)))>>
    ELSE IF value # {}
    THEN <<Assigns_(x, Num(IF k = Uvalues THEN The(value) ELSE SignExtend(The(value), W64)))>>
    ELSE IF OverlapCells(S, k, o, n) = {}
    THEN NewCell(k, o, n) \o <<Assigns_(x, Var(CellVar(k, o, n)))>>
    ELSE <<Forgets(x)>>

Load(S, x, k, i, n) ==
    IF ~I!IsSingleton(i) THEN <<Forgets(x)>>
    ELSE LoadCell(S, x, k, i.lb, n,
                  IF k \in {Svalues, Uvalues} THEN ReconstructFromBytes(S, i.lb, n) ELSE {})

\* load_type: numbers, the type of a whole cell, or nothing known.
LoadTypeCell(S, l, o, n, uniform) ==
    IF uniform.num THEN <<AssignType(l, TNum)>>
    ELSE IF ~uniform.nonnum \/ n # WordBytes THEN <<HavocType(l)>>
    ELSE IF <<Types, o, n>> \in S.cells THEN <<CopyType(l, CellVar(Types, o, n))>>
    ELSE IF OverlapCells(S, Types, o, n) = {}
    THEN NewCell(Types, o, n) \o <<CopyType(l, CellVar(Types, o, n))>>
    ELSE <<HavocType(l)>>

LoadType(S, l, i, n) ==
    IF I!IsSingleton(i) THEN LoadTypeCell(S, l, i.lb, n, Uniformly(S, i.lb, n))
    ELSE IF I!IsFinite(i) /\ i.lb >= 0 /\ Uniformly(S, i.lb, i.ub - i.lb + n).num
    THEN <<AssignType(l, TNum)>> ELSE <<HavocType(l)>>

-----------------------------------------------------------------------------
(***************************************************************************)
(* Stores.  A known number of a whole word that a store covers in part     *)
(* leaves its remaining bytes known (split_number_var).                    *)
(***************************************************************************)
SplitCell(S, k, o, n) ==
    Load(S, CellVar(Svalues, o, n), Svalues, I!Just(o), n)
      \o Load(S, CellVar(Uvalues, o, n), Uvalues, I!Just(o), n) \o NewCell(k, o, n)

\* The parts of cell c on the two sides of the access at o of n bytes.
SidesOf(c, o, n) ==
    (IF c[2] < o THEN <<<<c[2], o - c[2]>>>> ELSE <<>>)
      \o (IF o + n < c[2] + c[3] THEN <<<<o + n, c[2] + c[3] - (o + n)>>>> ELSE <<>>)

CanSplit(S, c) == /\ c[3] >= WordBytes
                  /\ AllNum(S, c[2], c[2] + c[3])
                  /\ I!IsSingleton(EvalVar(S, CellVar(c[1], c[2], c[3])))

Split(c, o, n) == [do |-> "split", cell |-> c, o |-> o, n |-> n]
SplitSide(k, side) == [do |-> "splitside", kind |-> k, side |-> side]

SplitNumberVar(S, k, i, n) ==
    IF ~IsStrong(i, n) THEN <<>>
    ELSE LET C == ByPlace(OverlapCells(S, k, i.lb, n.lb))
         IN  [j \in DOMAIN C |-> Split(C[j], i.lb, n.lb)]

KillTouched(k, i, n) == [do |-> "kill", kind |-> k, i |-> i, n |-> n]

\* havoc and havoc_type.
HavocStack(S, k, i, n) ==
    IF k = Types
    THEN Kill(S, k, i, n) \o (IF IsStrong(i, n) THEN <<NonNumBytes(i.lb .. i.lb + n.lb - 1)>> ELSE <<>>)
    ELSE (IF k \in {Svalues, Uvalues} THEN SplitNumberVar(S, k, i, n) ELSE <<>>) \o <<KillTouched(k, i, n)>>

\* store, and the assignment to the cell that follows it: a strong one makes the
\* cell and gives it the value of e, a weak one only forgets.
StoreValue(S, k, i, n, e) ==
    HavocStack(S, k, i, n)
      \o (IF IsStrong(i, n)
          THEN NewCell(k, i.lb, n.lb) \o <<Assigns_(CellVar(k, i.lb, n.lb), e)>> ELSE <<>>)

NumOrNot(isNum, B) == IF isNum THEN NumBytes(B \cap Offsets) ELSE NonNumBytes(B)

\* Mutant: a weak store of a pointer leaves the bytes it may hit numbers.
StoreTypeWeakly(S, i, n, isNum, typed) ==
    Kill(S, Types, i, n)
      \o (IF IsStrong(i, n)
          THEN <<NumOrNot(isNum, i.lb .. i.lb + n.lb - 1)>> \o NewCell(Types, i.lb, n.lb)
                 \o [j \in DOMAIN typed |-> [typed[j] EXCEPT !.l = CellVar(Types, i.lb, n.lb)]]
          ELSE <<>>)

\* store_type, and the assignment to the cell's type that follows it.
StoreType(S, i, n, isNum, typed) ==
    Kill(S, Types, i, n)
      \o (IF IsStrong(i, n)
          THEN <<NumOrNot(isNum, i.lb .. i.lb + n.lb - 1)>> \o NewCell(Types, i.lb, n.lb)
                 \o [j \in DOMAIN typed |-> [typed[j] EXCEPT !.l = CellVar(Types, i.lb, n.lb)]]
          ELSE IF isNum THEN <<>>
          ELSE <<NonNumBytes(ClampedLb(NumBytesRange(i, n)) .. ClampedUb(NumBytesRange(i, n)) - 1)>>)

\* store_numbers.
StoreNumbers(i, n) ==
    IF I!IsSingleton(i) /\ I!IsSingleton(n) /\ i.lb >= 0 /\ i.lb + n.lb <= TotalStack
    THEN <<NumBytes(i.lb .. i.lb + n.lb - 1)>> ELSE <<>>

\* What the commands of this module stand for in state S.
ExpandStack(S, c) ==
    CASE c.do = "split" -> IF ~CanSplit(S, c.cell) THEN <<>>
                           ELSE LET sides == SidesOf(c.cell, c.o, c.n)
                                IN  [j \in DOMAIN sides |-> SplitSide(c.cell[1], sides[j])]
      [] c.do = "splitside"  -> SplitCell(S, c.kind, c.side[1], c.side[2])
      [] c.do = "kill"       -> Kill(S, c.kind, c.i, c.n)
      [] c.do = "load"       -> Load(S, c.x, c.kind, c.i, c.n)
      [] c.do = "loadtype"   -> LoadType(S, c.l, c.i, c.n)
      [] c.do = "havocstack" -> HavocStack(S, c.kind, c.i, c.n)
      [] c.do = "store"      -> StoreValue(S, c.kind, c.i, c.n, c.e)
      [] c.do = "storetype"  -> StoreType(S, c.i, c.n, c.isNum, c.typed)

Loads(x, k, i, n) == [do |-> "load", x |-> x, kind |-> k, i |-> i, n |-> n]
LoadsType(l, i, n) == [do |-> "loadtype", l |-> l, i |-> i, n |-> n]
Havocs(k, i, n) == [do |-> "havocstack", kind |-> k, i |-> i, n |-> n]
Stores(k, i, n, e) == [do |-> "store", kind |-> k, i |-> i, n |-> n, e |-> e]
StoresType(i, n, isNum, typed) == [do |-> "storetype", i |-> i, n |-> n, isNum |-> isNum, typed |-> typed]

ArrayCommands == {"split", "splitside", "kill", "load", "loadtype", "havocstack", "store", "storetype"}
=============================================================================
