----------------------------- MODULE SlicesProofs -----------------------------
(***************************************************************************)
(* Theorems about Slices: the worklist of compute_slice_from_label ends by *)
(* itself with exactly the relevance that is meant, and a slice that was   *)
(* not cut has every label that the values of its assertion come from, in  *)
(* a program without CMPXCHG whose accesses to the stack are the same or   *)
(* apart.                                                                  *)
(***************************************************************************)
EXTENDS Slices, FiniteOrders

InsType == [op : Op, dst : Registers \cup {None}, src : Registers \cup {None},
            base : Registers \cup {None}, slot : Slots \cup {None}, width : Widths]

-----------------------------------------------------------------------------
(***************************************************************************)
(* Dependencies of instructions.                                           *)
(***************************************************************************)
LEMMA ItemsApart == Registers \cap Slots = {} /\ None \notin Items /\ Items = Registers \cup Slots
BY ItemsAssumption DEF Items

\* extract_instruction_deps names registers and stack slots only.
LEMMA DepsType ==
    ASSUME NEW i \in InsType
    PROVE  LET d == ExtractDeps(i)
           IN  /\ d.regs_read \subseteq Registers /\ d.regs_written \subseteq Registers
               /\ d.regs_clobbered \subseteq Registers
               /\ d.stack_read \subseteq Slots /\ d.stack_written \subseteq Slots
BY ItemsAssumption, SMTT(60) DEF ExtractDeps, Deps, Operands, InsType, Op

\* The items an instruction writes and uses when memory is told apart by slots,
\* as extract_instruction_deps does.
ItemsWrote(i) ==
    CASE i.op \in {"alu", "mov", "un", "load_const", "load"} -> {i.dst}
      [] i.op \in {"store", "atomic"} -> {i.slot}
      [] i.op \in {"fetch", "cmpxchg"} -> {i.src, i.slot}
      [] i.op \in {"call", "callx", "packet"} -> {0}
      [] i.op = "assume" -> {i.dst, i.src}
      [] OTHER -> {}
ItemsUsed(i) ==
    CASE i.op \in {"alu", "assume"} -> {i.dst, i.src}
      [] i.op \in {"mov", "packet"} -> {i.src}
      [] i.op = "un" -> {i.dst}
      [] i.op = "load" -> {i.base, i.slot}
      [] i.op = "store" -> {i.base, i.src}
      [] i.op \in {"atomic", "fetch", "cmpxchg"} -> {i.base, i.src, i.slot}
      [] i.op = "call" -> Args
      [] i.op = "callx" -> {i.src} \cup Args
      [] OTHER -> {}

\* What an instruction does to values, by its dependencies.  Local calls and
\* returns are left out.
LEMMA DepsCoverEffects ==
    ASSUME NEW i \in InsType, i.op \notin {"call_local", "return"}
    PROVE  LET d == ExtractDeps(i)
           IN  /\ ItemsUsed(i) \ {None} \subseteq d.regs_read \cup d.stack_read
               /\ \A x \in Items : x \in ItemsWrote(i) =>
                     \/ x \in d.regs_written \cup d.stack_written
                     \/ i.op = "assume" /\ x \in d.regs_read
               /\ \A x \in Items : x \in d.regs_written => x \in ItemsWrote(i)
               /\ \A x \in Items : x \in d.regs_clobbered => x \in Lost(i)
               /\ \A x \in Items : x \in d.stack_written => x \in ItemsWrote(i)
<1> DEFINE d == ExtractDeps(i)
<1> USE ItemsAssumption DEF ExtractDeps, Deps, Operands, InsType, Op, Items
<1>1. ItemsUsed(i) \ {None} \subseteq d.regs_read \cup d.stack_read
  BY ZenonT(60) DEF ItemsUsed
<1>2. ASSUME NEW x \in Items, x \in ItemsWrote(i)
      PROVE  \/ x \in d.regs_written \cup d.stack_written
             \/ i.op = "assume" /\ x \in d.regs_read
  BY <1>2, ZenonT(60) DEF ItemsWrote
<1>3. ASSUME NEW x \in Items, x \in d.regs_written
      PROVE  x \in ItemsWrote(i)
  BY <1>3 DEF ItemsWrote
<1>4. ASSUME NEW x \in Items, x \in d.regs_clobbered
      PROVE  x \in Lost(i)
  BY <1>4 DEF Lost
<1>5. ASSUME NEW x \in Items, x \in d.stack_written
      PROVE  x \in ItemsWrote(i)
  BY <1>5 DEF ItemsWrote
<1> QED BY <1>1, <1>2, <1>3, <1>4, <1>5, ZenonT(60)

-----------------------------------------------------------------------------
(***************************************************************************)
(* Relevance.                                                              *)
(***************************************************************************)
LEMMA RelevantType ==
    ASSUME NEW a \in RelevantState, NEW b \in RelevantState
    PROVE  /\ Merge(a, b) \in RelevantState
           /\ Nothing \in RelevantState
           /\ ItemsOf(a) \subseteq Items
           /\ ItemsOf(Merge(a, b)) = ItemsOf(a) \cup ItemsOf(b)
           /\ ItemsOf(Nothing) = {}
           /\ Merge(Nothing, a) = a
BY DEF Merge, Relevant, RelevantState, ItemsOf, Items, Nothing

\* size() counts the items.
LEMMA SizeIsCardinality ==
    ASSUME NEW a \in RelevantState
    PROVE  /\ IsFiniteSet(ItemsOf(a))
           /\ Size(a) = Cardinality(ItemsOf(a))
           /\ Size(a) \in Nat
<1>1. /\ IsFiniteSet(a.registers) /\ IsFiniteSet(a.stack_offsets)
      /\ a.registers \cap a.stack_offsets = {}
  BY FS_Subset, ItemsAssumption DEF RelevantState
<1>2. /\ IsFiniteSet(ItemsOf(a))
      /\ Cardinality(ItemsOf(a)) = Cardinality(a.registers) + Cardinality(a.stack_offsets) - Cardinality({})
  BY <1>1, FS_Union DEF ItemsOf
<1>3. Cardinality(a.registers) \in Nat /\ Cardinality(a.stack_offsets) \in Nat /\ Cardinality({}) = 0
  BY <1>1, FS_CardinalityType, FS_EmptySet
<1> QED BY <1>2, <1>3 DEF Size

\* A merge that does not change the size adds nothing.
LEMMA SameSizeSameItems ==
    ASSUME NEW a \in RelevantState, NEW b \in RelevantState, Size(Merge(a, b)) = Size(a)
    PROVE  ItemsOf(b) \subseteq ItemsOf(a)
<1>1. Merge(a, b) \in RelevantState /\ ItemsOf(Merge(a, b)) = ItemsOf(a) \cup ItemsOf(b)
  BY RelevantType
<1>2. Cardinality(ItemsOf(Merge(a, b))) = Cardinality(ItemsOf(a)) /\ IsFiniteSet(ItemsOf(Merge(a, b)))
  BY <1>1, SizeIsCardinality
<1>3. ItemsOf(a) \in SUBSET ItemsOf(Merge(a, b))
  BY <1>1
<1>4. ItemsOf(Merge(a, b)) = ItemsOf(a)
  BY <1>2, <1>3, FS_Subset
<1> QED BY <1>1, <1>4

\* What is relevant before a label for two sets after it is so for one of them.
LEMMA RelevanceDistributes ==
    ASSUME NEW l \in Labels, NEW a \in RelevantState, NEW b \in RelevantState
    PROVE  /\ ItemsOf(RelevantBefore(l, Merge(a, b)))
                  \subseteq ItemsOf(RelevantBefore(l, a)) \cup ItemsOf(RelevantBefore(l, b))
           /\ InSlice(l, Merge(a, b)) => InSlice(l, a) \/ InSlice(l, b)
<1>1. Contributes(l, Merge(a, b)) => Contributes(l, a) \/ Contributes(l, b)
  BY DEF Contributes, Merge, Relevant, RelevantState
<1> QED BY <1>1, SMTT(60) DEF RelevantBefore, InSlice, Merge, Relevant, RelevantState, ItemsOf, Nothing

LEMMA RelevantBeforeType ==
    ASSUME InputOK(input), NEW l \in Labels, NEW a \in RelevantState
    PROVE  RelevantBefore(l, a) \in RelevantState
<1>1. input.ins[l] \in InsType
  BY DEF InputOK, InsType
<1> QED BY <1>1, DepsType DEF RelevantBefore, Relevant, RelevantState, Nothing

\* A relevant value is written by a label of the slice, and what the instruction
\* uses is relevant before it; or it is lost; or it is relevant before.
LEMMA RelevanceExplains ==
    ASSUME InputOK(input), NEW l \in input.collected, NEW a \in RelevantState, NEW x \in ItemsOf(a),
           input.ins[l].op \notin {"call_local", "return"}
    PROVE  LET i == input.ins[l]
           IN  /\ x \in ItemsWrote(i) => /\ InSlice(l, a)
                                   /\ ItemsUsed(i) \ {None} \subseteq ItemsOf(RelevantBefore(l, a))
               /\ x \notin ItemsWrote(i) \cup Lost(i) => x \in ItemsOf(RelevantBefore(l, a))
<1> DEFINE i == input.ins[l]
           d == ExtractDeps(i)
<1>1. l \in Labels /\ i \in InsType
  BY DEF InputOK, InsType
<1>2. x \in Items /\ a.registers \subseteq Registers /\ a.stack_offsets \subseteq Slots
      /\ Registers \cap Slots = {}
  BY ItemsAssumption DEF ItemsOf, RelevantState, Items
<1>3. /\ d.regs_read \subseteq Registers /\ d.regs_written \subseteq Registers
      /\ d.regs_clobbered \subseteq Registers
      /\ d.stack_read \subseteq Slots /\ d.stack_written \subseteq Slots
  BY <1>1, DepsType
<1>4. /\ ItemsUsed(i) \ {None} \subseteq d.regs_read \cup d.stack_read
      /\ x \in ItemsWrote(i) => \/ x \in d.regs_written \cup d.stack_written
                                \/ i.op = "assume" /\ x \in d.regs_read
      /\ x \in d.regs_written => x \in ItemsWrote(i)
      /\ x \in d.regs_clobbered => x \in Lost(i)
      /\ x \in d.stack_written => x \in ItemsWrote(i)
  BY <1>1, <1>2, DepsCoverEffects, SMTT(60)
<1>5. ASSUME x \in ItemsWrote(i)
      PROVE  Contributes(l, a)
  BY <1>2, <1>3, <1>4, <1>5, SMTT(60) DEF Contributes, ItemsOf
<1> HIDE DEF d
<1>6. ASSUME Contributes(l, a)
      PROVE  d.regs_read \cup d.stack_read \subseteq ItemsOf(RelevantBefore(l, a))
  BY <1>6 DEF RelevantBefore, Relevant, ItemsOf, d
<1>7. ASSUME x \notin ItemsWrote(i) \cup Lost(i)
      PROVE  x \in ItemsOf(RelevantBefore(l, a))
  BY <1>2, <1>3, <1>4, <1>7 DEF RelevantBefore, Relevant, ItemsOf, d
<1> QED BY <1>4, <1>5, <1>6, <1>7 DEF InSlice

-----------------------------------------------------------------------------
(***************************************************************************)
(* The parents of a label, one after the other.                            *)
(***************************************************************************)
LEMMA ParentsListed ==
    ASSUME NEW l \in Labels
    PROVE  /\ Cardinality(Parents(l)) \in Nat
           /\ \A p \in 1 .. Cardinality(Parents(l)) : ParentAt(l, p) \in Parents(l)
           /\ \A m \in Parents(l) : \E p \in 1 .. Cardinality(Parents(l)) : ParentAt(l, p) = m
<1> DEFINE P == Parents(l)
           N == Cardinality(P)
           upto == [m \in P |-> {n \in P : n <= m}]
<1>1. P \in SUBSET Labels /\ \A m \in P : m \in Nat
  BY ItemsAssumption DEF Parents
<1>2. IsFiniteSet(P)
  BY <1>1, ItemsAssumption, FS_Subset
<1>3. upto \in [P -> SUBSET P] /\ \A m \in P : m \in upto[m]
  BY <1>1
<1>4. ASSUME NEW m \in P, NEW n \in P, m < n
      PROVE  upto[m] \subseteq upto[n] /\ n \notin upto[m]
  <2>1. \A k \in upto[m] : k \in P /\ k <= n
    BY <1>1, <1>4
  <2> QED BY <1>1, <1>4, <2>1
<1>5. \A m, n \in P : m # n => \/ upto[m] \subseteq upto[n] /\ n \notin upto[m]
                               \/ upto[n] \subseteq upto[m] /\ m \notin upto[n]
  BY <1>1, <1>4
<1> HIDE DEF P, upto
<1>6. /\ N \in Nat
      /\ \A m \in P : Cardinality(upto[m]) \in 1 .. N
      /\ \A m, n \in P : Cardinality(upto[m]) = Cardinality(upto[n]) => m = n
      /\ \A p \in 1 .. N : \E m \in P : Cardinality(upto[m]) = p
  BY <1>2, <1>3, <1>5, CountedOff
<1>7. \A p : ParentAt(l, p) = CHOOSE m \in P : Cardinality(upto[m]) = p
  BY DEF ParentAt, P, upto
<1>8. \A p \in 1 .. N : ParentAt(l, p) \in P /\ Cardinality(upto[ParentAt(l, p)]) = p
  BY <1>6, <1>7
<1> QED BY <1>6, <1>8 DEF P

-----------------------------------------------------------------------------
LEMMA FirstOfIn ==
    ASSUME NEW S \in SUBSET Labels, S # {}
    PROVE  FirstOf(S) \in S
BY LeastNat, ItemsAssumption DEF FirstOf

-----------------------------------------------------------------------------
(***************************************************************************)
(* Types.                                                                  *)
(***************************************************************************)
Item == [label : Labels, after : RelevantState]
RelevanceMap == UNION {[D -> RelevantState] : D \in SUBSET Labels}
Slice == [failing_label : Labels, seed : RelevantState, cut : BOOLEAN, relevance : RelevanceMap]

TypeInv ==
    /\ InputOK(input) /\ todo \subseteq Labels /\ target \in Labels
    /\ seed \in RelevantState
    /\ worklist \in Seq(Item)
    /\ visited \in RelevanceMap /\ slice_labels \in RelevanceMap
    /\ conservative_visited \subseteq Labels
    /\ steps \in 0 .. input.max_steps
    /\ slices \in Seq(Slice)
    /\ phase \in {"scan", "slice", "expand", "done"}

LEMMA EmptyMap == <<>> \in RelevanceMap /\ DOMAIN <<>> = {}
<1>1. <<>> \in [{} -> RelevantState] /\ DOMAIN <<>> = {}
  OBVIOUS
<1> QED BY <1>1, SMTT(60) DEF RelevanceMap

LEMMA MapType ==
    ASSUME NEW f \in RelevanceMap
    PROVE  /\ DOMAIN f \subseteq Labels
           /\ \A l \in DOMAIN f : f[l] \in RelevantState
           /\ f \in [DOMAIN f -> RelevantState]
BY DEF RelevanceMap

LEMMA AtType ==
    ASSUME NEW f \in RelevanceMap, NEW l
    PROVE  At(f, l) \in RelevantState
BY MapType DEF At, Nothing, Relevant, RelevantState

LEMMA MergeAtType ==
    ASSUME NEW f \in RelevanceMap, NEW l \in Labels, NEW r \in RelevantState
    PROVE  /\ MergeAt(f, l, r) \in RelevanceMap
           /\ DOMAIN MergeAt(f, l, r) = DOMAIN f \cup {l}
           /\ MergeAt(f, l, r)[l] = Merge(At(f, l), r)
           /\ \A m \in DOMAIN f \ {l} : MergeAt(f, l, r)[m] = f[m]
<1> DEFINE g == MergeAt(f, l, r)
<1>1. Merge(At(f, l), r) \in RelevantState
  BY AtType, RelevantType
<1>2. g \in [DOMAIN f \cup {l} -> RelevantState]
  BY <1>1, MapType DEF MergeAt
<1>3. g \in RelevanceMap
  <2>1. DOMAIN f \cup {l} \in SUBSET Labels
    BY MapType
  <2> HIDE DEF g
  <2> QED BY <1>2, <2>1 DEF RelevanceMap
<1> QED BY <1>3 DEF MergeAt

LEMMA JoinExpansionType ==
    ASSUME TypeInv
    PROVE  /\ JoinExpansion \in RelevanceMap
           /\ DOMAIN slice_labels \subseteq DOMAIN JoinExpansion
<1>1. visited \in RelevanceMap /\ slice_labels \in RelevanceMap
  BY DEF TypeInv
<1>2. Joins \subseteq DOMAIN visited /\ DOMAIN visited \subseteq Labels /\ DOMAIN slice_labels \subseteq Labels
  BY <1>1, MapType DEF Joins
<1>3. ASSUME NEW m, m \in UNION {Parents(v) : v \in Joins}
      PROVE  FirstOf({v \in Joins : m \in Parents(v)}) \in DOMAIN visited /\ m \in Labels
  BY <1>2, <1>3, FirstOfIn, ZenonT(60) DEF Parents
<1> DEFINE added == (Joins \cup UNION {Parents(v) : v \in Joins}) \ DOMAIN slice_labels
           D == DOMAIN slice_labels \cup added
           at(m) == CASE m \in DOMAIN slice_labels -> slice_labels[m]
                      [] m \in added \cap DOMAIN visited -> visited[m]
                      [] m \in added \ DOMAIN visited ->
                            visited[FirstOf({v \in Joins : m \in Parents(v)})]
<1>4. D \in SUBSET Labels
  BY <1>2, <1>3
<1>5. ASSUME NEW m \in D PROVE at(m) \in RelevantState
  <2>1. CASE m \in DOMAIN slice_labels
    BY <1>1, <2>1, MapType
  <2>2. CASE m \in added \cap DOMAIN visited
    BY <1>1, <2>2, MapType
  <2>3. CASE m \in added \ DOMAIN visited
    <3>1. m \in UNION {Parents(v) : v \in Joins}
      BY <1>2, <2>3
    <3>2. at(m) = visited[FirstOf({v \in Joins : m \in Parents(v)})]
      BY <2>3
    <3> QED BY <3>1, <3>2, <1>3, <1>1, MapType, SMTT(60)
  <2> QED BY <2>1, <2>2, <2>3
<1>6. JoinExpansion = [m \in D |-> at(m)]
  BY DEF JoinExpansion
<1> HIDE DEF D, at
<1>7. JoinExpansion \in [D -> RelevantState] /\ DOMAIN JoinExpansion = D
  BY <1>5, <1>6
<1>8. JoinExpansion \in RelevanceMap
  BY <1>4, <1>7 DEF RelevanceMap
<1> QED BY <1>7, <1>8 DEF D

\* The worklist after an item was taken off and the parents pushed.
LEMMA PushParentsIs ==
    ASSUME TypeInv, worklist # <<>>, NEW l \in Labels, NEW r \in RelevantState
    PROVE  /\ Current \in Item /\ Rest \in Seq(Item)
           /\ \A i \in DOMAIN worklist : worklist[i] = Current \/ \E j \in DOMAIN Rest : Rest[j] = worklist[i]
           /\ \A j \in DOMAIN Rest : \E i \in DOMAIN worklist : worklist[i] = Rest[j]
           /\ PushParents(l, r) \in Seq(Item)
           /\ \A j \in DOMAIN Rest : \E i \in DOMAIN PushParents(l, r) : PushParents(l, r)[i] = Rest[j]
           /\ \A m \in Parents(l) : \E i \in DOMAIN PushParents(l, r) :
                  PushParents(l, r)[i] = [label |-> m, after |-> r]
           /\ \A i \in DOMAIN PushParents(l, r) :
                 \/ \E j \in DOMAIN Rest : PushParents(l, r)[i] = Rest[j]
                 \/ \E m \in Parents(l) : PushParents(l, r)[i] = [label |-> m, after |-> r]
<1> DEFINE N == Cardinality(Parents(l))
           pushed == [p \in 1 .. N |-> [label |-> ParentAt(l, p), after |-> r]]
<1>1. worklist \in Seq(Item) /\ Len(worklist) \in Nat /\ Len(worklist) > 0
  BY DEF TypeInv
<1>2. Current \in Item /\ Current = worklist[Len(worklist)]
  BY <1>1 DEF Current, Last
<1>3. /\ Rest \in Seq(Item) /\ Len(Rest) = Len(worklist) - 1
      /\ \A i \in 1 .. Len(worklist) - 1 : Rest[i] = worklist[i]
  <2>1. Rest = SubSeq(worklist, 1, Len(worklist) - 1)
    BY DEF Rest, Front
  <2> DEFINE n == Len(worklist) - 1
  <2>2. n \in Int /\ 1 \in Int /\ \A i \in 1 .. n : worklist[i] \in Item
    BY <1>1
  <2>3. /\ SubSeq(worklist, 1, n) \in Seq(Item)
        /\ Len(SubSeq(worklist, 1, n)) = IF 1 <= n THEN n - 1 + 1 ELSE 0
        /\ \A i \in 1 .. n - 1 + 1 : SubSeq(worklist, 1, n)[i] = worklist[1 + i - 1]
    <3> HIDE DEF n
    <3> QED BY <2>2, SubSeqProperties
  <2>4. \A i \in 1 .. n : i \in 1 .. n - 1 + 1 /\ 1 + i - 1 = i
    BY <2>2
  <2>5. \A i \in 1 .. n : SubSeq(worklist, 1, n)[i] = worklist[i]
    BY <2>3, <2>4
  <2>6. Len(SubSeq(worklist, 1, n)) = n
    <3>1. n \in Nat
      BY <1>1
    <3> HIDE DEF n
    <3> QED BY <2>3, <3>1
  <2> QED BY <2>1, <2>3, <2>5, <2>6
<1>4. /\ N \in Nat
      /\ \A p \in 1 .. N : ParentAt(l, p) \in Labels
      /\ \A p \in 1 .. N : ParentAt(l, p) \in Parents(l)
      /\ \A m \in Parents(l) : \E p \in 1 .. N : ParentAt(l, p) = m
  BY ParentsListed DEF Parents
<1>5. pushed \in Seq(Item) /\ Len(pushed) = N
  <2>1. \A p \in 1 .. N : pushed[p] \in Item
    BY <1>4 DEF Item
  <2>2. pushed \in [1 .. N -> Item]
    BY <2>1
  <2> HIDE DEF pushed, N
  <2> QED BY <2>2, <1>4, SeqDef
<1>6. PushParents(l, r) = Rest \o pushed
  BY DEF PushParents
<1> HIDE DEF N, pushed
<1>7. /\ PushParents(l, r) \in Seq(Item)
      /\ DOMAIN PushParents(l, r) = 1 .. Len(Rest) + N
      /\ \A i \in 1 .. Len(Rest) : PushParents(l, r)[i] = Rest[i]
      /\ \A p \in 1 .. N : PushParents(l, r)[Len(Rest) + p] = pushed[p]
  <2>1. /\ Rest \o pushed \in Seq(Item) /\ Len(Rest \o pushed) = Len(Rest) + Len(pushed)
        /\ \A i \in 1 .. Len(Rest) + Len(pushed) :
              (Rest \o pushed)[i] = IF i <= Len(Rest) THEN Rest[i] ELSE pushed[i - Len(Rest)]
    BY <1>3, <1>5, ConcatProperties, ZenonT(60)
  <2>2. Len(Rest) \in Nat
    BY <1>3
  <2>3. \A i \in 1 .. Len(Rest) : (Rest \o pushed)[i] = Rest[i]
    BY <1>4, <1>5, <2>1, <2>2
  <2>4. \A p \in 1 .. N : (Rest \o pushed)[Len(Rest) + p] = pushed[p]
    BY <1>4, <1>5, <2>1, <2>2
  <2> QED BY <1>4, <1>5, <1>6, <2>1, <2>2, <2>3, <2>4
<1>8. \A j \in DOMAIN Rest : \E i \in DOMAIN PushParents(l, r) : PushParents(l, r)[i] = Rest[j]
  <2>1. DOMAIN Rest = 1 .. Len(Rest) /\ Len(Rest) \in Nat
    BY <1>3
  <2>2. \A j \in 1 .. Len(Rest) : j \in 1 .. Len(Rest) + N
    BY <1>4, <2>1
  <2> QED BY <1>7, <2>1, <2>2
<1>9. ASSUME NEW m \in Parents(l)
      PROVE  \E i \in DOMAIN PushParents(l, r) : PushParents(l, r)[i] = [label |-> m, after |-> r]
  <2>1. PICK p \in 1 .. N : ParentAt(l, p) = m
    BY <1>4
  <2>2. pushed[p] = [label |-> m, after |-> r]
    BY <2>1 DEF pushed
  <2>3. Len(Rest) + p \in DOMAIN PushParents(l, r)
    BY <1>3, <1>4, <1>7
  <2> QED BY <1>7, <2>2, <2>3
<1>10. \A i \in DOMAIN worklist : worklist[i] = Current \/ \E j \in DOMAIN Rest : Rest[j] = worklist[i]
  BY <1>1, <1>2, <1>3
<1>11. \A j \in DOMAIN Rest : \E i \in DOMAIN worklist : worklist[i] = Rest[j]
  BY <1>1, <1>3, SMTT(60)
<1>12. ASSUME NEW i \in DOMAIN PushParents(l, r)
       PROVE  \/ \E j \in DOMAIN Rest : PushParents(l, r)[i] = Rest[j]
              \/ \E m \in Parents(l) : PushParents(l, r)[i] = [label |-> m, after |-> r]
  <2>1. DOMAIN Rest = 1 .. Len(Rest) /\ Len(Rest) \in Nat
    BY <1>3
  <2>2. i \in 1 .. Len(Rest) \/ (i - Len(Rest) \in 1 .. N /\ i = Len(Rest) + (i - Len(Rest)))
    BY <1>4, <1>7, <2>1
  <2>3. \A p \in 1 .. N : ParentAt(l, p) \in Parents(l) /\ pushed[p] = [label |-> ParentAt(l, p), after |-> r]
    BY <1>4 DEF pushed
  <2> QED BY <1>7, <2>1, <2>2, <2>3, ZenonT(60)
<1> QED BY <1>2, <1>3, <1>7, <1>8, <1>9, <1>10, <1>11, <1>12

LEMMA PushParentsType ==
    ASSUME TypeInv, worklist # <<>>, NEW l \in Labels, NEW r \in RelevantState
    PROVE  /\ Current \in Item /\ Rest \in Seq(Item)
           /\ \A i \in DOMAIN worklist : worklist[i] = Current \/ \E j \in DOMAIN Rest : Rest[j] = worklist[i]
           /\ \A j \in DOMAIN Rest : \E i \in DOMAIN worklist : worklist[i] = Rest[j]
           /\ PushParents(l, r) \in Seq(Item)
           /\ \A j \in DOMAIN Rest : \E i \in DOMAIN PushParents(l, r) : PushParents(l, r)[i] = Rest[j]
           /\ \A m \in Parents(l) : \E i \in DOMAIN PushParents(l, r) :
                  PushParents(l, r)[i] = [label |-> m, after |-> r]
BY PushParentsIs

LEMMA SeedType ==
    ASSUME InputOK(input), NEW l \in DOMAIN input.errors
    PROVE  Relevant(SeedOf(input.errors[l]), {}) \in RelevantState
<1> DEFINE e == input.errors[l]
<1>1. /\ e.assertions \in Seq([reg : Registers \cup {None}, other : Registers \cup {None}])
      /\ e.failing \in 0 .. Len(e.assertions)
  BY DEF InputOK
<1>2. \A a \in ToSet(e.assertions) : AssertionRegisters(a) \subseteq Registers
  <2> DEFINE A == [reg : Registers \cup {None}, other : Registers \cup {None}]
             as == e.assertions
  <2>1. as \in Seq(A)
    BY <1>1
  <2> HIDE DEF A, as
  <2>2. \A a \in ToSet(as) : a \in A
    BY <2>1, ToSetType
  <2> QED BY <2>2 DEF AssertionRegisters, A, as
<1>3. e.failing > 0 => e.assertions[e.failing] \in ToSet(e.assertions)
  BY <1>1, SMTT(60) DEF ToSet
<1>4. SeedOf(e) \subseteq Registers
  BY <1>2, <1>3 DEF SeedOf
<1> QED BY <1>4 DEF Relevant, RelevantState

LEMMA TypeInvInit == Init => TypeInv
<1> SUFFICES ASSUME Init PROVE TypeInv
  OBVIOUS
<1>1. InputOK(input)
  BY InputsAssumption DEF Init
<1>2. 0 \in 0 .. input.max_steps
  BY <1>1 DEF InputOK
<1>3. <<>> \in RelevanceMap /\ <<>> \in Seq(Item) /\ <<>> \in Seq(Slice) /\ Nothing \in RelevantState
  BY EmptyMap DEF Nothing, Relevant, RelevantState
<1> QED BY <1>1, <1>2, <1>3, ItemsAssumption DEF Init, TypeInv

LEMMA TypeInvStep == TypeInv /\ [Next]_vars => TypeInv'
<1> SUFFICES ASSUME TypeInv, [Next]_vars PROVE TypeInv'
  BY SMTT(60)
<1>1. input' = input
  BY SMTT(60) DEF Next, Compute, SkipLabel, StartSlice, FinishScan, DropItem, ProcessItem, EndWork,
         ExpandJoins, StartWalk, Walk, Finished, vars
<1>2. InputOK(input) /\ InputOK(input)'
  BY <1>1 DEF TypeInv, InputOK
<1>3. CASE SkipLabel
  BY <1>1, <1>2, <1>3 DEF SkipLabel, TypeInv, search
<1>4. CASE StartSlice
  <2>1. FirstOf(todo) \in todo /\ target' \in Labels /\ target' \in DOMAIN input.errors
    BY <1>4, FirstOfIn DEF StartSlice, TypeInv, IsFailure
  <2>2. seed' \in RelevantState
    BY <1>4, <2>1, <1>2, SeedType DEF StartSlice
  <2>3. worklist' \in Seq(Item)
    BY <1>4, <2>1, <2>2 DEF StartSlice, Item
  <2>4. 0 \in 0 .. input.max_steps
    BY <1>2 DEF InputOK
  <2> QED BY <1>1, <1>2, <1>4, <2>1, <2>2, <2>3, <2>4, EmptyMap DEF StartSlice, TypeInv
<1>5. CASE FinishScan
  BY <1>1, <1>2, <1>5 DEF FinishScan, TypeInv, search
<1>6. CASE DropItem
  <2>1. Rest \in Seq(Item)
    BY <1>6 DEF DropItem, Busy, TypeInv, Rest, Front
  <2> QED BY <1>1, <1>2, <1>6, <2>1 DEF DropItem, TypeInv
<1>7. CASE ProcessItem
  <2> DEFINE l == Current.label
             after == Current.after
             before == RelevantBefore(l, after)
  <2>1. worklist # <<>> /\ steps < input.max_steps
    BY <1>7 DEF ProcessItem, Busy
  <2>2. l \in Labels /\ after \in RelevantState
    <3>1. Current \in Item
      BY <2>1 DEF Current, Last, TypeInv
    <3> QED BY <3>1 DEF Item
  <2> HIDE DEF l, after
  <2>3. before \in RelevantState
    BY <1>2, <2>2, RelevantBeforeType
  <2>4. MergeAt(visited, l, after) \in RelevanceMap /\ MergeAt(slice_labels, l, before) \in RelevanceMap
    BY <2>2, <2>3, MergeAtType DEF TypeInv
  <2>5. PushParents(l, before) \in Seq(Item)
    BY <2>1, <2>2, <2>3, PushParentsType
  <2>6. steps + 1 \in 0 .. input.max_steps
    BY <2>1, <1>2, SMTT(60) DEF TypeInv, InputOK
  <2> HIDE DEF before
  <2>7. /\ visited' = MergeAt(visited, l, after)
        /\ slice_labels' \in {MergeAt(slice_labels, l, before), slice_labels}
        /\ conservative_visited' \in {conservative_visited, conservative_visited \cup {l}}
        /\ worklist' = PushParents(l, before)
        /\ steps' = steps + 1
        /\ UNCHANGED <<input, todo, target, seed, slices, phase>>
    BY <1>7 DEF ProcessItem, l, after, before
  <2> QED BY <1>1, <1>2, <2>2, <2>4, <2>5, <2>6, <2>7 DEF TypeInv
<1>8. CASE EndWork
  BY <1>1, <1>2, <1>8 DEF EndWork, TypeInv, search
<1>9. CASE ExpandJoins
  <2>1. FinishedSlice \in Slice
    BY JoinExpansionType DEF FinishedSlice, Slice, TypeInv
  <2>2. slices' \in Seq(Slice)
    BY <1>9, <2>1 DEF ExpandJoins, TypeInv
  <2> QED BY <1>1, <1>2, <1>9, <2>2 DEF ExpandJoins, TypeInv, search
<1>10. CASE StartWalk \/ Walk \/ Finished \/ UNCHANGED vars
  BY <1>1, <1>2, <1>10 DEF StartWalk, Walk, Finished, vars, TypeInv, search
<1> QED BY <1>3, <1>4, <1>5, <1>6, <1>7, <1>8, <1>9, <1>10 DEF Next, Compute

-----------------------------------------------------------------------------
(***************************************************************************)
(* The worklist ends by itself.  Every step finds something new: an item   *)
(* that is relevant at a label, or a label a conservative walk visits.     *)
(***************************************************************************)
Progress ==
    {n \in Labels \X (Items \cup {None}) :
        \/ n[1] \in DOMAIN visited /\ n[2] \in ItemsOf(visited[n[1]])
        \/ n[1] \in conservative_visited /\ n[2] = None}

StepsInv == steps <= Cardinality(Progress)

LEMMA ProgressFinite ==
    /\ IsFiniteSet(Labels \X (Items \cup {None}))
    /\ Cardinality(Labels \X (Items \cup {None})) = Cardinality(Labels) * (Cardinality(Items) + 1)
    /\ IsFiniteSet(Progress)
    /\ Cardinality(Progress) \in Nat
    /\ Cardinality(Progress) <= Cardinality(Labels) * (Cardinality(Items) + 1)
<1>1. IsFiniteSet(Items) /\ None \notin Items
  BY ItemsAssumption, FS_Union DEF Items
<1>2. IsFiniteSet(Items \cup {None}) /\ Cardinality(Items \cup {None}) = Cardinality(Items) + 1
  BY <1>1, FS_AddElement
<1>3. /\ IsFiniteSet(Labels \X (Items \cup {None}))
      /\ Cardinality(Labels \X (Items \cup {None})) = Cardinality(Labels) * Cardinality(Items \cup {None})
  BY <1>2, ItemsAssumption, FS_Product
<1>4. Progress \in SUBSET (Labels \X (Items \cup {None}))
  BY DEF Progress
<1>5. /\ IsFiniteSet(Progress)
      /\ Cardinality(Progress) <= Cardinality(Labels \X (Items \cup {None}))
  BY <1>3, <1>4, FS_Subset
<1>6. Cardinality(Progress) \in Nat
  BY <1>5, FS_CardinalityType
<1> QED BY <1>2, <1>3, <1>5, <1>6

\* One turn of the worklist finds something.
LEMMA ProcessItemProgresses ==
    ASSUME TypeInv, TypeInv', ProcessItem
    PROVE  Cardinality(Progress') >= Cardinality(Progress) + 1
<1> DEFINE l == Current.label
           after == Current.after
<1>1. /\ visited' = MergeAt(visited, l, after)
      /\ conservative_visited' = IF Grows(l, after) THEN conservative_visited
                                 ELSE conservative_visited \cup {l}
      /\ ~ Stale(l, after) /\ worklist # <<>>
  BY DEF ProcessItem, Busy
<1>2. l \in Labels /\ after \in RelevantState /\ visited \in RelevanceMap
  <2>1. Current \in Item
    BY <1>1 DEF Current, Last, TypeInv
  <2> QED BY <2>1 DEF Item, TypeInv
<1> HIDE DEF l, after
<1>3. /\ DOMAIN visited' = DOMAIN visited \cup {l}
      /\ visited'[l] = Merge(At(visited, l), after)
      /\ \A m \in DOMAIN visited \ {l} : visited'[m] = visited[m]
  BY <1>1, <1>2, MergeAtType, ZenonT(60)
<1>4. At(visited, l) \in RelevantState
  BY <1>2, AtType
<1>5. ItemsOf(visited'[l]) = ItemsOf(At(visited, l)) \cup ItemsOf(after) /\ ItemsOf(after) \subseteq Items
  BY <1>2, <1>3, <1>4, RelevantType
<1>6. l \in DOMAIN visited => At(visited, l) = visited[l]
  BY DEF At
<1>7. l \notin DOMAIN visited => ItemsOf(At(visited, l)) = {}
  BY RelevantType, <1>2 DEF At
<1>8. \A m \in DOMAIN visited : m \in DOMAIN visited' /\ ItemsOf(visited[m]) \subseteq ItemsOf(visited'[m])
  BY <1>3, <1>5, <1>6
<1>9. Progress \subseteq Progress'
  BY <1>1, <1>8 DEF Progress
<1>10. \E n \in Progress' : n \notin Progress
  <2>1. CASE Grows(l, after)
    <3>1. ~ (ItemsOf(after) \subseteq ItemsOf(At(visited, l)))
      <4>1. SUFFICES ASSUME ItemsOf(after) \subseteq ItemsOf(At(visited, l)) PROVE FALSE
        OBVIOUS
      <4>2. Merge(At(visited, l), after) \in RelevantState
            /\ ItemsOf(Merge(At(visited, l), after)) = ItemsOf(At(visited, l))
        <5>1. Merge(At(visited, l), after) \in RelevantState
          BY <1>2, <1>4, RelevantType
        <5> QED BY <5>1, <1>3, <1>5, <4>1
      <4>3. Size(Merge(At(visited, l), after)) = Size(At(visited, l))
        BY <1>4, <4>2, SizeIsCardinality
      <4> QED BY <2>1, <4>3 DEF Grows
    <3>2. PICK x \in ItemsOf(after) : x \notin ItemsOf(At(visited, l))
      BY <3>1
    <3>3. x # None /\ x \in Items
      BY <3>2, <1>5, ItemsAssumption DEF Items
    <3>4. <<l, x>> \in Progress'
      BY <1>2, <1>3, <1>5, <3>2, <3>3 DEF Progress
    <3>5. <<l, x>> \notin Progress
      BY <1>6, <3>2, <3>3 DEF Progress
    <3> QED BY <3>4, <3>5
  <2>2. CASE ~ Grows(l, after)
    <3>1. l \notin conservative_visited
      BY <1>1, <2>2 DEF Stale
    <3>2. <<l, None>> \in Progress'
      BY <1>1, <1>2, <2>2 DEF Progress
    <3>3. <<l, None>> \notin Progress
      <4>1. l \in DOMAIN visited => None \notin ItemsOf(visited[l])
        BY <1>2, MapType, ItemsAssumption DEF ItemsOf, RelevantState
      <4> QED BY <3>1, <4>1 DEF Progress
    <3> QED BY <3>2, <3>3
  <2> QED BY <2>1, <2>2
<1>11. PICK n \in Progress' : n \notin Progress
  BY <1>10
<1>12. Cardinality(Progress \cup {n}) = Cardinality(Progress) + 1
  BY <1>11, ProgressFinite, FS_AddElement
<1>13. IsFiniteSet(Progress')
  <2>1. Progress' \in SUBSET (Labels \X (Items \cup {None}))
    BY DEF Progress
  <2> QED BY <2>1, ProgressFinite, FS_Subset
<1>14. Progress \cup {n} \in SUBSET Progress'
  BY <1>9, <1>11
<1> QED BY <1>12, <1>13, <1>14, FS_Subset, FS_CardinalityType, ProgressFinite

LEMMA StepsInvStep == TypeInv /\ TypeInv' /\ StepsInv /\ [Next]_vars => StepsInv'
<1> SUFFICES ASSUME TypeInv, TypeInv', StepsInv, [Next]_vars PROVE StepsInv'
  OBVIOUS
<1>1. CASE StartSlice
  <2>1. Progress' \in SUBSET (Labels \X (Items \cup {None}))
    BY DEF Progress
  <2>2. Cardinality(Progress') \in Nat
    BY <2>1, ProgressFinite, FS_Subset, FS_CardinalityType
  <2> QED BY <1>1, <2>2 DEF StartSlice, StepsInv
<1>2. CASE ProcessItem
  <2>1. steps' = steps + 1
    BY <1>2 DEF ProcessItem
  <2>2. Cardinality(Progress') >= Cardinality(Progress) + 1
    BY <1>2, ProcessItemProgresses
  <2>3. Cardinality(Progress) \in Nat /\ steps \in Nat /\ Cardinality(Progress') \in Nat
    <3>1. Progress' \in SUBSET (Labels \X (Items \cup {None}))
      BY DEF Progress
    <3> QED BY <3>1, ProgressFinite, FS_Subset, FS_CardinalityType, SMTT(60) DEF TypeInv
  <2> HIDE DEF Progress
  <2> QED BY <2>1, <2>2, <2>3 DEF StepsInv
<1>3. CASE SkipLabel \/ FinishScan \/ DropItem \/ EndWork \/ ExpandJoins \/ StartWalk \/ Walk
           \/ Finished \/ UNCHANGED vars
  <2>1. UNCHANGED <<visited, conservative_visited, steps>>
    BY <1>3 DEF SkipLabel, FinishScan, DropItem, EndWork, ExpandJoins, StartWalk, Walk, Finished,
                vars, search
  <2>2. Progress' = Progress
    BY <2>1 DEF Progress
  <2> QED BY <2>1, <2>2 DEF StepsInv
<1> QED BY <1>1, <1>2, <1>3 DEF Next, Compute

-----------------------------------------------------------------------------
(***************************************************************************)
(* The search.  An item is found at a label when it is in its relevance or *)
(* waits for the label on the worklist.  The seed is found at the target,  *)
(* what is relevant before a visited label is found at its parents, and a  *)
(* label that contributes is in the slice.                                 *)
(***************************************************************************)
Found(l, x) ==
    \/ x \in ItemsOf(At(visited, l))
    \/ \E i \in DOMAIN worklist : worklist[i].label = l /\ x \in ItemsOf(worklist[i].after)

Searching == phase \in {"slice", "expand"}

SearchInv ==
    Searching =>
        /\ \A x \in ItemsOf(seed) : Found(target, x)
        /\ \A l \in DOMAIN visited, m \in Labels : m \in Parents(l) =>
              \A x \in ItemsOf(RelevantBefore(l, visited[l])) : Found(m, x)
        /\ \A l \in DOMAIN visited : InSlice(l, visited[l]) => l \in DOMAIN slice_labels
        /\ target \in DOMAIN input.errors \ input.bottom
        /\ seed = Relevant(SeedOf(input.errors[target]), {})

LEMMA SearchInvStep == TypeInv /\ TypeInv' /\ SearchInv /\ [Next]_vars => SearchInv'
<1> SUFFICES ASSUME TypeInv, TypeInv', SearchInv, [Next]_vars PROVE SearchInv'
  OBVIOUS
<1> USE DEF Searching
<1>1. CASE StartSlice
  <2>1. DOMAIN visited' = {}
    BY <1>1, EmptyMap DEF StartSlice
  <2>2. worklist' = <<[label |-> target', after |-> seed']>>
    BY <1>1 DEF StartSlice
  <2>3. 1 \in DOMAIN worklist' /\ worklist'[1].label = target' /\ worklist'[1].after = seed'
    BY <2>2
  <2>4. \A x \in ItemsOf(seed') : Found(target, x)'
    BY <2>3 DEF Found, ItemsOf
  <2>5. input' = input /\ seed' = Relevant(SeedOf(input.errors[target']), {})
        /\ target' \in DOMAIN input.errors \ input.bottom
    BY <1>1 DEF StartSlice, IsFailure
  <2>6. (seed = Relevant(SeedOf(input.errors[target]), {}))'
    BY <2>5 DEF SeedOf
  <2> QED BY <2>1, <2>4, <2>5, <2>6 DEF SearchInv, ItemsOf
<1>2. CASE DropItem
  <2>1. /\ Searching /\ worklist # <<>> /\ worklist' = Rest
        /\ UNCHANGED <<input, target, seed, visited, slice_labels, phase>>
        /\ Irrelevant(Current.label, Current.after) \/ Stale(Current.label, Current.after)
    BY <1>2 DEF DropItem, Busy
  <2>2. /\ Current \in Item
        /\ \A i \in DOMAIN worklist : worklist[i] = Current \/ \E j \in DOMAIN Rest : Rest[j] = worklist[i]
    BY <2>1, PushParentsType, ItemsAssumption, RelevantType, SMTT(60) DEF TypeInv
  <2>3. ItemsOf(Current.after) \subseteq ItemsOf(At(visited, Current.label))
    <3>1. CASE Irrelevant(Current.label, Current.after)
      BY <3>1 DEF Irrelevant, Nothing, Relevant, ItemsOf
    <3>2. CASE Stale(Current.label, Current.after)
      <4>1. Size(Merge(At(visited, Current.label), Current.after)) = Size(At(visited, Current.label))
        BY <3>2 DEF Stale, Grows
      <4>2. At(visited, Current.label) \in RelevantState /\ Current.after \in RelevantState
        BY <2>2, AtType DEF TypeInv, Item
      <4> QED BY <4>1, <4>2, SameSizeSameItems
    <3> QED BY <2>1, <3>1, <3>2
  <2>4. \A l, x : Found(l, x) => Found(l, x)'
    <3> SUFFICES ASSUME NEW l, NEW x, Found(l, x) PROVE Found(l, x)'
      OBVIOUS
    <3>1. CASE x \in ItemsOf(At(visited, l))
      BY <2>1, <3>1 DEF Found, At
    <3>2. ASSUME NEW i \in DOMAIN worklist, worklist[i].label = l, x \in ItemsOf(worklist[i].after)
          PROVE  Found(l, x)'
      <4>1. CASE worklist[i] = Current
        BY <2>1, <2>3, <3>2, <4>1 DEF Found, At
      <4>2. ASSUME NEW j \in DOMAIN Rest, Rest[j] = worklist[i]
            PROVE  Found(l, x)'
        BY <2>1, <3>2, <4>2, SMTT(60) DEF Found
      <4> QED BY <2>2, <4>1, <4>2
    <3> QED BY <3>1, <3>2 DEF Found
  <2>5. \A l \in DOMAIN visited : /\ RelevantBefore(l, visited[l])' = RelevantBefore(l, visited[l])
                                  /\ InSlice(l, visited[l])' = InSlice(l, visited[l])
    BY <2>1 DEF RelevantBefore, InSlice, Contributes, Conservative, Parents
  <2>6. \A l : Parents(l)' = Parents(l)
    BY <2>1 DEF Parents
  <2>7. (seed = Relevant(SeedOf(input.errors[target]), {}))'
    BY <2>1 DEF SearchInv, SeedOf
  <2> QED BY <2>1, <2>4, <2>5, <2>6, <2>7 DEF SearchInv
<1>3. CASE ProcessItem
  <2> DEFINE cur == Current.label
             after == Current.after
             before == RelevantBefore(cur, after)
  <2>1. /\ Searching /\ worklist # <<>> /\ worklist' = PushParents(cur, before)
        /\ UNCHANGED <<input, target, seed, phase>>
        /\ visited' = MergeAt(visited, cur, after)
        /\ slice_labels' = IF InSlice(cur, after) THEN MergeAt(slice_labels, cur, before) ELSE slice_labels
    BY <1>3 DEF ProcessItem, Busy
  <2>2. /\ Current \in Item
        /\ \A i \in DOMAIN worklist : worklist[i] = Current \/ \E j \in DOMAIN Rest : Rest[j] = worklist[i]
    BY <2>1, PushParentsType, ItemsAssumption, RelevantType, SMTT(60) DEF TypeInv
  <2>3. cur \in Labels /\ after \in RelevantState
    BY <2>2 DEF Item
  <2> HIDE DEF cur, after
  <2>4. before \in RelevantState
    BY <2>3, RelevantBeforeType DEF TypeInv
  <2> HIDE DEF before
  <2>5. /\ \A j \in DOMAIN Rest : \E i \in DOMAIN worklist' : worklist'[i] = Rest[j]
        /\ \A m \in Parents(cur) : \E i \in DOMAIN worklist' :
              worklist'[i] = [label |-> m, after |-> before]
    BY <2>1, <2>3, <2>4, PushParentsType
  <2>6. /\ DOMAIN visited' = DOMAIN visited \cup {cur}
        /\ visited'[cur] = Merge(At(visited, cur), after)
        /\ \A m \in DOMAIN visited \ {cur} : visited'[m] = visited[m]
        /\ DOMAIN slice_labels \subseteq DOMAIN slice_labels'
        /\ InSlice(cur, after) => cur \in DOMAIN slice_labels'
    <3>1. visited \in RelevanceMap /\ slice_labels \in RelevanceMap
      BY DEF TypeInv
    <3>2. /\ DOMAIN visited' = DOMAIN visited \cup {cur}
          /\ visited'[cur] = Merge(At(visited, cur), after)
          /\ \A m \in DOMAIN visited \ {cur} : visited'[m] = visited[m]
      BY <3>1, <2>1, <2>3, MergeAtType, ZenonT(60)
    <3>3. DOMAIN MergeAt(slice_labels, cur, before) = DOMAIN slice_labels \cup {cur}
      BY <3>1, <2>3, <2>4, MergeAtType
    <3> QED BY <3>2, <3>3, <2>1
  <2>7. ItemsOf(visited'[cur]) = ItemsOf(At(visited, cur)) \cup ItemsOf(after)
    BY <2>3, <2>6, AtType, RelevantType DEF TypeInv
  <2>8. \A l, x : x \in ItemsOf(At(visited, l)) => x \in ItemsOf(At(visited', l))
    BY <2>6, <2>7 DEF At, Nothing, Relevant, ItemsOf
  <2>9. \A l, x : Found(l, x) => Found(l, x)'
    <3> SUFFICES ASSUME NEW l, NEW x, Found(l, x) PROVE Found(l, x)'
      OBVIOUS
    <3>1. CASE x \in ItemsOf(At(visited, l))
      BY <2>8, <3>1 DEF Found
    <3>2. ASSUME NEW i \in DOMAIN worklist, worklist[i].label = l, x \in ItemsOf(worklist[i].after)
          PROVE  Found(l, x)'
      <4>1. CASE worklist[i] = Current
        <5>1. l = cur /\ x \in ItemsOf(after)
          BY <3>2, <4>1 DEF cur, after
        <5>2. x \in ItemsOf(At(visited', l))
          BY <5>1, <2>6, <2>7 DEF At
        <5> QED BY <5>2 DEF Found
      <4>2. ASSUME NEW j \in DOMAIN Rest, Rest[j] = worklist[i]
            PROVE  Found(l, x)'
        BY <2>5, <3>2, <4>2 DEF Found
      <4> QED BY <2>2, <4>1, <4>2
    <3> QED BY <3>1, <3>2 DEF Found
  <2>10. \A l : Parents(l)' = Parents(l)
    BY <2>1 DEF Parents
  <2>11. \A l, r : /\ RelevantBefore(l, r)' = RelevantBefore(l, r')
                   /\ InSlice(l, r)' <=> InSlice(l, r')
    BY <2>1 DEF RelevantBefore, InSlice, Contributes, Conservative, Parents
  <2>12. ASSUME NEW m \in Labels, m \in Parents(cur), NEW x \in ItemsOf(before)
         PROVE  Found(m, x)'
    <3>1. PICK i \in DOMAIN worklist' : worklist'[i] = [label |-> m, after |-> before]
      BY <2>5, <2>12
    <3> QED BY <3>1, <2>12 DEF Found
  <2>13. /\ ItemsOf(RelevantBefore(cur, visited'[cur])) \subseteq
                 ItemsOf(before) \cup (IF cur \in DOMAIN visited
                                      THEN ItemsOf(RelevantBefore(cur, visited[cur])) ELSE {})
         /\ InSlice(cur, visited'[cur]) =>
                (InSlice(cur, after) \/ (cur \in DOMAIN visited /\ InSlice(cur, visited[cur])))
    <3>1. CASE cur \in DOMAIN visited
      <4>1. At(visited, cur) = visited[cur] /\ visited[cur] \in RelevantState
        BY <3>1, MapType DEF At, TypeInv
      <4>2. visited'[cur] = Merge(visited[cur], after)
        BY <4>1, <2>6
      <4> QED BY <3>1, <4>1, <4>2, <2>3, RelevanceDistributes DEF before
    <3>2. CASE cur \notin DOMAIN visited
      <4>1. visited'[cur] = after
        BY <3>2, <2>3, <2>6, RelevantType DEF At
      <4> QED BY <3>2, <4>1 DEF before
    <3> QED BY <3>1, <3>2
  <2>14. ASSUME NEW l \in DOMAIN visited', NEW m \in Labels, m \in Parents(l),
                NEW x \in ItemsOf(RelevantBefore(l, visited'[l]))
         PROVE  Found(m, x)'
    <3>1. CASE l = cur
      BY <3>1, <2>1, <2>9, <2>12, <2>13, <2>14 DEF SearchInv
    <3>2. CASE l # cur
      BY <3>2, <2>1, <2>6, <2>9, <2>14 DEF SearchInv
    <3> QED BY <3>1, <3>2
  <2>15. ASSUME NEW l \in DOMAIN visited', InSlice(l, visited'[l])
         PROVE  l \in DOMAIN slice_labels'
    BY <2>1, <2>6, <2>13, <2>15 DEF SearchInv
  <2>16. \A x \in ItemsOf(seed') : Found(target, x)'
    BY <2>1, <2>9 DEF SearchInv, Found
  <2>17. (seed = Relevant(SeedOf(input.errors[target]), {}))' /\ (target \in DOMAIN input.errors \ input.bottom)'
    BY <2>1 DEF SearchInv, SeedOf
  <2>18. \A l \in DOMAIN visited' : /\ RelevantBefore(l, visited[l])' = RelevantBefore(l, visited'[l])
                                    /\ InSlice(l, visited[l])' <=> InSlice(l, visited'[l])
    BY <2>1 DEF RelevantBefore, InSlice, Contributes, Conservative, Parents
  <2> QED BY <2>10, <2>14, <2>15, <2>16, <2>17, <2>18 DEF SearchInv, ItemsOf
<1>4. CASE EndWork
  <2>1. phase = "slice" /\ UNCHANGED <<input, search>>
    BY <1>4 DEF EndWork
  <2>2. \A l, x : Found(l, x)' <=> Found(l, x)
    BY <2>1 DEF search, Found, At
  <2>3. \A l \in DOMAIN visited : /\ RelevantBefore(l, visited[l])' = RelevantBefore(l, visited[l])
                                  /\ InSlice(l, visited[l])' <=> InSlice(l, visited[l])
    BY <2>1 DEF search, RelevantBefore, InSlice, Contributes, Conservative, Parents
  <2>4. \A l : Parents(l)' = Parents(l)
    BY <2>1 DEF Parents
  <2>5. UNCHANGED <<input, target, seed, visited, slice_labels>> /\ (Searching' => Searching)
    BY <2>1 DEF search
  <2>6. SearchInv => (seed = Relevant(SeedOf(input.errors[target]), {}))' \/ ~ Searching
    BY <2>5 DEF SearchInv, SeedOf
  <2>7. \A x \in ItemsOf(seed') : Found(target, x)' <=> Found(target, x)
    BY <2>1 DEF search, Found, At
  <2> QED BY <2>2, <2>3, <2>4, <2>5, <2>6, <2>7 DEF SearchInv
<1>5. CASE SkipLabel \/ FinishScan \/ ExpandJoins
  BY <1>5 DEF SkipLabel, FinishScan, ExpandJoins, SearchInv
<1>6. CASE StartWalk \/ Walk \/ Finished \/ UNCHANGED vars
  <2>1. UNCHANGED <<input, search, phase>>
    BY <1>6 DEF StartWalk, Walk, Finished, vars
  <2>2. \A l, x : Found(l, x)' <=> Found(l, x)
    BY <2>1 DEF search, Found, At
  <2>3. \A l \in DOMAIN visited : /\ RelevantBefore(l, visited[l])' = RelevantBefore(l, visited[l])
                                  /\ InSlice(l, visited[l])' <=> InSlice(l, visited[l])
    BY <2>1 DEF search, RelevantBefore, InSlice, Contributes, Conservative, Parents
  <2>4. \A l : Parents(l)' = Parents(l)
    BY <2>1 DEF Parents
  <2>5. UNCHANGED <<input, target, seed, visited, slice_labels>> /\ (Searching' => Searching)
    BY <2>1 DEF search
  <2>6. SearchInv => (seed = Relevant(SeedOf(input.errors[target]), {}))' \/ ~ Searching
    BY <2>5 DEF SearchInv, SeedOf
  <2>7. \A x \in ItemsOf(seed') : Found(target, x)' <=> Found(target, x)
    BY <2>1 DEF search, Found, At
  <2> QED BY <2>2, <2>3, <2>4, <2>5, <2>6, <2>7 DEF SearchInv
<1> QED BY <1>1, <1>2, <1>3, <1>4, <1>5, <1>6 DEF Next, Compute

-----------------------------------------------------------------------------
(***************************************************************************)
(* What a finished slice is.  V has what is relevant after each label and  *)
(* B what is relevant before it: the seed is relevant before the failing   *)
(* label, what is relevant before a label is so after its parents, and a   *)
(* value relevant after a label is written by it, then the label is in the *)
(* slice and all that its instruction uses is relevant before it, or lost  *)
(* there, or relevant before it.                                           *)
(***************************************************************************)
Explains(s, V, B) ==
    /\ ItemsOf(s.seed) \subseteq B[s.failing_label]
    /\ \A m \in Labels, l \in Labels : <<m, l>> \in input.edges => B[l] \subseteq V[m]
    /\ \A l \in input.collected : \A x \in V[l] :
          /\ x \in ItemsWrote(input.ins[l]) =>
                l \in DOMAIN s.relevance /\ ItemsUsed(input.ins[l]) \ {None} \subseteq B[l]
          /\ x \notin ItemsWrote(input.ins[l]) \cup Lost(input.ins[l]) => x \in B[l]

Explained(s) == \E V, B \in [Labels -> SUBSET Items] : Explains(s, V, B)

SlicesExplained ==
    NoLocalCalls => \A i \in DOMAIN slices : ~ slices[i].cut => Explained(slices[i])

\* A search that ended with an empty worklist explains the slice it finishes.
LEMMA FinishedSliceExplained ==
    ASSUME TypeInv, SearchInv, Searching, NoLocalCalls, worklist = <<>>
    PROVE  Explained(FinishedSlice)
<1> DEFINE V == [l \in Labels |-> ItemsOf(At(visited, l))]
           B == [l \in Labels |-> IF l \in DOMAIN visited
                                  THEN ItemsOf(RelevantBefore(l, visited[l])) ELSE {}]
           s == FinishedSlice
<1>1. visited \in RelevanceMap /\ InputOK(input) /\ target \in Labels
  BY DEF TypeInv
<1>2. ASSUME NEW l \in DOMAIN visited
      PROVE  l \in Labels /\ visited[l] \in RelevantState /\ At(visited, l) = visited[l]
             /\ RelevantBefore(l, visited[l]) \in RelevantState
  BY <1>1, MapType, RelevantBeforeType DEF At
<1>3. V \in [Labels -> SUBSET Items]
  BY <1>1, AtType, RelevantType
<1>4. B \in [Labels -> SUBSET Items]
  BY <1>2, RelevantType
<1>5. \A l, x : Found(l, x) => x \in ItemsOf(At(visited, l))
  BY DEF Found
<1>6. s.seed = seed /\ s.failing_label = target /\ s.relevance = JoinExpansion
  BY DEF FinishedSlice
<1>7. ASSUME NEW x \in ItemsOf(seed)
      PROVE  x \in B[target]
  <2> DEFINE d == ExtractDeps(input.ins[target])
             a == visited[target]
             e == input.errors[target]
  <2>1. x \in ItemsOf(At(visited, target))
    BY <1>5, <1>7 DEF SearchInv
  <2>2. target \in DOMAIN visited
    BY <2>1 DEF At, Nothing, Relevant, ItemsOf
  <2>3. a \in RelevantState /\ x \in ItemsOf(a)
    BY <1>2, <2>1, <2>2
  <2>4. target \in DOMAIN input.errors \ input.bottom /\ x \in SeedOf(e)
    BY <1>7 DEF SearchInv, Relevant, ItemsOf
  <2>5. /\ e.assertions \in Seq([reg : Registers \cup {None}, other : Registers \cup {None}])
        /\ e.failing \in 0 .. Len(e.assertions)
        /\ \A b \in ToSet(e.assertions) : AssertedBefore(input.ins[target], b)
    BY <1>1, <2>4 DEF InputOK
  <2>6. e.failing > 0 => e.assertions[e.failing] \in ToSet(e.assertions)
    BY <2>5 DEF ToSet
  <2>7. PICK b \in ToSet(e.assertions) : x \in AssertionRegisters(b)
    BY <2>4, <2>6 DEF SeedOf
  <2>8. AssertionRegisters(b) \cap (d.regs_written \cup d.regs_clobbered) \subseteq d.regs_read
    BY <2>5 DEF AssertedBefore
  <2>9. x \in d.regs_written \cup d.regs_clobbered => x \in d.regs_read
    BY <2>7, <2>8
  <2>10. x \in Registers
    BY <1>1, <2>4, SeedType DEF Relevant, RelevantState
  <2>11. x \in a.registers
    BY <2>3, <2>10, ItemsAssumption DEF ItemsOf, RelevantState
  <2>12. Contributes(target, a)
    BY DEF Contributes
  <2> HIDE DEF a, d
  <2>13. x \in ItemsOf(RelevantBefore(target, a))
    BY <2>9, <2>11, <2>12 DEF RelevantBefore, Relevant, ItemsOf, d
  <2> QED BY <1>1, <2>2, <2>13 DEF a
<1>8. ASSUME NEW m \in Labels, NEW l \in Labels, <<m, l>> \in input.edges
      PROVE  B[l] \subseteq V[m]
  <2> SUFFICES ASSUME NEW x \in B[l] PROVE x \in V[m]
    OBVIOUS
  <2>1. l \in DOMAIN visited /\ x \in ItemsOf(RelevantBefore(l, visited[l]))
    OBVIOUS
  <2>2. m \in Parents(l)
    BY <1>8 DEF Parents
  <2> QED BY <1>5, <2>1, <2>2 DEF SearchInv
<1>9. ASSUME NEW l \in input.collected, NEW x \in V[l]
      PROVE  /\ x \in ItemsWrote(input.ins[l]) =>
                   l \in DOMAIN s.relevance /\ ItemsUsed(input.ins[l]) \ {None} \subseteq B[l]
             /\ x \notin ItemsWrote(input.ins[l]) \cup Lost(input.ins[l]) => x \in B[l]
  <2>1. l \in Labels
    BY <1>1 DEF InputOK
  <2>2. l \in DOMAIN visited
    BY <1>9, <2>1 DEF At, Nothing, Relevant, ItemsOf
  <2>3. visited[l] \in RelevantState /\ x \in ItemsOf(visited[l]) /\ B[l] = ItemsOf(RelevantBefore(l, visited[l]))
    BY <1>2, <1>9, <2>1, <2>2
  <2>4. input.ins[l].op \notin {"call_local", "return"}
    BY <2>1 DEF NoLocalCalls
  <2>5. /\ x \in ItemsWrote(input.ins[l]) => InSlice(l, visited[l]) /\ ItemsUsed(input.ins[l]) \ {None} \subseteq B[l]
        /\ x \notin ItemsWrote(input.ins[l]) \cup Lost(input.ins[l]) => x \in B[l]
    <3> HIDE DEF B
    <3> DEFINE a == visited[l]
    <3>1. a \in RelevantState /\ x \in ItemsOf(a) /\ B[l] = ItemsOf(RelevantBefore(l, a))
      BY <2>3
    <3> HIDE DEF a
    <3>2. LET i == input.ins[l]
          IN  /\ x \in ItemsWrote(i) => /\ InSlice(l, a)
                                  /\ ItemsUsed(i) \ {None} \subseteq ItemsOf(RelevantBefore(l, a))
              /\ x \notin ItemsWrote(i) \cup Lost(i) => x \in ItemsOf(RelevantBefore(l, a))
      BY <1>1, <2>4, <3>1, RelevanceExplains
    <3> QED BY <3>1, <3>2 DEF a
  <2>6. InSlice(l, visited[l]) => l \in DOMAIN s.relevance
    BY <1>6, <2>2, JoinExpansionType DEF SearchInv
  <2> QED BY <2>5, <2>6
<1> HIDE DEF V, B, s
<1>10. Explains(s, V, B)
  BY <1>6, <1>7, <1>8, <1>9 DEF Explains
<1> QED BY <1>3, <1>4, <1>10 DEF Explained, s

LEMMA ExplainedUnchanged ==
    ASSUME UNCHANGED <<input, slices>>, SlicesExplained
    PROVE  SlicesExplained'
<1>1. NoLocalCalls' <=> NoLocalCalls
  BY DEF NoLocalCalls
<1>2. ASSUME NEW i \in DOMAIN slices', NoLocalCalls, ~ slices'[i].cut
      PROVE  Explained(slices[i])'
  <2>1. PICK V \in [Labels -> SUBSET Items], B \in [Labels -> SUBSET Items] : Explains(slices[i], V, B)
    BY <1>2 DEF SlicesExplained, Explained
  <2>2. Explains(slices[i], V, B)'
    BY <2>1 DEF Explains
  <2> QED BY <2>2 DEF Explained
<1> QED BY <1>1, <1>2 DEF SlicesExplained

LEMMA SlicesExplainedStep ==
    TypeInv /\ TypeInv' /\ SearchInv /\ SlicesExplained /\ [Next]_vars => SlicesExplained'
<1> SUFFICES ASSUME TypeInv, TypeInv', SearchInv, SlicesExplained, [Next]_vars PROVE SlicesExplained'
  OBVIOUS
<1>1. CASE ExpandJoins
  <2>1. slices' = Append(slices, FinishedSlice) /\ input' = input /\ Searching
    BY <1>1 DEF ExpandJoins, Searching
  <2>2. NoLocalCalls' <=> NoLocalCalls
    BY <2>1 DEF NoLocalCalls
  <2>4. NoLocalCalls /\ ~ FinishedSlice.cut => Explained(FinishedSlice)
    BY <2>1, FinishedSliceExplained DEF FinishedSlice
  <2>5. slices \in Seq(Slice)
    BY DEF TypeInv
  <2>6. ASSUME NEW i \in DOMAIN slices'
        PROVE  slices'[i] = FinishedSlice \/ (i \in DOMAIN slices /\ slices'[i] = slices[i])
    BY <2>1, <2>5, <2>6
  <2>7. \A i \in DOMAIN slices' : NoLocalCalls /\ ~ slices'[i].cut => Explained(slices'[i])
    BY <2>4, <2>6 DEF SlicesExplained
  <2>8. ASSUME NEW i \in DOMAIN slices', NoLocalCalls, ~ slices'[i].cut
        PROVE  Explained(slices[i])'
    <3>1. Explained(slices'[i])
      BY <2>7, <2>8
    <3>2. PICK V \in [Labels -> SUBSET Items], B \in [Labels -> SUBSET Items] : Explains(slices'[i], V, B)
      BY <3>1 DEF Explained
    <3>3. Explains(slices[i], V, B)'
      BY <2>1, <3>2, SMTT(60) DEF Explains
    <3> QED BY <3>3 DEF Explained
  <2> QED BY <2>2, <2>8 DEF SlicesExplained
<1>2. CASE ~ ExpandJoins
  <2>1. UNCHANGED <<input, slices>>
    BY <1>2 DEF Next, Compute, SkipLabel, StartSlice, FinishScan, DropItem, ProcessItem, EndWork,
                StartWalk, Walk, Finished, vars
  <2> QED BY <2>1, ExplainedUnchanged
<1> QED BY <1>1, <1>2

(***************************************************************************)
(* Items and cells.  The cells of a register are itself, the ones of a     *)
(* slot are the bytes of the accesses that start there.                    *)
(***************************************************************************)
CellsOf(x) ==
    IF x \in Registers THEN {x}
    ELSE UNION {Bytes(input.ins[l]) : l \in {m \in Labels : input.ins[m].slot = x}}

\* What the walk does at an instruction is about cells.
LEMMA EffectTypes ==
    ASSUME InputOK(input), NEW l \in Labels
    PROVE  LET i == input.ins[l]
           IN  /\ i \in InsType /\ Bytes(i) \subseteq StackBytes
               /\ Wrote(i) \subseteq Cells \cup {None}
               /\ Used(i) \subseteq Cells \cup {None}
               /\ Lost(i) \subseteq Registers
<1> DEFINE i == input.ins[l]
<1>1. i \in InsType /\ Bytes(i) \subseteq StackBytes
  BY SMTT(60) DEF InputOK, InsType
<1> HIDE DEF i
<1> QED BY <1>1, ItemsAssumption, SMTT(60) DEF i, Wrote, Used, Lost, Cells, InsType

\* Accesses to the same slot have the same bytes, to different ones no byte in
\* common.
LEMMA SlotBytes ==
    ASSUME InputOK(input), SlotsApart, NEW l \in Labels, NEW x \in Slots
    PROVE  LET i == input.ins[l]
           IN  /\ x = i.slot => CellsOf(x) = Bytes(i)
               /\ x # i.slot => CellsOf(x) \cap Bytes(i) = {}
<1> DEFINE i == input.ins[l]
<1>1. \A m \in Labels : input.ins[m] \in InsType
  BY SMTT(60) DEF InputOK, InsType
<1>2. x \notin Registers /\ x \in Int /\ x # None
  BY ItemsAssumption
<1>3. ASSUME NEW m \in Labels, input.ins[m].slot = x, x = i.slot
      PROVE  Bytes(input.ins[m]) = Bytes(i)
  <2> DEFINE j == input.ins[m]
  <2>1. <<j.slot, j.width>> = <<i.slot, i.width>> \/ Bytes(j) \cap Bytes(i) = {}
    BY DEF SlotsApart
  <2>2. i.width \in Widths /\ j.width \in Widths
    BY <1>1 DEF InsType
  <2>3. x \in Bytes(i) /\ x \in Bytes(j)
    BY <1>2, <1>3, <2>2 DEF Bytes, Widths
  <2> QED BY <2>1, <2>3 DEF Bytes
<1>4. ASSUME NEW m \in Labels, input.ins[m].slot = x, x # i.slot
      PROVE  Bytes(input.ins[m]) \cap Bytes(i) = {}
  BY <1>4 DEF SlotsApart
<1>5. CellsOf(x) = UNION {Bytes(input.ins[m]) : m \in {n \in Labels : input.ins[n].slot = x}}
  BY <1>2 DEF CellsOf
<1> QED BY <1>3, <1>4, <1>5

\* Without CMPXCHG an instruction writes the cells of the items it writes.
LEMMA CellsWritten ==
    ASSUME InputOK(input), NoExchange, SlotsApart, NEW l \in Labels, NEW x \in Items, NEW c \in CellsOf(x)
    PROVE  LET i == input.ins[l]
           IN  /\ c \in Cells
               /\ c \in Wrote(i) <=> x \in ItemsWrote(i)
               /\ x \in Lost(i) => c \in Lost(i)
<1> DEFINE i == input.ins[l]
<1>1. /\ i \in InsType /\ Bytes(i) \subseteq StackBytes /\ Lost(i) \subseteq Registers
      /\ i.op # "cmpxchg"
  BY EffectTypes DEF NoExchange
<1>2. CASE x \in Registers
  <2>1. c = x
    BY <1>2 DEF CellsOf
  <2>2. x \notin Slots /\ x \notin Bytes(i) /\ x # None
    BY <1>1, <1>2, ItemsAssumption
  <2> HIDE DEF i
  <2>3. x \in Wrote(i) <=> x \in ItemsWrote(i)
    BY <1>1, <2>2, SMTT(60) DEF Wrote, ItemsWrote, InsType
  <2> QED BY <1>2, <2>1, <2>3 DEF Cells, i
<1>3. CASE x \in Slots
  <2>1. x \notin Registers /\ x # None
    BY <1>3, ItemsAssumption
  <2>2. PICK m \in Labels : c \in Bytes(input.ins[m])
    BY <2>1 DEF CellsOf
  <2>3. c \in StackBytes /\ c \notin Registers
    BY <2>2, EffectTypes, ItemsAssumption
  <2>4. c \in Bytes(i) <=> x = i.slot
    BY <1>3, SlotBytes
  <2>5. x \notin Lost(i) /\ 0 \in Registers
    BY <1>1, <2>1, ItemsAssumption
  <2> HIDE DEF i
  <2>6. c # None
    BY <2>3, ItemsAssumption
  <2>7. c \in Wrote(i) <=> x \in ItemsWrote(i)
    BY <1>1, <2>1, <2>3, <2>4, <2>5, <2>6, SMTT(60) DEF Wrote, ItemsWrote, InsType
  <2> QED BY <2>3, <2>5, <2>7 DEF Cells, i
<1> QED BY <1>2, <1>3 DEF Items

\* Without CMPXCHG an instruction uses cells of items it uses.
LEMMA CellsUsed ==
    ASSUME InputOK(input), NoExchange, SlotsApart, NEW l \in Labels,
           NEW c \in Used(input.ins[l]) \ {None}
    PROVE  \E x \in ItemsUsed(input.ins[l]) \ {None} : c \in CellsOf(x)
<1> DEFINE i == input.ins[l]
<1>1. /\ i \in InsType /\ Bytes(i) \subseteq StackBytes
      /\ i.op # "cmpxchg" /\ Registers \cap StackBytes = {}
  BY EffectTypes, ItemsAssumption, SMTT(60) DEF NoExchange
<1>2. c \in Registers \/ c \in Bytes(i)
  <2> HIDE DEF i
  <2>1. c \in Used(i) \ {None}
    BY DEF i
  <2> QED BY <1>1, <2>1, ItemsAssumption, SMTT(60) DEF Used, InsType
<1>3. CASE c \in Registers
  <2>1. c \notin Bytes(i)
    BY <1>1, <1>3, SMTT(60)
  <2>2. c \in ItemsUsed(i)
    BY <1>1, <2>1, SMTT(60) DEF Used, ItemsUsed
  <2>3. c \in CellsOf(c)
    BY <1>3 DEF CellsOf
  <2> QED BY <2>2, <2>3
<1>4. CASE c \in Bytes(i)
  <2>1. i.slot \in Slots
    BY <1>1, <1>4 DEF Bytes, InsType
  <2>2. c \in CellsOf(i.slot)
    BY <1>4, <2>1, SlotBytes
  <2>3. c \notin Registers
    BY <1>1, <1>4, SMTT(60)
  <2>4. i.slot \in ItemsUsed(i)
    <3> HIDE DEF i
    <3>1. c \in Used(i) \ {None}
      BY DEF i
    <3> QED BY <1>1, <2>3, <3>1, ItemsAssumption, SMTT(60) DEF Used, ItemsUsed, InsType
  <2>5. i.slot # None
    BY <2>1, ItemsAssumption
  <2> QED BY <2>2, <2>4, <2>5
<1> QED BY <1>2, <1>3, <1>4

(***************************************************************************)
(* The walk.  What is relevant before the label the walk is at comes from  *)
(* labels of the slice, cell by cell.                                      *)
(***************************************************************************)
WalkInv ==
    walk # NotWalking =>
        /\ phase = "done" /\ NoLocalCalls
        /\ walk.at \in Labels /\ walk.from \in [Cells -> SUBSET Labels]
        /\ NoExchange /\ SlotsApart => \A i \in DOMAIN slices : ~ slices[i].cut =>
              \A V, B \in [Labels -> SUBSET Items] : Explains(slices[i], V, B) =>
                  \A x \in B[walk.at] : \A c \in CellsOf(x) :
                      walk.from[c] \subseteq DOMAIN slices[i].relevance

\* What the invariant says of the slices does not depend on the walk.
LEMMA SlicesStay ==
    ASSUME UNCHANGED <<input, slices>>
    PROVE  /\ NoExchange' <=> NoExchange
           /\ SlotsApart' <=> SlotsApart
           /\ \A x \in Items : CellsOf(x)' = CellsOf(x)
           /\ \A i \in DOMAIN slices, V, B \in [Labels -> SUBSET Items] :
                 Explains(slices[i], V, B)' <=> Explains(slices[i], V, B)
<1>1. NoExchange' <=> NoExchange
  BY DEF NoExchange
<1>2. \A l \in Labels : Bytes(input.ins[l])' = Bytes(input.ins[l])
  BY DEF Bytes
<1>3. SlotsApart' <=> SlotsApart
  BY <1>2 DEF SlotsApart
<1>4. ASSUME NEW x \in Items
      PROVE  CellsOf(x)' = CellsOf(x)
  BY <1>2 DEF CellsOf
<1>5. ASSUME NEW i \in DOMAIN slices, NEW V \in [Labels -> SUBSET Items], NEW B \in [Labels -> SUBSET Items]
      PROVE  Explains(slices[i], V, B)' <=> Explains(slices[i], V, B)
  BY SMTT(60) DEF Explains
<1> QED BY <1>1, <1>3, <1>4, <1>5

LEMMA WalkInvStep == TypeInv /\ WalkInv /\ [Next]_vars => WalkInv'
<1> SUFFICES ASSUME TypeInv, WalkInv, [Next]_vars PROVE WalkInv'
  OBVIOUS
<1>1. CASE StartWalk
  <2>1. /\ phase' = "done" /\ UNCHANGED <<input, slices>> /\ NoLocalCalls
        /\ walk'.at = Entry /\ walk'.from = [x \in Cells |-> {}]
    BY <1>1 DEF StartWalk
  <2>2. NoLocalCalls'
    BY <2>1 DEF NoLocalCalls
  <2>3. walk'.at \in Labels /\ walk'.from \in [Cells -> SUBSET Labels]
    BY <2>1, ItemsAssumption
  <2>4. ASSUME NoExchange, SlotsApart, NEW x \in Items, NEW c \in CellsOf(x)
        PROVE  walk'.from[c] = {}
    <3>1. c \in Cells
      BY <2>4, ItemsAssumption, CellsWritten DEF TypeInv
    <3> QED BY <2>1, <3>1
  <2>5. walk'.at \in Labels
    BY <2>3
  <2>6. ASSUME NoExchange', SlotsApart', NEW B \in [Labels -> SUBSET Items],
               NEW x \in B[walk'.at], NEW c \in CellsOf(x)'
        PROVE  walk'.from[c] = {}
    <3>1. x \in Items
      BY <2>5, <2>6
    <3> QED BY <2>1, <2>4, <2>6, <3>1, SlicesStay, SMTT(60)
  <2> QED BY <2>1, <2>2, <2>3, <2>6 DEF WalkInv
<1>2. CASE Walk
  <2>1. /\ walk # NotWalking /\ walk.at \in input.collected
        /\ UNCHANGED <<input, slices, phase>>
    BY <1>2 DEF Walk
  <2> DEFINE l == walk.at
             i == input.ins[l]
             new == {l} \cup Sources(Used(i))
  <2>2. PICK m \in Labels :
            /\ <<l, m>> \in input.edges
            /\ walk' = [at |-> m, from |-> [x \in Cells |-> IF x \in Wrote(i) THEN new
                                                          ELSE IF x \in Lost(i) THEN {}
                                                          ELSE walk.from[x]]]
    <3>1. PICK e \in input.edges :
              /\ e[1] = l
              /\ walk' = [at |-> e[2], from |-> [x \in Cells |-> IF x \in Wrote(i) THEN new
                                                               ELSE IF x \in Lost(i) THEN {}
                                                               ELSE walk.from[x]]]
      BY <1>2 DEF Walk
    <3>2. e[2] \in Labels /\ e = <<e[1], e[2]>>
      BY SMTT(60) DEF TypeInv, InputOK
    <3> HIDE DEF new, i
    <3> QED BY <3>1, <3>2
  <2>3. /\ phase = "done" /\ NoLocalCalls /\ l \in Labels /\ walk.from \in [Cells -> SUBSET Labels]
        /\ i \in InsType /\ i.op \notin {"call_local", "return"}
    BY <2>1, SMTT(60) DEF WalkInv, TypeInv, InputOK, InsType, NoLocalCalls
  <2>4. Used(i) \ {None} \subseteq Cells
    BY <2>3, EffectTypes DEF TypeInv
  <2>5. new \subseteq Labels
    BY <2>3, <2>4 DEF Sources
  <2> HIDE DEF new, i
  <2>6. walk'.at \in Labels /\ walk'.from \in [Cells -> SUBSET Labels]
    BY <2>2, <2>3, <2>5
  <2>7. NoLocalCalls'
    BY <2>1, <2>3 DEF NoLocalCalls
  <2>8. ASSUME NoExchange, SlotsApart, NEW k \in DOMAIN slices, ~ slices[k].cut,
               NEW V \in [Labels -> SUBSET Items], NEW B \in [Labels -> SUBSET Items],
               Explains(slices[k], V, B), NEW x \in B[m], NEW c \in CellsOf(x)
        PROVE  walk'.from[c] \subseteq DOMAIN slices[k].relevance
    <3> DEFINE D == DOMAIN slices[k].relevance
    <3>1. \A y \in B[l] : \A b \in CellsOf(y) : walk.from[b] \subseteq D
      BY <2>1, <2>8 DEF WalkInv
    <3>2. x \in V[l] /\ x \in Items
      BY <2>2, <2>3, <2>8 DEF Explains
    <3>3. /\ x \in ItemsWrote(i) => l \in D /\ ItemsUsed(i) \ {None} \subseteq B[l]
          /\ x \notin ItemsWrote(i) \cup Lost(i) => x \in B[l]
      BY <2>1, <2>8, <3>2 DEF Explains, i
    <3>4. c \in Cells /\ (c \in Wrote(i) <=> x \in ItemsWrote(i)) /\ (x \in Lost(i) => c \in Lost(i))
      BY <2>3, <2>8, <3>2, CellsWritten DEF TypeInv, i
    <3>5. \A b \in Used(i) \ {None} : \E y \in ItemsUsed(i) \ {None} : b \in CellsOf(y)
      BY <2>3, <2>8, CellsUsed DEF TypeInv, i
    <3>6. walk'.from[c] = IF c \in Wrote(i) THEN new ELSE IF c \in Lost(i) THEN {} ELSE walk.from[c]
      BY <2>2, <3>4
    <3> HIDE DEF D
    <3>7. CASE c \in Wrote(i)
      <4>1. \A b \in Used(i) \ {None} : walk.from[b] \subseteq D
        BY <3>1, <3>3, <3>4, <3>5, <3>7
      <4>2. new \subseteq D
        BY <3>3, <3>4, <3>7, <4>1 DEF new, Sources
      <4> QED BY <3>6, <3>7, <4>2 DEF D
    <3>8. CASE c \notin Wrote(i) /\ c \in Lost(i)
      BY <3>6, <3>8
    <3>9. CASE c \notin Wrote(i) \cup Lost(i)
      BY <2>8, <3>1, <3>3, <3>4, <3>6, <3>9 DEF D
    <3> QED BY <3>7, <3>8, <3>9
  <2>9. walk'.at = m
    BY <2>2
  <2> HIDE DEF l
  <2> QED BY <2>1, <2>3, <2>6, <2>7, <2>8, <2>9, SlicesStay, SMTT(60) DEF WalkInv
<1>3. CASE Compute
  <2>1. walk' = walk /\ phase # "done"
    BY <1>3 DEF Compute, SkipLabel, StartSlice, FinishScan, DropItem, ProcessItem, EndWork,
                ExpandJoins, Busy
  <2> QED BY <2>1 DEF WalkInv
<1>4. CASE Finished \/ UNCHANGED vars
  <2>1. UNCHANGED <<input, slices, phase, walk>>
    BY <1>4 DEF Finished, vars
  <2>2. NoLocalCalls' <=> NoLocalCalls
    BY <2>1 DEF NoLocalCalls
  <2> QED BY <2>1, <2>2, SlicesStay, SMTT(60) DEF WalkInv
<1> QED BY <1>1, <1>2, <1>3, <1>4 DEF Next

-----------------------------------------------------------------------------
SliceInv == TypeInv /\ StepsInv /\ SearchInv /\ SlicesExplained /\ WalkInv

LEMMA SliceInvAlways == Spec => []SliceInv
<1>1. Init => SliceInv
  <2> SUFFICES ASSUME Init PROVE SliceInv
    OBVIOUS
  <2>1. TypeInv
    BY TypeInvInit
  <2>2. StepsInv
    BY ProgressFinite DEF Init, StepsInv
  <2>3. SearchInv
    BY DEF Init, SearchInv, Searching
  <2>4. SlicesExplained
    <3>1. DOMAIN slices = {}
      BY DEF Init
    <3> QED BY <3>1 DEF SlicesExplained
  <2>5. WalkInv
    BY DEF Init, WalkInv
  <2> QED BY <2>1, <2>2, <2>3, <2>4, <2>5 DEF SliceInv
<1>2. SliceInv /\ [Next]_vars => SliceInv'
  BY TypeInvStep, StepsInvStep, SearchInvStep, SlicesExplainedStep, WalkInvStep DEF SliceInv
<1> QED BY <1>1, <1>2, PTL DEF Spec

(***************************************************************************)
(* compute_slice_from_label processes at most one item for each label and  *)
(* each register or slot, and one more for each label, whatever the        *)
(* program and the step limit: every processed item makes the relevance of *)
(* its label grow, or is the first conservative visit.                     *)
(***************************************************************************)
THEOREM StepsBoundedAlways == Spec => []StepsBounded
<1>1. SliceInv => StepsBounded
  <2> SUFFICES ASSUME SliceInv PROVE StepsBounded
    OBVIOUS
  <2>1. steps <= Cardinality(Labels) * (Cardinality(Items) + 1)
    <3> DEFINE N == Cardinality(Labels) * (Cardinality(Items) + 1)
    <3>1. steps \in Nat /\ steps <= Cardinality(Progress)
      BY DEF SliceInv, StepsInv, TypeInv
    <3>2. Cardinality(Progress) \in Nat /\ Cardinality(Progress) <= N
      BY ProgressFinite
    <3>3. N \in Nat
      BY ProgressFinite, FS_CardinalityType
    <3> HIDE DEF N, Progress
    <3> QED BY <3>1, <3>2, <3>3 DEF N
  <2>2. \A w \in ToSet(worklist) : w.label \in Labels /\ w.after \in RelevantState
    <3>1. worklist \in Seq(Item)
      BY DEF SliceInv, TypeInv
    <3>2. \A w \in ToSet(worklist) : w \in Item
      BY <3>1, ToSetType
    <3> QED BY <3>2 DEF Item
  <2>3. \A s \in ToSet(slices) : s.relevance \in RelevanceMap
    <3>1. slices \in Seq(Slice)
      BY DEF SliceInv, TypeInv
    <3>2. \A s \in ToSet(slices) : s \in Slice
      BY <3>1, ToSetType
    <3> QED BY <3>2 DEF Slice
  <2>4. \A map \in {visited, slice_labels} \cup {s.relevance : s \in ToSet(slices)} :
            DOMAIN map \subseteq Labels /\ \A l \in DOMAIN map : map[l] \in RelevantState
    BY <2>3, MapType DEF SliceInv, TypeInv
  <2>5. TypeOK
    BY <2>2, <2>4 DEF SliceInv, TypeInv, TypeOK
  <2> QED BY <2>1, <2>5 DEF StepsBounded
<1> QED BY <1>1, SliceInvAlways, PTL

(***************************************************************************)
(* A slice is complete on every CFG of a program without CMPXCHG whose     *)
(* accesses to the stack are the same or apart: whatever the path, the     *)
(* values the failing assertion names come from labels of the slice,       *)
(* unless the step limit cut the search.  It rests on what                 *)
(* extract_instruction_deps says of every instruction and on the transfer  *)
(* of relevance backwards.  Without one of the two premises it is false.   *)
(***************************************************************************)
THEOREM SliceCompleteAlways == Spec => []SliceComplete
<1>1. SliceInv => SliceComplete
  <2> SUFFICES ASSUME SliceInv, walk # NotWalking, NoExchange, SlotsApart,
                      NEW s \in ToSet(slices), s.failing_label = walk.at, ~ s.cut
               PROVE  Sources(s.seed.registers) \subseteq DOMAIN s.relevance
    BY DEF SliceComplete
  <2>1. PICK i \in DOMAIN slices : slices[i] = s
    BY DEF ToSet
  <2>2. NoLocalCalls /\ walk.at \in Labels
    BY DEF SliceInv, WalkInv
  <2>3. PICK V \in [Labels -> SUBSET Items], B \in [Labels -> SUBSET Items] : Explains(s, V, B)
    BY <2>1, <2>2, SMTT(60) DEF SliceInv, SlicesExplained, Explained
  <2>4. \A x \in B[walk.at] : \A c \in CellsOf(x) : walk.from[c] \subseteq DOMAIN s.relevance
    BY <2>1, <2>3 DEF SliceInv, WalkInv
  <2>5. s.seed.registers \subseteq Registers
    <3>1. slices \in Seq(Slice)
      BY DEF SliceInv, TypeInv
    <3>2. s \in Slice
      BY <2>1, <3>1
    <3> QED BY <3>2 DEF Slice, RelevantState
  <2>6. s.seed.registers \subseteq B[walk.at]
    BY <2>3 DEF Explains, ItemsOf
  <2>7. \A x \in s.seed.registers : x \in CellsOf(x)
    BY <2>5 DEF CellsOf
  <2> QED BY <2>4, <2>6, <2>7 DEF Sources
<1> QED BY <1>1, SliceInvAlways, PTL

-----------------------------------------------------------------------------
(***************************************************************************)
(* Relevance one item at a time.                                           *)
(***************************************************************************)
LEMMA SingleIs ==
    ASSUME NEW x \in Items \cup {None}
    PROVE  /\ Single(x) \in RelevantState
           /\ ItemsOf(Single(x)) = {x} \ {None}
           /\ x = None => Single(x) = Nothing
BY ItemsApart, SMTT(60) DEF Single, Relevant, RelevantState, ItemsOf, Items, Nothing

LEMMA NoItems ==
    ASSUME NEW a \in RelevantState
    PROVE  a = Nothing <=> ItemsOf(a) = {}
BY DEF Nothing, Relevant, RelevantState, ItemsOf

\* The items of a are those of b and others.
LEMMA ItemsCompared ==
    ASSUME NEW a \in RelevantState, NEW b \in RelevantState, ItemsOf(a) \subseteq ItemsOf(b)
    PROVE  a.registers \subseteq b.registers /\ a.stack_offsets \subseteq b.stack_offsets
BY ItemsAssumption DEF RelevantState, ItemsOf

LEMMA BeforeGrows ==
    ASSUME NEW l \in Labels, NEW a \in RelevantState, NEW b \in RelevantState, ItemsOf(a) \subseteq ItemsOf(b)
    PROVE  ItemsOf(RelevantBefore(l, a)) \subseteq ItemsOf(RelevantBefore(l, b))
<1>1. a.registers \subseteq b.registers /\ a.stack_offsets \subseteq b.stack_offsets
  BY ItemsCompared, SMTT(60)
<1>2. Contributes(l, a) => Contributes(l, b)
  BY <1>1 DEF Contributes
<1> QED BY <1>1, <1>2 DEF RelevantBefore, Relevant, ItemsOf, Nothing

\* What is relevant before a label is so because of one item after it.
LEMMA BeforeSplits ==
    ASSUME NEW l \in Labels, NEW a \in RelevantState, a # Nothing,
           NEW x \in ItemsOf(RelevantBefore(l, a))
    PROVE  \E y \in ItemsOf(a) : x \in ItemsOf(RelevantBefore(l, Single(y)))
<1>1. PICK z \in ItemsOf(a) : TRUE
  BY NoItems
<1>2. ItemsOf(a) \subseteq Items
  BY RelevantType
<1> DEFINE i == input.ins[l]
           d == ExtractDeps(i)
           goesOn == /\ x \in ItemsOf(a)
                     /\ \/ l \notin input.collected
                        \/ /\ ~ (x \in a.registers /\ x \in d.regs_written \cup d.regs_clobbered)
                           /\ ~ (x \in a.stack_offsets /\ x \in d.stack_written \ d.stack_read)
           used == /\ l \in input.collected /\ Contributes(l, a)
                   /\ x \in d.regs_read \/ (x \in d.stack_read /\ x \notin d.stack_written \ d.stack_read)
<1>3. a.registers \subseteq Registers /\ a.stack_offsets \subseteq Slots /\ Registers \cap Slots = {}
  BY ItemsAssumption DEF RelevantState
<1>4. CASE goesOn
  <2>1. /\ x \in a.registers => Single(x).registers = {x}
        /\ x \in a.stack_offsets => Single(x).stack_offsets = {x}
    BY <1>3 DEF Single, Relevant
  <2>2. x \in ItemsOf(RelevantBefore(l, Single(x)))
    BY <1>4, <2>1 DEF RelevantBefore, Relevant, ItemsOf
  <2> QED BY <1>4, <2>2
<1>5. CASE used
  <2>1. \E y \in ItemsOf(a) : Contributes(l, Single(y))
    <3>1. \A y \in a.registers : Single(y).registers = {y}
      BY <1>3 DEF Single, Relevant
    <3>2. \A y \in a.stack_offsets : Single(y).stack_offsets = {y}
      BY <1>3 DEF Single, Relevant
    <3> QED BY <1>1, <1>5, <3>1, <3>2 DEF Contributes, ItemsOf
  <2>2. PICK y \in ItemsOf(a) : Contributes(l, Single(y))
    BY <2>1
  <2>3. x \in ItemsOf(RelevantBefore(l, Single(y)))
    BY <1>5, <2>2 DEF RelevantBefore, Relevant, ItemsOf
  <2> QED BY <2>3
<1>6. goesOn \/ used
  <2>1. CASE l \notin input.collected
    BY <2>1 DEF RelevantBefore
  <2>2. CASE l \in input.collected /\ Contributes(l, a)
    BY <1>3, <2>2 DEF RelevantBefore, Relevant, ItemsOf
  <2>3. CASE l \in input.collected /\ ~ Contributes(l, a)
    BY <1>3, <2>3 DEF RelevantBefore, Relevant, ItemsOf, Nothing
  <2> QED BY <2>1, <2>2, <2>3
<1> HIDE DEF goesOn, used
<1> QED BY ONLY <1>4, <1>5, <1>6

-----------------------------------------------------------------------------
(***************************************************************************)
(* The relevance that is meant is the least one with the seed at the       *)
(* target that goes on to the labels before.                               *)
(***************************************************************************)
Pairs == Labels \X (Items \cup {None})
Seeds == {target} \X ItemsOrNone(seed)
KeptEarlier(T) == \A n \in T : Earlier(n) \subseteq T
IsMeant(M) ==
    /\ M \subseteq Pairs /\ Seeds \subseteq M /\ KeptEarlier(M)
    /\ \A T \in SUBSET Pairs : Seeds \subseteq T /\ KeptEarlier(T) => M \subseteq T

LEMMA EarlierType ==
    ASSUME TypeInv, NEW n \in Pairs
    PROVE  Earlier(n) \subseteq Pairs
<1>1. n[1] \in Labels /\ Single(n[2]) \in RelevantState
  BY SingleIs DEF Pairs
<1>2. RelevantBefore(n[1], Single(n[2])) \in RelevantState
  BY <1>1, RelevantBeforeType DEF TypeInv
<1>3. ItemsOrNone(RelevantBefore(n[1], Single(n[2]))) \subseteq Items \cup {None}
  BY <1>2, RelevantType DEF ItemsOrNone
<1> QED BY <1>3 DEF Earlier, Pairs, Parents

LEMMA PairsFinite == IsFiniteSet(Pairs)
<1>1. IsFiniteSet(Items \cup {None})
  BY ItemsAssumption, FS_Union, FS_Singleton DEF Items
<1> QED BY <1>1, ItemsAssumption, FS_Product DEF Pairs

LEMMA MeantIs ==
    ASSUME TypeInv
    PROVE  IsMeant(MeantRelevance)
<1> DEFINE U == Labels \X (Items \cup {None})
           F == [S \in SUBSET U |-> S \cup UNION {Earlier(n) : n \in S}]
           c == CHOOSE c : c = [S \in SUBSET (Labels \X (Items \cup {None})) |->
                    LET T == S \cup UNION {Earlier(n) : n \in S} IN IF T = S THEN S ELSE c[T]]
<1>0. \A n \in U : Earlier(n) \subseteq U
  BY EarlierType DEF Pairs
<1>1. F \in [SUBSET U -> SUBSET U]
  <2> HIDE DEF U
  <2> QED BY <1>0
<1>2. PICK h : Iterates(U, F, h)
  <2> HIDE DEF F, U
  <2> QED BY <1>1, GrowthExists, SMTT(60)
<1>3. h = [S \in SUBSET (Labels \X (Items \cup {None})) |->
             LET T == S \cup UNION {Earlier(n) : n \in S} IN IF T = S THEN S ELSE h[T]]
  BY <1>2 DEF Iterates
<1>4. c = [S \in SUBSET (Labels \X (Items \cup {None})) |->
             LET T == S \cup UNION {Earlier(n) : n \in S} IN IF T = S THEN S ELSE c[T]]
  BY <1>3, ZenonT(60)
<1>5. MeantRelevance = c[Seeds]
  BY DEF MeantRelevance, Seeds
<1>6. GrowsIn(U, F, c)
  <2>1. IsFiniteSet(U)
    BY PairsFinite DEF Pairs
  <2>2. Iterates(U, F, c)
    <3> HIDE DEF c
    <3> QED BY <1>4 DEF Iterates
  <2>3. \A S, T \in SUBSET U : S \subseteq F[S] /\ (S \subseteq T => F[S] \subseteq F[T])
    <3> HIDE DEF U
    <3> QED OBVIOUS
  <2> HIDE DEF F, c, U
  <2> QED BY <1>1, <2>1, <2>2, <2>3 DEF GrowsIn
<1> DEFINE Z == c[Seeds]
<1> HIDE DEF c
<1>7. Seeds \in SUBSET U
  <2>1. seed \in RelevantState /\ target \in Labels
    BY DEF TypeInv
  <2>2. ItemsOrNone(seed) \subseteq Items \cup {None}
    BY <2>1, RelevantType DEF ItemsOrNone
  <2> QED BY <2>1, <2>2 DEF Seeds
<1>8. LeastKept(U, F, Seeds, Z)
  <2> HIDE DEF F, U
  <2> QED BY <1>6, <1>7, GrowthResult
<1>9. \A T \in SUBSET U : F[T] = T <=> KeptEarlier(T)
  <2> HIDE DEF U
  <2> QED BY DEF KeptEarlier
<1> HIDE DEF F, Z
<1>10. /\ Z \in SUBSET U /\ Seeds \subseteq Z /\ KeptEarlier(Z)
       /\ \A T \in SUBSET U : Seeds \subseteq T /\ KeptEarlier(T) => Z \subseteq T
  BY <1>8, <1>9 DEF LeastKept
<1> QED BY <1>5, <1>10 DEF IsMeant, Pairs, Z
LEMMA MeantAlways == TypeInv => IsMeant(MeantRelevance)
BY MeantIs

\* The items of r, or none of a conservative walk, are meant at l.
Meant(l, r) == \A x \in ItemsOrNone(r) : <<l, x>> \in MeantRelevance
Reached(l) == \E n \in MeantRelevance : n[1] = l

\* Something is relevant after l, or l is processed all the same.
LEMMA ProcessedIsReached ==
    ASSUME TypeInv, NEW l \in Labels, NEW r \in RelevantState, Meant(l, r), ~ Irrelevant(l, r)
    PROVE  \E x \in Items \cup {None} : /\ <<l, x>> \in MeantRelevance
                                        /\ r # Nothing => x \in ItemsOf(r)
                                        /\ r = Nothing /\ Conservative => x = None
<1>1. CASE r # Nothing
  BY <1>1, NoItems, RelevantType DEF Meant, ItemsOrNone
<1>2. CASE r = Nothing /\ Conservative
  BY <1>2 DEF Meant, ItemsOrNone
<1>3. CASE r = Nothing /\ ~ Conservative
  <2>1. l = target /\ seed # Nothing /\ seed \in RelevantState
    BY <1>3 DEF Irrelevant, Conservative, TypeInv
  <2>2. PICK x \in ItemsOf(seed) : TRUE
    BY <2>1, NoItems
  <2>3. <<target, x>> \in Seeds
    BY <2>1, <2>2 DEF Seeds, ItemsOrNone
  <2>4. <<target, x>> \in MeantRelevance /\ x \in Items
    BY <2>1, <2>2, <2>3, MeantIs, RelevantType DEF IsMeant
  <2> QED BY <1>3, <2>1, <2>4
<1> QED BY <1>1, <1>2, <1>3, SMTT(60)

\* What is meant at a label makes what is relevant before it meant at its parents.
LEMMA MeantGoesOn ==
    ASSUME TypeInv, NEW l \in Labels, NEW r \in RelevantState, Meant(l, r), ~ Irrelevant(l, r),
           NEW p \in Parents(l)
    PROVE  Meant(p, RelevantBefore(l, r))
<1> DEFINE before == RelevantBefore(l, r)
<1>1. before \in RelevantState
  BY RelevantBeforeType DEF TypeInv
<1>2. ASSUME NEW y, <<l, y>> \in MeantRelevance, NEW x \in ItemsOrNone(RelevantBefore(l, Single(y)))
      PROVE  <<p, x>> \in MeantRelevance
  <2>1. <<p, x>> \in Earlier(<<l, y>>)
    BY <1>2 DEF Earlier
  <2> QED BY <1>2, <2>1, MeantIs DEF IsMeant, KeptEarlier
<1> SUFFICES ASSUME NEW x \in ItemsOrNone(before) PROVE <<p, x>> \in MeantRelevance
  BY DEF Meant
<1>3. PICK y \in Items \cup {None} : /\ <<l, y>> \in MeantRelevance
                                     /\ r # Nothing => y \in ItemsOf(r)
                                     /\ r = Nothing /\ Conservative => y = None
  BY ProcessedIsReached
<1>4. Single(y) \in RelevantState /\ RelevantBefore(l, Single(y)) \in RelevantState
  BY SingleIs, RelevantBeforeType DEF TypeInv
<1> HIDE DEF before
<1>5. CASE before # Nothing
  <2>1. x \in ItemsOf(before)
    BY <1>5 DEF ItemsOrNone
  <2>2. CASE r # Nothing
    <3>1. PICK z \in ItemsOf(r) : x \in ItemsOf(RelevantBefore(l, Single(z)))
      BY <2>1, <2>2, BeforeSplits DEF before
    <3>2. <<l, z>> \in MeantRelevance
      BY <2>2, <3>1 DEF Meant, ItemsOrNone
    <3>3. x \in ItemsOrNone(RelevantBefore(l, Single(z)))
      BY <3>1 DEF ItemsOrNone, Nothing, Relevant, ItemsOf
    <3> QED BY <3>2, <3>3, <1>2
  <2>3. CASE r = Nothing
    <3>1. ItemsOf(r) \subseteq ItemsOf(Single(y))
      BY <2>3, NoItems
    <3>2. x \in ItemsOf(RelevantBefore(l, Single(y)))
      BY <1>4, <2>1, <3>1, BeforeGrows DEF before
    <3>3. x \in ItemsOrNone(RelevantBefore(l, Single(y)))
      BY <3>2 DEF ItemsOrNone, Nothing, Relevant, ItemsOf
    <3> QED BY <1>2, <1>3, <3>3
  <2> QED BY <2>2, <2>3
<1>6. CASE before = Nothing
  <2>1. x = None /\ Conservative
    BY <1>6 DEF ItemsOrNone
  <2>2. ItemsOf(Single(y)) \subseteq ItemsOf(r)
    BY <1>3, <2>1, SingleIs, NoItems
  <2>3. ItemsOf(RelevantBefore(l, Single(y))) = {}
    BY <1>4, <1>6, <2>2, BeforeGrows, NoItems, <1>1, SMTT(60) DEF before
  <2>4. RelevantBefore(l, Single(y)) = Nothing
    BY <1>4, <2>3, NoItems
  <2>5. x \in ItemsOrNone(RelevantBefore(l, Single(y)))
    BY <2>1, <2>4 DEF ItemsOrNone
  <2> QED BY <1>2, <1>3, <2>5
<1> QED BY <1>5, <1>6

-----------------------------------------------------------------------------
(***************************************************************************)
(* What is found is meant: all that waits on the worklist, and all that    *)
(* was visited.                                                            *)
(***************************************************************************)
WorkMeant == \A i \in DOMAIN worklist : Meant(worklist[i].label, worklist[i].after)
VisitedMeant ==
    \A l \in DOMAIN visited : Reached(l) /\ \A x \in ItemsOf(visited[l]) : <<l, x>> \in MeantRelevance

(***************************************************************************)
(* A conservative walk gets to the parents of what it visits, although     *)
(* nothing is relevant there.                                              *)
(***************************************************************************)
Seen(l) == l \in DOMAIN visited \/ \E i \in DOMAIN worklist : worklist[i].label = l
ConservativeSeen ==
    /\ conservative_visited \subseteq DOMAIN visited
    /\ Conservative => Seen(target) /\ \A l \in DOMAIN visited : \A m \in Parents(l) : Seen(m)

ExactInv == Searching => WorkMeant /\ VisitedMeant /\ ConservativeSeen

LEMMA MeantUnchanged ==
    ASSUME TypeInv, TypeInv', UNCHANGED <<input, target, seed>>
    PROVE  /\ MeantRelevance' = MeantRelevance
           /\ \A l, r : Meant(l, r)' <=> Meant(l, r')
           /\ \A l : Reached(l)' <=> Reached(l)
<1> DEFINE M == MeantRelevance
<1>1. \A l : Parents(l)' = Parents(l)
  BY DEF Parents
<1>2. \A l, x : RelevantBefore(l, Single(x))' = RelevantBefore(l, Single(x))
  BY DEF RelevantBefore, InSlice, Contributes, Conservative, Parents, Single, Relevant, Nothing
<1>3. \A r : ItemsOrNone(r)' = ItemsOrNone(r')
  BY DEF ItemsOrNone, Conservative
<1>4. \A n : Earlier(n)' = Earlier(n)
  BY <1>1, <1>2, <1>3 DEF Earlier
<1>5. Seeds' = Seeds
  BY <1>3 DEF Seeds
<1>6. IsMeant(M) /\ IsMeant(M)'
  <2>1. (TypeInv => IsMeant(M))'
    BY MeantAlways, PTL
  <2> QED BY <2>1, MeantAlways
<1>7. M' = M
  <2>1. /\ M' \subseteq Pairs /\ Seeds \subseteq M' /\ \A n \in M' : Earlier(n) \subseteq M'
        /\ \A T \in SUBSET Pairs : Seeds \subseteq T /\ (\A n \in T : Earlier(n) \subseteq T) => M' \subseteq T
    <3> HIDE DEF M
    <3> QED BY <1>4, <1>5, <1>6 DEF IsMeant, KeptEarlier, Pairs
  <2>2. /\ M \subseteq Pairs /\ Seeds \subseteq M /\ \A n \in M : Earlier(n) \subseteq M
        /\ \A T \in SUBSET Pairs : Seeds \subseteq T /\ (\A n \in T : Earlier(n) \subseteq T) => M \subseteq T
    <3> HIDE DEF M
    <3> QED BY <1>6 DEF IsMeant, KeptEarlier
  <2> HIDE DEF M
  <2>3. M \in SUBSET Pairs /\ M' \in SUBSET Pairs
    BY <2>1, <2>2
  <2>4. M' \subseteq M
    BY ONLY <2>1, <2>2, <2>3, ZenonT(60)
  <2>5. M \subseteq M'
    BY ONLY <2>1, <2>2, <2>3, ZenonT(60)
  <2> QED BY ONLY <2>4, <2>5
<1> QED BY <1>3, <1>7 DEF Meant, Reached
LEMMA ExactInvStep == TypeInv /\ TypeInv' /\ ExactInv /\ [Next]_vars => ExactInv'
<1> SUFFICES ASSUME TypeInv, TypeInv', ExactInv, [Next]_vars PROVE ExactInv'
  OBVIOUS
<1> USE DEF Searching
<1>1. CASE StartSlice
  <2>1. DOMAIN visited' = {} /\ conservative_visited' = {}
    BY <1>1, EmptyMap DEF StartSlice
  <2>2. worklist' = <<[label |-> target', after |-> seed']>>
    BY <1>1 DEF StartSlice
  <2>3. DOMAIN worklist' = {1} /\ worklist'[1].label = target' /\ worklist'[1].after = seed'
    BY <2>2
  <2>4. Meant(target, seed)'
    <3>1. (TypeInv => IsMeant(MeantRelevance))'
      BY MeantAlways, PTL
    <3>2. Seeds' \subseteq MeantRelevance'
      BY <3>1 DEF IsMeant
    <3> QED BY <3>2 DEF Seeds, Meant
  <2>5. WorkMeant'
    BY <2>3, <2>4 DEF WorkMeant, Meant
  <2> QED BY <2>1, <2>3, <2>5 DEF ExactInv, VisitedMeant, ConservativeSeen, Seen
<1>2. CASE DropItem
  <2>1. /\ Searching /\ worklist # <<>> /\ worklist' = Rest
        /\ UNCHANGED <<input, target, seed, visited, conservative_visited, phase>>
        /\ Irrelevant(Current.label, Current.after) \/ Stale(Current.label, Current.after)
    BY <1>2 DEF DropItem, Busy
  <2>2. /\ Current \in Item
        /\ \A i \in DOMAIN worklist : worklist[i] = Current \/ \E j \in DOMAIN Rest : Rest[j] = worklist[i]
        /\ \A j \in DOMAIN Rest : \E i \in DOMAIN worklist : worklist[i] = Rest[j]
    BY <2>1, PushParentsType, ItemsAssumption, RelevantType, SMTT(60) DEF TypeInv
  <2>3. /\ \A l, r : Meant(l, r)' <=> Meant(l, r')
        /\ \A l : Reached(l)' <=> Reached(l)
        /\ MeantRelevance' = MeantRelevance
    BY <2>1, MeantUnchanged
  <2>4. WorkMeant'
    <3> SUFFICES ASSUME NEW j \in DOMAIN Rest PROVE Meant(Rest[j].label, Rest[j].after)
      BY <2>1, <2>3 DEF WorkMeant
    <3> QED BY <2>1, <2>2 DEF ExactInv, WorkMeant
  <2>5. VisitedMeant'
    BY <2>1, <2>3 DEF ExactInv, VisitedMeant
  <2>6. Conservative => Current.label \in DOMAIN visited
    <3> SUFFICES ASSUME Conservative PROVE Current.label \in DOMAIN visited
      OBVIOUS
    <3>1. Stale(Current.label, Current.after)
      BY <2>1 DEF Irrelevant
    <3>2. Size(Nothing) = 0
      BY FS_EmptySet DEF Size, Nothing, Relevant
    <3> QED BY <2>1, <3>1, <3>2 DEF Stale, At, ExactInv, ConservativeSeen
  <2>7. ASSUME Conservative, NEW l, Seen(l) PROVE Seen(l)'
    <3>1. CASE l \in DOMAIN visited
      BY <2>1, <3>1 DEF Seen
    <3>2. ASSUME NEW i \in DOMAIN worklist, worklist[i].label = l PROVE Seen(l)'
      <4>1. CASE worklist[i] = Current
        BY <2>1, <2>6, <2>7, <3>2, <4>1, SMTT(60) DEF Seen
      <4>2. ASSUME NEW j \in DOMAIN Rest, Rest[j] = worklist[i] PROVE Seen(l)'
        BY <2>1, <3>2, <4>2 DEF Seen
      <4> QED BY <2>2, <4>1, <4>2
    <3> QED BY <2>7, <3>1, <3>2 DEF Seen
  <2>8. ConservativeSeen'
    <3>1. Conservative' <=> Conservative
      BY <2>1 DEF Conservative
    <3>2. \A l : Parents(l)' = Parents(l)
      BY <2>1 DEF Parents
    <3>3. Conservative => Seen(target)'
      BY <2>1, <2>7 DEF ExactInv, ConservativeSeen, Seen
    <3> QED BY <2>1, <2>7, <3>1, <3>2, <3>3 DEF ExactInv, ConservativeSeen
  <2> QED BY <2>4, <2>5, <2>8 DEF ExactInv
<1>3. CASE ProcessItem
  <2> DEFINE cur == Current.label
             after == Current.after
             before == RelevantBefore(cur, after)
  <2>1. /\ Searching /\ worklist # <<>> /\ worklist' = PushParents(cur, before)
        /\ UNCHANGED <<input, target, seed, phase>>
        /\ ~ Irrelevant(cur, after)
        /\ visited' = MergeAt(visited, cur, after)
        /\ conservative_visited' \subseteq conservative_visited \cup {cur}
    BY <1>3 DEF ProcessItem, Busy
  <2>2. /\ Current \in Item
        /\ \A i \in DOMAIN worklist : worklist[i] = Current \/ \E j \in DOMAIN Rest : Rest[j] = worklist[i]
        /\ \A j \in DOMAIN Rest : \E i \in DOMAIN worklist : worklist[i] = Rest[j]
        /\ \E i \in DOMAIN worklist : worklist[i] = Current
    <3>1. worklist \in Seq(Item) /\ Len(worklist) \in DOMAIN worklist /\ Current = worklist[Len(worklist)]
      BY <2>1 DEF TypeInv, Current, Last
    <3> QED BY <2>1, <3>1, PushParentsType, ItemsAssumption, RelevantType, SMTT(60) DEF TypeInv
  <2>3. cur \in Labels /\ after \in RelevantState
    BY <2>2 DEF Item
  <2>4. Meant(cur, after)
    BY <2>1, <2>2 DEF ExactInv, WorkMeant
  <2> HIDE DEF cur, after
  <2>5. before \in RelevantState
    BY <2>3, RelevantBeforeType DEF TypeInv
  <2>6. \A m \in Parents(cur) : Meant(m, before)
    BY <2>1, <2>3, <2>4, MeantGoesOn DEF before
  <2>7. Reached(cur) /\ \A x \in ItemsOf(after) : <<cur, x>> \in MeantRelevance
    <3>1. PICK x \in Items \cup {None} : <<cur, x>> \in MeantRelevance
      BY <2>1, <2>3, <2>4, ProcessedIsReached, SMTT(60)
    <3>2. Reached(cur)
      BY <3>1 DEF Reached
    <3> QED BY <2>3, <2>4, <3>2, NoItems DEF Meant, ItemsOrNone
  <2> HIDE DEF before
  <2>8. /\ \A j \in DOMAIN Rest : \E i \in DOMAIN worklist' : worklist'[i] = Rest[j]
        /\ \A m \in Parents(cur) : \E i \in DOMAIN worklist' :
              worklist'[i] = [label |-> m, after |-> before]
        /\ \A i \in DOMAIN worklist' :
              \/ \E j \in DOMAIN Rest : worklist'[i] = Rest[j]
              \/ \E m \in Parents(cur) : worklist'[i] = [label |-> m, after |-> before]
    BY <2>1, <2>3, <2>5, PushParentsIs
  <2>9. /\ DOMAIN visited' = DOMAIN visited \cup {cur}
        /\ visited'[cur] = Merge(At(visited, cur), after)
        /\ \A m \in DOMAIN visited \ {cur} : visited'[m] = visited[m]
    <3>1. visited \in RelevanceMap
      BY DEF TypeInv
    <3> QED BY <3>1, <2>1, <2>3, MergeAtType, ZenonT(60)
  <2>10. ItemsOf(visited'[cur]) = ItemsOf(At(visited, cur)) \cup ItemsOf(after)
    BY <2>3, <2>9, AtType, RelevantType DEF TypeInv
  <2>11. /\ \A l, r : Meant(l, r)' <=> Meant(l, r')
         /\ \A l : Reached(l)' <=> Reached(l)
         /\ MeantRelevance' = MeantRelevance
    BY <2>1, MeantUnchanged
  <2>12. WorkMeant'
    <3> SUFFICES ASSUME NEW i \in DOMAIN worklist' PROVE Meant(worklist'[i].label, worklist'[i].after)
      BY <2>11 DEF WorkMeant
    <3>1. ASSUME NEW j \in DOMAIN Rest, worklist'[i] = Rest[j]
          PROVE  Meant(worklist'[i].label, worklist'[i].after)
      BY <2>1, <2>2, <3>1 DEF ExactInv, WorkMeant
    <3>2. ASSUME NEW m \in Parents(cur), worklist'[i] = [label |-> m, after |-> before]
          PROVE  Meant(worklist'[i].label, worklist'[i].after)
      BY <2>6, <3>2
    <3> QED BY <2>8, <3>1, <3>2
  <2>13. VisitedMeant'
    <3>1. \A x \in ItemsOf(At(visited, cur)) : <<cur, x>> \in MeantRelevance
      BY <2>1 DEF ExactInv, VisitedMeant, At, Nothing, Relevant, ItemsOf
    <3>2. Reached(cur) /\ \A x \in ItemsOf(visited'[cur]) : <<cur, x>> \in MeantRelevance
      BY <2>7, <2>10, <3>1
    <3>3. \A l \in DOMAIN visited \ {cur} : Reached(l) /\ \A x \in ItemsOf(visited'[l]) : <<l, x>> \in MeantRelevance
      BY <2>1, <2>9 DEF ExactInv, VisitedMeant
    <3>4. \A l \in DOMAIN visited' : Reached(l) /\ \A x \in ItemsOf(visited'[l]) : <<l, x>> \in MeantRelevance
      BY <2>9, <3>2, <3>3
    <3> QED BY <2>11, <3>4 DEF VisitedMeant, ItemsOf
  <2>14. ASSUME NEW l, Seen(l) PROVE Seen(l)'
    <3>1. CASE l \in DOMAIN visited
      BY <2>9, <3>1 DEF Seen
    <3>2. ASSUME NEW i \in DOMAIN worklist, worklist[i].label = l PROVE Seen(l)'
      <4>1. CASE worklist[i] = Current
        BY <2>9, <3>2, <4>1 DEF Seen, cur
      <4>2. ASSUME NEW j \in DOMAIN Rest, Rest[j] = worklist[i] PROVE Seen(l)'
        BY <2>8, <3>2, <4>2 DEF Seen
      <4> QED BY <2>2, <4>1, <4>2
    <3> QED BY <2>14, <3>1, <3>2 DEF Seen
  <2>15. \A m \in Parents(cur) : Seen(m)'
    BY <2>8 DEF Seen
  <2>16. ConservativeSeen'
    <3>1. Conservative' <=> Conservative
      BY <2>1 DEF Conservative
    <3>2. \A l : Parents(l)' = Parents(l)
      BY <2>1 DEF Parents
    <3>3. Conservative => Seen(target)'
      BY <2>1, <2>14 DEF ExactInv, ConservativeSeen, Seen
    <3>4. conservative_visited' \subseteq DOMAIN visited'
      BY <2>1, <2>9 DEF ExactInv, ConservativeSeen
    <3>5. Conservative => \A l \in DOMAIN visited' : \A m \in Parents(l) : Seen(m)'
      BY <2>1, <2>9, <2>14, <2>15 DEF ExactInv, ConservativeSeen
    <3> QED BY <3>1, <3>2, <3>3, <3>4, <3>5 DEF ConservativeSeen
  <2> QED BY <2>12, <2>13, <2>16 DEF ExactInv
<1>4. CASE SkipLabel \/ FinishScan \/ ExpandJoins
  BY <1>4 DEF SkipLabel, FinishScan, ExpandJoins, ExactInv
<1>5. CASE EndWork \/ StartWalk \/ Walk \/ Finished \/ UNCHANGED vars
  <2>1. UNCHANGED <<input, search>> /\ (Searching' => Searching)
    BY <1>5 DEF EndWork, StartWalk, Walk, Finished, vars
  <2>2. UNCHANGED <<input, target, seed, worklist, visited, conservative_visited>>
    BY <2>1 DEF search
  <2>3. /\ \A l, r : Meant(l, r)' <=> Meant(l, r')
        /\ \A l : Reached(l)' <=> Reached(l)
        /\ MeantRelevance' = MeantRelevance
    BY <2>2, MeantUnchanged
  <2>4. WorkMeant => WorkMeant'
    BY <2>2, <2>3 DEF WorkMeant
  <2>5. VisitedMeant => VisitedMeant'
    BY <2>2, <2>3 DEF VisitedMeant
  <2>6. ConservativeSeen => ConservativeSeen'
    BY <2>2 DEF ConservativeSeen, Seen, Conservative, Parents
  <2> QED BY <2>1, <2>4, <2>5, <2>6 DEF ExactInv
<1> QED BY <1>1, <1>2, <1>3, <1>4, <1>5 DEF Next, Compute

\* A search that ended with an empty worklist has found all that is meant.
LEMMA AllFound ==
    ASSUME TypeInv, SearchInv, ExactInv, Searching, worklist = <<>>
    PROVE  \A n \in MeantRelevance : n[1] \in DOMAIN visited
                                     /\ (n[2] # None => n[2] \in ItemsOf(visited[n[1]]))
<1> DEFINE C == {n \in Pairs : /\ n[1] \in DOMAIN visited
                               /\ n[2] \in ItemsOf(visited[n[1]]) \/ (n[2] = None /\ Conservative)}
<1>1. ASSUME NEW l, NEW x, Found(l, x)
      PROVE  l \in DOMAIN visited /\ x \in ItemsOf(visited[l])
  BY <1>1 DEF Found, At, Nothing, Relevant, ItemsOf
<1>2. ASSUME Conservative PROVE target \in DOMAIN visited /\ \A l \in DOMAIN visited : \A m \in Parents(l) : m \in DOMAIN visited
  BY <1>2 DEF ExactInv, ConservativeSeen, Seen
<1>3. DOMAIN visited \subseteq Labels /\ \A l \in DOMAIN visited : visited[l] \in RelevantState
  BY MapType DEF TypeInv
<1>4. Seeds \subseteq C
  <2> SUFFICES ASSUME NEW x \in ItemsOrNone(seed) PROVE <<target, x>> \in C
    BY DEF Seeds
  <2>1. CASE Conservative
    <3>1. x = None
      BY <2>1 DEF Conservative, ItemsOrNone
    <3> QED BY <1>2, <1>3, <2>1, <3>1 DEF Pairs
  <2>2. CASE ~ Conservative
    <3>1. x \in ItemsOf(seed) /\ seed \in RelevantState
      BY <2>2 DEF Conservative, ItemsOrNone, TypeInv
    <3>2. Found(target, x)
      BY <3>1 DEF SearchInv
    <3>3. x \in Items
      BY <3>1, RelevantType
    <3> QED BY <1>1, <1>3, <3>2, <3>3 DEF Pairs
  <2> QED BY <2>1, <2>2
<1>5. KeptEarlier(C)
  <2> SUFFICES ASSUME NEW l \in DOMAIN visited, NEW y \in Items \cup {None},
                      y \in ItemsOf(visited[l]) \/ (y = None /\ Conservative),
                      NEW p \in Parents(l), NEW x \in ItemsOrNone(RelevantBefore(l, Single(y)))
               PROVE  <<p, x>> \in C
    <3>1. \A n \in C : /\ n[1] \in DOMAIN visited /\ n[2] \in Items \cup {None}
                       /\ n[2] \in ItemsOf(visited[n[1]]) \/ (n[2] = None /\ Conservative)
      BY DEF Pairs
    <3> HIDE DEF C
    <3> QED BY <3>1 DEF KeptEarlier, Earlier
  <2>1. l \in Labels /\ p \in Labels
    BY <1>3 DEF Parents
  <2>2. Single(y) \in RelevantState /\ RelevantBefore(l, Single(y)) \in RelevantState
    BY <2>1, SingleIs, RelevantBeforeType DEF TypeInv
  <2>3. ItemsOf(Single(y)) \subseteq ItemsOf(visited[l])
    BY SingleIs
  <2>4. CASE RelevantBefore(l, Single(y)) # Nothing
    <3>1. x \in ItemsOf(RelevantBefore(l, Single(y))) /\ x \in Items
      BY <2>2, <2>4, RelevantType DEF ItemsOrNone
    <3>2. x \in ItemsOf(RelevantBefore(l, visited[l]))
      BY <1>3, <2>1, <2>2, <2>3, <3>1, BeforeGrows
    <3>3. Found(p, x)
      BY <2>1, <3>2 DEF SearchInv
    <3> QED BY <1>1, <2>1, <3>1, <3>3 DEF Pairs
  <2>5. CASE RelevantBefore(l, Single(y)) = Nothing
    <3>1. x = None /\ Conservative
      BY <2>5 DEF ItemsOrNone
    <3> QED BY <1>2, <2>1, <3>1 DEF Pairs
  <2> QED BY <2>4, <2>5
<1>6. MeantRelevance \subseteq C
  <2>1. C \in SUBSET Pairs
    OBVIOUS
  <2> HIDE DEF C
  <2> QED BY <1>4, <1>5, <2>1, MeantIs DEF IsMeant
<1> QED BY <1>6

LEMMA ExactMeans ==
    ASSUME TypeInv, SearchInv, ExactInv
    PROVE  RelevanceExact
<1> SUFFICES ASSUME Searching
             PROVE  LET meant == {n \in MeantRelevance : n[2] # None}
                    IN  /\ FoundRelevance \subseteq meant
                        /\ worklist = <<>> => /\ FoundRelevance = meant
                                              /\ DOMAIN visited = {n[1] : n \in MeantRelevance}
  BY DEF RelevanceExact, Searching
<1>1. MeantRelevance \subseteq Pairs
  BY MeantIs DEF IsMeant
<1>2. \A l \in DOMAIN visited : ItemsOf(visited[l]) \subseteq Items
  BY MapType, RelevantType DEF TypeInv
<1>3. FoundRelevance \subseteq {n \in MeantRelevance : n[2] # None}
  BY <1>2, ItemsApart DEF FoundRelevance, ExactInv, VisitedMeant, Items
<1>4. ASSUME worklist = <<>>
      PROVE  /\ {n \in MeantRelevance : n[2] # None} \subseteq FoundRelevance
             /\ {n[1] : n \in MeantRelevance} \subseteq DOMAIN visited
  <2>1. \A n \in MeantRelevance : n[1] \in DOMAIN visited /\ (n[2] # None => n[2] \in ItemsOf(visited[n[1]]))
    BY <1>4, AllFound
  <2>2. \A n \in MeantRelevance : n = <<n[1], n[2]>>
    BY <1>1 DEF Pairs
  <2> QED BY <2>1, <2>2 DEF FoundRelevance
<1>5. DOMAIN visited \subseteq {n[1] : n \in MeantRelevance}
  BY DEF ExactInv, VisitedMeant, Reached
<1> QED BY <1>3, <1>4, <1>5

(***************************************************************************)
(* For every program: when the worklist runs empty, each label has exactly *)
(* the relevance that follows from the seed, one item at a time along the  *)
(* edges, and exactly the labels that it gets to are visited; and a search *)
(* that the step limit ends has found nothing else.                        *)
(***************************************************************************)
THEOREM RelevanceExactAlways == Spec => []RelevanceExact
<1>1. Init => ExactInv
  BY DEF Init, ExactInv, Searching
<1>2. SliceInv => TypeInv /\ SearchInv
  BY DEF SliceInv
<1>3. TypeInv /\ SearchInv /\ ExactInv => RelevanceExact
  BY ExactMeans
<1> QED BY <1>1, <1>2, <1>3, SliceInvAlways, ExactInvStep, PTL DEF Spec
=============================================================================
