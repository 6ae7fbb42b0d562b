-------------------------------- MODULE Slices --------------------------------
(***************************************************************************)
(* Failure slices (src/result.rs): compute_failure_slices walks the        *)
(* finished invariants, and for each reachable label with an error         *)
(* compute_slice_from_label goes backwards through the CFG from the        *)
(* registers of the failing assertion, with a worklist of labels and the   *)
(* registers and stack slots that are relevant after them.                 *)
(*                                                                         *)
(* Once the slices are there the model walks the CFG forwards and keeps,   *)
(* for every register and byte of the stack, the labels whose instructions *)
(* its value comes from.  That is what the slices are measured by.         *)
(***************************************************************************)
EXTENDS Integers, Sequences, FiniteSets, SequencesExt

CONSTANTS
    Labels, Entry,  \* the labels are numbers, in the order of the invariant map
    Registers,      \* the registers used; 0 is the result and 10 the stack pointer
    Args,           \* r1 .. r5
    Saved,          \* r6 .. r9
    Slots,          \* the stack slots of the code: offsets from r10 that accesses start at
    StackBytes,     \* the bytes of the stack by their offset from r10
    None,           \* no register, or no known stack slot
    Inputs          \* the finished analyses considered, see InputOK

ASSUME ItemsAssumption ==
    /\ Labels \subseteq Nat /\ IsFiniteSet(Labels)
    /\ Entry \in Labels
    /\ IsFiniteSet(Registers) /\ IsFiniteSet(Slots)
    /\ {0, 10} \cup Args \cup Saved \subseteq Registers
    /\ Slots \subseteq StackBytes /\ StackBytes \subseteq Int
    /\ Registers \cap StackBytes = {}
    /\ None \notin Registers \cup StackBytes

Items == Registers \cup Slots
Widths == {1, 2, 4, 8}

(***************************************************************************)
(* Instructions.  A load, store or atomic carries the stack slot it        *)
(* accesses, when its base is r10 or a pointer whose stack offset the      *)
(* pre-state knows (get_stack_offset), None when it is no such pointer,    *)
(* and the number of bytes, which the code does not look at.  A "cmpxchg"  *)
(* is an atomic that fetches to the code.  "return" is the exit of an      *)
(* inlined subprogram.                                                     *)
(***************************************************************************)
Op == {"alu", "mov", "un", "load_const", "load", "store", "atomic", "fetch", "cmpxchg",
       "call", "call_local", "callx", "exit", "return", "jmp", "assume", "packet", "other"}
Ins(op, dst, src, base, slot, width) ==
    [op |-> op, dst |-> dst, src |-> src, base |-> base, slot |-> slot, width |-> width]
Bytes(i) == IF i.slot = None THEN {} ELSE i.slot .. i.slot + i.width - 1

\* Mutant: a missing register is taken for a register.
DepsUnfiltered(read, written, clobbered, stack_read, stack_written) ==
    [regs_read |-> read, regs_written |-> written, regs_clobbered |-> clobbered,
     stack_read |-> stack_read \ {None}, stack_written |-> stack_written \ {None}]

Deps(read, written, clobbered, stack_read, stack_written) ==
    [regs_read |-> read \ {None}, regs_written |-> written \ {None},
     regs_clobbered |-> clobbered,
     stack_read |-> stack_read \ {None}, stack_written |-> stack_written \ {None}]

\* Mutant: an operation is taken for a move.
OperandsMove(i) == {i.src}

\* All operations but the moves read their destination, too.
Operands(i) == {i.dst, i.src}

ExtractDeps(i) ==
    CASE i.op = "alu" -> Deps(Operands(i), {i.dst}, {}, {}, {})
      [] i.op = "mov" -> Deps({i.src}, {i.dst}, {}, {}, {})
      [] i.op = "un" -> Deps({i.dst}, {i.dst}, {}, {}, {})
      [] i.op = "load_const" -> Deps({}, {i.dst}, {}, {}, {})
      [] i.op = "load" -> Deps({i.base}, {i.dst}, {}, {i.slot}, {})
      [] i.op = "store" -> Deps({i.base, i.src}, {}, {}, {}, {i.slot})
      [] i.op = "atomic" -> Deps({i.base, i.src}, {}, {}, {i.slot}, {i.slot})
      [] i.op \in {"fetch", "cmpxchg"} -> Deps({i.base, i.src}, {i.src}, {}, {i.slot}, {i.slot})
      [] i.op = "call" -> Deps(Args, {0}, Args, {}, {})
      [] i.op = "call_local" -> Deps(Args \cup {10}, {0, 10}, Args, {}, {})
      [] i.op = "callx" -> Deps({i.src} \cup Args, {0}, Args, {}, {})
      [] i.op = "exit" -> Deps({0}, {}, {}, {}, {})
      [] i.op = "return" -> Deps({0}, Saved \cup {10}, {}, {}, {})
      [] i.op \in {"jmp", "assume"} -> Deps({i.dst, i.src}, {}, {}, {}, {})
      [] i.op = "packet" -> Deps({i.src}, {0}, Args, {}, {})
      [] i.op = "other" -> Deps({}, {}, {}, {}, {})

\* The registers an assertion names; a bound on a loop counter names none.
AssertionRegisters(a) == {a.reg, a.other} \ {None}

Relevant(registers, stack_offsets) ==
    [registers |-> registers, stack_offsets |-> stack_offsets]
Nothing == Relevant({}, {})
ItemsOf(r) == r.registers \cup r.stack_offsets
Merge(r, s) == Relevant(r.registers \cup s.registers, r.stack_offsets \cup s.stack_offsets)
Size(r) == Cardinality(r.registers) + Cardinality(r.stack_offsets)
At(map, l) == IF l \in DOMAIN map THEN map[l] ELSE Nothing
MergeAt(map, l, r) == [m \in DOMAIN map \cup {l} |-> IF m = l THEN Merge(At(map, l), r) ELSE map[m]]

(***************************************************************************)
(* What the forward analysis leaves behind: the labels it collected        *)
(* dependencies for, the ones whose pre is bottom, and the errors.  An     *)
(* error comes with the assertions of its label and the one of them that   *)
(* fails when they are replayed, 0 if none does (the transfer function     *)
(* failed).  Assertions are about the state before the instruction: they   *)
(* name registers that it reads, or that it leaves alone.                  *)
(***************************************************************************)
AssertedBefore(i, a) ==
    LET d == ExtractDeps(i)
    IN  AssertionRegisters(a) \cap (d.regs_written \cup d.regs_clobbered) \subseteq d.regs_read

InputOK(i) ==
    /\ i.edges \subseteq Labels \X Labels
    /\ i.ins \in [Labels -> [op : Op, dst : Registers \cup {None}, src : Registers \cup {None},
                             base : Registers \cup {None}, slot : Slots \cup {None},
                             width : Widths]]
    /\ \A l \in Labels : Bytes(i.ins[l]) \subseteq StackBytes
    /\ i.collected \subseteq Labels /\ i.bottom \subseteq Labels
    /\ DOMAIN i.errors \subseteq Labels
    /\ \A l \in DOMAIN i.errors :
          /\ i.errors[l].assertions \in Seq([reg : Registers \cup {None}, other : Registers \cup {None}])
          /\ i.errors[l].failing \in 0 .. Len(i.errors[l].assertions)
          /\ l \notin i.bottom => \A a \in ToSet(i.errors[l].assertions) : AssertedBefore(i.ins[l], a)
    /\ i.max_steps \in Nat /\ i.max_slices \in Nat

ASSUME InputsAssumption == \A i \in Inputs : InputOK(i)

VARIABLES
    input,                  \* the analysis result and the SliceParams; it never changes
    todo,                   \* the labels compute_failure_slices has still to look at
    target, seed,           \* the failing label and its seed_relevance
    worklist,               \* labels with what is relevant after them, the last one is next
    visited,                \* the relevance found so far at each label
    conservative_visited,   \* the labels visited with nothing relevant
    slice_labels,           \* the labels that contribute, with what is relevant before them
    steps,                  \* worklist items processed
    slices,                 \* the slices found
    phase,                  \* "scan", "slice", "expand" or "done"
    walk                    \* a walk through the CFG and where values come from

search == <<target, seed, worklist, visited, conservative_visited, slice_labels, steps>>
vars == <<input, todo, search, slices, phase, walk>>

NotWalking == [at |-> None]
Parents(l) == {m \in Labels : <<m, l>> \in input.edges}

Init ==
    /\ input \in Inputs
    /\ todo = Labels
    /\ target = Entry /\ seed = Nothing
    /\ worklist = <<>> /\ visited = <<>> /\ conservative_visited = {}
    /\ slice_labels = <<>> /\ steps = 0
    /\ slices = <<>>
    /\ phase = "scan"
    /\ walk = NotWalking

-----------------------------------------------------------------------------
(***************************************************************************)
(* compute_failure_slices.                                                 *)
(***************************************************************************)
FirstOf(S) == CHOOSE l \in S : \A m \in S : l <= m
IsFailure(l) == l \notin input.bottom /\ l \in DOMAIN input.errors
Full == input.max_slices > 0 /\ Len(slices) >= input.max_slices

\* The failing assertion seeds the slice; if it is not found, all of them do.
SeedOf(e) ==
    IF e.failing > 0 THEN AssertionRegisters(e.assertions[e.failing])
    ELSE UNION {AssertionRegisters(a) : a \in ToSet(e.assertions)}

SkipLabel ==
    /\ phase = "scan" /\ todo # {}
    /\ ~ IsFailure(FirstOf(todo))
    /\ todo' = todo \ {FirstOf(todo)}
    /\ UNCHANGED <<input, search, slices, phase, walk>>

StartSlice ==
    /\ phase = "scan" /\ todo # {}
    /\ IsFailure(FirstOf(todo)) /\ ~ Full
    /\ todo' = todo \ {FirstOf(todo)}
    /\ target' = FirstOf(todo)
    /\ seed' = Relevant(SeedOf(input.errors[target']), {})
    /\ worklist' = <<[label |-> target', after |-> seed']>>
    /\ visited' = <<>> /\ conservative_visited' = {} /\ slice_labels' = <<>> /\ steps' = 0
    /\ phase' = "slice"
    /\ UNCHANGED <<input, slices, walk>>

FinishScan ==
    /\ phase = "scan"
    /\ todo # {} => IsFailure(FirstOf(todo)) /\ Full
    /\ phase' = "done"
    /\ UNCHANGED <<input, todo, search, slices, walk>>

-----------------------------------------------------------------------------
(***************************************************************************)
(* The worklist of compute_slice_from_label.                               *)
(***************************************************************************)
Conservative == seed = Nothing
Current == Last(worklist)
\* Mutant: an item that needs no work stays on the worklist.
RestPeeked == worklist

Rest == Front(worklist)
Busy == phase = "slice" /\ worklist # <<>> /\ steps < input.max_steps

\* Mutant: a label is processed once.
GrowsOnFirstVisit(l, after) == l \notin DOMAIN visited
\* Mutant: a label is processed each time it is met.
GrowsAlways(l, after) == Size(At(visited, l)) <= Size(Merge(At(visited, l), after))

Grows(l, after) == Size(Merge(At(visited, l), after)) # Size(At(visited, l))
Irrelevant(l, after) == ~ Conservative /\ l # target /\ after = Nothing
\* A label whose relevance does not grow is left, but for the first visit of a
\* conservative walk.
Stale(l, after) ==
    /\ ~ Grows(l, after)
    /\ Size(At(visited, l)) > 0 \/ l \in conservative_visited

Contributes(l, after) ==
    LET i == input.ins[l]
        d == ExtractDeps(i)
    IN  \/ d.regs_written \cap after.registers # {}
        \/ d.stack_written \cap after.stack_offsets # {}
        \/ i.op \in {"jmp", "assume"} /\ d.regs_read \cap after.registers # {}
        \/ i.op = "assume" /\ l \in Parents(target)
        \/ l = target
        \/ Conservative

\* Without dependencies everything relevant after the label is so before it.
RelevantBefore(l, after) ==
    LET d == ExtractDeps(input.ins[l])
        used == IF Contributes(l, after) THEN Relevant(d.regs_read, d.stack_read) ELSE Nothing
    IN  IF l \notin input.collected THEN after
        ELSE Relevant(((after.registers \ d.regs_written) \ d.regs_clobbered) \cup used.registers,
                      (after.stack_offsets \cup used.stack_offsets)
                          \ (d.stack_written \ d.stack_read))

InSlice(l, after) == l \notin input.collected \/ Contributes(l, after)

\* The p-th parent of l in the order of labels.
ParentAt(l, p) == CHOOSE m \in Parents(l) : Cardinality({n \in Parents(l) : n <= m}) = p

PushParents(l, before) ==
    Rest \o [p \in 1 .. Cardinality(Parents(l)) |-> [label |-> ParentAt(l, p), after |-> before]]

DropItem ==
    /\ Busy
    /\ Irrelevant(Current.label, Current.after) \/ Stale(Current.label, Current.after)
    /\ worklist' = Rest
    /\ UNCHANGED <<input, todo, target, seed, visited, conservative_visited, slice_labels,
                   steps, slices, phase, walk>>

ProcessItem ==
    LET l == Current.label
        after == Current.after
        before == RelevantBefore(l, after)
    IN  /\ Busy
        /\ ~ Irrelevant(l, after) /\ ~ Stale(l, after)
        /\ visited' = MergeAt(visited, l, after)
        /\ conservative_visited' = IF Grows(l, after) THEN conservative_visited
                                   ELSE conservative_visited \cup {l}
        /\ slice_labels' = IF InSlice(l, after) THEN MergeAt(slice_labels, l, before)
                           ELSE slice_labels
        /\ worklist' = PushParents(l, before)
        /\ steps' = steps + 1
        /\ UNCHANGED <<input, todo, target, seed, slices, phase, walk>>

EndWork ==
    /\ phase = "slice" /\ ~ Busy
    /\ phase' = "expand"
    /\ UNCHANGED <<input, todo, search, slices, walk>>

(***************************************************************************)
(* A join point that was visited and has a parent in the slice brings      *)
(* itself and all its parents into the slice.                              *)
(***************************************************************************)
Joins == {v \in DOMAIN visited : /\ Cardinality(Parents(v)) >= 2
                                 /\ Parents(v) \cap DOMAIN slice_labels # {}}
JoinExpansion ==
    LET added == (Joins \cup UNION {Parents(v) : v \in Joins}) \ DOMAIN slice_labels
        first(m) == FirstOf({v \in Joins : m \in Parents(v)})
    IN  [m \in DOMAIN slice_labels \cup added |->
            CASE m \in DOMAIN slice_labels -> slice_labels[m]
              [] m \in added \cap DOMAIN visited -> visited[m]
              [] m \in added \ DOMAIN visited -> visited[first(m)]]

FinishedSlice == [failing_label |-> target, seed |-> seed, cut |-> worklist # <<>>,
                  relevance |-> JoinExpansion]

ExpandJoins ==
    /\ phase = "expand"
    /\ slices' = Append(slices, FinishedSlice)
    /\ phase' = "scan"
    /\ UNCHANGED <<input, todo, search, walk>>

-----------------------------------------------------------------------------
(***************************************************************************)
(* A walk through the CFG.  The value an instruction writes comes from it  *)
(* and from all the values it uses, those of memory byte by byte; an       *)
(* assumption relates the values it compares; CMPXCHG compares memory with *)
(* r0 and leaves the old value there; a call leaves nothing known of its   *)
(* argument registers.  Local calls are left out, see NoLocalCalls, and    *)
(* the walk ends at a label that the analysis collected no dependencies    *)
(* for.  An access without a known slot reads and writes no byte here.     *)
(***************************************************************************)
NoLocalCalls == \A l \in Labels : input.ins[l].op \notin {"call_local", "return"}
Cells == Registers \cup StackBytes

StartWalk ==
    /\ phase = "done" /\ walk = NotWalking /\ slices # <<>> /\ NoLocalCalls
    /\ walk' = [at |-> Entry, from |-> [x \in Cells |-> {}]]
    /\ UNCHANGED <<input, todo, search, slices, phase>>

Sources(S) == UNION {walk.from[x] : x \in S \ {None}}
Wrote(i) ==
    CASE i.op \in {"alu", "mov", "un", "load_const", "load"} -> {i.dst}
      [] i.op \in {"store", "atomic"} -> Bytes(i)
      [] i.op = "fetch" -> {i.src} \cup Bytes(i)
      [] i.op = "cmpxchg" -> {0} \cup Bytes(i)
      [] i.op \in {"call", "callx", "packet"} -> {0}
      [] i.op = "assume" -> {i.dst, i.src}
      [] OTHER -> {}
Used(i) ==
    CASE i.op \in {"alu", "assume"} -> {i.dst, i.src}
      [] i.op \in {"mov", "packet"} -> {i.src}
      [] i.op = "un" -> {i.dst}
      [] i.op = "load" -> {i.base} \cup Bytes(i)
      [] i.op = "store" -> {i.base, i.src}
      [] i.op \in {"atomic", "fetch"} -> {i.base, i.src} \cup Bytes(i)
      [] i.op = "cmpxchg" -> {i.base, i.src, 0} \cup Bytes(i)
      [] i.op = "call" -> Args
      [] i.op = "callx" -> {i.src} \cup Args
      [] OTHER -> {}
Lost(i) == IF i.op \in {"call", "callx", "packet"} THEN Args ELSE {}

Walk ==
    /\ walk # NotWalking /\ walk.at \in input.collected
    /\ \E e \in input.edges :
          /\ e[1] = walk.at
          /\ LET i == input.ins[walk.at]
                 new == {walk.at} \cup Sources(Used(i))
             IN  walk' = [at |-> e[2],
                          from |-> [x \in Cells |-> IF x \in Wrote(i) THEN new
                                                   ELSE IF x \in Lost(i) THEN {}
                                                   ELSE walk.from[x]]]
    /\ UNCHANGED <<input, todo, search, slices, phase>>

Compute == \/ SkipLabel \/ StartSlice \/ FinishScan \/ DropItem \/ ProcessItem
           \/ EndWork \/ ExpandJoins
Finished == phase = "done" /\ UNCHANGED vars
Next == Compute \/ StartWalk \/ Walk \/ Finished
Spec == Init /\ [][Next]_vars /\ WF_vars(Compute)

-----------------------------------------------------------------------------
RelevantState == [registers : SUBSET Registers, stack_offsets : SUBSET Slots]
TypeOK ==
    /\ InputOK(input) /\ todo \subseteq Labels /\ target \in Labels
    /\ seed \in RelevantState
    /\ \A w \in ToSet(worklist) : w.label \in Labels /\ w.after \in RelevantState
    /\ \A map \in {visited, slice_labels} \cup {s.relevance : s \in ToSet(slices)} :
          DOMAIN map \subseteq Labels /\ \A l \in DOMAIN map : map[l] \in RelevantState
    /\ conservative_visited \subseteq Labels
    /\ steps \in 0 .. input.max_steps
    /\ phase \in {"scan", "slice", "expand", "done"}

(***************************************************************************)
(* What extract_instruction_deps does not see: that CMPXCHG reads and      *)
(* writes r0, and that accesses overlap which do not start at the same     *)
(* byte or are not of the same width.                                      *)
(***************************************************************************)
NoExchange == \A l \in Labels : input.ins[l].op # "cmpxchg"
SlotsApart ==
    \A l, m \in Labels :
        LET i == input.ins[l]
            j == input.ins[m]
        IN  <<i.slot, i.width>> = <<j.slot, j.width>> \/ Bytes(i) \cap Bytes(j) = {}

(***************************************************************************)
(* The slice has what a failure comes from, but for the two blind spots    *)
(* above: in a program without CMPXCHG whose accesses to known parts of    *)
(* the stack are the same or apart, whenever a walk arrives at a failing   *)
(* label, every label from which the values of the registers its assertion *)
(* names come is in the slice, unless the step limit cut the search.  This *)
(* is what extract_instruction_deps and the transfer of relevance in       *)
(* compute_slice_from_label are for.                                       *)
(***************************************************************************)
SliceComplete ==
    walk # NotWalking /\ NoExchange /\ SlotsApart =>
        \A s \in ToSet(slices) :
            s.failing_label = walk.at /\ ~ s.cut =>
                Sources(s.seed.registers) \subseteq DOMAIN s.relevance

(***************************************************************************)
(* The worklist ends by itself: a label is processed again only when its   *)
(* relevance has grown, so that the steps are bounded by the size of the   *)
(* program and the step limit is a matter of cost, not of termination.     *)
(***************************************************************************)
StepsBounded == TypeOK /\ steps <= Cardinality(Labels) * (Cardinality(Items) + 1)

(***************************************************************************)
(* The relevance the search is meant to find: the closure of the seed      *)
(* under RelevantBefore, one item at a time.  None stands for a label that *)
(* a conservative walk visits with nothing relevant.                       *)
(***************************************************************************)
Single(x) == Relevant({x} \cap Registers, {x} \cap Slots)
ItemsOrNone(r) == IF r # Nothing THEN ItemsOf(r) ELSE IF Conservative THEN {None} ELSE {}
Earlier(n) == Parents(n[1]) \X ItemsOrNone(RelevantBefore(n[1], Single(n[2])))

MeantRelevance ==
    LET closure[S \in SUBSET (Labels \X (Items \cup {None}))] ==
            LET T == S \cup UNION {Earlier(n) : n \in S} IN IF T = S THEN S ELSE closure[T]
    IN  closure[{target} \X ItemsOrNone(seed)]

FoundRelevance == UNION {{l} \X ItemsOf(visited[l]) : l \in DOMAIN visited}

(***************************************************************************)
(* When the worklist of compute_slice_from_label is empty, each label has  *)
(* exactly the relevance of the closure, although a label is processed     *)
(* with what is new to it alone and left when nothing is; when the step    *)
(* limit ends the search it has found a part of that and nothing else.     *)
(***************************************************************************)
RelevanceExact ==
    phase = "expand" =>
        LET meant == {n \in MeantRelevance : n[2] # None}
        IN  /\ FoundRelevance \subseteq meant
            /\ worklist = <<>> =>
                  /\ FoundRelevance = meant
                  /\ DOMAIN visited = {n[1] : n \in MeantRelevance}

(***************************************************************************)
(* compute_failure_slices ends.                                            *)
(***************************************************************************)
EventuallyDone == <>(phase = "done")
=============================================================================
