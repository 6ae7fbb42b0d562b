# A TLA+ model of prevail-rust

prevail-rust decides whether an eBPF program may be loaded. It reads the
program from an ELF file, decodes its instructions, builds a control-flow graph
(CFG) with the local calls inlined, puts the graph in a weak topological order
(WTO), and runs an abstract interpreter over that order. The program is accepted
when every assertion of every instruction holds in the invariants that come out.

The verifier is one sequential computation. What makes it hard is therefore
not concurrency but long sequences of operations on shared, incrementally
updated state: an explicit-stack graph algorithm that renumbers vertices while it
runs, an iteration whose intermediate invariants are not yet true, graph
transformations that look at the result of earlier ones, and abstract domains
that keep invariants between their tables (potentials, recycled vertices,
representatives) over any sequence of calls. One real interleaving exists: the
program that was accepted runs after the analysis, and everything the verifier says
is a promise about those runs. The models let it run.

## 1. Inventory

Paths are relative to the root of the repository.

| Component | Source | State it keeps | Operations | Correct when |
|---|---|---|---|---|
| ELF loader | `src/elf_loader.rs` | programs cut out so far, their relocations, sets of resolved and visited programs | cut out a program, record its local calls, append its subprograms, point calls at them | a loaded program goes where the file goes, and is laid out as the CFG builder expects |
| Decoder | `src/ir/unmarshal.rs` | position | decode one instruction of one or two slots | targets lie in the program |
| CFG builder | `src/ir/program.rs`, `src/cfg/graph.rs`, `src/cfg/label.rs` | graph under construction, callback tables | the passes of `Program::from_sequence`: support, kfuncs, lowering, edges, inlining, tail calls, callbacks, counters, assertions | every execution of the instruction sequence is a path of the graph, under the right stack frame |
| WTO | `src/cfg/wto.rs` | DFS numbers, vertex stack, task stack, components, nestings | push_successors, start_visit, continue_visit, finalize | every cycle of the graph goes through a head of a component around it |
| Fixpoint iterator | `src/fwd_analyzer.rs` | pre, post and error per label, skip flag, the recursion | process node, iterate cycle up and down, check counters, exit value | accepted programs do not fault; invariants cover all runs |
| Zone domain | `src/crab/zone_domain.rs`, `src/crab/splitdbm/*`, `src/crab/add_bottom.rs` | weighted graph, potentials, free vertices, variable maps | assign, set, havoc, forget, add_constraint, rename, join, widen, meet, narrow, queries | every operation covers the concrete one |
| Type domain | `src/crab/type_domain.rs`, `src/crab/dsu.rs`, `src/crab/var_id_map.rs` | union-find forest, sets of types, variable maps | assign, havoc, restrict, unify, rename, join, meet, queries | exact on sets of valuations |
| Finite-width domain, intervals, numbers | `src/crab/finite_domain.rs`, `src/crab/interval.rs`, `src/arith/*` | the zone; two variables per register | arithmetic with wrap-around, comparisons at two widths and signs | covers machine arithmetic, and never panics |
| Product of types and values | `src/crab/type_to_number.rs` | both | selective join, havoc by kind, join over types | values are looked at only under the types that have them |
| Stack domain | `src/crab/array_domain.rs`, `src/crab/bitset_domain.rs` | cells by kind, numeric bytes | load, store, havoc, split | no cell survives an overlapping store |
| eBPF domain | `src/crab/ebpf_domain.rs` | product and stack | lattice, entry state, constant limits, questions about maps | inclusion means coverage |
| Transformer | `src/crab/ebpf_transformer.rs` | none of its own | one operation per instruction | the new state covers what the machine does |
| Checker, assertions | `src/crab/ebpf_checker.rs`, `src/ir/assertions.rs` | none of their own | assertions of an instruction, the test of one | what is accepted does not go wrong |
| Result and slices | `src/result.rs` | worklist, relevance per label, visited sets | backward slicing from each failure | the slice has what the failure comes from; the worklist ends |
| BTF, platform, formats, printing, tools | the rest | | | see section 7 |

Interaction is by call: the loader gives an instruction sequence to the CFG
builder; the builder runs the WTO construction twice (tail calls, termination
counters) and the iterator runs it again on the finished graph; the iterator calls
the transformer and the checker, which call the domains; the finished invariants go to
the slicer and the printer. `Loading` composes the first three, `EbpfAnalysis` the
checker, the transformer and all domains.

The hard behaviours are listed in `PROJECT.json` under "hazards", each at its line.

## 2. Modules

| Module | Models |
|---|---|
| `Wto` | What a WTO in flat form is, and what makes one correct (`IsWto`). |
| `WtoBuilder` | The task loop of `src/cfg/wto.rs` and `finalize` with the nesting tables. |
| `WtoBuilderProofs`, `WtoSoundness` | Theorems about `WtoBuilder`: its unwraps, its result with the nestings, and the check of tail-call chains. |
| `TailCallDepth` | `validate_tail_call_chain_depth`, on the orders `WtoBuilder` computes. |
| `Fixpoint` | `src/fwd_analyzer.rs`, with the domain, transformer and checker as parameters, and the run of the accepted program. |
| `FixpointProofs` | Theorems about `Fixpoint`. |
| `CfgBuilder` | The passes of `Program::from_sequence`, and an eBPF machine that executes the same instructions. |
| `CfgBuilderProofs` | Theorems about `CfgBuilder`. |
| `Linking` | `ProgramReader` of `src/elf_loader.rs`: programs cut out of sections, subprograms appended. |
| `Loading` | Composition: `Linking`, decoding, `CfgBuilder`. |
| `LoadingProofs` | Theorems about `Loading`: linking against the file, and the layout of what is loaded. |
| `ZoneGraph` | The graph of a zone as a function from pairs of vertices to weights: views, joins, meets, widenings, closure over an edge. |
| `SplitDbm` | `src/crab/splitdbm/split_dbm.rs` and the closures and potential searches of `graph_ops.rs`. |
| `Zones`, `ZoneDomain` | `src/crab/zone_domain.rs` under `AddBottom`: its operations, and a machine that performs them on two zones. |
| `TypeValuations` | What the type domain promises: operations on sets of valuations. |
| `Orders` | Going through sets in an order, and through sequences. |
| `TypeClasses`, `TypeDomain` | `src/crab/type_domain.rs` with its forest and maps: its operations, and a machine that performs them, refining `TypeValuations`. |
| `DomainProofs` | Theorems about `TypeDomain` and `ZoneGraph`. |
| `MachineInt`, `Interval` | `Number`, `ExtendedNumber` and `Interval`, with widths as parameters. |
| `FiniteDomain` | `src/crab/finite_domain.rs` on `Zones`. |
| `ScalarOps`, `ScalarTransformer` | The ALU instructions and branches of the transformer on numbers, and a machine that performs them. |
| `AluSemantics` | The arithmetic of the instruction set, which the two levels of transformer are measured by. |
| `TypedValues` | `src/crab/type_to_number.rs`: `TypeClasses` with `FiniteDomain`. |
| `ArrayDomain` | `src/crab/array_domain.rs`, `bitset_domain.rs`. |
| `EbpfDomain` | `src/crab/ebpf_domain.rs`. |
| `EbpfTransformer`, `EbpfChecker` | The transformer; the assertions of every instruction and their checks. |
| `EbpfMachine` | The machine with registers, stack, packet, context, maps and frames, and what a fault of it is. |
| `EbpfAnalysis` | Composition: checker, transformer and lattice along the control flow, beside the machine. |
| `Slices` | `compute_failure_slices` of `src/result.rs`. |
| `SlicesProofs` | Theorems about `Slices`. |
| `FiniteOrders` | Lemmas on numbers, finite sets, sequences and loops that several of the proofs use. |
| `MC...` | Instances of the above for TLC. |

Definitions keep the names of the source where TLA+ allows (`process_cycle`
is the exception, see below); `PROJECT.json` maps each one to its lines.
A definition introduced by a comment "Mutant: ..." is a plausible mistake in the
definition below it and is used nowhere else.

### WtoBuilder

A step is one task taken off `visit_stack`: `PushSuccessors`, `StartVisit`,
`ContinueVisit`; `Finalize` is what `Wto::new` does after the loop. DFS numbers,
`head_dfn`, the vertex stack and the partitions are kept as in the code. The result
is the flat order, with the position of the last label of each cycle and the nesting
of each label. Printing is left out.

### Fixpoint

`visit_component` is recursive; here the recursion is a position in the flat order
(`pc`) and a stack of frames, one for each cycle being iterated. `ProcessNode` is
`process_node`; `process_cycle` is cut where its loops are: `EnterCycle`,
`ProcessHead` (start of an iteration), `EndAscending`, `EndDescending`. `Finish` is
the end of `run`: loop bounds and exit value. `Load` and `Execute` run the accepted program;
an execution that is outside the safe states of its instruction stops there, and
`NoFault` says that this never happens.

Left out: extraction of dependencies, `max_loop_count`, `max_call_depth`. `exit_value` is the
exit's post-invariant, of which the code keeps the interval of r0. The test on nestings that
picks the predecessors a cycle starts from also leaves out a predecessor in an earlier
sibling cycle that exits straight to the head; the model has the same test, and the
instance has such a graph: the first iteration starts lower than needed, and the result
is the same post-fixpoint.

### CfgBuilder

Each pass is an action, `AddCfgNodes` the inlining of one call. The prefix of a label,
in the code a text of call indexes joined with `/`, is the sequence of those indexes,
compared number by number (the order of the texts for indexes of one digit). A pass that
rejects sets `pass` to "rejected", one that panics to "panicked". The choice of
heads for the counters is the contract of the WTO that `WtoBuilder` is checked
for, not the construction again. Whether the platform supports an instruction, knows a kfunc
or a map is one decision per instruction, made by its kind. `Undefined` instructions and
the text of assertions are not modelled. The tail-call check is skipped when there are no more
sites than the limit, where it cannot fail.

`Start` and `Execute` are an eBPF machine with a stack of return addresses. It is external: it
states what the graph is compared with, not what the code does.

`MainFirst` describes the layouts the ELF loader appends to, where the main program comes
first and the subprograms behind it. `GraphFollowsMachine` and the first half of `FramesMatchMachine` are stated
for those, its bound on the frames for all; what happens in others is in section 5, and which files give those is `LoadedInOrder`.

### ZoneGraph, SplitDbm, ZoneDomain

A zone is a core (edges as a function, potentials, free vertices) with the maps between
variables and vertices; bottom is the empty set around it, as `AddBottom` is an
`Option`. Weight slots, graph views, and scratch space shared by the searches are ways to
store and read the edge function and are abstracted to it. The closures pick vertices by
least distance; where the heap breaks ties by its layout, the model leaves the choice to
`CHOOSE`. `unstable` is empty between operations, because `from_parts` normalises, and has no
variable. `is_closed` is never set by `graph_meet`, so a meet always closes. Disequations have
coefficients 1 and -1, as their callers make them. `UintMax` stands for `u64::MAX` in
`trim_interval`: larger than every bound of the instance. `narrow` is what the source has (with a FIXME
there): the left operand, unless that is top. Printing is left out.

Two zones, `dom[1]` and `dom[2]`, are changed by the operations in any order, joined, met and
copied. `min_only` is the set of variables of which `is_min_only` keeps lower bounds only; it is chosen
at the start.

### TypeDomain and TypeValuations

`rep` is the forest of `dsu.rs` fully compressed: path compression changes no answer.
Elements are never reclaimed, as in the code. The first elements are the sentinels, one
per type. `TypeValuations` says what each operation does to a set of valuations
(type variables to types): assignments and restrictions are exact, meet is intersection, a join is the least
state of the domain's form that covers both. `TypeDomain` implements it under `Gamma`, the valuations a forest
stands for. Assigning an expression of several variables is a havoc; widening
is join and narrowing is meet there, so they have no actions of their own.

### Linking and Loading

Sections, function symbols and relocations of a file are given; a jump or a call has its distance, as encoded.
`ReadProgram` cuts out one program (name and end by symbols, then the span that control can
reach) and records its local calls, by relocation or by the target's symbol.
`resolve_subprograms_for` is recursive; its activations are the stack `calls`, and `PointCall`,
`ResolveCallee`, `Recursion`, `MissingSubprogram` and `FinishSubprogram` are what one turn of its loop can do. The relocations of a program are a
set, taken in the order of `ComesBefore`: those of the file by offset, then the synthetic ones. Each slot has an origin in the
file, which the code does not keep and which the property is stated with. `Decode` turns slots into the
instructions of `CfgBuilder`: a wide instruction takes two slots, targets have to be slots.

Left out: the long jump JA32, maps, external symbols, BTF relocations and line info, which rewrite operands and not control flow.

### Numbers

`MachineInt` and `Interval` have the widths as parameters: W64, W32, W16 and W8 stand for 64, 32, 16 and 8 bits, and
a `Number` has twice the width W64, so that overflow happens in the instance where it
happens in the code, in proportion. A checked operation that overflows, `set` of an empty
interval, and a cast of a number that does not fit leave the marker `Panic` in place of a state.

A method of the finite-width domain is the sequence of calls it makes on the zone, and each call looks at the
zone the ones before it left. The ALU part of the transformer (`ScalarOps`) is written in the same way, and is used both by
`ScalarTransformer`, where registers hold numbers only, and by `EbpfTransformer`.

### TypedValues, ArrayDomain, EbpfDomain, EbpfTransformer, EbpfChecker

Locations (registers, saved registers, cells of the stack) and kinds of values are numbers, and so are variables:
`32 * location + kind`. A state is the type state, the zone, the numeric bytes and the set of cells.
An operation is a sequence of commands; where the code looks at the state again after having
changed it, the command stands for a function of the state and is expanded when its turn comes. Joins over the types of a register
(`join_over_types`) are commands too.

Abstracted: the offset map of the array domain is the set of its cells (its slots and backward scan are a way to find the overlapping
ones); little-endian only; a kfunc is a call with a contract; helper prototypes and map
definitions are constants of the instance (`Contracts`, `Maps`); the write mask of the
context has the packet pointers only. Messages are left out.

### EbpfMachine and EbpfAnalysis

The machine is external: values with a type, a number or address, an offset and the size of their object;
a stack of bytes; frames with saved registers; the packet and its size; map lookups that may fail;
helpers that write anything into the memory they may write. `Faults` says which executions go
wrong: accesses outside an object or frame, division by zero, overwritten packet pointers in the context, broken contracts of helpers.

`EbpfAnalysis` takes a program step by step. `Execute` checks an instruction and transforms the state, and moves
every state of the machine (`reach`) along. `Branch`, `OtherBranch`, `JoinBranches`, `WidenBranches`,
`WidenToLimits` and `NarrowBranches` are what the iterator does at joins and heads, on a pair of states. `StandsFor` says
which machine states an abstract state covers: a variable counts only where the type of what is there gives it a meaning.

### Slices

`SkipLabel` and `StartSlice` go through the labels and take the registers of the failing assertion, up to `FinishScan`; `ProcessItem`
and `DropItem` are the turns of the worklist that `EndWork` ends, `ExpandJoins` the expansion of join points. The dependencies of
instructions are computed as `extract_instruction_deps` does. Afterwards the model walks the CFG forwards (`StartWalk`, `Walk`),
from the entry to any failing label, and keeps for each register and each byte of the stack the labels its value comes from. It is what the slices are measured by, so it does
not look at memory as the slicer does: the slicer knows a slot by the offset an access starts at (`Slots`), the walk by the bytes it has (`Bytes`), and CMPXCHG, a fetching atomic
to the slicer, compares r0 and writes it in the walk (`Wrote`, `Used`). The walk goes through labels for which the analysis
collected dependencies; the registers an assertion names are ones its instruction reads, or that it leaves alone.

## 3. Runs

| Run | What it checks | States, time (2 workers) |
|---|---|---|
| `wto_builder` | all CFGs of four labels with at most two successors each; the order is a WTO, cycles are strongly connected, nestings match, no unwrap fails, the tail-call bound is exact, the construction ends | 133 295, 58 s |
| `fixpoint` | all programs over three shapes of CFG (nested, irreducible, adjacent loops), with and without termination checking | 136 078, 72 s |
| `cfg_builder` | all sequences of three families: five branches, calls and exits; four with jumps under termination checking; three of every kind | 1 084 053, 121 s |
| `loading` | files of one section with three functions that call, branch into and run into each other, or with four that call each other, files of three sections with relocations, and recursive sequences: linking, decoding, graph | 106 475, 50 s |
| `zone_domain` | all sequences of three operations on two zones of three variables | 30 935, 126 s |
| `type_domain` | all sequences of three operations on two states, three variables, three types; refinement of `TypeValuations` | 68 159, 80 s |
| `scalar` | all programs of four instructions on two registers, numbers of 4 and 2 bits: two conditions on one register, one on the other, then any ALU instruction or branch | 51 157, 86 s |
| `ebpf` | families of programs on the whole domain (below), beside the machine | 4 138, 140 s |
| `slices` | programs of six labels with a loop around a branch, or a branch and a loop, or straight ones on the stack, in halves and as a whole, with CMPXCHG | 269 738, 31 s |
| `inline_return`, `swap64`, `ebpf_helper_write` | disagreements, section 5 | 16 s, 8 s, 94 s |

Every property of a passing run is violated by at least one mutant of the code's definitions, listed in
`PROJECT.json`.

### Bounds, and why they are enough

- *Graphs.* Four labels besides the entry have every pair of nested or overlapping cycles, irreducible loops, self-loops and unreachable labels that precede reachable ones. A jump has
  at most two successors. Unreachable labels are seen by the builder only as
  predecessors, and one successor is enough for that.
- *Fixpoint.* The domain has intervals over five values, with a threshold between two of them, so that iterations pass the delay, widen with
  and without the threshold, and narrow more than once; `DescendingIterations` is 2, so that its limit is
  reached, and is any natural number in the proofs. Instructions include the failing
  ones of both sorts: a check that fails and a transfer that fails.
- *CFG.* Five slots are a main program that calls a subprogram that calls another, with a branch;
  the limits (3 or 4 frames, a chain limit of 1) are small enough to be exceeded.
- *Loading.* Three functions are a program, its callee and the callee's callee; with them a subprogram is copied with its own
  subprograms appended, is called twice, is missing, and is called before and after it failed. Four functions, one of which calls twice, are what inlining panics on (section 5).
- *Zones and types.* `MaxOps` exists because operation sequences have no end; these two specifications have no final state, and their
  configurations switch off the deadlock check for that reason only. Three variables are what it takes
  for a relation to travel through a third one. `Values` is the range in which concrete valuations are compared.
- *Numbers.* With 4 bits for 64 and 2 for 32 every wrap-around, sign change and truncation happens, the comparisons
  go through all cases of the 32-bit methods, and all valuations can be enumerated. What depends on the distance between the two widths alone is not seen.
- *eBPF.* The stack has 8 bytes in two frames, a word has 2, a register 4 bits; the context has packet pointers and a number; there are a hash, an array and a map of maps, and helpers with one contract of
  each sort. A program is a sequence of sets of instructions of which TLC takes each: partial overwrites of numbers, spills beside numbers,
  a stack pointer that moves by an unknown number, the packet and its end test, a register that is a number on one branch and a pointer on the other, two pointers of different types,
  lookups, a subprogram with its own frame, buffers of known and unknown size, atomics, a loop with
  widening, limits and narrowing, and writes to the context. These are the cases in which two of the three structures (types, values, stack) have to be kept in
  step. The specification ends with its program, so the deadlock check is off.
- *Slices.* A loop around a branch is what makes relevance come back to a label that was done; step limits are small in some inputs and out of reach in others. Two slots of four bytes are apart, and an access of eight bytes overlaps both: some inputs satisfy the premises of `SliceComplete`, some do not.

### Fairness

`WtoBuilder`, `Fixpoint`, `CfgBuilder`, `Loading` and `Slices` assume weak fairness of the steps of the computation (`Next`, `Analyze`, `Build`, `LoadAndBuild`, `Compute`): they are steps of one sequential
program that waits for nothing. The accepted program itself is under no fairness: it need
not be loaded nor run. The domains state no liveness.

## 4. Properties

Those worth arguing about (the definitions' comments state them in full):

- `ResultIsWto`, `NestingsExact`: the order the iterator relies on. `IsWto` is the very definition
  that `Fixpoint` assumes of its programs, so the two modules meet there. `UnwrapsSucceed` is what the builder's own `unwrap`s rely on,
  `CyclesAreStronglyConnected` that no label is iterated without need, `ChainBoundExact` that a program is rejected exactly when an execution passes too many tail calls.
- `NoFault`, `InvariantsHold`: the verdict, the reported invariants and the exit value hold of
  every run. The pre of a head is replaced after its body was last analysed, and labels with an error keep old
  posts, so none of them follows from one look at the labels.
- `GraphFollowsMachine`, `FramesMatchMachine`: simulation of the machine by the graph, through several levels
  of cloning. `EveryLoopCounted`: no cycle of the finished graph avoids the counters. `CallbackExitsExact`: the callbacks said to
  return are those that can reach an exit.
- `LinkedFollowsFile`: from every instruction a linked program can reach, control goes to copies of what the file says, through
  all levels of copied subprograms. It assumes `JumpsInOrder`, no jump goes back behind the start of its function or out of its section, and `NamesApart`, a name belongs to one function and relocations know its section.
  What happens otherwise is in section 5.
  `LoadedInOrder`: what comes out of the loader satisfies `MainFirst`, under which `GraphFollowsMachine` is stated, and is inlined without a panic. It assumes that no jump goes back behind its function's start,
  that the calls within a span go forward to starts of functions (`SpansForward`), that every program that is kept is linked, and that indexes fit a label's number (`LabelsFit`). `EventuallyDecided`: loading ends.
- `SoundSteps`: each zone operation against its concrete meaning, and exact for constraints and meets. `RepresentationOK`: the
  invariants behind the searches and behind recycled vertices (potential, names). `TestsSound`, `BoundsByTest`: what the
  inclusion and entailment tests say is true, and they recognise joins and widenings as upper bounds, meets and narrowings as descending, which the iterator takes for granted. `BoundsClosed` is stated without min-only variables, with which it does not hold.
- `ImplementsTypeValuations`: the forest implements sets of valuations. `AnswersExact`: what it is asked.
- `StepsCoverMachine`: each ALU instruction and branch covers the machine's, whichever of the two views of a register is known. `NoPanic`: no checked operation overflows. `ConstantsStayKnown`: a program without unknown inputs is executed.
- `TypesCovered`, `ValuesCovered`: after any of those programs the types, the numeric bytes and the values of the state cover every state of the machine.
  `CheckedStepsDoNotFault`: what the checker accepts does not go wrong. `NoBug`: what it accepts, the transformer can do. `BoundsByInclusion`, `IncludedMeansCovered`: the test by which the iterator stops
  recognises upper bounds and what narrowing leaves, and means coverage. With `TypesCovered`, `ValuesCovered` and `CheckedStepsDoNotFault` these are the assumptions
  `DomainSound` and `InstructionsSound` of the soundness theorem, on the instance.
- `RelevanceExact`, `SliceComplete`: the worklist finds the least solution of the backward equations, and the slice has every instruction the failing values come from, for programs without local calls (`NoLocalCalls`), without CMPXCHG (`NoExchange`), and whose accesses to known parts of the stack are the same or apart (`SlotsApart`). Without either of the last two TLC finds a slice that lacks a cause, see section 5. `StepsBounded`, `EventuallyDone`: it ends by itself.

`EbpfAnalysis` keeps out of the programs of its passing run what section 5 lists.

## 5. Disagreements found

Shown by a run:

- `inline_return`: `program.rs` says that a local call has exactly one continuation, its fallthrough. Calls are inlined
  in the order of their indexes. If the callee's own call was inlined first, its only child is by
  then the first clone of its callee, and the second cloning takes that for the continuation. It needs a subprogram in front of its caller;
  the loader makes no such layouts when the calls within a section go forward (`LoadedInOrder`).
- `swap64`: a 64-bit swap of a known number gives the unsigned view a negative number when the top bit of the result is set, and unsigned branches
  that the machine takes are unreachable for the analysis.
- `ebpf_helper_write`: a helper that writes a buffer of unknown size makes the transformer forget the cells of the values and not the type: a spilled pointer under the buffer keeps its type.

Met while modelling, and left to the reader of the code:

- In layouts with a subprogram in front of its caller the cloned region may hold an instruction and an earlier clone of it; both get one label, and `CfgBuilder::insert` panics
  (`0: call 1; 1: exit; 2: call 0; 3: exit`). The main program may be first, and there need be no recursion: `main 0: call f`, `h 2: call k, 3: call k`, `f 5: call h`, `k 7`, all in one section. Call 5 is
  inlined after 2 and 3, so what is copied of `h` has two clones of `k` in it, which get one label. A recursive file (`main 0: call g, 1: call f`, `f 3: call g, 4: call main`, `g 6`) panics in this way in place of being rejected.
- `TypeDomain::is_included_in` does not test the equalities of a class of which the left-hand state knows no member. `InclusionExactWhenKnown` shows that the answer is exact otherwise.
- `resolve_subprograms_for` keeps the offsets of appended subprograms by name only: two callees of one name in two sections share the first copy.
  A program that lacks a subprogram is kept unlinked when no section is asked for. A backward jump out of an appended function, a jump out of the section, or running off its end, lands in other copied code. A function may have the name of
  its section, as a program that starts at no symbol does; a relocation then finds the first program of that name.
  `compute_reachable_program_span` reads the distance of JA32 from `offset`.
- `add_to_reg` on a register that may be a number or a pointer sets the unsigned view from the signed one; a store of a negative immediate
  gives the cell's unsigned view the signed number; CMPXCHG on a spilled pointer stores the type number although memory may keep the pointer, and nothing is asserted of what is in memory.
- Bottom is not included in a state that has numeric bytes, since the stacks are compared first; the iterator is not affected.
- `extract_instruction_deps` misses causes of a failure, and slices are complete only up to these:
  - a slot is known by its start alone (`result.rs:833-857`): a store of eight bytes at r10-8 is no cause of what a load of four bytes at r10-4 reads, and a narrow store at r10-8 ends the search for the wide one under it. `SliceComplete` has the premise `SlotsApart`; without it the run finds this program.
  - CMPXCHG is a fetching atomic (`result.rs:859-876`): r0, which it compares and writes, is in no set, and its source register counts as written. The premise is `NoExchange`; without it the run finds `r0 = 0; cmpxchg; r1 = r0`.
  - what the walk leaves out as the code does: loads, stores and atomics through pointers whose stack offset is not known, memory other than the stack, what helpers read and write, pointers into the packet that a helper makes unusable in other registers, the r6 of a packet access, and that an instruction is reached at all (control dependence, but for the assumptions that name a relevant register or stand before the failing label);
  - an exit of a subprogram writes r6 to r9, where the slice stops. `SliceComplete` is stated without local calls.
- Widening of zones does not converge in general, as the warning at `split_dbm.rs:399` says: from x <= 0, y <= 1, |x - y| <= 1 with a loop body that does x := y + 1 or y := x + 1, each widening drops one bound and closure brings it back larger by one.

## 6. Proofs

The theorems hold for every value of the constants, under the assumptions named in the modules.

**`FixpointProofs!WalkCorrect`**: `Spec => [](TypeOK /\ WalkStructure)`. The position and the frames always
stand for one point of the recursion. The inductive invariant is `StructInv`: the program
is one of `Programs`, `TypeOK`, `WalkStructure`. `TypeOK` of `Fixpoint` is proved and not run. From: `ProgramsAssumption`, `DomainClosed`.

**`FixpointProofs!NarrowingOnlyDescends`**: `Spec => NarrowingDescends`, from `RefiningDescends`: a value is included in itself, and
a meet and a narrowing are included in their first operand. It is a hypothesis of this theorem only; the soundness of the verdict does not
depend on it. The first step down starts from the joined predecessors, which the test for a post-fixpoint has just found included.

**`FixpointProofs!VerdictSound`**: `Spec => []NoFault`, and
**`InvariantsSound`**: `Spec => []InvariantsHold`, the pre-invariants (`RunInPre`) and the exit value (`ExitValueSound`). From these, and
- `DomainSound`: inclusion, meet, narrowing and the join over predecessors are sound. Nothing is asked of the binary
  join or of widening, and nothing of monotonicity;
- `StepsAssumption`, `InstructionsSound`: where the check and the transfer succeed, instructions are safe and their
  results covered.

The argument. While a cycle is iterated, the invariant of its head is a guess, and
the posts computed from it are true only if it is. `Reach(g, C, e)` is what an execution
can reach if the guesses C are taken for granted: the states of the entry invariant, the
states of each guess at its head, and whatever steps lead to, except into a head that
has a guess. The inductive invariant `SoundInv` is `StructInv` and, as long as nothing
has failed:

- no label has an error;
- `LeftCovered`: every position left of `pc` covers what `Reach` with all active guesses
  leads to there: the state is in the pre, is safe (a loop counter's bound comes later),
  and its successors are in the post;
- `GuessesHold`: the guess of a cycle on its way down equals the pre of its head and covers what
  `Reach` leads to at the head when this guess and the inner ones are withdrawn;
- `VerdictHolds`: at the end, everything `Reach` without guesses leads to is safe;

and `RunHolds`, which ties the execution to `Reach` without guesses. `NoFault` by itself
is not inductive: it says nothing before the program is loaded, and the induction has to go
through states in which the posts are true only relative to the guesses. The step that carries the
argument is `WithdrawGuess`: if what flows into a head is in its guess, dropping the
guess makes nothing new reachable. Where the walk is inside an outer cycle it rests on
`ReachLocal`: what is reached left of a position depends only on the guesses
left of it, when every other head there has its whole cycle there too; this is where the WTO property
(backward edges go to heads of cycles around them) is used.

**`DomainProofs`**, of `ZoneGraph`: `JoinSound`, `MeetExact`, `WidenSound`, `DeferredSound`, `SubsumptionSound` and `CloseOverEdgeExact`
state for every graph and every valuation what the operations on edges do: joins (with the deferred relations) and widenings
cover, meets are exact, the subsumption test implies inclusion, and closing over an edge
changes no solution: it neither loses a valuation nor admits one.

**`WtoBuilderProofs!UnwrapsSucceedUntilOverflow`**: `Spec => [](num < DFN_INF => UnwrapsSucceed)`, for every finite graph: as
long as the numbers have not reached the mark of a finished vertex, no unwrap of `start_visit` or `finalize` fails. **`UnwrapsSucceedAlways`**:
for a graph of L labels with `L * (L + 1) < DFN_INF`, no unwrap fails at all, and at most `L * (L + 1)` numbers are given out; an
i32 is enough for 46 340 labels. `start_visit` sets vertices back to zero and numbers them again, so a bound on the numbers is not a
bound on the vertices. The inductive invariant `BuilderInv` says what the explicit stack
stands for in the middle of a visit:
- `StackInv`: the vertex stack has the open vertices in the order of their numbers;
- `TaskInv`: each begun task is for a child of the one begun below it and has a higher number, and its links name a cycle that lists it;
- `WaitingInv`: a vertex that was left on the stack leads to an open one below it, and the begun task below it leads to it through
  waiting vertices. This is what makes `start_visit` of a head find its vertex on top once the others are popped;
- `WhiteInv`: the white children of begun and waiting vertices are reached by the tasks above them, those that were set back included;
- `CycleInv`: while a cycle is walked again, what leads out of it is in a component already.

`NumInv` pays for the numbers: a finished vertex pays for L + 1, an open one for its own.

**`WtoSoundness!ResultIsWtoAlways`** and **`CyclesConnectedAlways`**: `Spec => []ResultIsWto` and `Spec => []CyclesAreStronglyConnected`, for
every finite graph with `L * (L + 1) < DFN_INF`; `ResultIsWtoUntilOverflow` and `CyclesConnectedUntilOverflow` say the same of every graph, as long
as the numbers are below the mark. `IsWto` is what `Fixpoint` takes for granted of its order, so the two proofs meet there.
The properties are about the last step only, and the partitions lie about in pieces until then. The proof looks at them through a history that the
code does not keep: `line`, the labels in the order in which they were listed (the walk backwards), and for each partition the places
`from` and `to` of the line between which it lies. `PlaceFound` says that there are such a line and such places, with
- `PlaceInv`: a partition that is being filled ends where the line ends, and starts no later than the ones opened after it;
- `LaminarInv`: two closed cycles are apart or nested, and no two have the same head;
- `SpellInv`: the components of a partition, one after the other, spell its part of the line, and the last one of a closed cycle is its head;
- `ListInv`: listed once, and exactly the finished vertices but for the heads of running cycles;
- `EdgeInv`: an edge of a listed label leads to one listed before, to the head of a cycle around it, or to a head that still runs;
- `RunInv`: a cycle that is being walked again has a set of members, every one reachable from its head and leading back to it, and what is listed of
  them is what was listed since it was opened. `BackInv` provides the set at that moment: a waiting vertex leads, through those that wait for the
  same number, to the vertex that has it. Sets are closed under edges here, where the property counts steps (`BackReaches`).

`WalkIs` turns the recursive walk of `finalize` into the line read backwards; child cycles having the higher numbers is what makes that recursion well founded.

**`WtoSoundness!NestingsExactAlways`**: `Spec => []NestingsExact`, under the same assumption (`NestingsExactUntilOverflow` without it). The nestings are not made
from the order but from tables beside it: `containing_cycle_map` and the heads of the partitions, which `collect_heads` follows outwards from a label. `TableInv` says
that the map names the partition that lists a label, or the outermost one. At the end of the loop the places `from` and `to` of the partitions turn it into
an answer about positions: the head found first is that of the innermost cycle around the label (`Innermost`, by going down through the partitions), the
next one that of the innermost cycle around that head, and so on, so the chain has every cycle around the label, each once and in their order. With
nestings being chains of one forest, the comparison the iterator makes, whether one nesting is longer and ends in the other, is membership in a cycle; the second half of
`NestingsExact` follows for the predecessors that are in no order with the head.

**`WtoSoundness!ChainBoundAlways`**: `Spec => []ChainBoundExact`, under the same assumption (`ChainBoundUntilOverflow` without it), for every set of tail-call
sites and every limit. The check reads its components off the order (`Outermost`: the last head of a nesting), where the property is about all executions from the entry.
- `ComponentsHold`: they are the strongly connected components. Members lead back to the head by `CyclesAreStronglyConnected`'s invariant; that the head leads to them is not part of `IsWto` and is
  carried along by `ConnInv`. An edge between two components goes up in the order (`TopsUp`). `WalkInv` says that the builder visits nothing that the entry does not reach;
- `TopoOrderLists`: the worklist lists every component once, none before a predecessor, so the error "not acyclic" is never returned;
- `ArrivalsWithin`: no execution arrives at a label with more sites than the depth of its component. An execution may be in a component many times but passes each site of it once;
- `DepthAttained`: some execution collects all the sites of a component (`CollectsAll`) before it leaves it, component after component.

**`CfgBuilderProofs!EveryLoopCountedAlways`**: `Spec => []EveryLoopCounted`. The invariant `StageInv` says what each pass has made of
the graph: `Fresh`, `Populated`, `GraphInv` (every instruction and both sides of every branch have a label, edges stay among labels,
what is pending is a call), and `Counted` once the counters are in. Reachability and acyclicity are loops in the model (`ReachedFrom`, `Acyclic`);
`LoopResult`, `GrowthResult` and `PeelResult` of `FiniteOrders` give their values.

**`CfgBuilderProofs!GraphFollowsMachineAlways`**: `Spec => []GraphFollowsMachine`, and **`FramesMatchMachineAlways`**:
`Spec => []FramesMatchMachine`. For every sequence in which the main program comes first, every step of the machine is an
edge of the finished graph, or one through a counter, and the frame prefix says which calls are active; for every sequence at all, the machine
has no more frames than the limit allows. The first two are about the last pass only; what has to be carried through the inlining of one call after the other is `InlineInv`:
- `PendingInv`: the calls still to be inlined are in the order of their roots, so that a call in the main program that is not in the list, and the code under it, are done with;
- `PristineInv`: the labels of calls that are still to be inlined, and of subprograms, have the edges of the sequence. This is what a cloned body is copied from. It
  fails in layouts with a subprogram in front of its caller, which is the disagreement `inline_return`;
- `SpanInv`: what is inlined under a call of the main program is a clone of a label that the call can get to;
- `Faithful`: at every place the main program gets to, the graph has the steps of the instruction there, or, where a call is pending, the call
  as an instruction without effect.

`FollowInv` is what is left when the counters are in, `MachineInv` ties the machine's stack to a place of the graph. The proof uses of the order of labels that it is
total and that calls of the main program come by index, so it does not depend on how longer prefixes compare.

`FramesBounded`, the second half of `FramesMatchMachine`, holds in other layouts too, where a call may return to the wrong place in the graph and the machine
need not be at any label of it. What it rests on is that the graph nests calls at least as deep as the machine:
- `Passes(i, j)`: from `i` control gets to `j` in the same activation, behind a call only if its callee leads to an exit (`Returning`). It speaks of the sequence alone. `CallsMade`: each call on the machine's
  stack is one that the callee of the call before it passes (`PassesExit` is the step that returns);
- `DepthInv`: where an activation passes `j`, the graph leads to a label of `j` without going through the exit (`GetsThere`, which inlining keeps by `BeforeKept`); so a call that was inlined has a clone of every
  instruction its callee passes (`Unfolded`), and it was not too deep;
- `CallsFit`: with no call pending, the calls of a possible stack are labels one under the other, the innermost one inlined within the limit.

**`CfgBuilderProofs!CallbackExitsExactAlways`** and **`CallbackExitsAtAnyDepthAlways`**: `Spec => []CallbackExitsExact`, for every sequence that has to have an exit,
with no condition on where its subprograms are: calls may return to the wrong place there, but the metadata do not depend on it. `CanEnd` lets the machine have as many
active calls as there are instructions, so that its runs are finite in number; the second theorem says the same of runs with any number of active calls (`EndsAtAnyDepth`).
The code looks at the inlined graph, the property at the machine; between them is `Ends`, the least set of labels that lead back to the exit, where a call is in the set
if its continuation and its callee are.
- Before the first call is inlined (`TopGraph`), the instructions in `Ends` are those from which the machine can end. A run at an instruction outside of `Ends`, or with a call to return to whose continuation is
  outside, is stuck and stays so (`StuckStays`). The other way round, a callee leads to the exit without the call that called it (`CalleeLeads`), so an exit can be reached with every call at most once on the
  stack (`UnwindsStep`, by the number of calls that are still allowed);
- `EndInv` says that inlining keeps it so. `EndsStay` and `EndsNoMore`: the old labels in `Ends` stay the same ones, and a clone is in it if its original and the continuation of the call are;
- `CallbackEnds`: with no call pending, a label is in `Ends` if and only if it reaches the exit or an exit of the sequence itself, which is what `ComputeCallbackMetadata` asks.

**`LoadingProofs!LinkedFollowsFileAlways`**: `LoadingSpec => []LinkedFollowsFile`, for every set of object files. From `FilesAssumption`: sections have code, and
distances are integers. The property is about the programs that are left in the end; the recursion in between changes one program after the other, so what is carried through it is
a set of slots that control does not leave, one for each program and growing with it:
- `Exact(g, K, P)`: from each slot of K, jumps and the next instruction lead to slots of K that come from where the file says, and so do the calls, but for those at P, which are still to be pointed. K need not be
  what control reaches: `FollowsFile` follows for whatever is (`GoodFollows`), as that is the least set control does not leave;
- a program that is cut out is `Exact` with what control reaches in its section, before any call is pointed (`CutGood`; this is what its span is for, and where `JumpsInOrder` is used: a function that a span brings in does not jump in front of the program's start),
  and each of its relocations names the function that the call goes to by the file (`RelocationResolves`, where `NamesApart` is used);
- `PatchedGood`: pointing a call at a slot of K that comes from its function takes it out of P. `CopiedGood`: a linked subprogram, appended, brings its own K, shifted, and leaves nothing to be pointed;
- `ActiveGood`: an activation's program is `Exact` but for the relocations that are left, and what `subprogram_offsets` names is in K and is the function of that name;
- `Passed`: the programs in front of `prog_idx` that are asked for are linked, also when a missing subprogram ended the activations they were called by.

`PointCallStep` puts these together. The programs of the activations are all different, so that pointing a call changes none of the others, and a callee is copied only when it is in `resolved`, with no call left to point.

**`CfgBuilderProofs!ForwardCallsNeverPanic`**: `Spec => [](CallsForward => pass # "panicked")`, for every sequence in which every call made under a callee, in it or in what it calls, is behind the call: `CfgBuilder::insert` never finds a label taken.
Recursive calls and too many nested ones end in an error. Such a call is inlined before all calls under it, so its callee is copied as it is in the sequence (`PristineInv`); `ForwardInv` says that a clone is there because of a call that was
inlined, and under a call is only what its span has, so the labels of the new clones are apart and new.

**`CfgBuilderProofs!TypeCorrect`**: `Spec => []TypeOK`, for every sequence. `TypedInv` adds to the invariants above that no edge leaves the exit or enters the entry (`EdgesApart`), that every pending call is
a call of the graph, that what is asserted are nodes and that callbacks are instructions; each pass keeps it by what the lemmas say that it adds.

**`LoadingProofs!LoadedInOrderAlways`**: `LoadingSpec => []LoadedInOrder`, for every set of object files and any options. From `OptionsAssumption` (`max_call_stack_frames` is positive, as in `config.rs`) and
`SlotsAssumption` (the kinds of slots are those of the model). It takes a program through the three stages:
- `Ahead(g, P)`, of a program that is linked: from behind the start of a function no jump goes in front of it, and a call leads to the start of a function behind the call, but for the calls at P, which still have a relocation. `CutAhead`: a program
  that is cut out is so; `CopiedAhead`: with a linked subprogram appended it stays so; `PatchedAhead`: a call that is pointed at an appended subprogram goes forward, because what is appended is behind every relocation (`Layout`);
- decoding keeps that (`DecodedIs`, `Laid`), and `LaidIsForward` draws the conclusion: what a callee reaches is never in front of its start, so it makes its calls behind the call (`CallsForward`);
- building rests on the invariants of `CfgBuilderProofs`, those of `ForwardCallsNeverPanic` included; `ForwardIsMainFirst` gives `MainFirst`.

**`LoadingProofs!LoadingTypeCorrect`**: `LoadingSpec /\ []LabelsFit => []LoadingTypeOK`, for every object file and every sequence whose instructions have numbers that fit a label (the code has no guard against one that does not: the label of
instruction `MAX` would be the exit's). `TypesInv` joins `LinkInv`, which describes the programs while they are linked, and the invariants of `CfgBuilderProofs` that `TypeCorrect` rests on; whatever is decoded is a sequence they begin with (`DecodedIs`).

**`SlicesProofs!StepsBoundedAlways`**, **`RelevanceExactAlways`** and **`SliceCompleteAlways`**: `Spec => []StepsBounded`, `Spec => []RelevanceExact`, `Spec => []SliceComplete`. The first rests on `StepsInv`: every
step finds an item that is relevant at a label, or a label that a conservative walk visits, and `Progress` is the set of those.
For the last, the finished search of a slice is shown to solve the backward equations (`SearchInv`, `SlicesExplained`), and `WalkInv` carries along
any walk that the cells of what is relevant at its label come from labels of the slice. The slicer's items and the walk's cells are related by `CellsOf`: under `SlotsApart` the cells of different items have nothing in common
and an access has all the cells of its slot (`SlotBytes`), and under `NoExchange` an instruction writes and uses the cells of the items that its dependencies name (`CellsWritten`, `CellsUsed`). The theorem says nothing of a program outside of the two premises.
`RelevanceExact` is two inclusions. What waits on the worklist or is at a visited label is meant (`ExactInv`), because what is relevant before a label is so because of
one item after it (`BeforeSplits`), or of none in a conservative walk and at the failing label; when the worklist is empty, what was found contains the seed and is
closed under the step to the parents (`AllFound`), and what is meant is the least such set (`MeantIs`).

**`DomainProofs!DomainImplementsValuations`**: `Spec => ImplementsTypeValuations`, every operation of `TypeDomain` does to the
valuations a state stands for what `TypeValuations` does to the set; **`RepresentationAlways`**: `Spec => []RepresentationOK`;
**`AnswersExactAlways`**: `Spec => []AnswersExact`. For every number of types and of variables, and every sequence of operations. From: `TypesAssumption` (there are
at least two types), `TypeVarsAssumption`, `MasksAssumption`. The inductive invariant `TInv` says that an abstract state is bottom or one state with
`StateOK`: the forest is flat, no class is without a type, the two maps are inverse to each other, and *every* element, also one that
lost its variable, is in the sentinel's class if its class has one type. `SingletonsMerged` speaks of variables only and is not inductive: an orphan with a single type of its own may
be united with a variable later. No class being empty is what makes `{}` the only bottom, so that a meet finds it.

Each operation has a lemma that gives its result by `Meaning`, the valuations as the classes and their sets of types describe them:
`UnionIs`, `MergedIs` and `NarrowedIs` for the forest, then `AssignTypeIs`, `CopyIs`, `HavocIs`, `RestoreIs`, `RestrictIs`,
`RemoveIs`, `AssumeEqIs`. `Attained` says that two variables take any two of their types together unless they are one class or have one and the same single type;
on it rest exactness of the queries (`TypesetIs`, `EqualIs`), `MeaningIsBest`, and, with `ClassFold` for the loop over the classes, `JoinIs`: the join
is the best one. `MeetIs` follows the loops of the meet over classes and variables, and `IncludedIs` gives the inclusion test where the left
state knows the variables.

**`FiniteOrders`** has what these proofs need of finite data. The induction theorems of the library take an operator as
a parameter, which the installed provers cannot instantiate; `LeastNat`, `SetInduction` and `GreatestNat` take a set instead. `LoopResult`,
`GrowthResult` and `PeelResult` say what a recursive function over sets computes whose every call adds or removes elements, and `FoldExists` what a
loop over a sequence does.

Only model-checked:
- everything temporal beyond invariance (`EventuallyDone`, `EventuallyDecided`): liveness under fairness is
  beyond the prover. For `Fixpoint` it also depends on the domain: widening must stabilise;
- the steps of `ZoneDomain`: their data are sequences and functions put together
  by operators the prover does not know (`@@`, `SelectSeq`, folds), or searches that are recursive;
- the transformers, the checker and `EbpfAnalysis`, which are recursive.

## 7. Not modelled, and why

`PROJECT.json` lists every component. Of the modelled ones, text is left out everywhere: printing, messages, textual constraints.

- Platform tables (helper prototypes, program types, context layouts), syntax, parsing and assembling of text, marshalling, the command line, and developer tools are data and
  I/O without a protocol. What the analysis asks of them is a constant of an instance.
- BTF and the byte-level part of the ELF loader are parsing of binary formats; relocations of maps and externals rewrite operands. The cache of `ElfObject` around the reader is left out.
- The decoding of operands and reserved fields is a table without state.
- Big-endian loads and stores of the array domain, `Interval` operations that nothing calls.
- `find_unreachable`, the comparison of observed states and the choice of constraints for display in `src/result.rs`.

`DomainSound` asks that inclusion be sound, and section 5 has a case in which the inclusion test of the
type domain is not. The theorem therefore covers the verifier as far as its iteration goes, and says
nothing of an analysis that meets this case. The runs `zone_domain`, `type_domain`, `scalar` and `ebpf` check that assumption and `InstructionsSound`
for the domains, the transformer and the checker, on their small instances.

## 8. Plan

1. Done: WTO, iterator and its soundness; CFG construction; loading; zones; types; numbers; the product, the stack, the transformer and the checker against a machine; slices.
2. Proofs done: soundness of the iterator, the unwraps, the result and the nestings of the WTO builder, linking against the file and the layout it gives, the graph against the machine and its callbacks, slices, the type domain against its specification.
   Next: the operators of `Interval` and `MachineInt`.
3. The section cache of `ElfObject`; chains of BTF types.
