------------------------------ MODULE CfgBuilder ------------------------------
(***************************************************************************)
(* Program::from_sequence of src/ir/program.rs on the graph of             *)
(* src/cfg/graph.rs: the passes that turn an instruction sequence into the *)
(* control-flow graph the analysis runs on, one action per pass and one    *)
(* per inlined local call.                                                 *)
(*                                                                         *)
(* Once the graph is built the model runs the instruction sequence itself, *)
(* with a call stack, the way the eBPF machine does.  The graph is right   *)
(* when it follows every such execution.                                   *)
(***************************************************************************)
EXTENDS TailCallDepth, Orders

CONSTANTS
    Inputs,     \* the instruction sequences considered, each with its options
    ChainLimit  \* TAIL_CALL_CHAIN_LIMIT (33 in the code)

(***************************************************************************)
(* A sequence is a function from the index of an instruction to the        *)
(* instruction; the second half of a wide instruction is not in its        *)
(* domain.  "target" is read of jumps and local calls only.                *)
(***************************************************************************)
Op == {"plain", "helper", "exit", "jump", "branch", "call", "tail_call", "kfunc",
       "unknown_kfunc", "unsupported", "bad_map_index"}
Ins(op, target) == [op |-> op, target |-> target]

\* Indexes are numbers of a label, 32 bits wide; the greatest one is the exit's.
MAX == 2147483647

ASSUME InputsAssumption ==
    \A in \in Inputs :
        /\ IsFiniteSet(DOMAIN in.seq)
        /\ \A i \in DOMAIN in.seq :
              i \in 0 .. MAX - 1 /\ in.seq[i].op \in Op /\ in.seq[i].target \in Nat
        /\ in.max_call_stack_frames \in Nat \ {0}
        /\ in.must_have_exit \in BOOLEAN /\ in.check_for_termination \in BOOLEAN
ASSUME ChainLimitAssumption == ChainLimit \in Nat

(***************************************************************************)
(* Labels.  The prefix, a text like "3/7" in the code, is the sequence of  *)
(* the local calls on the way to the label.                                *)
(***************************************************************************)
LabelFull(from, to, prefix) == [prefix |-> prefix, from |-> from, to |-> to, special |-> ""]
NewLabel(i) == LabelFull(i, -1, <<>>)
EntryLabel == LabelFull(-1, -1, <<>>)
ExitLabel == LabelFull(MAX, MAX, <<>>)
MakeJump(src, target) == LabelFull(src.from, target.from, target.prefix)
MakeIncrementCounter(l) == [l EXCEPT !.special = "counter"]
IsJump(l) == l.to # -1
FrameOf(l) == Append(l.prefix, l.from)

(***************************************************************************)
(* The derived order on labels: the prefix comes first, then the indexes.  *)
(* Prefixes are compared number by number, which is the order of their     *)
(* texts as long as indexes have one digit.                                *)
(***************************************************************************)
SeqLess(s, t) ==
    \/ Len(s) < Len(t) /\ \A i \in 1 .. Len(s) : s[i] = t[i]
    \/ \E i \in 1 .. Len(s) : /\ i <= Len(t) /\ s[i] < t[i]
                              /\ \A j \in 1 .. i - 1 : s[j] = t[j]
LabelLess(l, m) ==
    \/ SeqLess(l.prefix, m.prefix)
    \/ l.prefix = m.prefix /\ SeqLess(<<l.from, l.to>>, <<m.from, m.to>>)

VARIABLES
    input,          \* the instruction sequence and the options; it never changes
    nodes,          \* instructions: the label of each node and what is there
    edges,          \* neighbours: parents and children
    pass,           \* the pass that runs next, or how construction ended
    pending,        \* the add_cfg_nodes calls still to be made, the next one first
    callbacks,      \* callback_target_labels and callback_targets_with_exit
    asserted,       \* the labels that have their assertions
    machine         \* the execution of the sequence

vars == <<input, nodes, edges, pass, pending, callbacks, asserted, machine>>

seq == input.seq
Children(l) == {e[2] : e \in {x \in edges : x[1] = l}}
Rejected == pass' = "rejected"
Go(next) == pass' = next
Indexes == DOMAIN seq
NotStarted == [mode |-> "not started"]

Node(op, target, frame) == [op |-> op, target |-> target, stack_frame_prefix |-> frame]

Init ==
    /\ input \in Inputs
    /\ nodes = [l \in {EntryLabel, ExitLabel} |-> Node("undefined", 0, <<>>)]
    /\ edges = {}
    /\ pass = "ValidateInstructionSupport"
    /\ pending = <<>>
    /\ callbacks = [targets |-> {}, with_exit |-> {}]
    /\ asserted = {EntryLabel, ExitLabel}
    /\ machine = NotStarted

(***************************************************************************)
(* The passes that only look at the sequence.                              *)
(***************************************************************************)
Vetted == UNCHANGED <<input, nodes, edges, pending, callbacks, asserted, machine>>

ValidateInstructionSupport ==
    /\ pass = "ValidateInstructionSupport"
    /\ IF \E i \in Indexes : seq[i].op = "unsupported" THEN Rejected ELSE Go("ResolveKfuncCalls")
    /\ Vetted

ResolveKfuncCalls ==
    /\ pass = "ResolveKfuncCalls"
    /\ IF \E i \in Indexes : seq[i].op = "unknown_kfunc" THEN Rejected ELSE Go("LowerPseudoLoads")
    /\ Vetted

LowerPseudoLoads ==
    /\ pass = "LowerPseudoLoads"
    /\ IF \E i \in Indexes : seq[i].op = "bad_map_index" THEN Rejected ELSE Go("PopulateNodes")
    /\ Vetted

(***************************************************************************)
(* One node per instruction; a resolved kfunc is a helper call.            *)
(***************************************************************************)
PopulateNodes ==
    /\ pass = "PopulateNodes"
    /\ nodes' = [l \in DOMAIN nodes \cup {NewLabel(i) : i \in Indexes} |->
                    IF l \in DOMAIN nodes THEN nodes[l]
                    ELSE Node(IF seq[l.from].op = "kfunc" THEN "helper" ELSE seq[l.from].op,
                              seq[l.from].target, <<>>)]
    /\ Go("ValidateControlFlowTargets")
    /\ UNCHANGED <<input, edges, pending, callbacks, asserted, machine>>

(***************************************************************************)
(* A target may be the second half of a wide instruction, which is inside  *)
(* of the program and still no node.                                       *)
(***************************************************************************)
IsTarget(i) == NewLabel(i) \in DOMAIN nodes

ValidateControlFlowTargets ==
    /\ pass = "ValidateControlFlowTargets"
    /\ IF \E i \in Indexes : seq[i].op \in {"jump", "branch", "call"} /\ ~ IsTarget(seq[i].target)
       THEN Rejected
       ELSE Go("ConnectEdges")
    /\ Vetted

HasFall(ins) == ins.op \notin {"exit", "jump"}
IsLast(i) == \A j \in Indexes : j <= i
Fallthrough(i) == IF IsLast(i) THEN ExitLabel
                  ELSE NewLabel(CHOOSE j \in Indexes : j > i /\ \A k \in Indexes : k > i => j <= k)

(***************************************************************************)
(* insert_jump: a node on the edge that assumes the branch's condition, or *)
(* its negation.  A branch to the next instruction has only the one edge.  *)
(***************************************************************************)
Splits(i) == seq[i].op = "branch" /\ NewLabel(seq[i].target) # Fallthrough(i)
Taken(i) == MakeJump(NewLabel(i), NewLabel(seq[i].target))
NotTaken(i) == MakeJump(NewLabel(i), Fallthrough(i))

EdgesFrom(i) ==
    LET l == NewLabel(i)
    IN  CASE seq[i].op = "exit" -> {<<l, ExitLabel>>}
          [] seq[i].op = "jump" -> {<<l, NewLabel(seq[i].target)>>}
          [] Splits(i) -> {<<l, Taken(i)>>, <<Taken(i), NewLabel(seq[i].target)>>,
                           <<l, NotTaken(i)>>, <<NotTaken(i), Fallthrough(i)>>}
          [] OTHER -> {<<l, Fallthrough(i)>>}

LocalCalls == {NewLabel(i) : i \in {j \in Indexes : seq[j].op = "call"}}

\* Mutant: the calls are inlined from the last to the first.
CallsBackwards == InOrder(LocalCalls, LAMBDA l, m : LabelLess(m, l))

CallsInOrder == InOrder(LocalCalls, LabelLess)

ConnectEdges ==
    /\ pass = "ConnectEdges"
    /\ \/ /\ Indexes = {} \/ \E i \in Indexes : IsLast(i) /\ HasFall(seq[i]) /\ input.must_have_exit
          /\ Rejected
          /\ UNCHANGED <<nodes, edges, pending>>
       \/ /\ Indexes # {} /\ ~ \E i \in Indexes : IsLast(i) /\ HasFall(seq[i]) /\ input.must_have_exit
          /\ LET split == {i \in Indexes : Splits(i)}
                 taken == {Taken(i) : i \in split}
                 not_taken == {NotTaken(i) : i \in split}
                 first == CHOOSE i \in Indexes : \A j \in Indexes : i <= j
             IN  /\ nodes' = [l \in DOMAIN nodes \cup taken \cup not_taken |->
                                 CASE l \in taken -> Node("assume", 0, <<>>)
                                   [] l \in not_taken -> Node("assume_not", 0, <<>>)
                                   [] OTHER -> nodes[l]]
                 /\ edges' = {<<EntryLabel, NewLabel(first)>>}
                             \cup UNION {EdgesFrom(i) : i \in Indexes}
          /\ pending' = CallsInOrder
          /\ Go("InlineLocalCalls")
    /\ UNCHANGED <<input, callbacks, asserted, machine>>

-----------------------------------------------------------------------------
(***************************************************************************)
(* add_cfg_nodes: clone the callee's region under the prefix of the call.  *)
(***************************************************************************)
\* Mutant: one frame too many.
TooManyFramesPlusOne(caller) == Len(caller.prefix) + 1 > input.max_call_stack_frames

TooManyFrames(caller) == Len(caller.prefix) + 2 > input.max_call_stack_frames

Clone(m, frame) == LabelFull(m.from, m.to, frame)

\* Mutant: a cloned exit keeps the prefix of the original.
CloneNodeKeepsFrame(n, frame) == n

CloneNode(n, frame) == IF n.op \in {"exit", "helper", "tail_call"}
                       THEN [n EXCEPT !.stack_frame_prefix = frame] ELSE n

(***************************************************************************)
(* The walk over the callee: always the smallest label found and not yet   *)
(* cloned.  From the first clone on the caller has an edge to it, which is *)
(* how a walk that comes back to the caller is found out.                  *)
(***************************************************************************)
\* Mutant: a recursive call is tried again and again.
RecursionFoundRetried == [status |-> "InlineLocalCalls"]

RecursionFound == [status |-> "rejected"]

SmallestOf(L) == CHOOSE l \in L : \A m \in L \ {l} : LabelLess(l, m)

CloneWalk(caller, entry) ==
    LET frame == FrameOf(caller)
        first == Clone(entry, frame)
        labels == DOMAIN nodes \cup {first}
        succ(m) == {x \in labels \ {ExitLabel} : <<m, x>> \in edges \/ (m = caller /\ x = first)}
        exists(m, cloned) == \/ Clone(m, frame) \in DOMAIN nodes
                             \/ \E x \in cloned : Clone(x, frame) = Clone(m, frame)
        walk[w \in (SUBSET labels) \X (SUBSET labels)] ==
            LET todo == w[1]
                seen == w[2]
                m == SmallestOf(todo)
            IN  IF todo = {} THEN [status |-> "ok", seen |-> seen]
                ELSE IF m.prefix = frame THEN RecursionFound
                ELSE IF exists(m, seen \ todo) THEN [status |-> "panicked"]
                ELSE walk[<<(todo \ {m}) \cup (succ(m) \ seen), seen \cup succ(m)>>]
    IN  walk[<<{entry}, {entry}>>]

\* Mutant: the edges back to a label cloned before are lost.
CloneEdgesForward(region, frame, exit_to) ==
    UNION {{<<Clone(m, frame), IF x = ExitLabel THEN exit_to ELSE Clone(x, frame)>> :
                x \in {y \in Children(m) : LabelLess(m, y)}} : m \in region}

CloneEdges(region, frame, exit_to) ==
    UNION {{<<Clone(m, frame), IF x = ExitLabel THEN exit_to ELSE Clone(x, frame)>> :
                x \in Children(m)} : m \in region}

Inlined(caller, frame, exit_to, region) ==
    /\ nodes' = [l \in DOMAIN nodes \cup {Clone(m, frame) : m \in region} |->
                    IF l = caller THEN [nodes[l] EXCEPT !.stack_frame_prefix = frame]
                    ELSE IF l \in DOMAIN nodes THEN nodes[l]
                    ELSE CloneNode(nodes[CHOOSE m \in region : Clone(m, frame) = l], frame)]
    /\ edges' = (edges \ {<<caller, exit_to>>})
                \cup {<<caller, Clone(NewLabel(nodes[caller].target), frame)>>}
                \cup CloneEdges(region, frame, exit_to)
    /\ LET calls == InOrder({m \in region : nodes[m].op = "call"}, LabelLess)
       IN  pending' = [k \in DOMAIN calls |-> Clone(calls[k], frame)] \o Tail(pending)
    /\ UNCHANGED pass

AddCfgNodes ==
    /\ pass = "InlineLocalCalls"
    /\ pending # <<>>
    /\ LET caller == Head(pending)
           refused == TooManyFrames(caller) \/ Cardinality(Children(caller)) # 1
       IN  \/ /\ refused
              /\ Rejected
              /\ UNCHANGED <<nodes, edges, pending>>
           \/ /\ ~ refused
              /\ \E exit_to \in Children(caller),
                    walk \in {CloneWalk(caller, NewLabel(nodes[caller].target))} :
                    \/ /\ walk.status = "ok"
                       /\ Inlined(caller, FrameOf(caller), exit_to, walk.seen)
                    \/ /\ walk.status # "ok"
                       /\ pass' = walk.status
                       /\ UNCHANGED <<nodes, edges, pending>>
    /\ UNCHANGED <<input, callbacks, asserted, machine>>

InlineLocalCalls ==
    /\ pass = "InlineLocalCalls"
    /\ pending = <<>>
    /\ Go("ValidateTailCallDepth")
    /\ Vetted

-----------------------------------------------------------------------------
(***************************************************************************)
(* The labels a label reaches, itself included.                            *)
(***************************************************************************)
ReachedFrom(start) ==
    LET closure[S \in SUBSET DOMAIN nodes] ==
            LET T == S \cup {e[2] : e \in {x \in edges : x[1] \in S}}
            IN  IF T = S THEN S ELSE closure[T]
    IN  closure[{start}]

(***************************************************************************)
(* The components are those of the weak topological order, see             *)
(* MCWtoBuilder; here a component is represented by its smallest label.    *)
(* (No chain is longer than the number of sites there are.)                *)
(***************************************************************************)
TailCallChains(reachable, sites) ==
    LET path == {p \in reachable \X reachable : p[2] \in ReachedFrom(p[1])}
        rep == [l \in reachable |->
                   SmallestOf({m \in reachable : <<l, m>> \in path /\ <<m, l>> \in path})]
    IN  IF Cardinality(sites) <= ChainLimit THEN "ok"
        ELSE TailCallVerdict(reachable, edges, rep, sites, ChainLimit)

ValidateTailCallDepth ==
    /\ pass = "ValidateTailCallDepth"
    /\ \E reachable \in {ReachedFrom(EntryLabel)} :
          IF TailCallChains(reachable, {l \in reachable : nodes[l].op = "tail_call"}) = "ok"
          THEN Go("ComputeCallbackMetadata")
          ELSE Rejected
    /\ Vetted

\* Mutant: the exit of an inlined subprogram ends the callback.
EndsCallbackInAnyFrame(l) == l = ExitLabel \/ nodes[l].op = "exit"

EndsCallback(l) == l = ExitLabel \/ (nodes[l].op = "exit" /\ l.prefix = <<>>)

ComputeCallbackMetadata ==
    /\ pass = "ComputeCallbackMetadata"
    /\ LET targets == {l.from : l \in {x \in DOMAIN nodes \ {EntryLabel, ExitLabel} :
                           ~ IsJump(x) /\ x.prefix = <<>> /\ nodes[x].op # "exit"}}
       IN  callbacks' = [targets |-> targets,
                         with_exit |-> {i \in targets : \E l \in ReachedFrom(NewLabel(i)) : EndsCallback(l)}]
    /\ Go("InsertTerminationCounters")
    /\ UNCHANGED <<input, nodes, edges, pending, asserted, machine>>

(***************************************************************************)
(* A counter goes behind every head of a cycle of the weak topological     *)
(* order.  What is used of the order is that every cycle the entry reaches *)
(* has one of its heads, and that a head is on a cycle.                    *)
(***************************************************************************)
Acyclic(L) ==
    LET peel[S \in SUBSET L] ==        \* drop what has no child left
            LET T == {l \in S : \E m \in S : <<l, m>> \in edges}
            IN  IF T = S THEN S ELSE peel[T]
    IN  peel[L] = {}

LoopHeads ==
    LET reachable == ReachedFrom(EntryLabel)
        on_cycle == {l \in reachable : \E c \in Children(l) : l \in ReachedFrom(c)}
    IN  {H \in SUBSET on_cycle : Acyclic(reachable \ H)}

\* Mutant: the counter takes over the forward edges only.
InsertAfterForward(H) ==
    {e \in edges : e[1] \notin H \/ ~ LabelLess(e[1], e[2])}
        \cup UNION {{<<e[1], MakeIncrementCounter(e[1])>>, <<MakeIncrementCounter(e[1]), e[2]>>} :
                        e \in {x \in edges : x[1] \in H /\ LabelLess(x[1], x[2])}}

InsertAfter(H) ==
    {e \in edges : e[1] \notin H}
        \cup UNION {{<<e[1], MakeIncrementCounter(e[1])>>, <<MakeIncrementCounter(e[1]), e[2]>>} :
                        e \in {x \in edges : x[1] \in H}}

InsertTerminationCounters ==
    /\ pass = "InsertTerminationCounters"
    /\ \E H \in (IF input.check_for_termination THEN LoopHeads ELSE {{}}) :
          /\ nodes' = [l \in DOMAIN nodes \cup {MakeIncrementCounter(h) : h \in H} |->
                          IF l \in DOMAIN nodes THEN nodes[l] ELSE Node("counter", 0, <<>>)]
          /\ edges' = InsertAfter(H)
    /\ Go("ExtractAssertions")
    /\ UNCHANGED <<input, pending, callbacks, asserted, machine>>

ExtractAssertions ==
    /\ pass = "ExtractAssertions"
    /\ asserted' = DOMAIN nodes
    /\ Go("built")
    /\ UNCHANGED <<input, nodes, edges, pending, callbacks, machine>>

Build == \/ ValidateInstructionSupport \/ ResolveKfuncCalls \/ LowerPseudoLoads
         \/ PopulateNodes \/ ValidateControlFlowTargets \/ ConnectEdges
         \/ AddCfgNodes \/ InlineLocalCalls \/ ValidateTailCallDepth
         \/ ComputeCallbackMetadata \/ InsertTerminationCounters \/ ExtractAssertions

-----------------------------------------------------------------------------
(***************************************************************************)
(* The eBPF machine on the sequence that was accepted.  "label" is the     *)
(* node that stands for what the machine executes next: its instruction,   *)
(* under the calls on its stack.  An execution that leaves the end of the  *)
(* program stops.                                                          *)
(***************************************************************************)
At(stack, i) == [mode |-> "running", stack |-> stack, pc |-> i]
Ended == [mode |-> "ended"]
LabelOf(m) == IF m.mode = "ended" THEN ExitLabel ELSE LabelFull(m.pc, -1, m.stack)

Start ==
    /\ pass = "built"
    /\ machine = NotStarted
    /\ machine' = At(<<>>, CHOOSE i \in Indexes : \A j \in Indexes : i <= j)
    /\ UNCHANGED <<input, nodes, edges, pass, pending, callbacks, asserted>>

Resume(stack, i) == IF IsLast(i) THEN {} ELSE {At(stack, Fallthrough(i).from)}

Successors(m) ==
    LET ins == seq[m.pc]
        depth == Len(m.stack)
    IN  CASE ins.op = "jump" -> {At(m.stack, ins.target)}
          [] ins.op = "branch" -> {At(m.stack, ins.target)} \cup Resume(m.stack, m.pc)
          [] ins.op = "call" -> {At(Append(m.stack, m.pc), ins.target)}
          [] ins.op = "exit" /\ depth = 0 -> {Ended}
          [] ins.op = "exit" /\ depth > 0 -> Resume(SubSeq(m.stack, 1, depth - 1), m.stack[depth])
          [] OTHER -> Resume(m.stack, m.pc)

Execute ==
    /\ machine.mode = "running"
    /\ machine' \in Successors(machine)
    /\ UNCHANGED <<input, nodes, edges, pass, pending, callbacks, asserted>>

Stopped == pass \in {"built", "rejected", "panicked"} /\ UNCHANGED vars

Next == Build \/ Start \/ Execute \/ Stopped

Spec == Init /\ [][Next]_vars /\ WF_vars(Build)

-----------------------------------------------------------------------------
TypeOK ==
    /\ edges \subseteq (DOMAIN nodes \ {ExitLabel}) \X (DOMAIN nodes \ {EntryLabel})
    /\ \A k \in DOMAIN pending : pending[k] \in DOMAIN nodes /\ nodes[pending[k]].op = "call"
    /\ asserted \subseteq DOMAIN nodes
    /\ callbacks.with_exit \subseteq callbacks.targets /\ callbacks.targets \subseteq Indexes
    /\ machine.mode = "running" => machine.pc \in Indexes

(***************************************************************************)
(* The order of the code: no local call of the main program can lead to a  *)
(* call at a smaller index.  The loader lays programs out like that, the   *)
(* main program first and the subprograms behind it.                       *)
(***************************************************************************)
Leads(i, across) ==
    LET flow(k) == CASE seq[k].op = "exit" -> {}
                     [] seq[k].op = "jump" -> {seq[k].target}
                     [] OTHER -> (IF IsLast(k) THEN {} ELSE {Fallthrough(k).from})
                                     \cup (IF seq[k].op = "branch" \/ (across /\ seq[k].op = "call")
                                           THEN {seq[k].target} ELSE {})
        led[S \in SUBSET Indexes] ==
            LET T == S \cup UNION {flow(k) : k \in S} IN IF T = S THEN S ELSE led[T]
    IN  {k \in led[{i}] : seq[k].op = "call"}

MainFirst ==
    \A main \in {i \in Indexes : \A j \in Indexes : i <= j} :
        \A c \in Leads(main, FALSE) : \A d \in Leads(seq[c].target, TRUE) : d > c

(***************************************************************************)
(* The nodes the builder puts on an edge: behind a counter, and for a      *)
(* branch behind the node that assumes what the branch found.              *)
(***************************************************************************)
Behind(l) == UNION {IF nodes[c].op = "counter" THEN Children(c) ELSE {c} : c \in Children(l)}
Follows(from, to) ==
    LET direct == Behind(LabelOf(from))
        assumed(op) == UNION {Behind(c) : c \in {x \in direct : nodes[x].op = op}}
    IN  IF Splits(from.pc)
        THEN LabelOf(to) \in assumed(IF to.pc = seq[from.pc].target THEN "assume" ELSE "assume_not")
        ELSE LabelOf(to) \in direct

(***************************************************************************)
(* What the analysis needs of the graph: whatever the machine executes is  *)
(* a node with its assertions, under the calls on the machine's stack, and *)
(* every step the machine can take from there is in the graph.  Loops in   *)
(* inlined subprograms and calls in them are the cases that can go wrong.  *)
(***************************************************************************)
GraphFollowsMachine ==
    machine.mode = "running" /\ MainFirst =>
        /\ LabelOf(machine) \in asserted
        /\ \A next \in Successors(machine) : Follows(machine, next)

(***************************************************************************)
(* The transformer saves the caller's registers under the prefix in the    *)
(* call and restores them under the prefix in the exit: on return the two  *)
(* are the same, and no other activation's.                                *)
(***************************************************************************)
ExitMatchesCall ==
    machine.mode = "running" /\ machine.stack # <<>> /\ seq[machine.pc].op = "exit" /\ MainFirst =>
        LET depth == Len(machine.stack)
            call == LabelFull(machine.stack[depth], -1, SubSeq(machine.stack, 1, depth - 1))
        IN  /\ nodes[LabelOf(machine)].stack_frame_prefix = machine.stack
            /\ nodes[call].stack_frame_prefix = machine.stack

(***************************************************************************)
(* No program that is accepted nests more calls than the machine has       *)
(* stack frames for; a recursive one is never accepted.                    *)
(***************************************************************************)
FramesBounded == machine.mode = "running" => Len(machine.stack) + 1 <= input.max_call_stack_frames

(***************************************************************************)
(* The frames in the graph are those of the machine: the same activations  *)
(* at call and return, and never more of them than there is stack for.     *)
(***************************************************************************)
FramesMatchMachine == ExitMatchesCall /\ FramesBounded

(***************************************************************************)
(* With termination checking, no cycle of the graph avoids the counters,   *)
(* the cycles of inlined subprograms included.                             *)
(***************************************************************************)
EveryLoopCounted ==
    pass = "built" /\ input.check_for_termination =>
        Acyclic({l \in ReachedFrom(EntryLabel) : nodes[l].op # "counter"})

(***************************************************************************)
(* A run of the machine that starts at i can end.  What a call does before *)
(* it returns does not depend on the calls around it, so a run that can    *)
(* end can do so without ever being in the same call twice.                *)
(***************************************************************************)
ActiveCalls == {s \in Seq(Indexes) : Len(s) <= Cardinality(Indexes)}
Runs == {Ended} \cup [mode : {"running"}, stack : ActiveCalls, pc : Indexes]
Continued(S) == (UNION {Successors(m) : m \in S \ {Ended}}) \cap Runs

CanEnd(i) ==
    LET closure[S \in SUBSET Runs] ==
            LET T == S \cup Continued(S)
            IN  IF T = S THEN S ELSE closure[T]
    IN  Ended \in closure[{At(<<>>, i)}]

(***************************************************************************)
(* callback_targets_with_exit is what it says: a callback that starts at a *)
(* target with an exit can end, and one that starts elsewhere cannot, the  *)
(* subprograms it calls included.                                          *)
(***************************************************************************)
CallbackExitsExact ==
    pass = "InsertTerminationCounters" /\ input.must_have_exit =>
        \A i \in callbacks.targets : i \in callbacks.with_exit <=> CanEnd(i)

(***************************************************************************)
(* The comment in add_cfg_nodes: "A well-formed local call has exactly one *)
(* continuation (its fallthrough)".  Whenever a call is inlined, the node  *)
(* its callee returns to is the next instruction under the same calls.     *)
(***************************************************************************)
ReturnsToFallthrough ==
    [][pass = "InlineLocalCalls" /\ pending # <<>> /\ pass' = pass =>
          LET caller == Head(pending)
          IN  Children(caller) = {IF IsLast(caller.from) THEN ExitLabel
                                  ELSE Clone(Fallthrough(caller.from), caller.prefix)}]_vars

(***************************************************************************)
(* Inlining ends, for recursive programs too.                              *)
(***************************************************************************)
EventuallyDecided == <>(pass \in {"built", "rejected", "panicked"})
=============================================================================
