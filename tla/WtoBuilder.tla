------------------------------ MODULE WtoBuilder ------------------------------
(***************************************************************************)
(* WtoBuilder of src/cfg/wto.rs: Bourdoncle's recursive construction of a  *)
(* weak topological order, run with an explicit stack of visit tasks.  One *)
(* step of the model pops one task and does all that its handler does.     *)
(*                                                                         *)
(* A partition is named by a number: 0 is the top level ("None" in the     *)
(* code), c > 0 the c-th cycle created.  part[c] is the list of components *)
(* of that partition in the order the code appends them, which is the      *)
(* reverse of the order in which they are walked.                          *)
(***************************************************************************)
EXTENDS Wto, TailCallDepth

CONSTANTS
    Labels,     \* the labels of the CFG; their order is the order on Label
    Entry,      \* Label::entry()
    Graphs,     \* the CFGs considered: children_of, in ascending label order
    TailCalls,  \* the sets of labels considered that are tail-call sites
    ChainLimits \* the limits considered for the length of a tail-call chain

ASSUME LabelsAssumption ==
    /\ Labels \subseteq Nat /\ IsFiniteSet(Labels)
    /\ Entry \in Labels
    /\ Graphs \subseteq [Labels -> Seq(Labels)]

ASSUME TailCallsAssumption == TailCalls \subseteq SUBSET Labels /\ ChainLimits \subseteq Nat

VARIABLES
    children,           \* the CFG; it never changes
    dfn, head_dfn,      \* vertex_data
    num,                \* number of vertices numbered so far
    stack,              \* vertices numbered and not yet in a component
    visit_stack,        \* the tasks still to run, the next one last
    part,               \* top_components and cycles[..].components
    parent,             \* cycles[..].parent_cycle_idx
    containing,         \* containing_cycle_map, 0 where there is no entry
    wto                 \* the result of finalize, NoWto before

vars == <<children, dfn, head_dfn, num, stack, visit_stack, part, parent,
          containing, wto>>

DFN_INF == 2147483647
NoWto == <<>>

NumCycles == Len(parent)

(***************************************************************************)
(* Components and tasks.                                                   *)
(***************************************************************************)
LabelComp(v) == [kind |-> "label", label |-> v]
CycleComp(c) == [kind |-> "cycle", idx |-> c]
Component == [kind : {"label"}, label : Labels] \cup [kind : {"cycle"}, idx : Nat]

VisitTask(type, v, target, cc) ==
    [type |-> type, vertex |-> v, target_cycle |-> target, containing_cycle |-> cc]
TaskType == {"PushSuccessors", "StartVisit", "ContinueVisit"}

Top(s) == s[Len(s)]
Pop(s) == SubSeq(s, 1, Len(s) - 1)

(***************************************************************************)
(* enqueue_unvisited_succs: the children are walked backwards, so that the *)
(* first one is on top of the stack.                                       *)
(***************************************************************************)
\* The p-th of the positions S, counted from the last one.
FromLast(S, p) == CHOOSE k \in S : Cardinality({j \in S : j >= k}) = p

EnqueueUnvisitedSuccs(number, tasks, v, target, cc) ==
    LET unvisited == {k \in 1 .. Len(children[v]) : number[children[v][k]] = 0}
    IN  tasks \o [p \in 1 .. Cardinality(unvisited) |->
                      VisitTask("PushSuccessors", children[v][FromLast(unvisited, p)], target, cc)]

Init ==
    /\ children \in Graphs
    /\ dfn = [l \in Labels |-> 0]
    /\ head_dfn = [l \in Labels |-> 0]
    /\ num = 0
    /\ stack = <<>>
    /\ visit_stack = <<VisitTask("PushSuccessors", Entry, 0, 0)>>
    /\ part = [c \in {0} |-> <<>>]
    /\ parent = <<>>
    /\ containing = [l \in Labels |-> 0]
    /\ wto = NoWto

(***************************************************************************)
(* The main loop pops a task of the given type.                            *)
(***************************************************************************)
Popped(type) == visit_stack # <<>> /\ Top(visit_stack).type = type

\* Mutants: the vertex is visited before its successors; a task for a visited
\* vertex stays on the stack.
PushSuccessorsVisitFirst ==
    /\ Popped("PushSuccessors")
    /\ LET t == Top(visit_stack)
           v == t.vertex
       IN  \/ /\ dfn[v] # 0
              /\ visit_stack' = Pop(visit_stack)
              /\ UNCHANGED <<dfn, num, stack>>
           \/ /\ dfn[v] = 0
              /\ num' = num + 1
              /\ dfn' = [dfn EXCEPT ![v] = num + 1]
              /\ stack' = Append(stack, v)
              /\ visit_stack' = Append(
                    EnqueueUnvisitedSuccs(dfn', Pop(visit_stack), v, t.target_cycle, t.containing_cycle),
                    VisitTask("StartVisit", v, t.target_cycle, t.containing_cycle))
    /\ UNCHANGED <<children, head_dfn, part, parent, containing, wto>>

PushSuccessorsNoPop ==
    /\ Popped("PushSuccessors")
    /\ LET t == Top(visit_stack)
           v == t.vertex
       IN  \/ /\ dfn[v] # 0
              /\ UNCHANGED <<visit_stack, dfn, num, stack>>
           \/ /\ dfn[v] = 0
              /\ num' = num + 1
              /\ dfn' = [dfn EXCEPT ![v] = num + 1]
              /\ stack' = Append(stack, v)
              /\ visit_stack' = EnqueueUnvisitedSuccs(dfn',
                    Append(Pop(visit_stack),
                           VisitTask("StartVisit", v, t.target_cycle, t.containing_cycle)),
                    v, t.target_cycle, t.containing_cycle)
    /\ UNCHANGED <<children, head_dfn, part, parent, containing, wto>>

PushSuccessors ==
    /\ Popped("PushSuccessors")
    /\ LET t == Top(visit_stack)
           v == t.vertex
       IN  \/ /\ dfn[v] # 0
              /\ visit_stack' = Pop(visit_stack)
              /\ UNCHANGED <<dfn, num, stack>>
           \/ /\ dfn[v] = 0
              /\ num' = num + 1
              /\ dfn' = [dfn EXCEPT ![v] = num + 1]
              /\ stack' = Append(stack, v)
              /\ visit_stack' = EnqueueUnvisitedSuccs(dfn',
                    Append(Pop(visit_stack),
                           VisitTask("StartVisit", v, t.target_cycle, t.containing_cycle)),
                    v, t.target_cycle, t.containing_cycle)
    /\ UNCHANGED <<children, head_dfn, part, parent, containing, wto>>

(***************************************************************************)
(* What start_visit reads of a successor, and the smallest of those and of *)
(* the vertex's own number: the head of the component it belongs to.       *)
(***************************************************************************)
\* Mutant: the head of a vertex that is already in a component still counts.
MinDfnOfDone(s) == IF head_dfn[s] # 0 THEN head_dfn[s] ELSE dfn[s]

MinDfn(s) == IF head_dfn[s] # 0 /\ dfn[s] # DFN_INF THEN head_dfn[s] ELSE dfn[s]
SuccDfns(v) == {MinDfn(children[v][i]) : i \in 1 .. Len(children[v])}
HeadDfn(v) == Min({dfn[v]} \cup SuccDfns(v))
IsLoop(v) == \E d \in SuccDfns(v) : d <= dfn[v]

(***************************************************************************)
(* The vertices the is_loop branch pops: v and everything above it.        *)
(***************************************************************************)
LastIndexOf(s, v) == SelectLastInSeq(s, LAMBDA x : x = v)

\* Mutant: the members popped above the head keep their numbers.
ForgetNot(numbers, v, above, value) == [numbers EXCEPT ![v] = value]

(***************************************************************************)
(* The members popped above the head are numbered again from scratch.      *)
(***************************************************************************)
Forget(numbers, v, above, value) ==
    [l \in Labels |-> IF l = v THEN value ELSE IF l \in above THEN 0 ELSE numbers[l]]

StartVisit ==
    /\ Popped("StartVisit")
    /\ LET t == Top(visit_stack)
           v == t.vertex
           k == LastIndexOf(stack, v)
           above == {stack[i] : i \in k + 1 .. Len(stack)}
           c == NumCycles + 1
       IN  \* v belongs to a component whose head is below it on the stack.
           \/ /\ HeadDfn(v) # dfn[v]
              /\ head_dfn' = [head_dfn EXCEPT ![v] = HeadDfn(v)]
              /\ visit_stack' = Pop(visit_stack)
              /\ UNCHANGED <<dfn, stack, part, parent, containing>>
           \* v is a component of its own.
           \/ /\ HeadDfn(v) = dfn[v]
              /\ ~ IsLoop(v)
              /\ dfn' = [dfn EXCEPT ![v] = DFN_INF]
              /\ stack' = Pop(stack)
              /\ part' = [part EXCEPT ![t.target_cycle] = Append(@, LabelComp(v))]
              /\ containing' = IF t.containing_cycle = 0 THEN containing
                               ELSE [containing EXCEPT ![v] = t.containing_cycle]
              /\ head_dfn' = [head_dfn EXCEPT ![v] = HeadDfn(v)]
              /\ visit_stack' = Pop(visit_stack)
              /\ UNCHANGED parent
           \* v is the head of a cycle: forget the rest of the component and
           \* walk it again, into a new partition.
           \/ /\ HeadDfn(v) = dfn[v]
              /\ IsLoop(v)
              /\ dfn' = Forget(dfn, v, above, DFN_INF)
              /\ head_dfn' = Forget(head_dfn, v, above, HeadDfn(v))
              /\ stack' = SubSeq(stack, 1, k - 1)
              /\ part' = [i \in 0 .. c |-> IF i = c THEN <<>> ELSE part[i]]
              /\ parent' = Append(parent, t.containing_cycle)
              /\ visit_stack' = EnqueueUnvisitedSuccs(dfn',
                    Append(Pop(visit_stack), VisitTask("ContinueVisit", v, t.target_cycle, c)),
                    v, c, c)
              /\ UNCHANGED containing
    /\ UNCHANGED <<children, num, wto>>

\* Mutants: a nested cycle is listed at the top level; the index of the cycle is
\* one too large.
ContinueVisitTopLevel ==
    /\ Popped("ContinueVisit")
    /\ LET t == Top(visit_stack)
           c == t.containing_cycle
       IN  /\ part' = [part EXCEPT ![c] = Append(@, LabelComp(t.vertex)),
                                   ![0] = Append(@, CycleComp(c))]
           /\ containing' = [containing EXCEPT ![t.vertex] = c]
    /\ visit_stack' = Pop(visit_stack)
    /\ UNCHANGED <<children, dfn, head_dfn, num, stack, parent, wto>>

ContinueVisitNextCycle ==
    /\ Popped("ContinueVisit")
    /\ LET t == Top(visit_stack)
           c == t.containing_cycle
       IN  /\ part' = [part EXCEPT ![c] = Append(@, LabelComp(t.vertex)),
                                   ![t.target_cycle] = Append(@, CycleComp(c))]
           /\ containing' = [containing EXCEPT ![t.vertex] = c + 1]
    /\ visit_stack' = Pop(visit_stack)
    /\ UNCHANGED <<children, dfn, head_dfn, num, stack, parent, wto>>

ContinueVisit ==
    /\ Popped("ContinueVisit")
    /\ LET t == Top(visit_stack)
           c == t.containing_cycle
       IN  /\ part' = [part EXCEPT ![c] = Append(@, LabelComp(t.vertex)),
                                   ![t.target_cycle] = Append(@, CycleComp(c))]
           /\ containing' = [containing EXCEPT ![t.vertex] = c]
    /\ visit_stack' = Pop(visit_stack)
    /\ UNCHANGED <<children, dfn, head_dfn, num, stack, parent, wto>>

(***************************************************************************)
(* finalize.  The components of partition c, walked forward and with the   *)
(* nested cycles written out; the head of a cycle is the last of its list. *)
(***************************************************************************)
Walk[c \in 0 .. NumCycles] ==
    FlattenSeq([k \in 1 .. Len(part[c]) |->
        LET x == Reverse(part[c])[k]
        IN  IF x.kind = "label" THEN <<x.label>> ELSE Walk[x.idx]])

NoLabel == -1
CycleHead(c) == Top(part[c]).label

(***************************************************************************)
(* Wto::head: the head of the cycle around a label; for a head, the head   *)
(* of the cycle around its own.  collect_heads follows it to the outside.  *)
(***************************************************************************)
\* Mutant: a head has no head of its own.
Head1OfHeadNone(l) ==
    LET c == containing[l]
    IN  IF c = 0 \/ CycleHead(c) = l THEN NoLabel ELSE CycleHead(c)

Head1(l) ==
    LET c == containing[l]
    IN  CASE c = 0 -> NoLabel
          [] c # 0 /\ CycleHead(c) # l -> CycleHead(c)
          [] c # 0 /\ CycleHead(c) = l /\ parent[c] = 0 -> NoLabel
          [] OTHER -> CycleHead(parent[c])

CollectHeads(l) ==
    LET h[k \in 0 .. NumCycles + 1] ==
            IF k = 0 THEN l
            ELSE IF h[k - 1] = NoLabel THEN NoLabel ELSE Head1(h[k - 1])
        depth == Max({k \in 0 .. NumCycles + 1 : h[k] # NoLabel})
    IN  [k \in 1 .. depth |-> h[k]]

PositionOf(order, l) == CHOOSE p \in DOMAIN order : order[p] = l

HeadPositions(order) == [c \in 1 .. NumCycles |-> PositionOf(order, CycleHead(c))]

WtoOf(order, head) ==
    [order |-> order,
     heads |-> {head[c] : c \in 1 .. NumCycles},
     last |-> [p \in 1 .. Len(order) |->
                  IF \E c \in 1 .. NumCycles : head[c] = p
                  THEN p + Len(Walk[CHOOSE c \in 1 .. NumCycles : head[c] = p]) - 1
                  ELSE p],
     nesting |-> [l \in Labels |-> CollectHeads(l)]]

Finalize ==
    /\ visit_stack = <<>>
    /\ wto = NoWto
    /\ \E order \in {Walk[0]} : wto' = WtoOf(order, HeadPositions(order))
    /\ UNCHANGED <<children, dfn, head_dfn, num, stack, visit_stack, part, parent, containing>>

Done == wto # NoWto

Terminated == Done /\ UNCHANGED vars

Next == PushSuccessors \/ StartVisit \/ ContinueVisit \/ Finalize \/ Terminated

(***************************************************************************)
(* The builder is a sequential loop with nothing to wait for: it takes its *)
(* next step as long as it has one.                                        *)
(***************************************************************************)
Spec == Init /\ [][Next]_vars /\ WF_vars(Next)

-----------------------------------------------------------------------------
Edge(u, v) == \E i \in 1 .. Len(children[u]) : children[u][i] = v
Edges == {e \in Labels \X Labels : Edge(e[1], e[2])}

TypeOK ==
    /\ children \in [Labels -> Seq(Labels)]
    /\ dfn \in [Labels -> Nat]
    /\ head_dfn \in [Labels -> Nat]
    /\ num \in Nat
    /\ stack \in Seq(Labels)
    /\ visit_stack \in Seq([type : TaskType, vertex : Labels,
                            target_cycle : 0 .. NumCycles, containing_cycle : 0 .. NumCycles])
    /\ part \in [0 .. NumCycles -> Seq(Component)]
    /\ parent \in Seq(0 .. NumCycles)
    /\ containing \in [Labels -> 0 .. NumCycles]

(***************************************************************************)
(* What WtoBuilder::build promises the fixpoint iterator: the result is a  *)
(* weak topological order of the part of the CFG the entry reaches.        *)
(***************************************************************************)
ResultIsWto == Done => IsWto(wto, Entry, Edges, Labels)

(***************************************************************************)
(* No cycle is made where none is needed (each is a place of widening):    *)
(* inside a cycle, every member has a path back to the head.  The set of   *)
(* members that reach the head is closed backwards and is the whole cycle. *)
(***************************************************************************)
CyclesAreStronglyConnected ==
    Done => \A h \in wto.heads :
        LET inside == h .. wto.last[h]
            back[k \in 0 .. Len(wto.order)] ==
                IF k = 0
                THEN {p \in inside : Edge(wto.order[p], wto.order[h])}
                ELSE back[k - 1] \cup {p \in inside : \E q \in back[k - 1] :
                                           Edge(wto.order[p], wto.order[q])}
        IN  back[Len(wto.order)] = inside

(***************************************************************************)
(* The nesting tables, built from containing_cycle_map and the parent      *)
(* links, agree with the components: the nesting of a label lists, inner   *)
(* to outer, the heads of the cycles around it, itself excepted.           *)
(***************************************************************************)
NestingMatchesCycles ==
    Done => \A p \in Positions(wto) :
        LET nesting == wto.nesting[wto.order[p]]
            around == {h \in wto.heads : h # p /\ InCycle(wto, h, p)}
        IN  /\ ToSet(nesting) = {wto.order[h] : h \in around}
            /\ \A i, j \in DOMAIN nesting :
                  i < j => PositionOf(wto.order, nesting[i]) > PositionOf(wto.order, nesting[j])

(***************************************************************************)
(* process_cycle starts a cycle from the predecessors of its head whose    *)
(* nesting is not a strict superset of the head's.  A predecessor inside   *)
(* the cycle is never one of them (the head itself excepted), and one that *)
(* is left out although it is outside sits in an earlier cycle that exits  *)
(* straight to this head.                                                  *)
(***************************************************************************)
LeftOutPredecessors ==
    Done => \A h \in wto.heads, p \in Positions(wto) :
        LET superset == IsSupersetOf(wto.nesting[wto.order[p]], wto.nesting[wto.order[h]])
        IN  Edge(wto.order[p], wto.order[h]) =>
            /\ p # h /\ InCycle(wto, h, p) => superset
            /\ superset /\ ~ InCycle(wto, h, p) =>
                  \E g \in wto.heads : InCycle(wto, g, p) /\ wto.last[g] < h

(***************************************************************************)
(* The nestings are right, and so is what the iterator reads off them.     *)
(***************************************************************************)
NestingsExact == NestingMatchesCycles /\ LeftOutPredecessors

(***************************************************************************)
(* finalize builds the cycles from the last to the first and unwraps the   *)
(* ones a cycle contains: a nested cycle must have the larger index, and   *)
(* its parent link must name the partition that lists it.                  *)
(***************************************************************************)
ChildCycleAfterParent ==
    \A c \in 0 .. NumCycles : \A i \in DOMAIN part[c] :
        part[c][i].kind = "cycle" => /\ part[c][i].idx > c
                                     /\ part[c][i].idx <= NumCycles
                                     /\ parent[part[c][i].idx] = c

(***************************************************************************)
(* start_visit unwraps stack.pop() and takes what it pops for its vertex:  *)
(* the vertex is on the stack, on top of it when it is a component of its  *)
(* own, and by then all of its successors have been numbered (an unvisited *)
(* one would read as number 0 and pass for the head of a component).       *)
(***************************************************************************)
PopFindsVertex ==
    Popped("StartVisit") =>
        LET v == Top(visit_stack).vertex
        IN  /\ \E i \in DOMAIN stack : stack[i] = v
            /\ HeadDfn(v) = dfn[v] /\ ~ IsLoop(v) => Top(stack) = v
            /\ \A i \in DOMAIN children[v] : dfn[children[v][i]] # 0

(***************************************************************************)
(* The builder's state is well formed at every step, and so no unwrap of   *)
(* start_visit or finalize fails.                                          *)
(***************************************************************************)
UnwrapsSucceed == TypeOK /\ ChildCycleAfterParent /\ PopFindsVertex

(***************************************************************************)
(* What validate_tail_call_chain_depth reads of the order: its labels, and *)
(* the outermost head of each label's nesting.                             *)
(***************************************************************************)
Reachable == ToSet(wto.order)
Representative ==
    [l \in Reachable |-> IF wto.nesting[l] = <<>> THEN l
                         ELSE wto.nesting[l][Len(wto.nesting[l])]]

(***************************************************************************)
(* The sets of tail calls that an execution can have passed: the second    *)
(* components of what is found by following every execution from the       *)
(* entry, each label with the tail calls passed on the way to it.          *)
(***************************************************************************)
Arrivals(sites) ==
    LET arrive(l, S) == <<l, S \cup ({l} \cap sites)>>
        step(X) == UNION {{arrive(l, x[2]) : l \in {m \in Labels : Edge(x[1], m)}} : x \in X}
        follow[X \in SUBSET (Labels \X SUBSET Labels)] ==
            IF X \cup step(X) = X THEN X ELSE follow[X \cup step(X)]
    IN  follow[{arrive(Entry, {})}]

(***************************************************************************)
(* "Enforce a global upper bound on tail-call chain length": the program   *)
(* is rejected exactly when some execution passes more different tail-call *)
(* sites than the limit, and the components are always found acyclic.      *)
(***************************************************************************)
ChainBoundExact ==
    Done => \A sites \in TailCalls, limit \in ChainLimits :
        TailCallVerdict(Reachable, Edges, Representative, sites, limit) =
            IF \E x \in Arrivals(sites) : Cardinality(x[2]) > limit THEN "too deep" ELSE "ok"

(***************************************************************************)
(* The walk ends: vertices are renumbered each time a cycle is opened, and *)
(* there is no bound in the code on how often.                             *)
(***************************************************************************)
EventuallyDone == <>Done
=============================================================================
