--------------------------- MODULE WtoBuilderProofs ---------------------------
(***************************************************************************)
(* Theorems about WtoBuilder, for every graph: no unwrap of start_visit or *)
(* finalize fails, and how often vertices are numbered.                    *)
(***************************************************************************)
EXTENDS WtoBuilder, FiniteOrders

(***************************************************************************)
(* A vertex is white before it is numbered and again when it is forgotten, *)
(* open while it is on the stack.  An open vertex is pending while its     *)
(* StartVisit task is still to run; after it the vertex is left waiting    *)
(* for the head of its component, which is further down the stack.         *)
(***************************************************************************)
White(x) == dfn[x] = 0
Open(x) == dfn[x] # 0 /\ dfn[x] # DFN_INF

Tasks == DOMAIN visit_stack
Type(i) == visit_stack[i].type
Vertex(i) == visit_stack[i].vertex
Begun(i) == Type(i) # "PushSuccessors"

Pending(x) == \E i \in Tasks : Type(i) = "StartVisit" /\ Vertex(i) = x
Waiting(x) == Open(x) /\ ~ Pending(x)

\* The number of a begun vertex; a head keeps it as its head_dfn.
Level(i) == IF Type(i) = "StartVisit" THEN dfn[Vertex(i)] ELSE head_dfn[Vertex(i)]

\* Task i is the last begun one below the waiting vertex w.
Holds(i, w) ==
    /\ Type(i) = "StartVisit" /\ Waiting(w) /\ Level(i) < dfn[w]
    /\ \A j \in Tasks : j > i /\ Begun(j) => dfn[w] < Level(j)

\* X has what is reached from the vertex of task i within the ones it holds.
HoldsWithin(i, X) ==
    /\ \A s \in Labels : Holds(i, s) /\ Edge(Vertex(i), s) => s \in X
    /\ \A x \in X, s \in Labels : Holds(i, x) /\ Holds(i, s) /\ Edge(x, s) => s \in X

\* X has the white vertices that the tasks above i will lead to.
Covers(X, i) ==
    /\ \A j \in Tasks : j > i =>
          /\ ~ Begun(j) /\ White(Vertex(j)) => Vertex(j) \in X
          /\ Begun(j) => \A s \in Labels : White(s) /\ Edge(Vertex(j), s) => s \in X
    /\ \A x \in X, s \in Labels : White(x) /\ White(s) /\ Edge(x, s) => s \in X

-----------------------------------------------------------------------------
\* The stack has the open vertices in the order of their numbers.
StackInv ==
    /\ \A x \in Labels : Open(x) <=> \E k \in DOMAIN stack : stack[k] = x
    /\ \A k, m \in DOMAIN stack : k < m => dfn[stack[k]] < dfn[stack[m]]
    /\ \A x \in Labels : Open(x) => dfn[x] <= num
    /\ \A x \in Labels : White(x) => head_dfn[x] = 0

\* A task is for a child of the vertex begun last below it; a nested cycle is
\* listed in the partition that its parent link names.
TaskOK(t) ==
    /\ t.type = "StartVisit" => Open(t.vertex) /\ head_dfn[t.vertex] = 0
    /\ t.type = "ContinueVisit" => /\ dfn[t.vertex] = DFN_INF /\ head_dfn[t.vertex] \in 1 .. num
                                   /\ t.target_cycle < t.containing_cycle
                                   /\ parent[t.containing_cycle] = t.target_cycle
    /\ t.type # "ContinueVisit" => t.target_cycle = t.containing_cycle
TaskInv ==
    /\ \A i \in Tasks : TaskOK(visit_stack[i])
    /\ \A i, j \in Tasks : i < j /\ Begun(i) /\ Begun(j) => Level(i) < Level(j)
    /\ \A i, j \in Tasks :
          (i < j /\ Begun(i) /\ \A k \in Tasks : i < k /\ k < j => ~ Begun(k))
              => Edge(Vertex(i), Vertex(j))

\* A waiting vertex leads to an open one below it, and so does the begun vertex
\* below it, which leads to it through waiting vertices.
WaitingInv ==
    /\ \A w \in Labels : Waiting(w) =>
          /\ head_dfn[w] # 0 /\ head_dfn[w] < dfn[w]
          /\ \E x \in Labels : Open(x) /\ dfn[x] = head_dfn[w]
          /\ \E i \in Tasks : Holds(i, w)
          /\ \A c \in Labels : Edge(w, c) /\ Open(c) => head_dfn[w] <= dfn[c]
    /\ \A i \in Tasks, w \in Labels : Holds(i, w) =>
          \E s \in Labels : Edge(Vertex(i), s) /\ Open(s) /\ MinDfn(s) <= head_dfn[w]
    /\ \A i \in Tasks, X \in SUBSET Labels :
          HoldsWithin(i, X) => \A w \in Labels : Holds(i, w) => w \in X

\* The white children of a begun vertex, and of the ones waiting above it, will
\* be visited by the tasks above it.
WhiteInv ==
    \A i \in Tasks, X \in SUBSET Labels : Begun(i) /\ Covers(X, i) =>
        \A y, s \in Labels :
            (y = Vertex(i) \/ Holds(i, y)) /\ Edge(y, s) /\ White(s) => s \in X

\* The vertices of a cycle that is walked again: what leads out of them is in a
\* component already.
Members(i, M) ==
    /\ \A j \in Tasks : j > i => Vertex(j) \in M
    /\ \A x \in Labels : Open(x) => (x \in M <=> dfn[x] > Level(i))
    /\ \A x \in M, c \in Labels : Edge(x, c) => c \in M \/ dfn[c] = DFN_INF
    /\ \A w \in M : Waiting(w) => head_dfn[w] > Level(i)
CycleInv ==
    \A i \in Tasks : Type(i) = "ContinueVisit" => \E M \in SUBSET Labels : Members(i, M)

BuilderInv ==
    TypeOK /\ StackInv /\ TaskInv /\ WaitingInv /\ WhiteInv /\ CycleInv /\ ChildCycleAfterParent

-----------------------------------------------------------------------------
(***************************************************************************)
(* What the helpers of the code compute.                                   *)
(***************************************************************************)
TaskOf(C) == [type : TaskType, vertex : Labels, target_cycle : C, containing_cycle : C]
Task == TaskOf(0 .. NumCycles)

LEMMA EdgeType ==
    ASSUME TypeOK, NEW v \in Labels
    PROVE  /\ Len(children[v]) \in Nat
           /\ \A i \in 1 .. Len(children[v]) : children[v][i] \in Labels
           /\ \A s : Edge(v, s) => s \in Labels
<1>1. children[v] \in Seq(Labels)
  BY DEF TypeOK
<1>2. Len(children[v]) \in Nat /\ \A i \in 1 .. Len(children[v]) : children[v][i] \in Labels
  BY <1>1
<1> QED BY <1>2 DEF Edge

LEMMA MinDfnType ==
    ASSUME TypeOK, NEW s \in Labels
    PROVE  MinDfn(s) \in Nat
BY DEF TypeOK, MinDfn

\* The head of a vertex is the least of its own number and its successors'.
LEMMA HeadDfnIsLeast ==
    ASSUME TypeOK, NEW v \in Labels
    PROVE  /\ HeadDfn(v) \in Nat /\ HeadDfn(v) <= dfn[v]
           /\ \A s \in Labels : Edge(v, s) => HeadDfn(v) <= MinDfn(s)
           /\ HeadDfn(v) = dfn[v] \/ \E s \in Labels : Edge(v, s) /\ HeadDfn(v) = MinDfn(s)
           /\ IsLoop(v) <=> \E s \in Labels : Edge(v, s) /\ MinDfn(s) <= dfn[v]
<1> DEFINE S == {dfn[v]} \cup SuccDfns(v)
<1>1. \A d : d \in SuccDfns(v) <=> \E s \in Labels : Edge(v, s) /\ d = MinDfn(s)
  BY EdgeType DEF SuccDfns, Edge
<1>2. dfn[v] \in Nat
  BY DEF TypeOK
<1>3. S \in SUBSET Nat /\ S # {}
  BY <1>1, <1>2, MinDfnType
<1> HIDE DEF S
<1>4. Min(S) \in S /\ \A y \in S : Min(S) <= y
  BY <1>3, LeastNat DEF Min
<1>5. HeadDfn(v) = Min(S)
  BY DEF HeadDfn, S
<1> QED BY <1>1, <1>2, <1>3, <1>4, <1>5, SMTT(60) DEF S, IsLoop

\* enqueue_unvisited_succs pushes a task for each successor without a number,
\* and no other.
IsEnqueued(q, k, number, v, c) ==
    /\ \A i \in DOMAIN q : i > k =>
          /\ q[i] = VisitTask("PushSuccessors", q[i].vertex, c, c)
          /\ q[i].vertex \in Labels /\ number[q[i].vertex] = 0 /\ Edge(v, q[i].vertex)
    /\ \A s \in Labels : Edge(v, s) /\ number[s] = 0 => \E i \in DOMAIN q : i > k /\ q[i].vertex = s

LEMMA Enqueued ==
    ASSUME TypeOK, NEW v \in Labels, NEW number \in [Labels -> Nat], NEW C,
           NEW tasks \in Seq(TaskOf(C)), NEW c \in C,
           NEW q, q = EnqueueUnvisitedSuccs(number, tasks, v, c, c)
    PROVE  /\ q \in Seq(TaskOf(C))
           /\ Len(q) \in Nat /\ DOMAIN q = 1 .. Len(q) /\ Len(q) >= Len(tasks)
           /\ \A i \in 1 .. Len(tasks) : q[i] = tasks[i]
           /\ IsEnqueued(q, Len(tasks), number, v, c)
<1> DEFINE U == {k \in 1 .. Len(children[v]) : number[children[v][k]] = 0}
           N == Cardinality(U)
           back == [m \in U |-> {j \in U : j >= m}]
           T == TaskOf(C)
           pushed == [p \in 1 .. N |-> VisitTask("PushSuccessors", children[v][FromLast(U, p)], c, c)]
           all == tasks \o pushed
<1>1. U \in SUBSET (1 .. Len(children[v])) /\ Len(children[v]) \in Nat /\ \A m \in U : m \in Nat
  BY EdgeType
<1>2. IsFiniteSet(U)
  <2> HIDE DEF U
  <2>1. 1 \in Int /\ Len(children[v]) \in Int
    BY <1>1
  <2>2. IsFiniteSet(1 .. Len(children[v]))
    BY <2>1, FS_Interval
  <2> QED BY <1>1, <2>2, FS_Subset
<1>3. back \in [U -> SUBSET U] /\ \A m \in U : m \in back[m]
  BY <1>1, SMTT(60)
<1>4. ASSUME NEW m \in U, NEW n \in U, m < n
      PROVE  back[n] \subseteq back[m] /\ m \notin back[n]
  <2>1. \A k \in back[n] : k \in U /\ k >= m
    BY <1>1, <1>4
  <2> QED BY <1>1, <1>4, <2>1, SMTT(60)
<1>5. \A m, n \in U : m # n => \/ back[m] \subseteq back[n] /\ n \notin back[m]
                               \/ back[n] \subseteq back[m] /\ m \notin back[n]
  BY <1>1, <1>4, SMTT(60)
<1>6. \A k \in U : children[v][k] \in Labels /\ number[children[v][k]] = 0 /\ Edge(v, children[v][k])
  BY <1>1, EdgeType DEF Edge
<1>7. \A s \in Labels : Edge(v, s) /\ number[s] = 0 => \E k \in U : children[v][k] = s
  BY DEF Edge
<1> HIDE DEF U, back
<1>8. /\ N \in Nat
      /\ \A m \in U : Cardinality(back[m]) \in 1 .. N
      /\ \A m, n \in U : Cardinality(back[m]) = Cardinality(back[n]) => m = n
      /\ \A p \in 1 .. N : \E m \in U : Cardinality(back[m]) = p
  BY <1>2, <1>3, <1>5, CountedOff
<1>9. \A p : FromLast(U, p) = CHOOSE m \in U : Cardinality(back[m]) = p
  BY DEF FromLast, back
<1>10. \A p \in 1 .. N : FromLast(U, p) \in U /\ Cardinality(back[FromLast(U, p)]) = p
  BY <1>8, <1>9
<1>11. \A m \in U : \E p \in 1 .. N : FromLast(U, p) = m
  BY <1>8, <1>10
<1>12. \A p \in 1 .. N : /\ pushed[p] = VisitTask("PushSuccessors", pushed[p].vertex, c, c)
                         /\ pushed[p].vertex = children[v][FromLast(U, p)]
                         /\ pushed[p].vertex \in Labels
  BY <1>6, <1>10 DEF VisitTask
<1>13. pushed \in Seq(T) /\ Len(pushed) = N
  <2>1. \A p \in 1 .. N : pushed[p] \in T
    BY <1>12 DEF VisitTask, TaskType, TaskOf
  <2>2. pushed \in [1 .. N -> T]
    BY <2>1
  <2> HIDE DEF pushed, T
  <2> QED BY <2>2, <1>8
<1> HIDE DEF pushed, T
<1>14. all \in Seq(T) /\ Len(all) = Len(tasks) + N
       /\ \A i \in 1 .. Len(all) : all[i] = IF i <= Len(tasks) THEN tasks[i] ELSE pushed[i - Len(tasks)]
  <2>1. tasks \in Seq(T)
    BY DEF T
  <2> QED BY <2>1, <1>13, ConcatProperties, ZenonT(60)
<1>15. Len(tasks) \in Nat /\ tasks \in Seq(T)
  BY DEF T
<1> HIDE DEF all
<1>16. all = q
  BY DEF all, pushed, U, EnqueueUnvisitedSuccs
<1>17. ASSUME NEW i \in 1 .. Len(all), i > Len(tasks)
       PROVE  /\ all[i] = VisitTask("PushSuccessors", all[i].vertex, c, c)
              /\ all[i].vertex \in Labels /\ number[all[i].vertex] = 0 /\ Edge(v, all[i].vertex)
  <2>1. i - Len(tasks) \in 1 .. N /\ all[i] = pushed[i - Len(tasks)]
    BY <1>14, <1>15, <1>17, <1>8, SMTT(60)
  <2> QED BY <2>1, <1>12, <1>10, <1>6, SMTT(60)
<1>18. ASSUME NEW s \in Labels, Edge(v, s), number[s] = 0
       PROVE  \E i \in 1 .. Len(all) : i > Len(tasks) /\ all[i].vertex = s
  <2>1. PICK p \in 1 .. N : children[v][FromLast(U, p)] = s
    BY <1>7, <1>11, <1>18
  <2>2. Len(tasks) + p \in 1 .. Len(all) /\ Len(tasks) + p > Len(tasks) /\ (Len(tasks) + p) - Len(tasks) = p
    BY <1>14, <1>15, <1>8, SMTT(60)
  <2>3. all[Len(tasks) + p] = pushed[p]
    BY <2>2, <1>14, <1>15, SMTT(60)
  <2> QED BY <2>1, <2>2, <2>3, <1>12
<1>19. Len(all) \in Nat /\ DOMAIN all = 1 .. Len(all)
  BY <1>14
<1>20. IsEnqueued(all, Len(tasks), number, v, c)
  BY <1>17, <1>18, <1>19 DEF IsEnqueued
<1> QED BY <1>8, <1>14, <1>15, <1>16, <1>19, <1>20 DEF T

LEMMA PopProperties ==
    ASSUME NEW S, NEW q \in Seq(S), q # <<>>
    PROVE  /\ Len(q) \in Nat \ {0} /\ DOMAIN q = 1 .. Len(q)
           /\ Top(q) \in S
           /\ Pop(q) \in Seq(S) /\ Len(Pop(q)) = Len(q) - 1
           /\ \A i \in 1 .. Len(q) - 1 : Pop(q)[i] = q[i]
<1>1. Len(q) \in Nat \ {0} /\ DOMAIN q = 1 .. Len(q) /\ Top(q) \in S
  BY DEF Top
<1> DEFINE m == Len(q) - 1
<1>2. m \in Nat /\ m <= Len(q)
  BY <1>1
<1>3. SubSeq(q, 1, m) = [i \in 1 .. m |-> q[i]]
  BY <1>1, <1>2
<1>4. \A i \in 1 .. m : q[i] \in S
  BY <1>1
<1>5. SubSeq(q, 1, m) \in [1 .. m -> S]
  BY <1>3, <1>4
<1>6. Len(SubSeq(q, 1, m)) = m /\ SubSeq(q, 1, m) \in Seq(S)
  <2> DEFINE p == SubSeq(q, 1, m)
  <2>1. p \in [1 .. m -> S] /\ m \in Nat
    BY <1>2, <1>5
  <2> HIDE DEF p, m
  <2>2. p \in Seq(S) /\ Len(p) = m
    BY <2>1
  <2> QED BY <2>2 DEF p
<1> QED BY <1>1, <1>3, <1>6 DEF Pop

LEMMA PoppedTask ==
    ASSUME TypeOK, NEW type, Popped(type)
    PROVE  LET n == Len(visit_stack)
           IN  /\ n \in Nat \ {0} /\ Tasks = 1 .. n /\ Top(visit_stack) = visit_stack[n]
               /\ Type(n) = type /\ Vertex(n) \in Labels /\ visit_stack[n] \in Task
               /\ Pop(visit_stack) \in Seq(Task) /\ Len(Pop(visit_stack)) = n - 1
               /\ \A i \in 1 .. n - 1 : Pop(visit_stack)[i] = visit_stack[i]
<1> DEFINE n == Len(visit_stack)
<1>1. visit_stack \in Seq(Task)
  BY DEF TypeOK, Task, TaskOf
<1>2. n \in Nat /\ n # 0 /\ Tasks = 1 .. n
  BY <1>1, EmptySeq, LenProperties DEF Popped, Tasks
<1>3. Top(visit_stack) = visit_stack[n] /\ visit_stack[n] \in Task
  BY <1>1, <1>2 DEF Top
<1>4. Type(n) = type /\ Vertex(n) \in Labels
  BY <1>3 DEF Popped, Type, Vertex, Task, TaskOf
<1> HIDE DEF Task
<1>5. /\ Pop(visit_stack) \in Seq(Task) /\ Len(Pop(visit_stack)) = n - 1
      /\ \A i \in 1 .. n - 1 : Pop(visit_stack)[i] = visit_stack[i]
  BY <1>1, <1>2, PopProperties, SMTT(60)
<1> QED BY <1>2, <1>3, <1>4, <1>5

-----------------------------------------------------------------------------
(***************************************************************************)
(* What the invariants say of open vertices, and of the vertex whose       *)
(* StartVisit task is on top.                                              *)
(***************************************************************************)
LEMMA OpenOnce ==
    ASSUME TypeOK, StackInv, NEW x \in Labels, NEW y \in Labels, Open(x), Open(y), dfn[x] = dfn[y]
    PROVE  x = y
<1>1. PICK k \in DOMAIN stack : stack[k] = x
  BY DEF StackInv
<1>2. PICK m \in DOMAIN stack : stack[m] = y
  BY DEF StackInv
<1>3. k \in Nat /\ m \in Nat /\ dfn[x] \in Nat
  <2>1. DOMAIN stack = 1 .. Len(stack) /\ dfn[x] \in Nat
    BY DEF TypeOK
  <2> QED BY <2>1
<1>4. ~ (k < m) /\ ~ (m < k)
  BY <1>1, <1>2, <1>3 DEF StackInv
<1> QED BY <1>1, <1>2, <1>3, <1>4

LEMMA OpenMinDfn ==
    ASSUME TypeOK, TaskInv, WaitingInv, NEW s \in Labels, Open(s)
    PROVE  /\ Pending(s) => MinDfn(s) = dfn[s]
           /\ Waiting(s) => MinDfn(s) = head_dfn[s]
           /\ MinDfn(s) <= dfn[s]
           /\ \E x \in Labels : Open(x) /\ dfn[x] = MinDfn(s)
<1>1. dfn[s] \in Nat /\ head_dfn[s] \in Nat
  BY DEF TypeOK
<1>2. CASE Pending(s)
  <2>1. head_dfn[s] = 0
    BY <1>2 DEF Pending, TaskInv, TaskOK, Type, Vertex, Tasks
  <2> QED BY <1>1, <1>2, <2>1 DEF MinDfn, Waiting
<1>3. CASE Waiting(s)
  <2>1. /\ head_dfn[s] # 0 /\ head_dfn[s] < dfn[s]
        /\ \E x \in Labels : Open(x) /\ dfn[x] = head_dfn[s]
    BY <1>3 DEF WaitingInv
  <2>2. MinDfn(s) = head_dfn[s]
    BY <2>1 DEF MinDfn, Open
  <2> QED BY <1>1, <1>3, <2>1, <2>2 DEF Waiting
<1> QED BY <1>2, <1>3 DEF Waiting

\* A successor with a number below the vertex's own is open.
LEMMA MinDfnOpen ==
    ASSUME TypeOK, StackInv, num < DFN_INF, NEW v \in Labels, Open(v),
           NEW s \in Labels, ~ White(s), MinDfn(s) <= dfn[v]
    PROVE  Open(s)
<1>1. dfn[v] <= num /\ num \in Nat /\ dfn[v] \in Nat
  BY DEF StackInv, TypeOK
<1>2. dfn[s] = DFN_INF => MinDfn(s) = DFN_INF
  BY DEF MinDfn
<1> QED BY <1>1, <1>2 DEF Open, White, DFN_INF

BuilderState == BuilderInv /\ num < DFN_INF

LEMMA TopPending ==
    ASSUME BuilderState, Popped("StartVisit"),
           NEW n, n = Len(visit_stack), NEW v, v = Vertex(n)
    PROVE  /\ n \in Nat \ {0} /\ Tasks = 1 .. n /\ Type(n) = "StartVisit" /\ v \in Labels
           /\ Open(v) /\ Pending(v) /\ head_dfn[v] = 0 /\ Level(n) = dfn[v] /\ dfn[v] \in Nat
           /\ \A y, s \in Labels : (y = v \/ Holds(n, y)) /\ Edge(y, s) => ~ White(s)
           /\ \A x \in Labels : Open(x) => dfn[x] < dfn[v] \/ x = v \/ Holds(n, x)
           /\ \A x \in Labels : Pending(x) => dfn[x] < dfn[v] \/ x = v
           /\ \A w \in Labels : Holds(n, w) <=> Open(w) /\ dfn[w] > dfn[v]
<1> USE DEF BuilderState, BuilderInv
<1>1. n \in Nat \ {0} /\ Tasks = 1 .. n /\ Type(n) = "StartVisit" /\ v \in Labels /\ n \in Tasks
  BY PoppedTask
<1>2. Open(v) /\ head_dfn[v] = 0 /\ Pending(v)
  BY <1>1 DEF TaskInv, TaskOK, Type, Vertex, Pending, Tasks
<1>3. Level(n) = dfn[v] /\ Begun(n)
  BY <1>1 DEF Level, Begun
<1>4. dfn[v] \in Nat /\ \A x \in Labels : dfn[x] \in Nat
  BY <1>1 DEF TypeOK
<1>5. ASSUME NEW y \in Labels, NEW s \in Labels, y = v \/ Holds(n, y), Edge(y, s)
      PROVE  ~ White(s)
  <2>1. Covers({}, n)
    BY <1>1 DEF Covers
  <2>2. {} \in SUBSET Labels
    OBVIOUS
  <2> QED BY <1>1, <1>3, <1>5, <2>1, <2>2 DEF WhiteInv
<1>6. ASSUME NEW x \in Labels, Pending(x), x # v
      PROVE  dfn[x] < dfn[v]
  <2>1. PICK i \in Tasks : Type(i) = "StartVisit" /\ Vertex(i) = x
    BY <1>6 DEF Pending
  <2>2. i < n /\ Begun(i) /\ Level(i) = dfn[x]
    BY <1>1, <1>6, <2>1 DEF Begun, Level
  <2> QED BY <1>1, <1>3, <2>1, <2>2 DEF TaskInv
<1>7. ASSUME NEW w \in Labels, Open(w), dfn[w] > dfn[v]
      PROVE  Holds(n, w)
  <2>1. Waiting(w)
    BY <1>4, <1>6, <1>7 DEF Waiting
  <2> QED BY <1>1, <1>3, <1>7, <2>1 DEF Holds
<1>8. \A w \in Labels : Holds(n, w) => Open(w) /\ dfn[w] > dfn[v]
  BY <1>3, <1>4 DEF Holds, Waiting
<1>9. ASSUME NEW x \in Labels, Open(x), ~ (dfn[x] < dfn[v]), x # v
      PROVE  Holds(n, x)
  BY <1>1, <1>2, <1>4, <1>7, <1>9, OpenOnce
<1> QED BY <1>1, <1>2, <1>3, <1>4, <1>5, <1>6, <1>7, <1>8, <1>9, SMTT(60)

\* The head of the vertex on top, by the number of its component.
LEMMA TopHead ==
    ASSUME BuilderState, Popped("StartVisit"),
           NEW n, n = Len(visit_stack), NEW v, v = Vertex(n)
    PROVE  /\ HeadDfn(v) # dfn[v] => /\ HeadDfn(v) < dfn[v] /\ HeadDfn(v) # 0
                                     /\ \E x \in Labels : Open(x) /\ dfn[x] = HeadDfn(v)
                                     /\ \E s \in Labels : Edge(v, s) /\ Open(s) /\ HeadDfn(v) = MinDfn(s)
           /\ HeadDfn(v) = dfn[v] => \A w \in Labels : Holds(n, w) => head_dfn[w] >= dfn[v]
           /\ HeadDfn(v) = dfn[v] /\ ~ IsLoop(v) => \A w \in Labels : ~ Holds(n, w)
           /\ \A w \in Labels : Holds(n, w) => HeadDfn(v) <= head_dfn[w]
<1> USE DEF BuilderState, BuilderInv
<1>1. /\ n \in Nat \ {0} /\ Tasks = 1 .. n /\ v \in Labels /\ n \in Tasks
      /\ Open(v) /\ dfn[v] \in Nat /\ Level(n) = dfn[v]
      /\ \A s \in Labels : Edge(v, s) => ~ White(s)
      /\ \A x \in Labels : Open(x) => dfn[x] < dfn[v] \/ x = v \/ Holds(n, x)
  BY TopPending
<1>2. /\ HeadDfn(v) \in Nat /\ HeadDfn(v) <= dfn[v]
      /\ \A s \in Labels : Edge(v, s) => HeadDfn(v) <= MinDfn(s)
      /\ HeadDfn(v) = dfn[v] \/ \E s \in Labels : Edge(v, s) /\ HeadDfn(v) = MinDfn(s)
      /\ IsLoop(v) <=> \E s \in Labels : Edge(v, s) /\ MinDfn(s) <= dfn[v]
  BY <1>1, HeadDfnIsLeast
<1>3. ASSUME HeadDfn(v) # dfn[v]
      PROVE  /\ HeadDfn(v) < dfn[v] /\ HeadDfn(v) # 0
             /\ \E x \in Labels : Open(x) /\ dfn[x] = HeadDfn(v)
             /\ \E s \in Labels : Edge(v, s) /\ Open(s) /\ HeadDfn(v) = MinDfn(s)
  <2>1. HeadDfn(v) < dfn[v]
    BY <1>1, <1>2, <1>3
  <2>2. PICK s \in Labels : Edge(v, s) /\ HeadDfn(v) = MinDfn(s)
    BY <1>2, <1>3
  <2>3. Open(s)
    <3>1. MinDfn(s) <= dfn[v] /\ ~ White(s)
      BY <1>1, <1>2, <2>1, <2>2
    <3> QED BY <1>1, <3>1, MinDfnOpen
  <2>4. PICK x \in Labels : Open(x) /\ dfn[x] = MinDfn(s)
    BY <2>3, OpenMinDfn
  <2> QED BY <2>1, <2>2, <2>3, <2>4 DEF Open
<1>4. ASSUME NEW w \in Labels, Holds(n, w)
      PROVE  HeadDfn(v) <= head_dfn[w]
  <2>1. PICK s \in Labels : Edge(v, s) /\ Open(s) /\ MinDfn(s) <= head_dfn[w]
    BY <1>1, <1>4 DEF WaitingInv
  <2>2. HeadDfn(v) <= MinDfn(s) /\ MinDfn(s) \in Nat /\ head_dfn[w] \in Nat
    BY <1>2, <2>1, MinDfnType DEF TypeOK
  <2> QED BY <1>2, <2>1, <2>2
<1>5. ASSUME HeadDfn(v) = dfn[v], ~ IsLoop(v), NEW w0 \in Labels, Holds(n, w0)
      PROVE  FALSE
  <2> DEFINE D == {dfn[w] : w \in {y \in Labels : Holds(n, y)}}
  <2>1. D \in SUBSET Nat /\ D # {}
    BY <1>5, ZenonT(60) DEF TypeOK
  <2>2. PICK d \in D : \A e \in D : d <= e
    BY <2>1, LeastNat
  <2>3. PICK w \in Labels : Holds(n, w) /\ d = dfn[w]
    BY <2>2
  <2>4. \A y \in Labels : Holds(n, y) => dfn[w] <= dfn[y]
    BY <2>2, <2>3
  <2> HIDE DEF D
  <2>5. Waiting(w) /\ dfn[w] \in Nat /\ head_dfn[w] \in Nat
    BY <2>3 DEF Holds, TypeOK
  <2>6. PICK x \in Labels : Open(x) /\ dfn[x] = head_dfn[w] /\ head_dfn[w] < dfn[w]
    BY <2>5 DEF WaitingInv
  <2>7. head_dfn[w] <= dfn[v]
    BY <1>1, <2>4, <2>5, <2>6
  <2>8. PICK s \in Labels : Edge(v, s) /\ Open(s) /\ MinDfn(s) <= head_dfn[w]
    BY <1>1, <2>3 DEF WaitingInv
  <2>9. MinDfn(s) <= dfn[v]
    BY <1>1, <2>5, <2>7, <2>8, MinDfnType, SMTT(60)
  <2> QED BY <1>2, <1>5, <2>8, <2>9
<1> QED BY <1>1, <1>2, <1>3, <1>4, <1>5

\* The vertex of a StartVisit task is where start_visit looks for it.
LEMMA VertexFound == BuilderState => PopFindsVertex
<1> SUFFICES ASSUME BuilderState, Popped("StartVisit") PROVE
        LET v == Top(visit_stack).vertex
        IN  /\ \E i \in DOMAIN stack : stack[i] = v
            /\ HeadDfn(v) = dfn[v] /\ ~ IsLoop(v) => Top(stack) = v
            /\ \A i \in DOMAIN children[v] : dfn[children[v][i]] # 0
  BY DEF PopFindsVertex
<1> DEFINE n == Len(visit_stack)
           v == Vertex(n)
<1>1. Top(visit_stack).vertex = v
  BY PoppedTask DEF BuilderState, BuilderInv, Vertex
<1>2. /\ v \in Labels /\ Open(v) /\ dfn[v] \in Nat
      /\ \A s \in Labels : Edge(v, s) => ~ White(s)
      /\ \A w \in Labels : Holds(n, w) <=> Open(w) /\ dfn[w] > dfn[v]
  BY TopPending
<1>3. HeadDfn(v) = dfn[v] /\ ~ IsLoop(v) => \A w \in Labels : ~ Holds(n, w)
  BY TopHead
<1> HIDE DEF v, n
<1>4. PICK k \in DOMAIN stack : stack[k] = v
  BY <1>2 DEF BuilderState, BuilderInv, StackInv
<1>5. ASSUME HeadDfn(v) = dfn[v], ~ IsLoop(v)
      PROVE  Top(stack) = v
  <2>1. stack \in Seq(Labels) /\ DOMAIN stack = 1 .. Len(stack) /\ Len(stack) \in Nat
    BY DEF BuilderState, BuilderInv, TypeOK
  <2>2. Len(stack) \in DOMAIN stack /\ stack[Len(stack)] \in Labels
    BY <1>4, <2>1
  <2>3. Open(stack[Len(stack)])
    BY <2>2 DEF BuilderState, BuilderInv, StackInv
  <2>4. k < Len(stack) => dfn[v] < dfn[stack[Len(stack)]]
    BY <1>4, <2>2 DEF BuilderState, BuilderInv, StackInv
  <2>5. dfn[stack[Len(stack)]] \in Nat
    BY <2>2 DEF BuilderState, BuilderInv, TypeOK
  <2>6. ~ (k < Len(stack))
    BY <1>2, <1>3, <1>5, <2>2, <2>3, <2>4, <2>5
  <2> QED BY <1>4, <2>1, <2>6 DEF Top
<1>6. ASSUME NEW i \in DOMAIN children[v]
      PROVE  dfn[children[v][i]] # 0
  <2>1. children[v] \in Seq(Labels)
    BY <1>2 DEF BuilderState, BuilderInv, TypeOK
  <2>2. i \in 1 .. Len(children[v]) /\ children[v][i] \in Labels
    BY <2>1
  <2> QED BY <1>2, <2>2 DEF Edge, White
<1> QED BY <1>1, <1>4, <1>5, <1>6

-----------------------------------------------------------------------------
(***************************************************************************)
(* The steps.  First the two that take a task away and leave the vertices  *)
(* alone: a PushSuccessors task for a visited vertex and ContinueVisit.    *)
(***************************************************************************)
Steady == UNCHANGED <<children, dfn, head_dfn, num, stack>>

LEMMA SteadyFacts ==
    ASSUME Steady
    PROVE  /\ \A x : (White(x)' <=> White(x)) /\ (Open(x)' <=> Open(x)) /\ MinDfn(x)' = MinDfn(x)
           /\ \A x, y : Edge(x, y)' <=> Edge(x, y)
BY DEF Steady, White, Open, MinDfn, Edge

LEMMA TaskTaken ==
    ASSUME BuilderState, TypeOK', Steady, NEW type, Popped(type), type # "StartVisit",
           visit_stack' = Pop(visit_stack), parent' = parent,
           type = "PushSuccessors" => ~ White(Vertex(Len(visit_stack)))
    PROVE  StackInv' /\ TaskInv' /\ WaitingInv' /\ WhiteInv' /\ CycleInv'
<1> USE DEF BuilderState, BuilderInv
<1> DEFINE n == Len(visit_stack)
<1>1. n \in Nat \ {0} /\ Tasks = 1 .. n /\ Type(n) = type /\ n \in Tasks /\ Vertex(n) \in Labels
  BY PoppedTask
<1>2. Tasks' = 1 .. n - 1 /\ \A i \in Tasks' : i \in Tasks /\ i < n /\ visit_stack'[i] = visit_stack[i]
  <2>1. /\ Pop(visit_stack) \in Seq(Task) /\ Len(Pop(visit_stack)) = n - 1
        /\ \A i \in 1 .. n - 1 : Pop(visit_stack)[i] = visit_stack[i]
    BY PoppedTask
  <2>2. Tasks' = 1 .. n - 1
    BY <2>1 DEF Tasks
  <2> QED BY <1>1, <2>1, <2>2, SMTT(60)
<1> HIDE DEF n
<1>3. \A i \in Tasks' : /\ Type(i)' = Type(i) /\ Vertex(i)' = Vertex(i) /\ Level(i)' = Level(i)
                        /\ Begun(i)' <=> Begun(i)
  BY <1>2 DEF Type, Vertex, Level, Begun, Steady
<1>4. /\ \A x : (White(x)' <=> White(x)) /\ (Open(x)' <=> Open(x)) /\ MinDfn(x)' = MinDfn(x)
      /\ \A x, y : Edge(x, y)' <=> Edge(x, y)
  BY SteadyFacts
<1>5. UNCHANGED <<dfn, head_dfn, num, stack>>
  BY DEF Steady
<1>6. \A x : Pending(x)' <=> Pending(x)
  BY <1>1, <1>2, <1>3 DEF Pending
<1>7. \A x : Waiting(x)' <=> Waiting(x)
  BY <1>4, <1>6 DEF Waiting
<1>8. ASSUME NEW i \in Tasks', NEW w \in Labels
      PROVE  Holds(i, w)' <=> Holds(i, w)
  <2>1. Holds(i, w) => Holds(i, w)'
    BY <1>2, <1>3, <1>5, <1>7 DEF Holds
  <2>2. ASSUME Holds(i, w)'
        PROVE  Holds(i, w)
    <3>1. Type(i) = "StartVisit" /\ Waiting(w) /\ Level(i) < dfn[w]
      BY <1>3, <1>5, <1>7, <2>2 DEF Holds
    <3>2. PICK k \in Tasks : Holds(k, w)
      BY <3>1 DEF WaitingInv
    <3>3. k # n /\ k < n
      BY <1>1, <3>2 DEF Holds
    <3>4. Begun(n) => dfn[w] < Level(n)
      BY <1>1, <3>2, <3>3 DEF Holds
    <3>5. ASSUME NEW j \in Tasks, j > i, Begun(j)
          PROVE  dfn[w] < Level(j)
      <4>1. CASE j = n
        BY <3>4, <3>5, <4>1
      <4>2. CASE j # n
        <5>1. j \in Tasks'
          BY <1>1, <1>2, <4>2
        <5> QED BY <1>3, <1>5, <2>2, <3>5, <5>1 DEF Holds
      <4> QED BY <4>1, <4>2
    <3> QED BY <3>1, <3>5 DEF Holds
  <2> QED BY <2>1, <2>2
<1>9. ASSUME NEW i \in Tasks', NEW X \in SUBSET Labels, Covers(X, i)'
      PROVE  Covers(X, i)
  <2>1. ASSUME NEW s \in Labels, Begun(n), White(s), Edge(Vertex(n), s)
        PROVE  FALSE
    <3>1. Covers({}, n)
      BY <1>1 DEF Covers
    <3>2. {} \in SUBSET Labels
      OBVIOUS
    <3> QED BY <1>1, <2>1, <3>1, <3>2 DEF WhiteInv
  <2>2. ~ Begun(n) => ~ White(Vertex(n))
    BY <1>1 DEF Begun, n
  <2>3. ASSUME NEW j \in Tasks, j > i
        PROVE  /\ ~ Begun(j) /\ White(Vertex(j)) => Vertex(j) \in X
               /\ Begun(j) => \A s \in Labels : White(s) /\ Edge(Vertex(j), s) => s \in X
    <3>1. CASE j = n
      BY <2>1, <2>2, <3>1
    <3>2. CASE j # n
      <4>1. j \in Tasks'
        BY <1>1, <1>2, <3>2
      <4> QED BY <1>3, <1>4, <1>9, <2>3, <4>1 DEF Covers
    <3> QED BY <3>1, <3>2
  <2>4. \A x \in X, s \in Labels : White(x) /\ White(s) /\ Edge(x, s) => s \in X
    BY <1>4, <1>9 DEF Covers
  <2> QED BY <2>3, <2>4 DEF Covers
<1>10. StackInv'
  BY <1>4, <1>5 DEF StackInv
<1>11. TaskInv'
  <2>1. ASSUME NEW i \in Tasks'
        PROVE  TaskOK(visit_stack[i])'
    <3>1. TaskOK(visit_stack[i])
      BY <1>2 DEF TaskInv
    <3> QED BY <1>2, <1>5, <3>1 DEF TaskOK, Open
  <2>2. \A i, j \in Tasks' : i < j /\ Begun(i)' /\ Begun(j)' => Level(i)' < Level(j)'
    BY <1>2, <1>3 DEF TaskInv
  <2>3. ASSUME NEW i \in Tasks', NEW j \in Tasks', i < j, Begun(i)',
               \A k \in Tasks' : i < k /\ k < j => ~ Begun(k)'
        PROVE  Edge(Vertex(i), Vertex(j))'
    <3>1. \A k \in Tasks : i < k /\ k < j => ~ Begun(k)
      <4> SUFFICES ASSUME NEW k \in Tasks, i < k, k < j PROVE ~ Begun(k)
        OBVIOUS
      <4>1. k \in Tasks'
        BY <1>1, <1>2
      <4> QED BY <1>3, <2>3, <4>1
    <3>2. Edge(Vertex(i), Vertex(j))
      BY <1>2, <1>3, <2>3, <3>1 DEF TaskInv
    <3> QED BY <1>2, <3>2, SMTT(60) DEF Edge, Vertex, Steady
  <2> QED BY <2>1, <2>2, <2>3 DEF TaskInv
<1>12. WaitingInv'
  <2>1. ASSUME NEW w \in Labels, Waiting(w)'
        PROVE  /\ head_dfn'[w] # 0 /\ head_dfn'[w] < dfn'[w]
               /\ \E x \in Labels : Open(x)' /\ dfn'[x] = head_dfn'[w]
               /\ \E i \in Tasks' : Holds(i, w)'
               /\ \A c \in Labels : Edge(w, c)' /\ Open(c)' => head_dfn'[w] <= dfn'[c]
    <3>1. Waiting(w)
      BY <1>7, <2>1
    <3>2. PICK i \in Tasks : Holds(i, w)
      BY <3>1 DEF WaitingInv
    <3>3. i \in Tasks'
      BY <1>1, <1>2, <3>2 DEF Holds
    <3>4. \E k \in Tasks' : Holds(k, w)'
      BY <1>8, <3>2, <3>3
    <3> QED BY <1>4, <1>5, <3>1, <3>4 DEF WaitingInv
  <2>2. ASSUME NEW i \in Tasks', NEW w \in Labels, Holds(i, w)'
        PROVE  \E s \in Labels : Edge(Vertex(i), s)' /\ Open(s)' /\ MinDfn(s)' <= head_dfn'[w]
    <3>1. PICK s \in Labels : Edge(Vertex(i), s) /\ Open(s) /\ MinDfn(s) <= head_dfn[w]
      BY <1>2, <1>8, <2>2 DEF WaitingInv
    <3>2. Edge(Vertex(i), s)'
      BY <1>2, <3>1 DEF Edge, Vertex, Steady
    <3> QED BY <1>4, <1>5, <3>1, <3>2
  <2>3. ASSUME NEW i \in Tasks', NEW X \in SUBSET Labels, HoldsWithin(i, X)', NEW w \in Labels, Holds(i, w)'
        PROVE  w \in X
    <3>1. \A s : Edge(Vertex(i), s) => Edge(Vertex(i), s)'
      BY <1>2, SMTT(60) DEF Edge, Vertex, Steady
    <3>2. HoldsWithin(i, X)
      BY <1>4, <1>8, <2>3, <3>1 DEF HoldsWithin
    <3> QED BY <1>2, <1>8, <2>3, <3>2 DEF WaitingInv
  <2> QED BY <2>1, <2>2, <2>3 DEF WaitingInv
<1>13. WhiteInv'
  <2> SUFFICES ASSUME NEW i \in Tasks', NEW X \in SUBSET Labels, Begun(i)', Covers(X, i)',
                      NEW y \in Labels, NEW s \in Labels, (y = Vertex(i) \/ Holds(i, y))',
                      Edge(y, s)', White(s)'
               PROVE  s \in X
    BY DEF WhiteInv
  <2>1. y = Vertex(i) \/ Holds(i, y)
    BY <1>3, <1>8
  <2> QED BY <1>2, <1>3, <1>4, <1>9, <2>1 DEF WhiteInv
<1>14. CycleInv'
  <2> SUFFICES ASSUME NEW i \in Tasks', Type(i)' = "ContinueVisit"
               PROVE  \E M \in SUBSET Labels : Members(i, M)'
    BY DEF CycleInv
  <2>1. PICK M \in SUBSET Labels : Members(i, M)
    BY <1>2, <1>3 DEF CycleInv
  <2>2. Members(i, M)'
    BY <1>2, <1>3, <1>4, <1>5, <1>7, <2>1, SMTT(60) DEF Members
  <2> QED BY <2>2
<1> QED BY <1>10, <1>11, <1>12, <1>13, <1>14

(***************************************************************************)
(* The two steps that put a task in the place of the one on top, and tasks *)
(* for the successors without a number on top of it.                       *)
(***************************************************************************)
LEMMA TaskReplaced ==
    ASSUME TypeOK, visit_stack # <<>>, NEW n, n = Len(visit_stack), NEW v, v = Vertex(n),
           NEW number \in [Labels -> Nat], NEW C, 0 .. NumCycles \subseteq C,
           NEW t \in TaskOf(C), NEW c \in C,
           NEW q, q = EnqueueUnvisitedSuccs(number, Append(Pop(visit_stack), t), v, c, c)
    PROVE  /\ q \in Seq(TaskOf(C))
           /\ Len(q) \in Nat /\ Len(q) >= n /\ DOMAIN q = 1 .. Len(q)
           /\ \A i \in 1 .. n - 1 : q[i] = visit_stack[i]
           /\ q[n] = t
           /\ IsEnqueued(q, n, number, v, c)
<1> DEFINE T == TaskOf(C)
           low == Pop(visit_stack)
           base == Append(low, t)
<1>1. /\ n \in Nat \ {0} /\ n \in Tasks /\ v \in Labels
      /\ low \in Seq(Task) /\ Len(low) = n - 1
      /\ \A i \in 1 .. n - 1 : low[i] = visit_stack[i]
  <2>1. Popped(Top(visit_stack).type)
    BY DEF Popped
  <2> QED BY <2>1, PoppedTask
<1>2. Task \subseteq T
  BY DEF Task, TaskOf
<1>3. low \in Seq(T)
  <2>1. low \in [1 .. n - 1 -> Task]
    BY <1>1
  <2>2. low \in [1 .. n - 1 -> T]
    BY <1>2, <2>1
  <2> HIDE DEF low, T
  <2> QED BY <1>1, <2>2, SMTT(60)
<1> HIDE DEF T, low
<1>4. t \in T
  BY DEF T
<1>5. base \in Seq(T) /\ Len(base) = n /\ base[n] = t /\ \A i \in 1 .. n - 1 : base[i] = low[i]
  BY <1>1, <1>3, <1>4
<1>6. q = EnqueueUnvisitedSuccs(number, base, v, c, c)
  BY DEF low
<1> HIDE DEF base
<1>7. base \in Seq(TaskOf(C))
  BY <1>5 DEF T
<1>8. /\ q \in Seq(TaskOf(C))
      /\ Len(q) \in Nat /\ DOMAIN q = 1 .. Len(q) /\ Len(q) >= Len(base)
      /\ \A i \in 1 .. Len(base) : q[i] = base[i]
      /\ IsEnqueued(q, Len(base), number, v, c)
  BY <1>1, <1>6, <1>7, Enqueued, SMTT(60)
<1>9. Len(base) = n /\ n \in Nat /\ base[n] = t /\ \A i \in 1 .. n - 1 : base[i] = visit_stack[i]
  BY <1>1, <1>5
<1>10. n \in 1 .. n /\ \A i \in 1 .. n - 1 : i \in 1 .. n
  BY <1>1
<1> QED
  BY ONLY <1>8, <1>9, <1>10

\* What such a step makes of the tasks.
TopReplacedBy(n, v, t, c) ==
    /\ Len(visit_stack') \in Nat /\ Len(visit_stack') >= n
    /\ Tasks' = 1 .. Len(visit_stack') /\ n \in Tasks'
    /\ \A i \in 1 .. n - 1 : /\ i \in Tasks /\ i \in Tasks' /\ i < n
                             /\ visit_stack'[i] = visit_stack[i]
                             /\ Type(i)' = Type(i) /\ Vertex(i)' = Vertex(i) /\ Vertex(i) \in Labels
                             /\ Begun(i)' <=> Begun(i)
    /\ visit_stack'[n] = t /\ Type(n)' = t.type /\ Vertex(n)' = v /\ Begun(n)'
    /\ \A i \in Tasks' : i > n =>
          /\ Type(i)' = "PushSuccessors" /\ ~ Begun(i)'
          /\ visit_stack'[i].target_cycle = c /\ visit_stack'[i].containing_cycle = c
          /\ Vertex(i)' \in Labels /\ White(Vertex(i))' /\ Edge(v, Vertex(i)')
    /\ \A s \in Labels : Edge(v, s) /\ White(s)' => \E i \in Tasks' : i > n /\ Vertex(i)' = s

LEMMA TopReplaced ==
    ASSUME TypeOK, visit_stack # <<>>, NEW n, n = Len(visit_stack), NEW v, v = Vertex(n),
           NEW number \in [Labels -> Nat], number = dfn', NEW C, 0 .. NumCycles \subseteq C,
           NEW t \in TaskOf(C), t.vertex = v, t.type # "PushSuccessors", NEW c \in C,
           visit_stack' = EnqueueUnvisitedSuccs(number, Append(Pop(visit_stack), t), v, c, c)
    PROVE  TopReplacedBy(n, v, t, c) /\ visit_stack' \in Seq(TaskOf(C))
<1> DEFINE q == visit_stack'
<1>1. n \in Nat \ {0} /\ Tasks = 1 .. n
  <2>1. Popped(Top(visit_stack).type)
    BY DEF Popped
  <2> QED BY <2>1, PoppedTask
<1>2. q = EnqueueUnvisitedSuccs(number, Append(Pop(visit_stack), t), v, c, c)
  OBVIOUS
<1> HIDE DEF q
<1>3. /\ q \in Seq(TaskOf(C))
      /\ Len(q) \in Nat /\ Len(q) >= n /\ DOMAIN q = 1 .. Len(q)
      /\ \A i \in 1 .. n - 1 : q[i] = visit_stack[i]
      /\ q[n] = t
      /\ IsEnqueued(q, n, number, v, c)
  BY <1>2, TaskReplaced, SMTT(60)
<1>4. Tasks' = 1 .. Len(q) /\ n \in Tasks'
  BY <1>1, <1>3 DEF Tasks, q
<1>5. ASSUME NEW i \in 1 .. n - 1
      PROVE  /\ i \in Tasks /\ i \in Tasks' /\ i < n /\ q[i] = visit_stack[i]
             /\ Type(i)' = Type(i) /\ Vertex(i)' = Vertex(i) /\ Vertex(i) \in Labels
             /\ Begun(i)' <=> Begun(i)
  <2>1. i \in Tasks /\ i \in Tasks' /\ i < n
    BY <1>1, <1>3, <1>4
  <2>2. q[i] = visit_stack[i] /\ visit_stack[i].vertex \in Labels
    <3>1. visit_stack \in Seq(Task) /\ i \in DOMAIN visit_stack
      BY <2>1 DEF TypeOK, Task, TaskOf, Tasks
    <3>2. visit_stack[i] \in Task
      BY <3>1
    <3> QED BY <1>3, <3>2 DEF Task, TaskOf
  <2> QED BY <2>1, <2>2 DEF Type, Vertex, Begun, q
<1>6. q[n] = t /\ Type(n)' = t.type /\ Vertex(n)' = v /\ Begun(n)'
  BY <1>3 DEF Type, Vertex, Begun, q
<1>7. ASSUME NEW i \in Tasks', i > n
      PROVE  /\ Type(i)' = "PushSuccessors" /\ ~ Begun(i)'
             /\ q[i].target_cycle = c /\ q[i].containing_cycle = c
             /\ Vertex(i)' \in Labels /\ White(Vertex(i))' /\ Edge(v, Vertex(i)')
  <2>1. i \in DOMAIN q
    BY <1>3, <1>4
  <2>2. /\ q[i] = VisitTask("PushSuccessors", q[i].vertex, c, c)
        /\ q[i].vertex \in Labels /\ dfn'[q[i].vertex] = 0 /\ Edge(v, q[i].vertex)
    BY <1>3, <1>7, <2>1 DEF IsEnqueued
  <2>3. q[i].type = "PushSuccessors" /\ q[i].target_cycle = c /\ q[i].containing_cycle = c
    BY <2>2 DEF VisitTask
  <2> QED BY <2>2, <2>3 DEF Type, Vertex, Begun, q, White
<1>8. ASSUME NEW s \in Labels, Edge(v, s), White(s)'
      PROVE  \E i \in Tasks' : i > n /\ Vertex(i)' = s
  <2>1. number[s] = 0
    BY <1>8 DEF White
  <2>2. PICK i \in DOMAIN q : i > n /\ q[i].vertex = s
    BY <1>3, <1>8, <2>1, SMTT(60) DEF IsEnqueued
  <2>3. i \in Tasks' /\ Vertex(i)' = s
    BY <1>3, <1>4, <2>2 DEF Vertex, q
  <2> QED BY <2>2, <2>3
<1>9. TopReplacedBy(n, v, t, c)
  BY <1>3, <1>4, <1>5, <1>6, <1>7, <1>8, SMTT(60) DEF TopReplacedBy, q
<1> QED BY <1>3, <1>9 DEF q

LEMMA VertexNumbered ==
    ASSUME BuilderState, TypeOK', num' < DFN_INF, Popped("PushSuccessors"),
           NEW n, n = Len(visit_stack), NEW v, v = Vertex(n), White(v),
           num' = num + 1, dfn' = [dfn EXCEPT ![v] = num + 1], stack' = Append(stack, v),
           visit_stack' = EnqueueUnvisitedSuccs(dfn',
               Append(Pop(visit_stack), VisitTask("StartVisit", v, visit_stack[n].target_cycle,
                                                  visit_stack[n].containing_cycle)),
               v, visit_stack[n].target_cycle, visit_stack[n].containing_cycle),
           UNCHANGED <<children, head_dfn, parent>>
    PROVE  StackInv' /\ TaskInv' /\ WaitingInv' /\ WhiteInv' /\ CycleInv'
<1> USE DEF BuilderState, BuilderInv
<1> DEFINE cc == visit_stack[n].containing_cycle
           q == visit_stack'
<1>1. /\ n \in Tasks /\ visit_stack[n] \in Task /\ Type(n) = "PushSuccessors"
      /\ visit_stack[n].target_cycle = cc /\ cc \in 0 .. NumCycles /\ v \in Labels
  <2>1. /\ n \in Tasks /\ visit_stack[n] \in Task /\ Type(n) = "PushSuccessors" /\ v \in Labels
    BY PoppedTask, SMTT(60)
  <2> QED BY <2>1, SMTT(60) DEF TaskInv, TaskOK, Type, Task, TaskOf
<1>2. /\ n \in Nat \ {0} /\ Tasks = 1 .. n
      /\ Len(q) \in Nat /\ Len(q) >= n
      /\ TopReplacedBy(n, v, VisitTask("StartVisit", v, cc, cc), cc)
  <2> DEFINE t == VisitTask("StartVisit", v, cc, cc)
             C == 0 .. NumCycles
             number == dfn'
  <2>1. number \in [Labels -> Nat] /\ t \in TaskOf(C) /\ cc \in C /\ 0 .. NumCycles \subseteq C /\ TypeOK
        /\ visit_stack # <<>> /\ t.vertex = v /\ t.type # "PushSuccessors" /\ number = dfn'
    BY <1>1 DEF TypeOK, TaskType, TaskOf, VisitTask, Popped
  <2>2. visit_stack' = EnqueueUnvisitedSuccs(number, Append(Pop(visit_stack), t), v, cc, cc)
    BY <1>1
  <2> HIDE DEF q, cc, t, C, number, BuilderState
  <2>3. TopReplacedBy(n, v, t, cc)
    BY <2>1, <2>2, TopReplaced
  <2>4. n \in Nat \ {0} /\ Tasks = 1 .. n
    BY <2>1, PoppedTask
  <2> QED BY <2>3, <2>4, ZenonT(60) DEF t, q, TopReplacedBy
<1>3. /\ Tasks' = 1 .. Len(q) /\ n \in Tasks'
      /\ \A i \in 1 .. n - 1 : /\ i \in Tasks /\ i \in Tasks' /\ i < n /\ q[i] = visit_stack[i]
                               /\ Type(i)' = Type(i) /\ Vertex(i)' = Vertex(i) /\ Vertex(i) \in Labels
                               /\ Begun(i)' <=> Begun(i)
      /\ Type(n)' = "StartVisit" /\ Vertex(n)' = v /\ Begun(n)' /\ q[n] = VisitTask("StartVisit", v, cc, cc)
      /\ \A i \in Tasks' : i > n => /\ Type(i)' = "PushSuccessors" /\ ~ Begun(i)'
                                    /\ q[i].target_cycle = cc /\ q[i].containing_cycle = cc
                                    /\ Vertex(i)' \in Labels /\ White(Vertex(i))' /\ Edge(v, Vertex(i)')
      /\ \A s \in Labels : Edge(v, s) /\ White(s)' => \E i \in Tasks' : i > n /\ Vertex(i)' = s
  BY <1>2, ZenonT(60) DEF TopReplacedBy, q, VisitTask
<1> HIDE DEF q, cc
<1>4. /\ dfn'[v] = num + 1 /\ \A x \in Labels : x # v => dfn'[x] = dfn[x]
      /\ head_dfn' = head_dfn /\ num \in Nat /\ dfn[v] = 0 /\ head_dfn[v] = 0
      /\ \A x \in Labels : dfn[x] \in Nat /\ head_dfn[x] \in Nat
      /\ \A x, y : Edge(x, y)' <=> Edge(x, y)
  BY <1>1, SMTT(60) DEF TypeOK, White, StackInv, Edge
<1>5. \A x \in Labels : (White(x)' <=> White(x) /\ x # v) /\ (Open(x)' <=> Open(x) \/ x = v)
  BY <1>1, <1>4, SMTT(60) DEF White, Open, DFN_INF
<1>6. ~ Open(v) /\ ~ Waiting(v) /\ ~ Pending(v)
  <2>1. ~ Open(v)
    BY <1>4 DEF Open
  <2> QED BY <2>1 DEF Waiting, Pending, TaskInv, TaskOK, Type, Vertex, Tasks
<1>7. \A x \in Labels : Pending(x)' <=> Pending(x) \/ x = v
  <2>1. \A x \in Labels : Pending(x) => Pending(x)'
    <3> SUFFICES ASSUME NEW x \in Labels, NEW i \in Tasks, Type(i) = "StartVisit", Vertex(i) = x PROVE Pending(x)'
      BY DEF Pending
    <3>1. i \in 1 .. n - 1
      BY <1>1, <1>2
    <3> QED BY <1>3, <3>1 DEF Pending
  <2>2. Pending(v)'
    BY <1>3 DEF Pending
  <2>3. ASSUME NEW x \in Labels, NEW i \in Tasks', Type(i)' = "StartVisit", Vertex(i)' = x, x # v
        PROVE  Pending(x)
    <3>1. i \in 1 .. n - 1
      <4>1. i # n /\ ~ (i > n)
        BY <1>3, <2>3
      <4> QED BY <1>2, <1>3, <4>1
    <3> QED BY <1>3, <2>3, <3>1 DEF Pending
  <2> QED BY <2>1, <2>2, <2>3 DEF Pending
<1>8. \A x \in Labels : Waiting(x)' <=> Waiting(x)
  BY <1>5, <1>6, <1>7 DEF Waiting
<1>9. \A x \in Labels : x # v => MinDfn(x)' = MinDfn(x)
  BY <1>4 DEF MinDfn
<1>10. /\ \A i \in 1 .. n - 1 : Begun(i) => Level(i)' = Level(i) /\ Level(i) <= num /\ Level(i) \in Nat
       /\ Level(n)' = num + 1
  <2>1. ASSUME NEW i \in 1 .. n - 1, Begun(i)
        PROVE  Level(i)' = Level(i) /\ Level(i) <= num /\ Level(i) \in Nat
    <3>1. TaskOK(visit_stack[i]) /\ Vertex(i) \in Labels /\ Vertex(i)' = Vertex(i) /\ Type(i)' = Type(i)
      BY <1>3 DEF TaskInv
    <3>2. CASE Type(i) = "StartVisit"
      <4>1. Open(Vertex(i)) /\ Vertex(i) # v
        BY <1>6, <3>1, <3>2 DEF TaskOK, Type, Vertex
      <4> QED BY <1>4, <3>1, <3>2, <4>1, SMTT(60) DEF Level, StackInv
    <3>3. CASE Type(i) # "StartVisit"
      <4>1. Type(i) = "ContinueVisit"
        <5>1. visit_stack \in Seq(Task) /\ i \in DOMAIN visit_stack
          BY <1>3 DEF TypeOK, Task, TaskOf, Tasks
        <5>2. visit_stack[i] \in Task
          BY <5>1, SMTT(60)
        <5> QED BY <2>1, <3>3, <5>2, SMTT(60) DEF Begun, Type, Task, TaskOf, TaskType
      <4>2. head_dfn[Vertex(i)] \in 1 .. num
        BY <3>1, <4>1 DEF TaskOK, Type, Vertex
      <4> QED BY <1>4, <3>1, <3>3, <4>2 DEF Level
    <3> QED BY <3>2, <3>3
  <2> QED BY <1>3, <1>4, <2>1 DEF Level
<1>11. ASSUME NEW w \in Labels, Waiting(w)
       PROVE  w # v /\ dfn'[w] = dfn[w] /\ dfn[w] <= num
  BY <1>4, <1>6, <1>11 DEF Waiting, StackInv
<1>12. ASSUME NEW i \in Tasks', NEW w \in Labels
       PROVE  Holds(i, w)' <=> (i \in 1 .. n - 1 /\ Holds(i, w))
  <2>1. ASSUME Holds(i, w)'
        PROVE  i \in 1 .. n - 1 /\ Holds(i, w)
    <3>1. Type(i)' = "StartVisit" /\ Waiting(w) /\ Level(i)' < dfn[w] /\ dfn[w] <= num
      BY <1>8, <1>11, <2>1 DEF Holds
    <3>2. i # n
      BY <1>4, <1>10, <3>1
    <3>3. i \in 1 .. n - 1
      <4>1. ~ (i > n)
        BY <1>3, <3>1
      <4> QED BY <1>2, <1>3, <3>2, <4>1
    <3>4. Type(i) = "StartVisit" /\ Begun(i) /\ Level(i) < dfn[w]
      BY <1>3, <1>10, <3>1, <3>3, SMTT(60) DEF Begun
    <3>5. ASSUME NEW j \in Tasks, j > i, Begun(j)
          PROVE  dfn[w] < Level(j)
      <4>1. j \in 1 .. n - 1
        BY <1>1, <1>2, <3>5, SMTT(60) DEF Begun
      <4> QED BY <1>3, <1>10, <1>11, <2>1, <3>1, <3>5, <4>1, SMTT(60) DEF Holds
    <3> QED BY <3>1, <3>3, <3>4, <3>5 DEF Holds
  <2>2. ASSUME i \in 1 .. n - 1, Holds(i, w)
        PROVE  Holds(i, w)'
    <3>1. Type(i) = "StartVisit" /\ Waiting(w) /\ Level(i) < dfn[w] /\ Begun(i)
      BY <2>2 DEF Holds, Begun
    <3>2. Type(i)' = "StartVisit" /\ Waiting(w)' /\ Level(i)' < dfn'[w]
      BY <1>3, <1>8, <1>10, <1>11, <2>2, <3>1, ZenonT(60)
    <3>3. ASSUME NEW j \in Tasks', j > i, Begun(j)'
          PROVE  dfn'[w] < Level(j)'
      <4>1. CASE j \in 1 .. n - 1
        BY <1>3, <1>10, <1>11, <2>2, <3>1, <3>3, <4>1, SMTT(60) DEF Holds
      <4>2. CASE j = n
        BY <1>4, <1>10, <1>11, <3>1, <4>2, SMTT(60)
      <4>3. CASE j > n
        BY <1>3, <3>3, <4>3, SMTT(60)
      <4> QED BY <1>2, <1>3, <4>1, <4>2, <4>3, SMTT(60)
    <3> QED BY <3>2, <3>3 DEF Holds
  <2> QED BY <2>1, <2>2
<1>13. StackInv'
  <2>1. stack \in Seq(Labels) /\ DOMAIN stack = 1 .. Len(stack) /\ Len(stack) \in Nat
    BY DEF TypeOK
  <2>2. /\ DOMAIN stack' = 1 .. Len(stack) + 1 /\ stack'[Len(stack) + 1] = v
        /\ \A k \in DOMAIN stack : stack'[k] = stack[k] /\ stack[k] \in Labels /\ Open(stack[k])
    BY <2>1 DEF StackInv
  <2>3. \A x \in Labels : Open(x)' <=> \E k \in DOMAIN stack' : stack'[k] = x
    <3>1. ASSUME NEW x \in Labels, Open(x)'
          PROVE  \E k \in DOMAIN stack' : stack'[k] = x
      <4>1. CASE x = v
        BY <2>1, <2>2, <4>1, SMTT(60)
      <4>2. CASE x # v
        <5>1. PICK k \in DOMAIN stack : stack[k] = x
          BY <1>5, <3>1, <4>2 DEF StackInv
        <5> QED BY <2>1, <2>2, <5>1
      <4> QED BY <4>1, <4>2
    <3>2. ASSUME NEW x \in Labels, NEW k \in DOMAIN stack', stack'[k] = x
          PROVE  Open(x)'
      <4>1. k \in DOMAIN stack \/ k = Len(stack) + 1
        BY <2>1, <2>2
      <4> QED BY <1>5, <2>2, <3>2, <4>1
    <3> QED BY <3>1, <3>2
  <2>4. ASSUME NEW k \in DOMAIN stack', NEW m \in DOMAIN stack', k < m
        PROVE  dfn'[stack'[k]] < dfn'[stack'[m]]
    <3>1. k \in DOMAIN stack /\ stack[k] \in Labels /\ Open(stack[k]) /\ stack[k] # v
      BY <1>6, <2>1, <2>2, <2>4, SMTT(60)
    <3>2. dfn'[stack'[k]] = dfn[stack[k]] /\ dfn[stack[k]] <= num /\ dfn[stack[k]] \in Nat
      BY <1>4, <2>2, <3>1, SMTT(60) DEF StackInv
    <3>3. CASE m = Len(stack) + 1
      BY <1>4, <2>2, <3>2, <3>3, SMTT(60)
    <3>4. CASE m # Len(stack) + 1
      <4>1. m \in DOMAIN stack
        BY <2>1, <2>2, <3>4, SMTT(60)
      <4>2. dfn'[stack'[m]] = dfn[stack[m]]
        BY <1>4, <1>6, <2>2, <4>1, SMTT(60)
      <4> QED BY <2>4, <3>1, <3>2, <4>1, <4>2, SMTT(60) DEF StackInv
    <3> QED BY <3>3, <3>4
  <2>5. \A x \in Labels : Open(x)' => dfn'[x] <= num'
    BY <1>4, <1>5 DEF StackInv
  <2>6. \A x \in Labels : White(x)' => head_dfn'[x] = 0
    BY <1>4, <1>5, SMTT(60) DEF StackInv
  <2> QED BY <2>3, <2>4, <2>5, <2>6, SMTT(60) DEF StackInv
<1>14. TaskInv'
  <2>1. ASSUME NEW i \in Tasks'
        PROVE  TaskOK(visit_stack[i])'
    <3>1. CASE i \in 1 .. n - 1
      <4>1. q[i] = visit_stack[i] /\ TaskOK(visit_stack[i]) /\ visit_stack[i].vertex \in Labels
        BY <1>2, <1>3, <3>1, ZenonT(60) DEF TaskInv, Vertex
      <4> DEFINE t == visit_stack[i]
      <4>2. t.type = "StartVisit" => dfn'[t.vertex] # 0 /\ dfn'[t.vertex] # DFN_INF /\ head_dfn'[t.vertex] = 0
        BY <1>4, <1>6, <4>1, SMTT(60) DEF TaskOK, Open
      <4>3. t.type = "ContinueVisit" => /\ dfn'[t.vertex] = DFN_INF /\ head_dfn'[t.vertex] \in 1 .. num'
                                        /\ t.target_cycle < t.containing_cycle
                                        /\ parent'[t.containing_cycle] = t.target_cycle
        BY <1>4, <4>1, SMTT(60) DEF TaskOK, DFN_INF
      <4>4. t.type # "ContinueVisit" => t.target_cycle = t.containing_cycle
        BY <4>1 DEF TaskOK
      <4> QED BY <4>1, <4>2, <4>3, <4>4, ZenonT(60) DEF TaskOK, q, Open
    <3>2. CASE i = n
      <4>1. /\ q[n].type = "StartVisit" /\ q[n].vertex = v
            /\ q[n].target_cycle = cc /\ q[n].containing_cycle = cc
        BY <1>3 DEF VisitTask
      <4>2. Open(v)' /\ head_dfn'[v] = 0
        BY <1>1, <1>4, <1>5
      <4> QED BY <3>2, <4>1, <4>2, ZenonT(60) DEF TaskOK, q, Open
    <3>3. CASE i > n
      <4>1. Type(i)' = "PushSuccessors" /\ q[i].target_cycle = cc /\ q[i].containing_cycle = cc
        BY <1>3, <3>3
      <4> QED BY <4>1, ZenonT(60) DEF TaskOK, Type, q
    <3> QED BY <1>2, <1>3, <3>1, <3>2, <3>3
  <2>2. ASSUME NEW i \in Tasks', NEW j \in Tasks', i < j, Begun(i)', Begun(j)'
        PROVE  Level(i)' < Level(j)'
    <3>1. ~ (j > n) /\ i \in 1 .. n - 1
      <4>1. ~ (j > n)
        BY <1>3, <2>2
      <4> QED BY <1>2, <1>3, <2>2, <4>1, SMTT(60)
    <3>2. CASE j = n
      BY <1>3, <1>4, <1>10, <2>2, <3>1, <3>2, SMTT(60)
    <3>3. CASE j # n
      <4>1. j \in 1 .. n - 1
        BY <1>2, <1>3, <3>1, <3>3
      <4> QED BY <1>3, <1>10, <2>2, <3>1, <4>1, SMTT(60) DEF TaskInv
    <3> QED BY <3>2, <3>3
  <2>3. ASSUME NEW i \in Tasks', NEW j \in Tasks', i < j, Begun(i)',
               \A k \in Tasks' : i < k /\ k < j => ~ Begun(k)'
        PROVE  Edge(Vertex(i), Vertex(j))'
    <3>1. CASE j > n
      <4>1. ~ (i > n) /\ ~ (i < n)
        BY <1>3, <2>3, <3>1
      <4>2. i = n
        BY <1>2, <1>3, <4>1
      <4>3. Edge(v, Vertex(j)')
        BY <1>3, <3>1
      <4> QED BY <1>3, <4>2, <4>3, SMTT(60) DEF Edge
    <3>2. CASE ~ (j > n)
      <4>1. i \in 1 .. n - 1 /\ i \in Tasks /\ j \in Tasks
        <5>1. i \in Nat /\ j \in Nat /\ 1 <= i /\ i < j /\ j <= n
          BY <1>2, <1>3, <2>3, <3>2
        <5> QED BY <1>2, <5>1
      <4>2. \A k \in Tasks : i < k /\ k < j => ~ Begun(k)
        <5> SUFFICES ASSUME NEW k \in Tasks, i < k, k < j PROVE ~ Begun(k)
          OBVIOUS
        <5>1. k \in 1 .. n - 1
          BY <1>2, <3>2
        <5> QED BY <1>3, <2>3, <5>1
      <4>3. Edge(Vertex(i), Vertex(j))
        BY <1>3, <2>3, <4>1, <4>2 DEF TaskInv
      <4>4. Vertex(i)' = Vertex(i) /\ Vertex(j)' = Vertex(j)
        BY <1>1, <1>2, <1>3, <3>2, <4>1
      <4> QED BY <4>3, <4>4 DEF Edge
    <3> QED BY <3>1, <3>2, SMTT(60)
  <2> QED BY <2>1, <2>2, <2>3 DEF TaskInv
<1>15. WaitingInv'
  <2>1. ASSUME NEW w \in Labels, Waiting(w)'
        PROVE  /\ head_dfn'[w] # 0 /\ head_dfn'[w] < dfn'[w]
               /\ \E x \in Labels : Open(x)' /\ dfn'[x] = head_dfn'[w]
               /\ \E i \in Tasks' : Holds(i, w)'
               /\ \A c \in Labels : Edge(w, c)' /\ Open(c)' => head_dfn'[w] <= dfn'[c]
    <3>1. /\ Waiting(w) /\ w # v /\ dfn'[w] = dfn[w] /\ dfn[w] <= num
      BY <1>8, <1>11, <2>1
    <3>2. head_dfn[w] # 0 /\ head_dfn[w] < dfn[w]
      BY <3>1 DEF WaitingInv
    <3>3. PICK x \in Labels : Open(x) /\ dfn[x] = head_dfn[w]
      BY <3>1 DEF WaitingInv
    <3>4. PICK i \in Tasks : Holds(i, w)
      BY <3>1 DEF WaitingInv
    <3>5. i \in 1 .. n - 1
      BY <1>1, <1>2, <3>4 DEF Holds
    <3>6. ASSUME NEW c \in Labels, Edge(w, c)', Open(c)'
          PROVE  head_dfn'[w] <= dfn'[c]
      <4>1. CASE c = v
        BY <1>4, <3>1, <3>2, <4>1
      <4>2. CASE c # v
        BY <1>4, <1>5, <3>1, <3>6, <4>2 DEF WaitingInv
      <4> QED BY <4>1, <4>2
    <3>7. \E k \in Tasks' : Holds(k, w)'
      BY <1>3, <1>12, <3>4, <3>5
    <3>8. Open(x)' /\ dfn'[x] = head_dfn'[w]
      BY <1>4, <1>5, <1>6, <3>3, SMTT(60)
    <3> QED BY <1>4, <3>1, <3>2, <3>6, <3>7, <3>8
  <2>2. ASSUME NEW i \in Tasks', NEW w \in Labels, Holds(i, w)'
        PROVE  \E s \in Labels : Edge(Vertex(i), s)' /\ Open(s)' /\ MinDfn(s)' <= head_dfn'[w]
    <3>1. i \in 1 .. n - 1 /\ Holds(i, w)
      BY <1>12, <2>2, SMTT(60)
    <3>2. PICK s \in Labels : Edge(Vertex(i), s) /\ Open(s) /\ MinDfn(s) <= head_dfn[w]
      BY <1>3, <3>1 DEF WaitingInv
    <3>3. Edge(Vertex(i), s)'
      BY <1>3, <3>1, <3>2, SMTT(60) DEF Edge
    <3> QED BY <1>4, <1>5, <1>6, <1>9, <3>2, <3>3, SMTT(60)
  <2>3. ASSUME NEW i \in Tasks', NEW X \in SUBSET Labels, HoldsWithin(i, X)', NEW w \in Labels, Holds(i, w)'
        PROVE  w \in X
    <3>1. i \in 1 .. n - 1 /\ Holds(i, w) /\ i \in Tasks
      BY <1>3, <1>12, <2>3
    <3>2. \A s : Edge(Vertex(i), s) => Edge(Vertex(i), s)'
      BY <1>3, <3>1, SMTT(60) DEF Edge
    <3>3. HoldsWithin(i, X)
      BY <1>4, <1>12, <2>3, <3>1, <3>2 DEF HoldsWithin
    <3> QED BY <3>1, <3>3, SMTT(60) DEF WaitingInv
  <2> QED BY <2>1, <2>2, <2>3 DEF WaitingInv
<1>16. WhiteInv'
  <2> SUFFICES ASSUME NEW i \in Tasks', NEW X \in SUBSET Labels, Begun(i)', Covers(X, i)',
                      NEW y \in Labels, NEW s \in Labels, (y = Vertex(i) \/ Holds(i, y))',
                      Edge(y, s)', White(s)'
               PROVE  s \in X
    BY DEF WhiteInv
  <2>1. ~ (i > n)
    BY <1>3
  <2>2. CASE i = n
    <3>1. y = v
      BY <1>2, <1>3, <1>12, <2>2
    <3>2. PICK j \in Tasks' : j > n /\ Vertex(j)' = s
      BY <1>3, <1>4, <3>1
    <3>3. ~ Begun(j)' /\ White(Vertex(j))'
      BY <1>3, <3>2
    <3> QED BY <2>2, <3>2, <3>3 DEF Covers
  <2>3. CASE i # n
    <3>1. i \in 1 .. n - 1 /\ i \in Tasks /\ Begun(i)
      BY <1>2, <1>3, <2>1, <2>3
    <3>2. Covers(X \cup {v}, i)
      <4>1. \A z \in Labels : White(z) /\ Edge(v, z) => z \in X \cup {v}
        <5> SUFFICES ASSUME NEW z \in Labels, White(z), Edge(v, z), z # v PROVE z \in X
          OBVIOUS
        <5>1. White(z)' /\ Edge(v, z)'
          BY <1>4, <1>5
        <5>2. Edge(Vertex(n), z)'
          BY <1>3, <5>1 DEF Edge
        <5> QED BY <1>2, <1>3, <3>1, <5>1, <5>2 DEF Covers
      <4>2. ASSUME NEW j \in Tasks, j > i
            PROVE  /\ ~ Begun(j) /\ White(Vertex(j)) => Vertex(j) \in X \cup {v}
                   /\ Begun(j) => \A z \in Labels : White(z) /\ Edge(Vertex(j), z) => z \in X \cup {v}
        <5>1. CASE j = n
          BY <1>1, <5>1 DEF Begun
        <5>2. CASE j # n
          <6>1. j \in 1 .. n - 1 /\ j \in Tasks'
            BY <1>2, <1>3, <5>2, SMTT(60)
          <6>2. /\ Begun(j)' <=> Begun(j)
                /\ Vertex(j)' = Vertex(j) /\ Vertex(j) \in Labels
            BY <1>3, <6>1
          <6>3. White(Vertex(j))' <=> White(Vertex(j)) /\ Vertex(j) # v
            BY <1>5, <6>2 DEF White
          <6>4. ~ Begun(j) /\ White(Vertex(j)) => Vertex(j) \in X \cup {v}
            BY <4>2, <6>1, <6>2, <6>3, SMTT(60) DEF Covers
          <6>5. ASSUME Begun(j), NEW z \in Labels, White(z), Edge(Vertex(j), z), z # v
                PROVE  z \in X
            <7>1. White(z)' /\ Edge(Vertex(j), z)'
              BY <1>5, <6>2, <6>5, SMTT(60) DEF Edge
            <7> QED BY <4>2, <6>1, <6>2, <6>5, <7>1, SMTT(60) DEF Covers
          <6> QED BY <6>4, <6>5
        <5> QED BY <5>1, <5>2
      <4>3. ASSUME NEW x \in X \cup {v}, NEW z \in Labels, White(x), White(z), Edge(x, z)
            PROVE  z \in X \cup {v}
        <5>1. CASE x = v
          BY <4>1, <4>3, <5>1
        <5>2. CASE x # v /\ z # v
          <6>1. White(x)' /\ White(z)' /\ Edge(x, z)'
            BY <1>4, <1>5, <4>3, <5>2
          <6> QED BY <4>3, <5>2, <6>1 DEF Covers
        <5> QED BY <5>1, <5>2
      <4> QED BY <4>2, <4>3 DEF Covers
    <3>3. y = Vertex(i) \/ Holds(i, y)
      BY <1>3, <1>12, <3>1
    <3>4. White(s) /\ s # v /\ Edge(y, s) /\ X \cup {v} \in SUBSET Labels
      BY <1>1, <1>4, <1>5
    <3>5. s \in X \cup {v}
      BY <3>1, <3>2, <3>3, <3>4 DEF WhiteInv
    <3> QED BY <3>4, <3>5
  <2> QED BY <2>2, <2>3
<1>17. CycleInv'
  <2> SUFFICES ASSUME NEW i \in Tasks', Type(i)' = "ContinueVisit"
               PROVE  \E M \in SUBSET Labels : Members(i, M)'
    BY DEF CycleInv
  <2>1. i \in 1 .. n - 1 /\ i \in Tasks /\ Type(i) = "ContinueVisit" /\ Begun(i)
    <3>1. i # n /\ ~ (i > n)
      BY <1>3
    <3>2. i \in 1 .. n - 1
      BY <1>2, <1>3, <3>1
    <3> QED BY <1>3, <3>2 DEF Begun
  <2>2. PICK M \in SUBSET Labels : Members(i, M)
    BY <2>1 DEF CycleInv
  <2>3. Level(i)' = Level(i) /\ Level(i) <= num /\ Level(i) \in Nat
    BY <1>10, <2>1
  <2>4. v \in M
    BY <1>1, <1>2, <2>1, <2>2, SMTT(60) DEF Members
  <2>5. \A x \in M, c \in Labels : Edge(x, c) => c \in M \/ dfn[c] = DFN_INF
    BY <2>2 DEF Members
  <2>6. ASSUME NEW j \in Tasks', j > i
        PROVE  Vertex(j)' \in M
    <3>1. CASE j > n
      <4>1. Vertex(j)' \in Labels /\ White(Vertex(j))' /\ Edge(v, Vertex(j)')
        BY <1>3, <3>1
      <4>2. White(Vertex(j)') 
        BY <1>4, <1>5, <4>1 DEF White
      <4> QED BY <2>4, <2>5, <4>1, <4>2 DEF White, DFN_INF
    <3>2. CASE j = n
      BY <1>3, <2>4, <3>2
    <3>3. CASE j < n
      <4>1. j \in 1 .. n - 1
        BY <1>2, <1>3, <3>3
      <4> QED BY <1>3, <2>2, <2>6, <4>1, SMTT(60) DEF Members
    <3> QED BY <1>2, <1>3, <3>1, <3>2, <3>3
  <2>7. ASSUME NEW x \in Labels, Open(x)'
        PROVE  x \in M <=> dfn'[x] > Level(i)'
    <3>1. CASE x = v
      BY <1>4, <2>3, <2>4, <3>1
    <3>2. CASE x # v
      BY <1>4, <1>5, <2>2, <2>3, <2>7, <3>2, SMTT(60) DEF Members
    <3> QED BY <3>1, <3>2
  <2>8. ASSUME NEW x \in M, NEW c \in Labels, Edge(x, c)'
        PROVE  c \in M \/ dfn'[c] = DFN_INF
    BY <1>4, <2>4, <2>5, <2>8, SMTT(60)
  <2>9. \A w \in M : Waiting(w)' => head_dfn'[w] > Level(i)'
    BY <1>4, <1>8, <2>2, <2>3 DEF Members
  <2>10. Members(i, M)'
    BY <2>6, <2>7, <2>8, <2>9 DEF Members
  <2> QED BY <2>10
<1> QED BY <1>13, <1>14, <1>15, <1>16, <1>17, SMTT(60)

(***************************************************************************)
(* The three outcomes of a StartVisit task.  The tasks below it stay as    *)
(* they are, and they are for other vertices.                              *)
(***************************************************************************)
LEMMA TaskPopped ==
    ASSUME TypeOK, visit_stack # <<>>, NEW n, n = Len(visit_stack), visit_stack' = Pop(visit_stack)
    PROVE  /\ Tasks' = 1 .. n - 1
           /\ \A i \in Tasks' : /\ i \in Tasks /\ i < n /\ visit_stack'[i] = visit_stack[i]
                                /\ Type(i)' = Type(i) /\ Vertex(i)' = Vertex(i)
                                /\ Begun(i)' <=> Begun(i)
<1>1. Popped(Top(visit_stack).type)
  BY DEF Popped
<1>2. /\ n \in Nat \ {0} /\ Tasks = 1 .. n
      /\ Pop(visit_stack) \in Seq(Task) /\ Len(Pop(visit_stack)) = n - 1
      /\ \A i \in 1 .. n - 1 : Pop(visit_stack)[i] = visit_stack[i]
  BY <1>1, PoppedTask
<1>3. Tasks' = 1 .. n - 1
  BY <1>2 DEF Tasks
<1>4. \A i \in 1 .. n - 1 : i \in Tasks /\ i < n
  BY <1>2
<1> QED BY <1>2, <1>3, <1>4 DEF Type, Vertex, Begun

LEMMA BelowTop ==
    ASSUME BuilderState, Popped("StartVisit"),
           NEW n, n = Len(visit_stack), NEW v, v = Vertex(n)
    PROVE  \A i \in 1 .. n - 1 :
               /\ i \in Tasks /\ Vertex(i) \in Labels
               /\ Begun(i) => /\ Vertex(i) # v /\ Level(i) \in Nat /\ Level(i) < dfn[v]
                              /\ Type(i) = "StartVisit" \/ Type(i) = "ContinueVisit"
<1> USE DEF BuilderState, BuilderInv
<1>1. /\ n \in Nat \ {0} /\ Tasks = 1 .. n /\ Type(n) = "StartVisit" /\ v \in Labels
      /\ Open(v) /\ Level(n) = dfn[v] /\ dfn[v] \in Nat
  BY TopPending
<1> SUFFICES ASSUME NEW i \in 1 .. n - 1
             PROVE  /\ i \in Tasks /\ Vertex(i) \in Labels
                    /\ Begun(i) => /\ Vertex(i) # v /\ Level(i) \in Nat /\ Level(i) < dfn[v]
                                   /\ Type(i) = "StartVisit" \/ Type(i) = "ContinueVisit"
  OBVIOUS
<1>2. i \in Tasks /\ i < n
  BY <1>1
<1>3. visit_stack[i] \in Task
  <2>1. visit_stack \in Seq(Task) /\ i \in DOMAIN visit_stack
    BY <1>2 DEF TypeOK, Task, TaskOf, Tasks
  <2> QED BY <2>1
<1>4. Vertex(i) \in Labels /\ Type(i) \in TaskType
  BY <1>3 DEF Task, TaskOf, Vertex, Type
<1>5. Level(i) \in Nat
  BY <1>4 DEF Level, TypeOK
<1>6. ASSUME Begun(i)
      PROVE  /\ Level(i) < dfn[v] /\ Vertex(i) # v
             /\ Type(i) = "StartVisit" \/ Type(i) = "ContinueVisit"
  <2>1. Level(i) < Level(n)
    BY <1>1, <1>2, <1>6 DEF TaskInv, Begun
  <2>2. Type(i) = "StartVisit" \/ Type(i) = "ContinueVisit"
    BY <1>4, <1>6 DEF TaskType, Begun
  <2>3. CASE Type(i) = "StartVisit"
    BY <1>1, <1>5, <2>1, <2>3 DEF Level
  <2>4. CASE Type(i) = "ContinueVisit"
    <3>1. dfn[Vertex(i)] = DFN_INF
      BY <1>2, <2>4 DEF TaskInv, TaskOK, Type, Vertex
    <3> QED BY <1>1, <2>1, <2>4, <3>1 DEF Open
  <2> QED BY <1>1, <2>1, <2>2, <2>3, <2>4
<1> QED BY <1>2, <1>4, <1>5, <1>6

LEMMA VertexAlone ==
    ASSUME BuilderState, TypeOK', Popped("StartVisit"),
           NEW n, n = Len(visit_stack), NEW v, v = Vertex(n), HeadDfn(v) = dfn[v], ~ IsLoop(v),
           dfn' = [dfn EXCEPT ![v] = DFN_INF], head_dfn' = [head_dfn EXCEPT ![v] = HeadDfn(v)],
           stack' = Pop(stack), visit_stack' = Pop(visit_stack), UNCHANGED <<children, num, parent>>
    PROVE  StackInv' /\ TaskInv' /\ WaitingInv' /\ WhiteInv' /\ CycleInv'
<1> USE DEF BuilderState, BuilderInv
<1>1. /\ n \in Nat \ {0} /\ Tasks = 1 .. n /\ n \in Tasks /\ Type(n) = "StartVisit" /\ v \in Labels
      /\ Open(v) /\ Pending(v) /\ head_dfn[v] = 0 /\ Level(n) = dfn[v] /\ dfn[v] \in Nat
      /\ \A s \in Labels : Edge(v, s) => ~ White(s)
      /\ \A x \in Labels : Open(x) => dfn[x] < dfn[v] \/ x = v \/ Holds(n, x)
  BY TopPending
<1>2. \A w \in Labels : ~ Holds(n, w)
  BY TopHead
<1>3. /\ Tasks' = 1 .. n - 1
      /\ \A i \in Tasks' : /\ i \in Tasks /\ i < n /\ visit_stack'[i] = visit_stack[i]
                           /\ Type(i)' = Type(i) /\ Vertex(i)' = Vertex(i)
                           /\ Begun(i)' <=> Begun(i)
  BY TaskPopped DEF Popped
<1>4. \A i \in Tasks' :
          /\ Vertex(i) \in Labels
          /\ Begun(i) => /\ Vertex(i) # v /\ Level(i) \in Nat /\ Level(i) < dfn[v]
                         /\ Type(i) = "StartVisit" \/ Type(i) = "ContinueVisit"
  BY <1>3, BelowTop
<1>5. /\ dfn'[v] = DFN_INF /\ \A x \in Labels : x # v => dfn'[x] = dfn[x] /\ head_dfn'[x] = head_dfn[x]
      /\ \A x \in Labels : dfn[x] \in Nat /\ head_dfn[x] \in Nat
      /\ \A x, y : Edge(x, y)' <=> Edge(x, y)
  BY <1>1 DEF TypeOK, Edge
<1>6. \A x \in Labels : /\ Open(x)' <=> Open(x) /\ x # v
                        /\ White(x)' <=> White(x)
                        /\ x # v => MinDfn(x)' = MinDfn(x)
  BY <1>1, <1>5 DEF Open, White, MinDfn, DFN_INF
<1>7. \A i \in Tasks' : Begun(i) => Level(i)' = Level(i)
  BY <1>3, <1>4, <1>5 DEF Level
<1>8. \A x \in Labels : x # v => (Pending(x)' <=> Pending(x))
  BY <1>1, <1>3, SMTT(60) DEF Pending
<1>9. \A x \in Labels : /\ Waiting(x)' <=> Waiting(x)
                        /\ Waiting(x) => x # v /\ dfn'[x] = dfn[x] /\ head_dfn'[x] = head_dfn[x] /\ dfn[x] < dfn[v]
  BY <1>1, <1>2, <1>5, <1>6, <1>8 DEF Waiting
<1>10. ASSUME NEW i \in Tasks', NEW w \in Labels
       PROVE  Holds(i, w)' <=> Holds(i, w)
  <2>1. ASSUME Holds(i, w)
        PROVE  Holds(i, w)'
    <3>1. Type(i) = "StartVisit" /\ Waiting(w) /\ Level(i) < dfn[w] /\ Begun(i)
      BY <2>1 DEF Holds, Begun
    <3> QED BY <1>3, <1>7, <1>9, <2>1, <3>1 DEF Holds
  <2>2. ASSUME Holds(i, w)'
        PROVE  Holds(i, w)
    <3>1. Type(i) = "StartVisit" /\ Waiting(w) /\ Begun(i)
      BY <1>3, <1>9, <2>2 DEF Holds, Begun
    <3>2. Level(i) < dfn[w] /\ dfn[w] < dfn[v]
      BY <1>7, <1>9, <2>2, <3>1 DEF Holds
    <3>3. ASSUME NEW j \in Tasks, j > i, Begun(j)
          PROVE  dfn[w] < Level(j)
      <4>1. CASE j = n
        BY <1>1, <3>2, <4>1
      <4>2. CASE j # n
        <5>1. j \in Tasks'
          BY <1>1, <1>3, <4>2
        <5> QED BY <1>3, <1>7, <1>9, <2>2, <3>1, <3>3, <5>1, SMTT(60) DEF Holds
      <4> QED BY <4>1, <4>2
    <3> QED BY <3>1, <3>2, <3>3 DEF Holds
  <2> QED BY <2>1, <2>2
<1>11. ASSUME NEW i \in Tasks', NEW X \in SUBSET Labels, Covers(X, i)'
       PROVE  Covers(X, i)
  <2>1. ASSUME NEW j \in Tasks, j > i
        PROVE  /\ ~ Begun(j) /\ White(Vertex(j)) => Vertex(j) \in X
               /\ Begun(j) => \A s \in Labels : White(s) /\ Edge(Vertex(j), s) => s \in X
    <3>1. CASE j = n
      BY <1>1, <3>1 DEF Begun
    <3>2. CASE j # n
      <4>1. j \in Tasks'
        BY <1>1, <1>3, <3>2
      <4>2. White(Vertex(j)) <=> White(Vertex(j))'
        BY <1>3, <1>4, <1>6, <4>1, SMTT(60) DEF White
      <4>3. \A s : Edge(Vertex(j), s) => Edge(Vertex(j), s)'
        BY <1>3, <4>1 DEF Edge
      <4> QED BY <1>3, <1>6, <1>11, <2>1, <4>1, <4>2, <4>3, SMTT(60) DEF Covers
    <3> QED BY <3>1, <3>2
  <2>2. \A x \in X, s \in Labels : White(x) /\ White(s) /\ Edge(x, s) => s \in X
    BY <1>5, <1>6, <1>11 DEF Covers
  <2> QED BY <2>1, <2>2 DEF Covers
<1>12. StackInv'
  <2>1. /\ stack \in Seq(Labels) /\ stack # <<>> /\ Top(stack) = v
    <3>1. PopFindsVertex /\ Top(visit_stack).vertex = v
      BY VertexFound, PoppedTask DEF Vertex
    <3>2. \E i \in DOMAIN stack : stack[i] = v
      BY <3>1 DEF PopFindsVertex
    <3>3. Top(stack) = v
      BY <3>1 DEF PopFindsVertex
    <3> QED BY <3>2, <3>3 DEF TypeOK
  <2> DEFINE m == Len(stack)
  <2>2. /\ m \in Nat \ {0} /\ DOMAIN stack = 1 .. m
        /\ Pop(stack) \in Seq(Labels) /\ Len(Pop(stack)) = m - 1
        /\ \A i \in 1 .. m - 1 : Pop(stack)[i] = stack[i]
    BY <2>1, PopProperties
  <2>3. DOMAIN stack' = 1 .. m - 1 /\ \A k \in DOMAIN stack' : stack'[k] = stack[k] /\ k \in DOMAIN stack /\ k < m
    <3>1. DOMAIN stack' = 1 .. m - 1
      BY <2>2
    <3>2. \A k \in 1 .. m - 1 : k \in DOMAIN stack /\ k < m
      BY <2>2
    <3> QED BY <2>2, <3>1, <3>2
  <2>4. stack[m] = v /\ m \in DOMAIN stack /\ \A k \in DOMAIN stack : stack[k] \in Labels /\ (k = m \/ k \in DOMAIN stack')
    <3>1. stack[m] = v /\ m \in DOMAIN stack
      BY <2>1, <2>2 DEF Top
    <3>2. \A k \in DOMAIN stack : stack[k] \in Labels
      BY <2>1, <2>2
    <3> QED BY <2>2, <2>3, <3>1, <3>2
  <2> HIDE DEF m
  <2>5. \A k \in DOMAIN stack' : stack[k] # v /\ stack[k] \in Labels
    BY <1>5, <2>3, <2>4 DEF StackInv
  <2>6. \A x \in Labels : Open(x)' <=> \E k \in DOMAIN stack' : stack'[k] = x
    BY <1>6, <2>3, <2>4, <2>5 DEF StackInv
  <2>7. \A k, l \in DOMAIN stack' : k < l => dfn'[stack'[k]] < dfn'[stack'[l]]
    BY <1>5, <2>3, <2>5 DEF StackInv
  <2>8. \A x \in Labels : /\ Open(x)' => dfn'[x] <= num'
                          /\ White(x)' => head_dfn'[x] = 0
    BY <1>1, <1>5, <1>6 DEF StackInv, Open, White
  <2> QED BY <2>6, <2>7, <2>8 DEF StackInv
<1>13. TaskInv'
  <2>1. ASSUME NEW i \in Tasks'
        PROVE  TaskOK(visit_stack[i])'
    <3>1. TaskOK(visit_stack[i]) /\ visit_stack[i].vertex \in Labels
      BY <1>3, <1>4, SMTT(60) DEF TaskInv, Vertex
    <3>2. visit_stack[i].type # "PushSuccessors" => visit_stack[i].vertex # v
      BY <1>4 DEF Begun, Type, Vertex
    <3>3. UNCHANGED <<num, parent>>
      OBVIOUS
    <3> QED BY <1>3, <1>5, <3>1, <3>2, <3>3, SMTT(60) DEF TaskOK, Open
  <2>2. \A i, j \in Tasks' : i < j /\ Begun(i)' /\ Begun(j)' => Level(i)' < Level(j)'
    BY <1>3, <1>7 DEF TaskInv
  <2>3. ASSUME NEW i \in Tasks', NEW j \in Tasks', i < j, Begun(i)',
               \A k \in Tasks' : i < k /\ k < j => ~ Begun(k)'
        PROVE  Edge(Vertex(i), Vertex(j))'
    <3>1. \A k \in Tasks : i < k /\ k < j => ~ Begun(k)
      <4> SUFFICES ASSUME NEW k \in Tasks, i < k, k < j PROVE ~ Begun(k)
        OBVIOUS
      <4>1. k \in Tasks'
        BY <1>1, <1>3
      <4> QED BY <1>3, <2>3, <4>1
    <3>2. Edge(Vertex(i), Vertex(j))
      BY <1>3, <2>3, <3>1 DEF TaskInv
    <3> QED BY <1>3, <3>2, SMTT(60) DEF Edge
  <2> QED BY <2>1, <2>2, <2>3 DEF TaskInv
<1>14. WaitingInv'
  <2>1. ASSUME NEW w \in Labels, Waiting(w)'
        PROVE  /\ head_dfn'[w] # 0 /\ head_dfn'[w] < dfn'[w]
               /\ \E x \in Labels : Open(x)' /\ dfn'[x] = head_dfn'[w]
               /\ \E i \in Tasks' : Holds(i, w)'
               /\ \A c \in Labels : Edge(w, c)' /\ Open(c)' => head_dfn'[w] <= dfn'[c]
    <3>1. /\ Waiting(w) /\ dfn'[w] = dfn[w] /\ head_dfn'[w] = head_dfn[w] /\ dfn[w] < dfn[v]
          /\ dfn[w] \in Nat /\ head_dfn[w] \in Nat
      BY <1>5, <1>9, <2>1
    <3>2. head_dfn[w] # 0 /\ head_dfn[w] < dfn[w]
      BY <3>1 DEF WaitingInv
    <3>3. PICK x \in Labels : Open(x) /\ dfn[x] = head_dfn[w]
      BY <3>1 DEF WaitingInv
    <3>4. x # v
      BY <1>1, <3>1, <3>2, <3>3
    <3>5. PICK i \in Tasks : Holds(i, w)
      BY <3>1 DEF WaitingInv
    <3>6. i \in Tasks'
      BY <1>1, <1>2, <1>3, <3>5
    <3>7. \A c \in Labels : Edge(w, c) /\ Open(c) => head_dfn[w] <= dfn[c]
      BY <3>1 DEF WaitingInv
    <3>8. \E k \in Tasks' : Holds(k, w)'
      BY <1>10, <3>5, <3>6
    <3> QED BY <1>5, <1>6, <3>1, <3>2, <3>3, <3>4, <3>7, <3>8
  <2>2. ASSUME NEW i \in Tasks', NEW w \in Labels, Holds(i, w)'
        PROVE  \E s \in Labels : Edge(Vertex(i), s)' /\ Open(s)' /\ MinDfn(s)' <= head_dfn'[w]
    <3>1. Holds(i, w) /\ i \in Tasks
      BY <1>3, <1>10, <2>2
    <3>2. PICK s \in Labels : Edge(Vertex(i), s) /\ Open(s) /\ MinDfn(s) <= head_dfn[w]
      BY <3>1 DEF WaitingInv
    <3>3. Waiting(w) /\ head_dfn[w] < dfn[w] /\ dfn[w] < dfn[v] /\ head_dfn'[w] = head_dfn[w]
      BY <1>9, <3>1 DEF Holds, WaitingInv
    <3>4. s # v
      <4>1. MinDfn(v) = dfn[v]
        BY <1>1, OpenMinDfn
      <4> QED BY <1>1, <1>5, <3>2, <3>3, <4>1
    <3>5. Edge(Vertex(i), s)'
      BY <1>3, <3>2 DEF Edge
    <3> QED BY <1>6, <3>2, <3>3, <3>4, <3>5
  <2>3. ASSUME NEW i \in Tasks', NEW X \in SUBSET Labels, HoldsWithin(i, X)', NEW w \in Labels, Holds(i, w)'
        PROVE  w \in X
    <3>1. \A s : Edge(Vertex(i), s) => Edge(Vertex(i), s)'
      BY <1>3, SMTT(60) DEF Edge
    <3>2. HoldsWithin(i, X)
      BY <1>5, <1>10, <2>3, <3>1 DEF HoldsWithin
    <3> QED BY <1>3, <1>10, <2>3, <3>2 DEF WaitingInv
  <2> QED BY <2>1, <2>2, <2>3 DEF WaitingInv
<1>15. WhiteInv'
  <2> SUFFICES ASSUME NEW i \in Tasks', NEW X \in SUBSET Labels, Begun(i)', Covers(X, i)',
                      NEW y \in Labels, NEW s \in Labels, (y = Vertex(i) \/ Holds(i, y))',
                      Edge(y, s)', White(s)'
               PROVE  s \in X
    BY DEF WhiteInv
  <2>1. y = Vertex(i) \/ Holds(i, y)
    BY <1>3, <1>10
  <2> QED BY <1>3, <1>5, <1>6, <1>11, <2>1 DEF WhiteInv
<1>16. CycleInv'
  <2> SUFFICES ASSUME NEW i \in Tasks', Type(i)' = "ContinueVisit"
               PROVE  \E M \in SUBSET Labels : Members(i, M)'
    BY DEF CycleInv
  <2>1. i \in Tasks /\ Type(i) = "ContinueVisit" /\ Begun(i)
    BY <1>3 DEF Begun
  <2>2. PICK M \in SUBSET Labels : Members(i, M)
    BY <2>1 DEF CycleInv
  <2>3. Level(i)' = Level(i)
    BY <1>7, <2>1
  <2>4. \A j \in Tasks' : j > i => Vertex(j)' \in M
    BY <1>3, <2>2 DEF Members
  <2>5. \A x \in Labels : Open(x)' => (x \in M <=> dfn'[x] > Level(i)')
    BY <1>5, <1>6, <2>2, <2>3 DEF Members
  <2>6. \A x \in M, c \in Labels : Edge(x, c)' => c \in M \/ dfn'[c] = DFN_INF
    BY <1>5, <2>2 DEF Members
  <2>7. \A w \in M : Waiting(w)' => head_dfn'[w] > Level(i)'
    BY <1>9, <2>2, <2>3 DEF Members
  <2>8. Members(i, M)'
    BY <2>4, <2>5, <2>6, <2>7 DEF Members
  <2> QED BY <2>8
<1> QED BY <1>12, <1>13, <1>14, <1>15, <1>16, SMTT(60)

LEMMA VertexLeft ==
    ASSUME BuilderState, TypeOK', Popped("StartVisit"),
           NEW n, n = Len(visit_stack), NEW v, v = Vertex(n), HeadDfn(v) # dfn[v],
           head_dfn' = [head_dfn EXCEPT ![v] = HeadDfn(v)],
           visit_stack' = Pop(visit_stack), UNCHANGED <<children, dfn, num, stack, parent>>
    PROVE  StackInv' /\ TaskInv' /\ WaitingInv' /\ WhiteInv' /\ CycleInv'
<1> USE DEF BuilderState, BuilderInv
<1> DEFINE h == HeadDfn(v)
<1>1. /\ n \in Nat \ {0} /\ Tasks = 1 .. n /\ n \in Tasks /\ Type(n) = "StartVisit" /\ v \in Labels
      /\ Open(v) /\ Pending(v) /\ head_dfn[v] = 0 /\ Level(n) = dfn[v] /\ dfn[v] \in Nat
      /\ \A y, s \in Labels : (y = v \/ Holds(n, y)) /\ Edge(y, s) => ~ White(s)
      /\ \A x \in Labels : Open(x) => dfn[x] < dfn[v] \/ x = v \/ Holds(n, x)
      /\ \A w \in Labels : Holds(n, w) <=> Open(w) /\ dfn[w] > dfn[v]
  BY TopPending
<1>2. /\ h \in Nat /\ h < dfn[v] /\ h # 0
      /\ \A s \in Labels : Edge(v, s) => h <= MinDfn(s)
      /\ \A w \in Labels : Holds(n, w) => h <= head_dfn[w]
  BY <1>1, TopHead, HeadDfnIsLeast
<1>3. PICK top \in Labels : Open(top) /\ dfn[top] = h
  BY TopHead
<1>4. PICK succ \in Labels : Edge(v, succ) /\ Open(succ) /\ h = MinDfn(succ)
  BY TopHead
<1>5. /\ Tasks' = 1 .. n - 1
      /\ \A i \in Tasks' : /\ i \in Tasks /\ i < n /\ visit_stack'[i] = visit_stack[i]
                           /\ Type(i)' = Type(i) /\ Vertex(i)' = Vertex(i)
                           /\ Begun(i)' <=> Begun(i)
  BY TaskPopped DEF Popped
<1>6. \A i \in Tasks' :
          /\ Vertex(i) \in Labels
          /\ Begun(i) => /\ Vertex(i) # v /\ Level(i) \in Nat /\ Level(i) < dfn[v]
                         /\ Type(i) = "StartVisit" \/ Type(i) = "ContinueVisit"
  BY <1>5, BelowTop
<1>7. /\ head_dfn'[v] = h /\ \A x \in Labels : x # v => head_dfn'[x] = head_dfn[x]
      /\ \A x \in Labels : dfn[x] \in Nat /\ head_dfn[x] \in Nat
      /\ \A x, y : Edge(x, y)' <=> Edge(x, y)
      /\ \A x : (Open(x)' <=> Open(x)) /\ (White(x)' <=> White(x))
  BY <1>1 DEF TypeOK, Edge, Open, White
<1> HIDE DEF h
<1>8. /\ MinDfn(v)' = h /\ MinDfn(v) = dfn[v]
      /\ \A x \in Labels : x # v => MinDfn(x)' = MinDfn(x)
  BY <1>1, <1>2, <1>7 DEF MinDfn, Open
<1>9. ASSUME NEW i \in Tasks', Type(i) = "ContinueVisit", NEW M \in SUBSET Labels, Members(i, M)
      PROVE  v \in M /\ Level(i) < h
  <2>1. v \in M
    BY <1>1, <1>5, <1>9 DEF Members
  <2>2. succ \in M
    BY <1>4, <1>9, <2>1 DEF Members, Open
  <2>3. CASE Pending(succ)
    <3>1. dfn[succ] > Level(i) /\ MinDfn(succ) = dfn[succ] /\ Begun(i)
      BY <1>4, <1>9, <2>2, <2>3, OpenMinDfn DEF Members, Begun
    <3> QED BY <1>4, <1>6, <1>7, <2>1, <3>1
  <2>4. CASE Waiting(succ)
    <3>1. head_dfn[succ] > Level(i) /\ MinDfn(succ) = head_dfn[succ] /\ Begun(i)
      BY <1>4, <1>9, <2>2, <2>4, OpenMinDfn DEF Members, Begun
    <3> QED BY <1>4, <1>6, <1>7, <2>1, <3>1
  <2> QED BY <1>4, <2>1, <2>3, <2>4 DEF Waiting
<1>10. PICK p \in Tasks' : Begun(p) /\ \A i \in Tasks' : i > p => ~ Begun(i)
  <2> DEFINE B == {i \in Tasks' : Begun(i)}
  <2>1. B # {}
    <3>1. CASE Pending(top)
      <4>1. PICK i \in Tasks : Type(i) = "StartVisit" /\ Vertex(i) = top
        BY <3>1 DEF Pending
      <4>2. i # n /\ Begun(i)
        BY <1>2, <1>3, <4>1 DEF Begun
      <4> QED BY <1>1, <1>5, <4>2, SMTT(60)
    <3>2. CASE Waiting(top)
      <4>1. PICK i \in Tasks : Holds(i, top)
        BY <3>2 DEF WaitingInv
      <4>2. i # n /\ Begun(i)
        BY <1>1, <1>2, <1>3, <4>1 DEF Begun, Holds
      <4> QED BY <1>1, <1>5, <4>2, SMTT(60)
    <3> QED BY <1>3, <3>1, <3>2 DEF Waiting
  <2>2. B \subseteq 0 .. n /\ n \in Nat
    BY <1>1, <1>5
  <2> HIDE DEF B
  <2>3. PICK p \in B : \A i \in B : i <= p
    BY <2>1, <2>2, GreatestNat
  <2>4. \A i \in Tasks' : i > p => ~ Begun(i)
    <3> SUFFICES ASSUME NEW i \in Tasks', i > p, Begun(i) PROVE FALSE
      OBVIOUS
    <3>1. i <= p /\ i \in Nat /\ p \in Nat
      BY <1>1, <1>5, <2>2, <2>3 DEF B
    <3> QED BY <3>1
  <2> QED BY <2>3, <2>4 DEF B
<1>11. /\ p \in Tasks /\ p < n /\ Level(p) \in Nat /\ Level(p) < dfn[v] /\ Vertex(p) \in Labels /\ p \in Nat
       /\ \A i \in Tasks' : Begun(i) => i <= p
  BY <1>1, <1>5, <1>6, <1>10
<1>12. ASSUME NEW x \in Labels, Open(x), dfn[x] < dfn[v], Level(p) < dfn[x]
       PROVE  Holds(p, x)
  <2>1. Waiting(x)
    <3> SUFFICES ASSUME Pending(x) PROVE FALSE
      BY <1>12 DEF Waiting
    <3>1. PICK i \in Tasks : Type(i) = "StartVisit" /\ Vertex(i) = x
      BY DEF Pending
    <3>2. i # n /\ Begun(i) /\ Level(i) = dfn[x]
      BY <1>1, <1>12, <3>1 DEF Begun, Level
    <3>3. i \in Tasks' /\ i <= p
      BY <1>1, <1>5, <1>11, <3>2
    <3>4. i < p => Level(i) < Level(p)
      BY <1>10, <1>11, <3>2 DEF TaskInv
    <3> QED BY <1>1, <1>7, <1>11, <1>12, <3>2, <3>3, <3>4
  <2>2. PICK i \in Tasks : Holds(i, x)
    BY <2>1 DEF WaitingInv
  <2>3. i # n /\ Begun(i)
    BY <1>1, <1>7, <1>12, <2>2 DEF Begun, Holds
  <2>4. i \in Tasks' /\ i <= p
    BY <1>1, <1>5, <1>11, <2>3
  <2>5. i < p => dfn[x] < Level(p)
    BY <1>10, <1>11, <2>2 DEF Holds
  <2>6. i = p
    BY <1>1, <1>7, <1>11, <1>12, <2>4, <2>5, SMTT(60)
  <2> QED BY <2>2, <2>6
<1>13. Type(p) = "StartVisit"
  <2> SUFFICES ASSUME Type(p) = "ContinueVisit" PROVE FALSE
    BY <1>6, <1>10
  <2>1. PICK M \in SUBSET Labels : Members(p, M)
    BY <1>11 DEF CycleInv
  <2>2. Level(p) < h
    BY <1>9, <2>1
  <2>3. Holds(p, top)
    BY <1>2, <1>3, <1>12, <2>2
  <2> QED BY <2>3 DEF Holds
<1>14. Edge(Vertex(p), v)
  <2>1. \A k \in Tasks : p < k /\ k < n => ~ Begun(k)
    BY <1>1, <1>5, <1>10
  <2> QED BY <1>1, <1>10, <1>11, <2>1 DEF TaskInv
<1>15. \A i \in Tasks' : Begun(i) => Level(i)' = Level(i)
  BY <1>5, <1>6, <1>7 DEF Level
<1>16. ASSUME NEW x \in Labels
       PROVE  Pending(x)' <=> Pending(x) /\ x # v
  <2>1. Pending(x)' => Pending(x) /\ x # v
    BY <1>5, <1>6 DEF Pending, Begun
  <2>2. ASSUME Pending(x), x # v
        PROVE  Pending(x)'
    <3>1. PICK i \in Tasks : Type(i) = "StartVisit" /\ Vertex(i) = x
      BY <2>2 DEF Pending
    <3>2. i \in Tasks'
      BY <1>1, <1>5, <2>2, <3>1, SMTT(60)
    <3> QED BY <1>5, <3>1, <3>2 DEF Pending
  <2> QED BY <2>1, <2>2
<1>17. \A x \in Labels : (Waiting(x)' <=> Waiting(x) \/ x = v) /\ (Waiting(x) => x # v)
  BY <1>1, <1>7, <1>16 DEF Waiting
<1>18. ASSUME NEW i \in Tasks', NEW w \in Labels
       PROVE  Holds(i, w)' <=> Holds(i, w) \/ (i = p /\ (w = v \/ Holds(n, w)))
  <2>1. CASE ~ Begun(i)
    BY <1>5, <1>10, <2>1 DEF Holds, Begun
  <2>2. CASE Begun(i) /\ i # p
    <3>1. i < p /\ p > i /\ Begun(p)' /\ Level(p)' = Level(p) /\ Level(i)' = Level(i)
      BY <1>1, <1>5, <1>10, <1>11, <1>15, <2>2
    <3>2. ASSUME Holds(i, w)'
          PROVE  Holds(i, w)
      <4>1. Waiting(w)' /\ Type(i) = "StartVisit" /\ Level(i) < dfn[w] /\ dfn[w] < Level(p)
        BY <1>5, <3>1, <3>2 DEF Holds
      <4>2. dfn[w] < dfn[v] /\ w # v /\ Waiting(w)
        <5>1. dfn[w] < dfn[v] /\ dfn[v] \in Nat /\ dfn[w] \in Nat
          BY <1>1, <1>7, <1>11, <4>1, SMTT(60)
        <5>2. w # v
          BY <5>1
        <5> QED BY <1>17, <4>1, <5>1, <5>2
      <4>3. ASSUME NEW j \in Tasks, j > i, Begun(j)
            PROVE  dfn[w] < Level(j)
        <5>1. CASE j = n
          BY <1>1, <4>2, <5>1
        <5>2. CASE j # n
          <6>1. j \in Tasks'
            BY <1>1, <1>5, <5>2
          <6> QED BY <1>5, <1>15, <3>2, <4>3, <6>1, SMTT(60) DEF Holds
        <5> QED BY <5>1, <5>2
      <4> QED BY <4>1, <4>2, <4>3 DEF Holds
    <3>3. ASSUME Holds(i, w)
          PROVE  Holds(i, w)'
      <4>1. Type(i)' = "StartVisit" /\ Waiting(w)' /\ Level(i)' < dfn'[w]
        BY <1>5, <1>17, <3>1, <3>3 DEF Holds
      <4> QED BY <1>5, <1>15, <3>3, <4>1 DEF Holds
    <3> QED BY <2>2, <3>2, <3>3
  <2>3. CASE i = p
    <3>1. Holds(p, w)' <=> (Waiting(w) \/ w = v) /\ Level(p) < dfn[w]
      <4>1. Type(p)' = "StartVisit" /\ Level(p)' = Level(p)
        BY <1>5, <1>10, <1>13, <1>15
      <4>2. \A j \in Tasks' : j > p => ~ Begun(j)'
        BY <1>5, <1>10
      <4> QED BY <1>17, <4>1, <4>2 DEF Holds
    <3>2. Holds(p, w) => Waiting(w) /\ Level(p) < dfn[w]
      BY DEF Holds
    <3>3. Holds(n, w) => Waiting(w) /\ Level(p) < dfn[w]
      BY <1>1, <1>7, <1>11, SMTT(60) DEF Holds
    <3>4. ASSUME Waiting(w), Level(p) < dfn[w]
          PROVE  Holds(p, w) \/ Holds(n, w)
      <4>1. Open(w) /\ w # v
        BY <1>17, <3>4 DEF Waiting
      <4> QED BY <1>1, <1>12, <3>4, <4>1
    <3> QED BY <1>11, <2>3, <3>1, <3>2, <3>3, <3>4
  <2> QED BY <2>1, <2>2, <2>3
<1>19. ASSUME NEW i \in Tasks', NEW X \in SUBSET Labels, Covers(X, i)'
       PROVE  Covers(X, i)
  <2>1. ASSUME NEW j \in Tasks, j > i
        PROVE  /\ ~ Begun(j) /\ White(Vertex(j)) => Vertex(j) \in X
               /\ Begun(j) => \A s \in Labels : White(s) /\ Edge(Vertex(j), s) => s \in X
    <3>1. CASE j = n
      BY <1>1, <3>1 DEF Begun
    <3>2. CASE j # n
      <4>1. j \in Tasks'
        BY <1>1, <1>5, <3>2
      <4>2. White(Vertex(j)) <=> White(Vertex(j))'
        BY <1>5, <4>1 DEF White
      <4>3. \A s : Edge(Vertex(j), s) => Edge(Vertex(j), s)'
        BY <1>5, <4>1, SMTT(60) DEF Edge
      <4> QED BY <1>5, <1>7, <1>19, <2>1, <4>1, <4>2, <4>3 DEF Covers
    <3> QED BY <3>1, <3>2
  <2>2. \A x \in X, s \in Labels : White(x) /\ White(s) /\ Edge(x, s) => s \in X
    BY <1>7, <1>19 DEF Covers
  <2> QED BY <2>1, <2>2 DEF Covers
<1>20. StackInv'
  <2>1. \A x \in Labels : White(x) => x # v
    BY <1>1 DEF White, Open
  <2> QED BY <1>7, <2>1 DEF StackInv
<1>21. TaskInv'
  <2>1. ASSUME NEW i \in Tasks'
        PROVE  TaskOK(visit_stack[i])'
    <3>1. TaskOK(visit_stack[i]) /\ visit_stack[i].vertex \in Labels
      BY <1>5, <1>6 DEF TaskInv, Vertex
    <3>2. visit_stack[i].type # "PushSuccessors" => visit_stack[i].vertex # v
      BY <1>6 DEF Begun, Type, Vertex
    <3>3. UNCHANGED <<dfn, num, parent>>
      OBVIOUS
    <3> QED BY <1>5, <1>7, <3>1, <3>2, <3>3, SMTT(60) DEF TaskOK, Open
  <2>2. \A i, j \in Tasks' : i < j /\ Begun(i)' /\ Begun(j)' => Level(i)' < Level(j)'
    BY <1>5, <1>15, SMTT(60) DEF TaskInv
  <2>3. ASSUME NEW i \in Tasks', NEW j \in Tasks', i < j, Begun(i)',
               \A k \in Tasks' : i < k /\ k < j => ~ Begun(k)'
        PROVE  Edge(Vertex(i), Vertex(j))'
    <3>1. \A k \in Tasks : i < k /\ k < j => ~ Begun(k)
      <4> SUFFICES ASSUME NEW k \in Tasks, i < k, k < j PROVE ~ Begun(k)
        OBVIOUS
      <4>1. k \in Tasks'
        BY <1>1, <1>5
      <4> QED BY <1>5, <2>3, <4>1
    <3>2. Edge(Vertex(i), Vertex(j))
      BY <1>5, <2>3, <3>1 DEF TaskInv
    <3> QED BY <1>5, <3>2, SMTT(60) DEF Edge
  <2> QED BY <2>1, <2>2, <2>3 DEF TaskInv
<1>22. WaitingInv'
  <2>1. ASSUME NEW w \in Labels, Waiting(w)'
        PROVE  /\ head_dfn'[w] # 0 /\ head_dfn'[w] < dfn'[w]
               /\ \E x \in Labels : Open(x)' /\ dfn'[x] = head_dfn'[w]
               /\ \E i \in Tasks' : Holds(i, w)'
               /\ \A c \in Labels : Edge(w, c)' /\ Open(c)' => head_dfn'[w] <= dfn'[c]
    <3>1. CASE w = v
      <4>1. \A c \in Labels : Edge(v, c) /\ Open(c) => h <= dfn[c]
        <5> SUFFICES ASSUME NEW c \in Labels, Edge(v, c), Open(c) PROVE h <= dfn[c]
          OBVIOUS
        <5>1. h <= MinDfn(c) /\ MinDfn(c) <= dfn[c] /\ MinDfn(c) \in Nat
          BY <1>2, OpenMinDfn, MinDfnType
        <5> QED BY <1>2, <1>7, <5>1
      <4>2. Holds(p, v)'
        BY <1>1, <1>18
      <4> QED BY <1>2, <1>3, <1>7, <3>1, <4>1, <4>2, SMTT(60)
    <3>2. CASE w # v
      <4>1. Waiting(w) /\ head_dfn'[w] = head_dfn[w]
        BY <1>7, <1>17, <2>1, <3>2
      <4>2. PICK i \in Tasks : Holds(i, w)
        BY <4>1 DEF WaitingInv
      <4>3. \E k \in Tasks' : Holds(k, w)'
        <5>1. CASE i = n
          BY <1>18, <4>2, <5>1
        <5>2. CASE i # n
          <6>1. i \in Tasks'
            BY <1>1, <1>5, <5>2
          <6> QED BY <1>18, <4>2, <6>1
        <5> QED BY <5>1, <5>2
      <4> QED BY <1>7, <4>1, <4>3 DEF WaitingInv
    <3> QED BY <3>1, <3>2
  <2>2. ASSUME NEW i \in Tasks', NEW w \in Labels, Holds(i, w)'
        PROVE  \E s \in Labels : Edge(Vertex(i), s)' /\ Open(s)' /\ MinDfn(s)' <= head_dfn'[w]
    <3>1. CASE Holds(i, w)
      <4>1. PICK s \in Labels : Edge(Vertex(i), s) /\ Open(s) /\ MinDfn(s) <= head_dfn[w]
        BY <1>5, <3>1 DEF WaitingInv
      <4>2. MinDfn(s)' <= MinDfn(s) /\ MinDfn(s) \in Nat /\ MinDfn(s)' \in Nat
        BY <1>1, <1>2, <1>8, MinDfnType
      <4>3. head_dfn'[w] = head_dfn[w] /\ head_dfn[w] \in Nat
        BY <1>7, <1>17, <3>1 DEF Holds
      <4>4. Edge(Vertex(i), s)'
        BY <1>5, <4>1, SMTT(60) DEF Edge
      <4> QED BY <1>7, <4>1, <4>2, <4>3, <4>4, SMTT(60)
    <3>2. CASE i = p /\ (w = v \/ Holds(n, w))
      <4>1. h <= head_dfn'[w]
        BY <1>1, <1>2, <1>7, <1>17, <3>2 DEF Holds
      <4>2. Edge(Vertex(i), v)'
        BY <1>5, <1>14, <3>2, SMTT(60) DEF Edge
      <4> QED BY <1>1, <1>7, <1>8, <4>1, <4>2, SMTT(60)
    <3> QED BY <1>18, <2>2, <3>1, <3>2
  <2>3. ASSUME NEW i \in Tasks', NEW X \in SUBSET Labels, HoldsWithin(i, X)', NEW w \in Labels, Holds(i, w)'
        PROVE  w \in X
    <3>1. \A s : Edge(Vertex(i), s) => Edge(Vertex(i), s)'
      BY <1>5, SMTT(60) DEF Edge
    <3>2. HoldsWithin(i, X)
      BY <1>7, <1>18, <2>3, <3>1 DEF HoldsWithin
    <3>3. CASE Holds(i, w)
      BY <1>5, <3>2, <3>3, SMTT(60) DEF WaitingInv
    <3>4. CASE i = p /\ (w = v \/ Holds(n, w))
      <4>1. v \in X /\ Holds(i, v)'
        BY <1>1, <1>14, <1>18, <2>3, <3>1, <3>4 DEF HoldsWithin
      <4>2. \A s \in Labels : Holds(n, s) => Holds(i, s)'
        BY <1>18, <3>4
      <4>3. HoldsWithin(n, X)
        BY <1>7, <2>3, <4>1, <4>2 DEF HoldsWithin
      <4> QED BY <1>1, <3>4, <4>1, <4>3 DEF WaitingInv
    <3> QED BY <1>18, <2>3, <3>3, <3>4
  <2> QED BY <2>1, <2>2, <2>3, SMTT(60) DEF WaitingInv
<1>23. WhiteInv'
  <2> SUFFICES ASSUME NEW i \in Tasks', NEW X \in SUBSET Labels, Begun(i)', Covers(X, i)',
                      NEW y \in Labels, NEW s \in Labels, (y = Vertex(i) \/ Holds(i, y))',
                      Edge(y, s)', White(s)'
               PROVE  s \in X
    BY DEF WhiteInv
  <2>1. y = Vertex(i) \/ Holds(i, y) \/ y = v \/ Holds(n, y)
    BY <1>5, <1>18
  <2>2. y = Vertex(i) \/ Holds(i, y)
    BY <1>1, <1>7, <2>1
  <2> QED BY <1>5, <1>7, <1>19, <2>2 DEF WhiteInv
<1>24. CycleInv'
  <2> SUFFICES ASSUME NEW i \in Tasks', Type(i)' = "ContinueVisit"
               PROVE  \E M \in SUBSET Labels : Members(i, M)'
    BY DEF CycleInv
  <2>1. i \in Tasks /\ Type(i) = "ContinueVisit" /\ Begun(i)
    BY <1>5 DEF Begun
  <2>2. PICK M \in SUBSET Labels : Members(i, M)
    BY <2>1 DEF CycleInv
  <2>3. Level(i)' = Level(i) /\ v \in M /\ Level(i) < h
    BY <1>9, <1>15, <2>1, <2>2
  <2>4. \A j \in Tasks' : j > i => Vertex(j)' \in M
    BY <1>5, <2>2 DEF Members
  <2>5. \A x \in Labels : Open(x)' => (x \in M <=> dfn'[x] > Level(i)')
    BY <1>7, <2>2, <2>3 DEF Members
  <2>6. \A x \in M, c \in Labels : Edge(x, c)' => c \in M \/ dfn'[c] = DFN_INF
    BY <1>7, <2>2 DEF Members
  <2>7. \A w \in M : Waiting(w)' => head_dfn'[w] > Level(i)'
    BY <1>6, <1>2, <1>7, <1>17, <2>1, <2>2, <2>3, SMTT(60) DEF Members
  <2>8. Members(i, M)'
    BY <2>4, <2>5, <2>6, <2>7 DEF Members
  <2> QED BY <2>8
<1> QED BY <1>20, <1>21, <1>22, <1>23, <1>24

\* Where start_visit finds a vertex that is on the stack once.
LEMMA LastIndex ==
    ASSUME NEW S, NEW s \in Seq(S), NEW k \in DOMAIN s, NEW v, s[k] = v,
           \A m \in DOMAIN s : s[m] = v => m = k
    PROVE  LastIndexOf(s, v) = k
<1> DEFINE I == {i \in 1 .. Len(s) : s[i] = v}
<1>1. I = {k} /\ k \in Nat
  BY LenProperties
<1>2. Max(I) = k
  BY <1>1 DEF Max
<1> HIDE DEF I
<1>3. LastIndexOf(s, v) = IF I # {} THEN Max(I) ELSE 0
  BY DEF LastIndexOf, SelectLastInSeq, I
<1> QED BY <1>1, <1>2, <1>3

LEMMA CycleOpened ==
    ASSUME BuilderState, TypeOK', Popped("StartVisit"),
           NEW n, n = Len(visit_stack), NEW v, v = Vertex(n), HeadDfn(v) = dfn[v],
           NEW k, k = LastIndexOf(stack, v), NEW above, above = {stack[i] : i \in k + 1 .. Len(stack)},
           dfn' = Forget(dfn, v, above, DFN_INF), head_dfn' = Forget(head_dfn, v, above, HeadDfn(v)),
           stack' = SubSeq(stack, 1, k - 1),
           parent' = Append(parent, visit_stack[n].containing_cycle),
           visit_stack' = EnqueueUnvisitedSuccs(dfn',
               Append(Pop(visit_stack), VisitTask("ContinueVisit", v, visit_stack[n].target_cycle, NumCycles + 1)),
               v, NumCycles + 1, NumCycles + 1),
           UNCHANGED <<children, num>>
    PROVE  StackInv' /\ TaskInv' /\ WaitingInv' /\ WhiteInv' /\ CycleInv'
<1> USE DEF BuilderState, BuilderInv
<1> DEFINE c == NumCycles + 1
           cc == visit_stack[n].containing_cycle
           q == visit_stack'
<1>1. /\ n \in Nat \ {0} /\ Tasks = 1 .. n /\ n \in Tasks /\ Type(n) = "StartVisit" /\ v \in Labels
      /\ Open(v) /\ Pending(v) /\ head_dfn[v] = 0 /\ Level(n) = dfn[v] /\ dfn[v] \in Nat
      /\ \A y, s \in Labels : (y = v \/ Holds(n, y)) /\ Edge(y, s) => ~ White(s)
      /\ \A x \in Labels : Open(x) => dfn[x] < dfn[v] \/ x = v \/ Holds(n, x)
      /\ \A w \in Labels : Holds(n, w) <=> Open(w) /\ dfn[w] > dfn[v]
  BY TopPending
<1>2. \A w \in Labels : Holds(n, w) => head_dfn[w] >= dfn[v]
  BY TopHead
<1>3. \A i \in 1 .. n - 1 :
          /\ Vertex(i) \in Labels
          /\ Begun(i) => /\ Vertex(i) # v /\ Level(i) \in Nat /\ Level(i) < dfn[v]
                         /\ Type(i) = "StartVisit" \/ Type(i) = "ContinueVisit"
  BY BelowTop
<1>4. /\ NumCycles \in Nat /\ cc \in 0 .. NumCycles /\ visit_stack[n].target_cycle = cc
      /\ parent'[c] = cc /\ \A i \in 1 .. NumCycles : parent'[i] = parent[i]
  <2>1. visit_stack[n] \in Task /\ visit_stack[n].target_cycle = cc
    BY <1>1, PoppedTask DEF TaskInv, TaskOK, Type
  <2>2. cc \in 0 .. NumCycles
    BY <2>1 DEF Task, TaskOf
  <2>3. parent \in Seq(0 .. NumCycles) /\ Len(parent) \in Nat
    BY DEF TypeOK
  <2>4. parent' = Append(parent, cc) /\ cc \in 0 .. NumCycles
    BY <2>2
  <2> HIDE DEF cc
  <2>5. parent'[Len(parent) + 1] = cc /\ \A i \in 1 .. Len(parent) : parent'[i] = parent[i]
    BY <2>3, <2>4
  <2> QED BY <2>1, <2>2, <2>3, <2>5, SMTT(60) DEF NumCycles
<1>5. /\ k \in DOMAIN stack /\ stack[k] = v /\ Len(stack) \in Nat /\ DOMAIN stack = 1 .. Len(stack)
      /\ \A m \in DOMAIN stack : stack[m] \in Labels /\ Open(stack[m]) /\ dfn[stack[m]] \in Nat
      /\ stack \in Seq(Labels)
  <2>1. stack \in Seq(Labels) /\ Len(stack) \in Nat /\ DOMAIN stack = 1 .. Len(stack)
    BY DEF TypeOK
  <2>2. \A m \in DOMAIN stack : stack[m] \in Labels /\ Open(stack[m]) /\ dfn[stack[m]] \in Nat
    BY <2>1, SMTT(60) DEF StackInv, TypeOK
  <2>3. PICK m \in DOMAIN stack : stack[m] = v
    BY <1>1 DEF StackInv
  <2>4. ASSUME NEW l \in DOMAIN stack, stack[l] = v
        PROVE  l = m
    <3>1. ~ (l < m) /\ ~ (m < l)
      BY <1>1, <2>3, <2>4 DEF StackInv
    <3> QED BY <2>1, <3>1
  <2>5. LastIndexOf(stack, v) = m
    BY <2>1, <2>3, <2>4, LastIndex, ZenonT(60)
  <2> QED BY <2>1, <2>2, <2>3, <2>5
<1>6. \A x : x \in above <=> x \in Labels /\ Holds(n, x)
  <2>1. ASSUME NEW x \in above
        PROVE  x \in Labels /\ Holds(n, x)
    <3>1. PICK m \in k + 1 .. Len(stack) : x = stack[m]
      BY <2>1
    <3>2. m \in DOMAIN stack /\ k < m
      BY <1>5, SMTT(60)
    <3>3. dfn[v] < dfn[x] /\ x \in Labels /\ Open(x) /\ dfn[x] \in Nat
      BY <1>5, <3>1, <3>2 DEF StackInv
    <3> QED BY <1>1, <3>3
  <2>2. ASSUME NEW x \in Labels, Holds(n, x)
        PROVE  x \in above
    <3>1. Open(x) /\ dfn[x] > dfn[v] /\ dfn[x] \in Nat
      BY <1>1, <2>2 DEF TypeOK
    <3>2. PICK m \in DOMAIN stack : stack[m] = x
      BY <3>1 DEF StackInv
    <3>3. ~ (m < k) /\ m # k
      <4>1. m < k => dfn[x] < dfn[v]
        BY <1>5, <3>2, SMTT(60) DEF StackInv
      <4> QED BY <1>1, <1>5, <3>1, <3>2, <4>1, SMTT(60)
    <3>4. m \in k + 1 .. Len(stack)
      BY <1>5, <3>3, SMTT(60)
    <3> QED BY <3>2, <3>4
  <2> QED BY <2>1, <2>2
<1>7. /\ dfn'[v] = DFN_INF /\ head_dfn'[v] = dfn[v]
      /\ \A x \in Labels : x # v /\ Holds(n, x) => dfn'[x] = 0 /\ head_dfn'[x] = 0
      /\ \A x \in Labels : x # v /\ ~ Holds(n, x) => dfn'[x] = dfn[x] /\ head_dfn'[x] = head_dfn[x]
      /\ \A x \in Labels : dfn[x] \in Nat /\ head_dfn[x] \in Nat
      /\ \A x, y : Edge(x, y)' <=> Edge(x, y)
      /\ ~ Holds(n, v)
  <2>1. \A x \in Labels : dfn'[x] = (IF x = v THEN DFN_INF ELSE IF x \in above THEN 0 ELSE dfn[x])
                       /\ head_dfn'[x] = (IF x = v THEN HeadDfn(v) ELSE IF x \in above THEN 0 ELSE head_dfn[x])
    BY DEF Forget
  <2>2. ~ Holds(n, v)
    BY <1>1
  <2> QED BY <1>1, <1>6, <2>1, <2>2, ZenonT(60) DEF TypeOK, Edge
<1>8. /\ Len(q) \in Nat /\ Len(q) >= n
      /\ Tasks' = 1 .. Len(q) /\ n \in Tasks'
      /\ \A i \in 1 .. n - 1 : /\ i \in Tasks /\ i \in Tasks' /\ i < n /\ q[i] = visit_stack[i]
                               /\ Type(i)' = Type(i) /\ Vertex(i)' = Vertex(i) /\ Vertex(i) \in Labels
                               /\ Begun(i)' <=> Begun(i)
      /\ Type(n)' = "ContinueVisit" /\ Vertex(n)' = v /\ Begun(n)'
      /\ q[n] = VisitTask("ContinueVisit", v, cc, c)
      /\ \A i \in Tasks' : i > n => /\ Type(i)' = "PushSuccessors" /\ ~ Begun(i)'
                                    /\ q[i].target_cycle = c /\ q[i].containing_cycle = c
                                    /\ Vertex(i)' \in Labels /\ White(Vertex(i))' /\ Edge(v, Vertex(i)')
      /\ \A s \in Labels : Edge(v, s) /\ White(s)' => \E i \in Tasks' : i > n /\ Vertex(i)' = s
  <2> DEFINE t == VisitTask("ContinueVisit", v, cc, c)
             C == 0 .. c
             number == dfn'
  <2>1. number \in [Labels -> Nat] /\ t \in TaskOf(C) /\ c \in C /\ 0 .. NumCycles \subseteq C /\ TypeOK
        /\ visit_stack # <<>> /\ t.vertex = v /\ t.type # "PushSuccessors" /\ number = dfn'
    <3>1. c \in C /\ cc \in C /\ 0 .. NumCycles \subseteq C
      BY <1>4, SMTT(60)
    <3>2. t \in TaskOf(C)
      BY <1>1, <3>1 DEF TaskType, TaskOf, VisitTask
    <3> QED BY <3>1, <3>2 DEF TypeOK, VisitTask, Popped
  <2>2. visit_stack' = EnqueueUnvisitedSuccs(number, Append(Pop(visit_stack), t), v, c, c)
    BY <1>4
  <2> HIDE DEF q, cc, c, t, C, number, BuilderState
  <2>3. TopReplacedBy(n, v, t, c)
    BY <2>1, <2>2, TopReplaced
  <2>4. t.type = "ContinueVisit"
    BY DEF t, VisitTask
  <2> QED BY <2>3, <2>4, ZenonT(60) DEF t, q, TopReplacedBy
<1> HIDE DEF q, cc, c
<1>9. \A x \in Labels : /\ Open(x)' <=> Open(x) /\ dfn[x] < dfn[v]
                        /\ White(x)' <=> White(x) \/ Holds(n, x)
                        /\ Open(x)' => x # v /\ dfn'[x] = dfn[x] /\ head_dfn'[x] = head_dfn[x] /\ MinDfn(x)' = MinDfn(x)
  <2> SUFFICES ASSUME NEW x \in Labels
               PROVE  /\ Open(x)' <=> Open(x) /\ dfn[x] < dfn[v]
                      /\ White(x)' <=> White(x) \/ Holds(n, x)
                      /\ Open(x)' => x # v /\ dfn'[x] = dfn[x] /\ head_dfn'[x] = head_dfn[x] /\ MinDfn(x)' = MinDfn(x)
    OBVIOUS
  <2>1. CASE x = v
    BY <1>1, <1>7, <2>1 DEF Open, White, DFN_INF
  <2>2. CASE Holds(n, x)
    <3>1. x # v /\ dfn'[x] = 0 /\ Open(x) /\ ~ (dfn[x] < dfn[v])
      BY <1>1, <1>7, <2>2, SMTT(60)
    <3> QED BY <2>2, <3>1 DEF Open, White
  <2>3. CASE x # v /\ ~ Holds(n, x)
    <3>1. dfn'[x] = dfn[x] /\ head_dfn'[x] = head_dfn[x]
      BY <1>7, <2>3
    <3>2. Open(x) => dfn[x] < dfn[v]
      BY <1>1, <2>3
    <3> QED BY <2>3, <3>1, <3>2 DEF Open, White, MinDfn
  <2> QED BY <2>1, <2>2, <2>3
<1>10. \A i \in 1 .. n - 1 : Begun(i) =>
          /\ Level(i)' = Level(i)
          /\ dfn'[Vertex(i)] = dfn[Vertex(i)] /\ head_dfn'[Vertex(i)] = head_dfn[Vertex(i)]
  <2> SUFFICES ASSUME NEW i \in 1 .. n - 1, Begun(i)
               PROVE  /\ Level(i)' = Level(i)
                      /\ dfn'[Vertex(i)] = dfn[Vertex(i)] /\ head_dfn'[Vertex(i)] = head_dfn[Vertex(i)]
    OBVIOUS
  <2>1. Vertex(i) # v /\ Vertex(i) \in Labels /\ ~ Holds(n, Vertex(i))
    <3>1. Vertex(i) # v /\ Vertex(i) \in Labels /\ Level(i) < dfn[v] /\ Level(i) \in Nat
      BY <1>3
    <3>2. CASE Type(i) = "StartVisit"
      BY <1>1, <3>1, <3>2 DEF Level
    <3>3. CASE Type(i) = "ContinueVisit"
      <4>1. i \in Tasks
        BY <1>8, SMTT(60)
      <4>2. dfn[Vertex(i)] = DFN_INF
        BY <3>3, <4>1, SMTT(60) DEF TaskInv, TaskOK, Type, Vertex
      <4> QED BY <1>1, <3>1, <4>2 DEF Open
    <3> QED BY <1>3, <3>2, <3>3
  <2>2. dfn'[Vertex(i)] = dfn[Vertex(i)] /\ head_dfn'[Vertex(i)] = head_dfn[Vertex(i)]
    BY <1>7, <2>1
  <2> QED BY <1>8, <2>2, SMTT(60) DEF Level
<1>11. Level(n)' = dfn[v]
  BY <1>7, <1>8 DEF Level
<1>12. ASSUME NEW x \in Labels
       PROVE  Pending(x)' <=> Pending(x) /\ x # v
  <2>1. ASSUME Pending(x)'
        PROVE  Pending(x) /\ x # v
    <3>1. PICK i \in Tasks' : Type(i)' = "StartVisit" /\ Vertex(i)' = x
      BY <2>1 DEF Pending
    <3>2. i # n /\ ~ (i > n)
      BY <1>8, <3>1, SMTT(60)
    <3>3. i \in 1 .. n - 1
      BY <1>1, <1>8, <3>2
    <3> QED BY <1>3, <1>8, <3>1, <3>3, ZenonT(60) DEF Pending, Begun
  <2>2. ASSUME Pending(x), x # v
        PROVE  Pending(x)'
    <3>1. PICK i \in Tasks : Type(i) = "StartVisit" /\ Vertex(i) = x
      BY <2>2 DEF Pending
    <3>2. i \in 1 .. n - 1
      BY <1>1, <2>2, <3>1
    <3> QED BY <1>8, <3>1, <3>2, ZenonT(60) DEF Pending
  <2> QED BY <2>1, <2>2
<1>13. \A x \in Labels :
          /\ Waiting(x)' <=> Waiting(x) /\ dfn[x] < dfn[v]
          /\ Waiting(x)' => x # v /\ dfn'[x] = dfn[x] /\ head_dfn'[x] = head_dfn[x]
  BY <1>9, <1>12 DEF Waiting
<1>14. ASSUME NEW i \in Tasks', NEW w \in Labels
       PROVE  Holds(i, w)' <=> i \in 1 .. n - 1 /\ Holds(i, w)
  <2>1. ASSUME Holds(i, w)'
        PROVE  i \in 1 .. n - 1 /\ Holds(i, w)
    <3>1. Type(i)' = "StartVisit" /\ Waiting(w) /\ Level(i)' < dfn[w] /\ dfn[w] < dfn[v] /\ dfn'[w] = dfn[w]
      BY <1>13, <2>1 DEF Holds
    <3>2. i # n /\ ~ (i > n)
      BY <1>8, <3>1
    <3>3. i \in 1 .. n - 1
      BY <1>1, <1>8, <3>2
    <3>4. Type(i) = "StartVisit" /\ Begun(i) /\ Level(i) < dfn[w]
      BY <1>8, <1>10, <3>1, <3>3 DEF Begun
    <3>5. ASSUME NEW j \in Tasks, j > i, Begun(j)
          PROVE  dfn[w] < Level(j)
      <4>1. CASE j = n
        BY <1>1, <3>1, <4>1
      <4>2. CASE j # n
        <5>1. j \in 1 .. n - 1
          BY <1>1, <4>2
        <5> QED BY <1>8, <1>10, <2>1, <3>1, <3>5, <5>1, ZenonT(60) DEF Holds
      <4> QED BY <4>1, <4>2
    <3> QED BY <3>1, <3>3, <3>4, <3>5 DEF Holds
  <2>2. ASSUME i \in 1 .. n - 1, Holds(i, w)
        PROVE  Holds(i, w)'
    <3>1. Type(i) = "StartVisit" /\ Waiting(w) /\ Level(i) < dfn[w] /\ Begun(i)
      BY <2>2 DEF Holds, Begun
    <3>2. dfn[w] < dfn[v]
      BY <1>1, <1>8, <2>2 DEF Holds, Begun
    <3>3. Type(i)' = "StartVisit" /\ Waiting(w)' /\ Level(i)' < dfn'[w] /\ dfn'[w] = dfn[w]
      BY <1>8, <1>10, <1>13, <2>2, <3>1, <3>2, ZenonT(60)
    <3>4. ASSUME NEW j \in Tasks', j > i, Begun(j)'
          PROVE  dfn'[w] < Level(j)'
      <4>1. CASE j \in 1 .. n - 1
        BY <1>8, <1>10, <2>2, <3>3, <3>4, <4>1, ZenonT(60) DEF Holds
      <4>2. CASE j = n
        BY <1>11, <3>2, <3>3, <4>2
      <4>3. CASE j > n
        BY <1>8, <3>4, <4>3
      <4> QED BY <1>1, <1>8, <4>1, <4>2, <4>3, SMTT(60)
    <3> QED BY <3>3, <3>4 DEF Holds
  <2> QED BY <2>1, <2>2
<1>15. StackInv'
  <2>1. /\ DOMAIN stack' = 1 .. k - 1
        /\ \A m \in DOMAIN stack' : stack'[m] = stack[m] /\ m \in DOMAIN stack /\ m < k /\ m \in Nat
    <3>1. k - 1 \in Nat /\ k - 1 <= Len(stack) /\ k \in Nat
      BY <1>5, SMTT(60)
    <3>2. SubSeq(stack, 1, k - 1) = [m \in 1 .. k - 1 |-> stack[m]]
      BY <1>5, <3>1, SMTT(60)
    <3> QED BY <1>5, <3>1, <3>2, SMTT(60)
  <2>2. \A m \in DOMAIN stack' : /\ stack[m] \in Labels /\ Open(stack[m])'
                                 /\ dfn'[stack'[m]] = dfn[stack[m]]
    <3> SUFFICES ASSUME NEW m \in DOMAIN stack'
                 PROVE  stack[m] \in Labels /\ Open(stack[m])' /\ dfn'[stack'[m]] = dfn[stack[m]]
      OBVIOUS
    <3>1. m \in DOMAIN stack /\ m < k /\ stack'[m] = stack[m]
      BY <2>1
    <3>2. dfn[stack[m]] < dfn[v] /\ stack[m] \in Labels /\ Open(stack[m])
      BY <1>5, <3>1, SMTT(60) DEF StackInv
    <3>3. PICK x \in Labels : x = stack[m]
      BY <3>2
    <3>4. Open(x)' /\ dfn'[x] = dfn[x]
      BY <1>9, <3>2, <3>3, SMTT(60)
    <3>5. x = stack'[m]
      BY <3>1, <3>3
    <3>6. Open(stack[m])'
      BY <3>4, <3>5, <3>1 DEF Open
    <3> QED BY <3>1, <3>2, <3>3, <3>4, <3>6
  <2>3. \A x \in Labels : Open(x)' <=> \E m \in DOMAIN stack' : stack'[m] = x
    <3>1. ASSUME NEW x \in Labels, Open(x)'
          PROVE  \E m \in DOMAIN stack' : stack'[m] = x
      <4>1. Open(x) /\ dfn[x] < dfn[v] /\ dfn[x] \in Nat
        BY <1>7, <1>9, <3>1, SMTT(60)
      <4>2. PICK m \in DOMAIN stack : stack[m] = x
        BY <4>1 DEF StackInv
      <4>3. ~ (k < m) /\ m # k
        <5>1. k < m => dfn[v] < dfn[x]
          BY <1>5, <4>2, SMTT(60) DEF StackInv
        <5> QED BY <1>1, <1>5, <4>1, <4>2, <5>1, SMTT(60)
      <4>4. m \in 1 .. k - 1
        BY <1>5, <4>3, SMTT(60)
      <4> QED BY <2>1, <4>2, <4>4
    <3>2. ASSUME NEW x \in Labels, NEW m \in DOMAIN stack', stack'[m] = x
          PROVE  Open(x)'
      <4>1. /\ Open(stack[m])' /\ stack'[m] = stack[m] /\ stack[m] \in Labels
            /\ dfn'[stack'[m]] = dfn[stack[m]] /\ m \in DOMAIN stack
        BY <2>1, <2>2, ZenonT(60)
      <4>2. Open(x)
        BY <1>5, <3>2, <4>1
      <4> QED BY <3>2, <4>1, <4>2 DEF Open
    <3> QED BY <3>1, <3>2
  <2>4. \A m, l \in DOMAIN stack' : m < l => dfn'[stack'[m]] < dfn'[stack'[l]]
    <3> SUFFICES ASSUME NEW m \in DOMAIN stack', NEW l \in DOMAIN stack', m < l
                 PROVE  dfn'[stack'[m]] < dfn'[stack'[l]]
      OBVIOUS
    <3>1. m \in DOMAIN stack /\ l \in DOMAIN stack
      BY <2>1
    <3>2. dfn[stack[m]] < dfn[stack[l]]
      BY <3>1 DEF StackInv
    <3> QED BY <2>2, <3>2, ZenonT(60)
  <2>5. \A x \in Labels : Open(x)' => dfn'[x] <= num'
    BY <1>9, SMTT(60) DEF StackInv
  <2>6. \A x \in Labels : White(x)' => head_dfn'[x] = 0
    BY <1>1, <1>7, <1>9, SMTT(60) DEF StackInv, White, Open
  <2> QED BY <2>3, <2>4, <2>5, <2>6 DEF StackInv
<1>16. TaskInv'
  <2>1. ASSUME NEW i \in Tasks'
        PROVE  TaskOK(visit_stack[i])'
    <3>1. CASE i \in 1 .. n - 1
      <4>1. q[i] = visit_stack[i] /\ TaskOK(visit_stack[i]) /\ visit_stack[i].vertex \in Labels
        BY <1>3, <1>8, <3>1, ZenonT(60) DEF TaskInv, Vertex
      <4> DEFINE t == visit_stack[i]
      <4>2. t.type = "StartVisit" => dfn'[t.vertex] # 0 /\ dfn'[t.vertex] # DFN_INF /\ head_dfn'[t.vertex] = 0
        BY <1>10, <3>1, <4>1, SMTT(60) DEF TaskOK, Open, Begun, Type, Vertex
      <4>3. t.type = "ContinueVisit" => /\ dfn'[t.vertex] = DFN_INF /\ head_dfn'[t.vertex] \in 1 .. num'
                                        /\ t.target_cycle < t.containing_cycle
                                        /\ parent'[t.containing_cycle] = t.target_cycle
        <5> SUFFICES ASSUME t.type = "ContinueVisit"
                     PROVE  /\ dfn'[t.vertex] = DFN_INF /\ head_dfn'[t.vertex] \in 1 .. num'
                            /\ t.target_cycle < t.containing_cycle
                            /\ parent'[t.containing_cycle] = t.target_cycle
          OBVIOUS
        <5>1. /\ dfn[t.vertex] = DFN_INF /\ head_dfn[t.vertex] \in 1 .. num
              /\ t.target_cycle < t.containing_cycle
              /\ parent[t.containing_cycle] = t.target_cycle
          BY <4>1 DEF TaskOK
        <5>2. dfn'[t.vertex] = dfn[t.vertex] /\ head_dfn'[t.vertex] = head_dfn[t.vertex]
          BY <1>10, <3>1, SMTT(60) DEF Begun, Type, Vertex
        <5>3. t.target_cycle \in 0 .. NumCycles /\ t.containing_cycle \in 0 .. NumCycles
          <6>1. visit_stack \in Seq(Task) /\ i \in DOMAIN visit_stack
            BY <1>8, <3>1, SMTT(60) DEF TypeOK, Task, TaskOf, Tasks
          <6>2. visit_stack[i] \in Task
            BY <6>1
          <6> QED BY <6>2 DEF Task, TaskOf
        <5>4. t.containing_cycle \in 1 .. NumCycles
          BY <1>4, <5>1, <5>3, SMTT(60)
        <5>5. dfn'[t.vertex] = DFN_INF /\ head_dfn'[t.vertex] \in 1 .. num'
          BY <5>1, <5>2
        <5>6. parent'[t.containing_cycle] = t.target_cycle
          BY <1>4, <5>1, <5>4
        <5> QED BY <5>1, <5>5, <5>6, SMTT(60)
      <4>4. t.type # "ContinueVisit" => t.target_cycle = t.containing_cycle
        BY <4>1, ZenonT(60) DEF TaskOK
      <4> QED BY <4>1, <4>2, <4>3, <4>4, ZenonT(60) DEF TaskOK, q, Open
    <3>2. CASE i = n
      <4>1. /\ q[i].type = "ContinueVisit" /\ q[i].vertex = v
            /\ q[i].target_cycle = cc /\ q[i].containing_cycle = c
        BY <1>8, <3>2, SMTT(60) DEF VisitTask
      <4>2. dfn'[v] = DFN_INF /\ head_dfn'[v] \in 1 .. num'
        <5>1. dfn[v] # 0 /\ dfn[v] <= num /\ num \in Nat /\ num' = num
          BY <1>1 DEF StackInv, Open, TypeOK
        <5> QED BY <1>1, <1>7, <5>1
      <4>3. cc < c /\ parent'[c] = cc
        BY <1>4 DEF c
      <4>4. /\ dfn'[q[i].vertex] = DFN_INF /\ head_dfn'[q[i].vertex] \in 1 .. num'
            /\ q[i].target_cycle < q[i].containing_cycle
            /\ parent'[q[i].containing_cycle] = q[i].target_cycle
        BY <4>1, <4>2, <4>3, SMTT(60)
      <4> QED BY <4>1, <4>4, ZenonT(60) DEF TaskOK, q
    <3>3. CASE i > n
      <4>1. Type(i)' = "PushSuccessors" /\ q[i].target_cycle = c /\ q[i].containing_cycle = c
        BY <1>8, <3>3
      <4> QED BY <4>1 DEF TaskOK, Type, q
    <3> QED BY <1>1, <1>8, <3>1, <3>2, <3>3
  <2>2. ASSUME NEW i \in Tasks', NEW j \in Tasks', i < j, Begun(i)', Begun(j)'
        PROVE  Level(i)' < Level(j)'
    <3>1. ~ (j > n) /\ i \in 1 .. n - 1
      <4>1. ~ (j > n)
        BY <1>8, <2>2
      <4> QED BY <1>1, <1>8, <2>2, <4>1
    <3>2. Begun(i) /\ Level(i)' = Level(i) /\ Level(i) < dfn[v] /\ i \in Tasks
      <4>1. Begun(i) /\ i \in Tasks
        BY <1>8, <2>2, <3>1
      <4> QED BY <1>3, <1>10, <3>1, <4>1
    <3>3. CASE j = n
      BY <1>11, <3>2, <3>3
    <3>4. CASE j # n
      <4>1. j \in 1 .. n - 1
        <5>1. j \in 1 .. Len(q)
          BY <1>8
        <5> QED BY <1>1, <1>8, <3>1, <3>4, <5>1
      <4>2. Begun(j) /\ j \in Tasks
        BY <1>8, <2>2, <4>1
      <4>3. Level(j)' = Level(j)
        BY <1>10, <4>1, <4>2
      <4>4. Level(i) < Level(j)
        BY <2>2, <3>2, <4>2 DEF TaskInv
      <4> QED BY <3>2, <4>3, <4>4, SMTT(60)
    <3> QED BY <3>3, <3>4
  <2>3. ASSUME NEW i \in Tasks', NEW j \in Tasks', i < j, Begun(i)',
               \A m \in Tasks' : i < m /\ m < j => ~ Begun(m)'
        PROVE  Edge(Vertex(i), Vertex(j))'
    <3>1. CASE j > n
      <4>1. ~ (i > n) /\ ~ (i < n)
        BY <1>8, <2>3, <3>1
      <4>2. i = n
        BY <1>1, <1>8, <4>1
      <4>3. Edge(v, Vertex(j)')
        BY <1>8, <3>1
      <4> QED BY <1>8, <4>2, <4>3, SMTT(60) DEF Edge
    <3>2. CASE ~ (j > n)
      <4>1. i \in 1 .. n - 1 /\ i \in Tasks /\ j \in Tasks
        <5>1. i \in Nat /\ j \in Nat /\ 1 <= i /\ i < j /\ j <= n
          BY <1>1, <1>8, <2>3, <3>2
        <5> QED BY <1>1, <5>1
      <4>2. \A m \in Tasks : i < m /\ m < j => ~ Begun(m)
        <5> SUFFICES ASSUME NEW m \in Tasks, i < m, m < j PROVE ~ Begun(m)
          OBVIOUS
        <5>1. m \in 1 .. n - 1
          BY <1>1, <3>2, <4>1
        <5> QED BY <1>8, <2>3, <5>1, SMTT(60)
      <4>3. Edge(Vertex(i), Vertex(j))
        BY <1>8, <2>3, <4>1, <4>2, SMTT(60) DEF TaskInv
      <4>4. Vertex(i)' = Vertex(i) /\ Vertex(j)' = Vertex(j)
        BY <1>1, <1>8, <3>2, <4>1, SMTT(60)
      <4> QED BY <4>3, <4>4 DEF Edge
    <3> QED BY <3>1, <3>2
  <2> QED BY <2>1, <2>2, <2>3 DEF TaskInv
<1>17. WaitingInv'
  <2>1. ASSUME NEW w \in Labels, Waiting(w)'
        PROVE  /\ head_dfn'[w] # 0 /\ head_dfn'[w] < dfn'[w]
               /\ \E x \in Labels : Open(x)' /\ dfn'[x] = head_dfn'[w]
               /\ \E i \in Tasks' : Holds(i, w)'
               /\ \A s \in Labels : Edge(w, s)' /\ Open(s)' => head_dfn'[w] <= dfn'[s]
    <3>1. Waiting(w) /\ dfn[w] < dfn[v] /\ dfn'[w] = dfn[w] /\ head_dfn'[w] = head_dfn[w]
      BY <1>13, <2>1
    <3>2. head_dfn[w] # 0 /\ head_dfn[w] < dfn[w] /\ head_dfn[w] \in Nat /\ dfn[w] \in Nat
      BY <1>7, <3>1 DEF WaitingInv
    <3>3. PICK x \in Labels : Open(x) /\ dfn[x] = head_dfn[w]
      BY <3>1 DEF WaitingInv
    <3>4. Open(x)' /\ dfn'[x] = head_dfn'[w]
      BY <1>1, <1>9, <3>1, <3>2, <3>3, SMTT(60)
    <3>5. PICK i \in Tasks : Holds(i, w)
      BY <3>1 DEF WaitingInv
    <3>6. i \in 1 .. n - 1
      BY <1>1, <3>1, <3>2, <3>5
    <3>7. \E m \in Tasks' : Holds(m, w)'
      BY <1>8, <1>14, <3>5, <3>6
    <3>8. \A s \in Labels : Edge(w, s) /\ Open(s) => head_dfn[w] <= dfn[s]
      BY <3>1 DEF WaitingInv
    <3> QED BY <1>7, <1>9, <3>1, <3>2, <3>4, <3>7, <3>8, ZenonT(60)
  <2>2. ASSUME NEW i \in Tasks', NEW w \in Labels, Holds(i, w)'
        PROVE  \E s \in Labels : Edge(Vertex(i), s)' /\ Open(s)' /\ MinDfn(s)' <= head_dfn'[w]
    <3>1. i \in 1 .. n - 1 /\ Holds(i, w)
      BY <1>14, <2>2
    <3>2. PICK s \in Labels : Edge(Vertex(i), s) /\ Open(s) /\ MinDfn(s) <= head_dfn[w]
      BY <1>8, <3>1, SMTT(60) DEF WaitingInv
    <3>3. Waiting(w)' /\ Waiting(w) /\ dfn[w] < dfn[v] /\ head_dfn'[w] = head_dfn[w] /\ head_dfn[w] < dfn[w]
      BY <1>13, <2>2, SMTT(60) DEF Holds, WaitingInv
    <3>4. MinDfn(s) < dfn[v]
      BY <1>1, <1>7, <3>2, <3>3, MinDfnType, SMTT(60)
    <3>5. dfn[s] < dfn[v]
      <4>1. MinDfn(v) = dfn[v]
        BY <1>1, OpenMinDfn
      <4>2. Holds(n, s) => MinDfn(s) = head_dfn[s] /\ head_dfn[s] >= dfn[v]
        BY <1>2, <3>2, OpenMinDfn DEF Holds
      <4> QED BY <1>1, <1>7, <3>2, <3>4, <4>1, <4>2
    <3>6. Edge(Vertex(i), s)'
      BY <1>8, <3>1, <3>2, SMTT(60) DEF Edge
    <3> QED BY <1>9, <3>2, <3>3, <3>5, <3>6
  <2>3. ASSUME NEW i \in Tasks', NEW X \in SUBSET Labels, HoldsWithin(i, X)', NEW w \in Labels, Holds(i, w)'
        PROVE  w \in X
    <3>1. i \in 1 .. n - 1 /\ Holds(i, w) /\ i \in Tasks
      BY <1>8, <1>14, <2>3
    <3>2. \A s : Edge(Vertex(i), s) => Edge(Vertex(i), s)'
      BY <1>8, <3>1, SMTT(60) DEF Edge
    <3>3. HoldsWithin(i, X)
      BY <1>7, <1>14, <2>3, <3>1, <3>2 DEF HoldsWithin
    <3> QED BY <3>1, <3>3 DEF WaitingInv
  <2> QED BY <2>1, <2>2, <2>3 DEF WaitingInv
<1>18. WhiteInv'
  <2> SUFFICES ASSUME NEW i \in Tasks', NEW X \in SUBSET Labels, Begun(i)', Covers(X, i)',
                      NEW y \in Labels, NEW s \in Labels, (y = Vertex(i) \/ Holds(i, y))',
                      Edge(y, s)', White(s)'
               PROVE  s \in X
    BY DEF WhiteInv
  <2>1. ~ (i > n)
    BY <1>8
  <2>2. CASE i = n
    <3>1. y = v
      BY <1>1, <1>8, <1>14, <2>2
    <3>2. PICK j \in Tasks' : j > n /\ Vertex(j)' = s
      BY <1>7, <1>8, <3>1
    <3>3. ~ Begun(j)' /\ White(Vertex(j))'
      BY <1>8, <3>2
    <3> QED BY <2>2, <3>2, <3>3 DEF Covers
  <2>3. CASE i # n
    <3>1. i \in 1 .. n - 1 /\ i \in Tasks /\ Begun(i) /\ n > i
      <4>1. i \in 1 .. n - 1
        BY <1>1, <1>8, <2>1, <2>3
      <4> QED BY <1>8, <4>1, SMTT(60)
    <3>2. \A x \in X, z \in Labels : White(x)' /\ White(z)' /\ Edge(x, z) => z \in X
      BY <1>7 DEF Covers
    <3>3. \A w \in Labels : Holds(n, w) => w \in X
      <4>1. \A z \in Labels : White(z)' /\ Edge(v, z) => z \in X
        <5> SUFFICES ASSUME NEW z \in Labels, White(z)', Edge(v, z) PROVE z \in X
          OBVIOUS
        <5>1. Edge(Vertex(n), z)'
          BY <1>7, <1>8 DEF Edge
        <5> QED BY <1>8, <3>1, <5>1 DEF Covers
      <4>2. HoldsWithin(n, X)
        BY <1>1, <1>9, <3>2, <4>1 DEF HoldsWithin
      <4> QED BY <1>1, <4>2 DEF WaitingInv
    <3>4. CASE Holds(n, s)
      BY <3>3, <3>4
    <3>5. CASE White(s)
      <4>1. ASSUME NEW j \in Tasks, j > i
            PROVE  /\ ~ Begun(j) /\ White(Vertex(j)) => Vertex(j) \in X
                   /\ Begun(j) => \A z \in Labels : White(z) /\ Edge(Vertex(j), z) => z \in X
        <5>1. CASE j = n
          BY <1>1, <5>1 DEF Begun
        <5>2. CASE j # n
          <6>1. j \in 1 .. n - 1 /\ j \in Tasks'
            <7>1. j \in 1 .. n - 1
              BY <1>1, <5>2
            <7> QED BY <1>8, <7>1
          <6>2. /\ Begun(j)' <=> Begun(j)
                /\ Vertex(j)' = Vertex(j) /\ Vertex(j) \in Labels
            BY <1>8, <6>1
          <6>3. White(Vertex(j)) => White(Vertex(j))'
            <7> SUFFICES ASSUME White(Vertex(j)) PROVE White(Vertex(j))'
              OBVIOUS
            <7>1. PICK x \in Labels : x = Vertex(j)
              BY <6>2
            <7>2. White(x)' /\ x = Vertex(j)'
              BY <1>9, <6>2, <7>1
            <7> QED BY <7>2 DEF White
          <6>4. ~ Begun(j) /\ White(Vertex(j)) => Vertex(j) \in X
            BY <4>1, <6>1, <6>2, <6>3 DEF Covers
          <6>5. ASSUME Begun(j), NEW z \in Labels, White(z), Edge(Vertex(j), z)
                PROVE  z \in X
            <7>1. White(z)' /\ Edge(Vertex(j), z)'
              BY <1>9, <6>2, <6>5, ZenonT(60) DEF Edge
            <7> QED BY <4>1, <6>1, <6>2, <6>5, <7>1 DEF Covers
          <6> QED BY <6>4, <6>5
        <5> QED BY <5>1, <5>2
      <4>2. \A x \in X, z \in Labels : White(x) /\ White(z) /\ Edge(x, z) => z \in X
        BY <1>9, <3>2
      <4>3. Covers(X, i)
        BY <4>1, <4>2 DEF Covers
      <4>4. y = Vertex(i) \/ Holds(i, y)
        BY <1>8, <1>14, <3>1
      <4> QED BY <1>7, <3>1, <3>5, <4>3, <4>4 DEF WhiteInv
    <3> QED BY <1>9, <3>4, <3>5
  <2> QED BY <2>2, <2>3
<1>19. CycleInv'
  <2> SUFFICES ASSUME NEW i \in Tasks', Type(i)' = "ContinueVisit"
               PROVE  \E M \in SUBSET Labels : Members(i, M)'
    BY DEF CycleInv
  <2>1. ~ (i > n)
    BY <1>8
  <2>2. CASE i # n
    <3>1. i \in 1 .. n - 1 /\ i \in Tasks /\ Type(i) = "ContinueVisit" /\ Begun(i) /\ n > i
      <4>1. i \in 1 .. n - 1
        BY <1>1, <1>8, <2>1, <2>2
      <4> QED BY <1>8, <4>1 DEF Begun
    <3>2. PICK M \in SUBSET Labels : Members(i, M)
      BY <3>1 DEF CycleInv
    <3>3. Level(i)' = Level(i)
      BY <1>10, <3>1
    <3>4. v \in M
      BY <1>1, <3>1, <3>2 DEF Members
    <3>5. \A x \in M, z \in Labels : Edge(x, z) => z \in M \/ dfn[z] = DFN_INF
      BY <3>2, SMTT(60) DEF Members
    <3>6. ASSUME NEW j \in Tasks', j > i
          PROVE  Vertex(j)' \in M
      <4>1. CASE j > n
        <5>1. PICK z \in Labels : z = Vertex(j)' /\ White(Vertex(j))' /\ Edge(v, z)
          BY <1>8, <4>1
        <5>2. White(z)'
          BY <5>1 DEF White
        <5>3. dfn[z] # DFN_INF
          BY <1>1, <1>9, <5>2 DEF White, Open, DFN_INF
        <5> QED BY <3>4, <3>5, <5>1, <5>3, SMTT(60)
      <4>2. CASE j = n
        BY <1>8, <3>4, <4>2
      <4>3. CASE j < n
        <5>1. j \in 1 .. n - 1
          BY <1>1, <1>8, <4>3
        <5> QED BY <1>8, <3>2, <3>6, <5>1 DEF Members
      <4> QED BY <1>1, <1>8, <4>1, <4>2, <4>3, SMTT(60)
    <3>7. \A x \in Labels : Open(x)' => (x \in M <=> dfn'[x] > Level(i)')
      BY <1>9, <3>2, <3>3 DEF Members
    <3>8. ASSUME NEW x \in M, NEW z \in Labels, Edge(x, z)'
          PROVE  z \in M \/ dfn'[z] = DFN_INF
      <4>1. z \in M \/ dfn[z] = DFN_INF
        BY <1>7, <3>5, <3>8
      <4>2. dfn[z] = DFN_INF => ~ Holds(n, z)
        BY <1>1 DEF Open
      <4> QED BY <1>7, <4>1, <4>2, SMTT(60)
    <3>9. \A w \in M : Waiting(w)' => head_dfn'[w] > Level(i)'
      BY <1>13, <3>2, <3>3 DEF Members
    <3>10. Members(i, M)'
      BY <3>6, <3>7, <3>8, <3>9 DEF Members
    <3> QED BY <3>10
  <2>3. CASE i = n
    <3>0. PICK M \in SUBSET Labels : M = {x \in Labels : Holds(n, x)}
      OBVIOUS
    <3>1. ASSUME NEW j \in Tasks', j > i
          PROVE  Vertex(j)' \in M
      <4>1. PICK z \in Labels : z = Vertex(j)' /\ White(Vertex(j))' /\ Edge(v, z)
        BY <1>8, <2>3, <3>1
      <4>2. White(z)'
        BY <4>1 DEF White
      <4> QED BY <1>1, <1>9, <3>0, <4>1, <4>2
    <3>2. \A x \in Labels : Open(x)' => x \notin M /\ ~ (dfn'[x] > Level(i)')
      BY <1>1, <1>7, <1>9, <1>11, <2>3, <3>0, SMTT(60)
    <3>3. ASSUME NEW x \in M, NEW z \in Labels, Edge(x, z)'
          PROVE  z \in M \/ dfn'[z] = DFN_INF
      <4>1. Holds(n, x) /\ Edge(x, z) /\ ~ White(z) /\ Waiting(x)
        BY <1>1, <1>7, <3>0, <3>3 DEF Holds
      <4>2. CASE Open(z)
        <5>1. head_dfn[x] <= dfn[z] /\ head_dfn[x] >= dfn[v]
          BY <1>2, <4>1, <4>2 DEF WaitingInv
        <5>2. ~ (dfn[z] < dfn[v])
          BY <1>1, <1>7, <5>1
        <5> QED BY <1>1, <1>7, <3>0, <4>2, <5>2
      <4>3. CASE dfn[z] = DFN_INF
        <5>1. ~ Holds(n, z)
          BY <1>1, <4>3 DEF Open
        <5> QED BY <1>7, <4>3, <5>1
      <4> QED BY <4>1, <4>2, <4>3 DEF Open, White
    <3>4. \A w \in M : ~ Waiting(w)'
      <4> SUFFICES ASSUME NEW w \in M, Waiting(w)' PROVE FALSE
        OBVIOUS
      <4>1. w \in Labels /\ Holds(n, w)
        BY <3>0, SMTT(60)
      <4>2. dfn[w] > dfn[v] /\ dfn[w] < dfn[v] /\ dfn[w] \in Nat
        BY <1>1, <1>7, <1>13, <4>1
      <4> QED BY <1>1, <4>2
    <3>5. Members(i, M)'
      BY <3>1, <3>2, <3>3, <3>4 DEF Members
    <3> QED BY <3>5
  <2> QED BY <2>2, <2>3
<1> QED BY <1>15, <1>16, <1>17, <1>18, <1>19

-----------------------------------------------------------------------------
(***************************************************************************)
(* The partitions: a component is appended to one, or an empty one opened. *)
(***************************************************************************)
LEMMA PartType ==
    ASSUME TypeOK
    PROVE  /\ NumCycles \in Nat /\ DOMAIN part = 0 .. NumCycles
           /\ \A i \in 0 .. NumCycles : /\ part[i] \in Seq(Component) /\ Len(part[i]) \in Nat
                                        /\ DOMAIN part[i] = 1 .. Len(part[i])
<1>1. parent \in Seq(0 .. NumCycles) /\ part \in [0 .. NumCycles -> Seq(Component)]
  BY DEF TypeOK
<1>2. NumCycles \in Nat
  BY <1>1 DEF NumCycles
<1> QED BY <1>1, <1>2

LEMMA Appended ==
    ASSUME NEW S, NEW s \in Seq(S), NEW e \in S, NEW q, q = Append(s, e)
    PROVE  /\ q \in Seq(S)
           /\ \A i \in DOMAIN q : (i \in DOMAIN s /\ q[i] = s[i]) \/ q[i] = e
<1>1. q \in Seq(S) /\ Len(q) = Len(s) + 1 /\ Len(s) \in Nat /\ q[Len(s) + 1] = e
      /\ \A i \in 1 .. Len(s) : q[i] = s[i]
  OBVIOUS
<1>2. DOMAIN q = 1 .. Len(s) + 1 /\ DOMAIN s = 1 .. Len(s)
  BY <1>1
<1> QED BY <1>1, <1>2

LEMMA LabelListed ==
    ASSUME TypeOK, ChildCycleAfterParent, NEW p \in 0 .. NumCycles, NEW v \in Labels,
           part' = [part EXCEPT ![p] = Append(@, LabelComp(v))], parent' = parent
    PROVE  /\ part' \in [0 .. NumCycles -> Seq(Component)]
           /\ ChildCycleAfterParent'
<1>1. LabelComp(v) \in Component /\ LabelComp(v).kind = "label"
  BY DEF LabelComp, Component
<1>2. \A i \in 0 .. NumCycles : part[i] \in Seq(Component)
  BY PartType
<1>3. part'[p] \in Seq(Component)
      /\ \A i \in DOMAIN part'[p] : (i \in DOMAIN part[p] /\ part'[p][i] = part[p][i]) \/ part'[p][i] = LabelComp(v)
  <2>1. part'[p] = Append(part[p], LabelComp(v))
    BY DEF TypeOK
  <2> QED BY <1>1, <1>2, <2>1, Appended
<1>4. \A j \in 0 .. NumCycles : j # p => part'[j] = part[j]
  BY DEF TypeOK
<1>5. part' \in [0 .. NumCycles -> Seq(Component)]
  BY <1>2, <1>3, <1>4 DEF TypeOK
<1>6. NumCycles' = NumCycles
  BY DEF NumCycles
<1>7. ASSUME NEW j \in 0 .. NumCycles, NEW i \in DOMAIN part'[j], part'[j][i].kind = "cycle"
      PROVE  /\ part'[j][i].idx > j /\ part'[j][i].idx <= NumCycles
             /\ parent[part'[j][i].idx] = j
  <2>1. i \in DOMAIN part[j] /\ part'[j][i] = part[j][i]
    BY <1>1, <1>3, <1>4, <1>7
  <2> QED BY <1>7, <2>1 DEF ChildCycleAfterParent
<1>8. ChildCycleAfterParent'
  BY <1>6, <1>7 DEF ChildCycleAfterParent
<1> QED BY <1>5, <1>8

LEMMA CycleListed ==
    ASSUME TypeOK, ChildCycleAfterParent, NEW p \in 0 .. NumCycles, NEW c \in 0 .. NumCycles,
           p < c, parent[c] = p, NEW v \in Labels,
           part' = [part EXCEPT ![c] = Append(@, LabelComp(v)), ![p] = Append(@, CycleComp(c))],
           parent' = parent
    PROVE  /\ part' \in [0 .. NumCycles -> Seq(Component)]
           /\ ChildCycleAfterParent'
<1>1. /\ LabelComp(v) \in Component /\ LabelComp(v).kind = "label"
      /\ CycleComp(c) \in Component /\ CycleComp(c).idx = c
  <2>1. c \in Nat
    BY PartType
  <2> QED BY <2>1 DEF LabelComp, CycleComp, Component
<1>2. \A i \in 0 .. NumCycles : part[i] \in Seq(Component)
  BY PartType
<1>3. p # c /\ \A j \in 0 .. NumCycles : j # p /\ j # c => part'[j] = part[j]
  BY PartType DEF TypeOK
<1>4. part'[c] \in Seq(Component)
      /\ \A i \in DOMAIN part'[c] : (i \in DOMAIN part[c] /\ part'[c][i] = part[c][i]) \/ part'[c][i] = LabelComp(v)
  <2> DEFINE s == part[c]
             e == LabelComp(v)
             q == part'[c]
  <2>1. q = Append(s, e)
    BY <1>3 DEF TypeOK
  <2>2. s \in Seq(Component) /\ e \in Component
    BY <1>1, <1>2
  <2> HIDE DEF s, e, q
  <2>3. q \in Seq(Component) /\ \A i \in DOMAIN q : (i \in DOMAIN s /\ q[i] = s[i]) \/ q[i] = e
    BY <2>1, <2>2, Appended
  <2> QED BY <2>3 DEF s, e, q
<1>5. part'[p] \in Seq(Component)
      /\ \A i \in DOMAIN part'[p] : (i \in DOMAIN part[p] /\ part'[p][i] = part[p][i]) \/ part'[p][i] = CycleComp(c)
  <2> DEFINE s == part[p]
             e == CycleComp(c)
             q == part'[p]
  <2>1. q = Append(s, e)
    BY <1>3 DEF TypeOK
  <2>2. s \in Seq(Component) /\ e \in Component
    BY <1>1, <1>2
  <2> HIDE DEF s, e, q
  <2>3. q \in Seq(Component) /\ \A i \in DOMAIN q : (i \in DOMAIN s /\ q[i] = s[i]) \/ q[i] = e
    BY <2>1, <2>2, Appended
  <2> QED BY <2>3 DEF s, e, q
<1>6. part' \in [0 .. NumCycles -> Seq(Component)]
  <2>1. part' = [j \in 0 .. NumCycles |-> part'[j]]
    BY DEF TypeOK
  <2>2. \A j \in 0 .. NumCycles : part'[j] \in Seq(Component)
    BY <1>2, <1>3, <1>4, <1>5
  <2> QED BY <2>1, <2>2
<1>7. NumCycles' = NumCycles
  BY DEF NumCycles
<1>8. ASSUME NEW j \in 0 .. NumCycles, NEW i \in DOMAIN part'[j], part'[j][i].kind = "cycle"
      PROVE  /\ part'[j][i].idx > j /\ part'[j][i].idx <= NumCycles
             /\ parent[part'[j][i].idx] = j
  <2>1. \/ i \in DOMAIN part[j] /\ part'[j][i] = part[j][i]
        \/ j = p /\ part'[j][i] = CycleComp(c)
    <3>1. CASE j = c
      BY <1>1, <1>4, <1>8, <3>1
    <3>2. CASE j = p
      BY <1>5, <1>8, <3>2
    <3>3. CASE j # c /\ j # p
      BY <1>3, <1>8, <3>3
    <3> QED BY <3>1, <3>2, <3>3
  <2>2. CASE j = p /\ part'[j][i] = CycleComp(c)
    BY <1>1, <2>2, PartType, SMTT(60)
  <2> QED BY <1>8, <2>1, <2>2 DEF ChildCycleAfterParent
<1>9. ChildCycleAfterParent'
  <2> SUFFICES ASSUME NEW j \in 0 .. NumCycles', NEW i \in DOMAIN part'[j], part'[j][i].kind = "cycle"
               PROVE  /\ part'[j][i].idx > j /\ part'[j][i].idx <= NumCycles'
                      /\ parent'[part'[j][i].idx] = j
    BY DEF ChildCycleAfterParent
  <2>1. j \in 0 .. NumCycles
    BY <1>7
  <2>2. /\ part'[j][i].idx > j /\ part'[j][i].idx <= NumCycles
        /\ parent[part'[j][i].idx] = j
    BY <1>8, <2>1, Zenon
  <2> QED BY <1>7, <2>2, Zenon
<1> QED BY <1>6, <1>9

LEMMA PartitionOpened ==
    ASSUME TypeOK, ChildCycleAfterParent, NEW c, c = NumCycles + 1, NEW p \in 0 .. NumCycles,
           part' = [i \in 0 .. c |-> IF i = c THEN <<>> ELSE part[i]], parent' = Append(parent, p)
    PROVE  /\ c \in Nat /\ NumCycles' = c /\ 0 .. NumCycles \subseteq 0 .. c
           /\ parent' \in Seq(0 .. c) /\ part' \in [0 .. c -> Seq(Component)]
           /\ ChildCycleAfterParent'
<1>1. NumCycles \in Nat /\ \A i \in 0 .. NumCycles : part[i] \in Seq(Component)
  BY PartType
<1>2. c \in Nat /\ 0 .. NumCycles \subseteq 0 .. c /\ \A i \in 0 .. c : i = c \/ i \in 0 .. NumCycles
  BY <1>1
<1>3. parent \in Seq(0 .. NumCycles) /\ Len(parent) = NumCycles
  BY DEF TypeOK, NumCycles
<1>4. /\ parent' \in Seq(0 .. NumCycles) /\ Len(parent') = c
      /\ \A i \in 1 .. NumCycles : parent'[i] = parent[i]
  BY <1>1, <1>3
<1>5. NumCycles' = c
  BY <1>4 DEF NumCycles
<1>6. parent' \in Seq(0 .. c)
  <2> DEFINE P == parent'
             T == 0 .. c
  <2>1. P \in [1 .. c -> 0 .. NumCycles]
    BY <1>2, <1>4, LenProperties
  <2>2. P \in [1 .. c -> T]
    BY <1>2, <2>1
  <2> HIDE DEF P, T
  <2>3. P \in Seq(T)
    BY <1>2, <2>2, SMTT(60)
  <2> QED BY <2>3 DEF P, T
<1>7. part' \in [0 .. c -> Seq(Component)]
  <2>1. <<>> \in Seq(Component)
    OBVIOUS
  <2>2. \A i \in 0 .. c : part'[i] \in Seq(Component)
    BY <1>1, <1>2, <2>1
  <2> QED BY <2>2
<1>8. ASSUME NEW j \in 0 .. c, NEW i \in DOMAIN part'[j], part'[j][i].kind = "cycle"
      PROVE  /\ part'[j][i].idx > j /\ part'[j][i].idx <= c
             /\ parent'[part'[j][i].idx] = j
  <2>1. j # c
    <3>1. part'[c] = <<>>
      BY <1>2
    <3> QED BY <1>8, <3>1
  <2>2. j \in 0 .. NumCycles /\ part'[j] = part[j]
    BY <1>2, <2>1
  <2> DEFINE x == part[j][i].idx
  <2>3. x > j /\ x <= NumCycles /\ parent[x] = j
    BY <1>8, <2>2 DEF ChildCycleAfterParent
  <2>4. x \in Nat
    <3>1. part[j][i] \in Component
      BY <1>1, <1>8, <2>2
    <3> QED BY <1>8, <2>2, <3>1 DEF Component
  <2> HIDE DEF x
  <2>5. x \in 1 .. NumCycles /\ x <= c
    BY <1>1, <1>2, <2>2, <2>3, <2>4
  <2>6. parent'[x] = parent[x]
    BY <1>4, <2>5
  <2> QED BY <2>2, <2>3, <2>5, <2>6 DEF x
<1>9. ChildCycleAfterParent'
  BY <1>5, <1>8, ZenonT(60) DEF ChildCycleAfterParent
<1> QED BY <1>2, <1>5, <1>6, <1>7, <1>9

-----------------------------------------------------------------------------
TargetInv == TypeOK /\ ChildCycleAfterParent
GraphInv == StackInv /\ TaskInv /\ WaitingInv /\ WhiteInv /\ CycleInv

LEMMA InitEstablishes ==
    ASSUME Init
    PROVE  num = 0 /\ BuilderInv
<1>1. /\ \A x : x \in Labels => White(x) /\ ~ Open(x) /\ ~ Waiting(x) /\ dfn[x] = 0 /\ head_dfn[x] = 0
      /\ num = 0 /\ Labels \subseteq Nat /\ Entry \in Labels /\ parent = <<>> /\ NumCycles = 0
  BY LabelsAssumption DEF Init, White, Open, Waiting, NumCycles
<1>2. /\ Tasks = {1} /\ visit_stack[1] = VisitTask("PushSuccessors", Entry, 0, 0)
      /\ visit_stack[1].type = "PushSuccessors" /\ visit_stack[1].vertex = Entry
      /\ visit_stack[1].target_cycle = visit_stack[1].containing_cycle
  <2>1. visit_stack = <<VisitTask("PushSuccessors", Entry, 0, 0)>>
    BY DEF Init
  <2>2. DOMAIN visit_stack = {1} /\ visit_stack[1] = VisitTask("PushSuccessors", Entry, 0, 0)
    BY <2>1
  <2> QED BY <2>2 DEF Tasks, VisitTask
<1>3. \A i \in Tasks : i = 1 /\ ~ Begun(i) /\ Type(i) = "PushSuccessors" /\ Vertex(i) = Entry
  BY <1>2 DEF Begun, Type, Vertex
<1>4. \A i \in Tasks, w \in Labels : ~ Holds(i, w)
  BY <1>1 DEF Holds
<1>5. TypeOK
  <2>1. visit_stack \in Seq(TaskOf(0 .. 0))
    <3>1. VisitTask("PushSuccessors", Entry, 0, 0) \in TaskOf(0 .. 0)
      BY <1>1 DEF VisitTask, TaskOf, TaskType
    <3> QED BY <3>1 DEF Init
  <2>2. children \in [Labels -> Seq(Labels)]
    BY LabelsAssumption DEF Init
  <2>3. part \in [0 .. 0 -> Seq(Component)]
    <3>1. part = [c \in {0} |-> <<>>] /\ 0 .. 0 = {0} /\ <<>> \in Seq(Component)
      BY DEF Init
    <3> QED BY <3>1
  <2>4. parent \in Seq(0 .. 0) /\ stack \in Seq(Labels)
    BY DEF Init
  <2> QED BY <1>1, <2>1, <2>2, <2>3, <2>4 DEF TypeOK, TaskOf, Init
<1>6. StackInv
  <2>1. DOMAIN stack = {}
    BY DEF Init
  <2> QED BY <1>1, <2>1 DEF StackInv
<1>7. TaskInv
  <2>1. TaskOK(visit_stack[1])
    BY <1>2 DEF TaskOK
  <2> QED BY <1>3, <2>1 DEF TaskInv
<1>8. WaitingInv
  BY <1>1, <1>4 DEF WaitingInv
<1>9. WhiteInv /\ CycleInv
  BY <1>3 DEF WhiteInv, CycleInv
<1>10. ChildCycleAfterParent
  <2>1. \A c \in 0 .. NumCycles : part[c] = <<>>
    BY <1>1 DEF Init
  <2>2. DOMAIN <<>> = {}
    OBVIOUS
  <2> QED BY <2>1, <2>2 DEF ChildCycleAfterParent
<1> QED BY <1>1, <1>5, <1>6, <1>7, <1>8, <1>9, <1>10 DEF BuilderInv

LEMMA PushSuccessorsPreserves ==
    ASSUME BuilderState, PushSuccessors
    PROVE  TargetInv' /\ (num' < DFN_INF => GraphInv')
<1> USE DEF BuilderState, BuilderInv
<1> DEFINE n == Len(visit_stack)
           v == Vertex(n)
           cc == visit_stack[n].containing_cycle
<1>1. /\ n \in Nat \ {0} /\ n \in Tasks /\ visit_stack[n] \in Task /\ v \in Labels
      /\ Top(visit_stack) = visit_stack[n] /\ visit_stack[n].vertex = v
      /\ Pop(visit_stack) \in Seq(Task) /\ Type(n) = "PushSuccessors"
  BY PoppedTask DEF PushSuccessors, Vertex
<1>2. visit_stack[n].target_cycle = cc /\ cc \in 0 .. NumCycles
  BY <1>1 DEF TaskInv, TaskOK, Type, Task, TaskOf
<1>3. UNCHANGED <<children, head_dfn, part, parent, containing, wto>> /\ Popped("PushSuccessors") /\ visit_stack # <<>>
  BY DEF PushSuccessors, Popped
<1>4. NumCycles' = NumCycles /\ ChildCycleAfterParent'
  BY <1>3 DEF NumCycles, ChildCycleAfterParent
<1>5. CASE dfn[v] # 0 /\ visit_stack' = Pop(visit_stack) /\ UNCHANGED <<dfn, num, stack>>
  <2>1. TypeOK'
    BY <1>1, <1>3, <1>4, <1>5 DEF TypeOK, Task, TaskOf
  <2>2. Steady /\ ~ White(v)
    BY <1>3, <1>5 DEF Steady, White
  <2>3. GraphInv'
    BY <1>3, <1>5, <2>1, <2>2, TaskTaken DEF GraphInv
  <2> QED BY <1>4, <2>1, <2>3 DEF TargetInv
<1>6. CASE /\ dfn[v] = 0 /\ num' = num + 1 /\ dfn' = [dfn EXCEPT ![v] = num + 1] /\ stack' = Append(stack, v)
           /\ visit_stack' = EnqueueUnvisitedSuccs(dfn',
                 Append(Pop(visit_stack),
                        VisitTask("StartVisit", v, visit_stack[n].target_cycle, visit_stack[n].containing_cycle)),
                 v, visit_stack[n].target_cycle, visit_stack[n].containing_cycle)
  <2>1. num \in Nat /\ dfn' \in [Labels -> Nat] /\ stack' \in Seq(Labels) /\ num' \in Nat
    BY <1>1, <1>6 DEF TypeOK
  <2>2. visit_stack' \in Seq(Task)
    <3> DEFINE t == VisitTask("StartVisit", v, cc, cc)
               C == 0 .. NumCycles
               number == dfn'
               q == visit_stack'
    <3>1. /\ t \in TaskOf(C) /\ cc \in C /\ number \in [Labels -> Nat] /\ number = dfn'
          /\ t.vertex = v /\ t.type # "PushSuccessors"
      BY <1>1, <1>2, <2>1 DEF VisitTask, TaskOf, TaskType
    <3>2. q = EnqueueUnvisitedSuccs(number, Append(Pop(visit_stack), t), v, cc, cc)
      BY <1>2, <1>6
    <3>3. TypeOK /\ 0 .. NumCycles \subseteq C
      OBVIOUS
    <3> HIDE DEF t, C, number, q, cc, v, n, BuilderState
    <3>4. q \in Seq(TaskOf(C))
      BY <1>3, <3>1, <3>2, <3>3, TaskReplaced DEF n, v
    <3> QED BY <3>4 DEF q, C, Task
  <2>3. TypeOK'
    BY <1>3, <1>4, <2>1, <2>2 DEF TypeOK, Task, TaskOf
  <2>4. num' < DFN_INF => GraphInv'
    <3> SUFFICES ASSUME num' < DFN_INF PROVE GraphInv'
      OBVIOUS
    <3>1. White(v)
      BY <1>6 DEF White
    <3> HIDE DEF n, v, BuilderState
    <3> QED BY <1>3, <1>6, <2>3, <3>1, VertexNumbered DEF GraphInv, n, v
  <2> QED BY <1>4, <2>3, <2>4 DEF TargetInv
<1> QED BY <1>1, <1>5, <1>6 DEF PushSuccessors

LEMMA ContinueVisitPreserves ==
    ASSUME BuilderState, ContinueVisit
    PROVE  TargetInv' /\ GraphInv' /\ num' = num
<1> USE DEF BuilderState, BuilderInv
<1> DEFINE n == Len(visit_stack)
           v == Vertex(n)
           c == visit_stack[n].containing_cycle
           p == visit_stack[n].target_cycle
<1>1. /\ n \in Nat \ {0} /\ n \in Tasks /\ visit_stack[n] \in Task /\ v \in Labels
      /\ Top(visit_stack) = visit_stack[n] /\ visit_stack[n].vertex = v
      /\ Pop(visit_stack) \in Seq(Task) /\ Type(n) = "ContinueVisit"
  BY PoppedTask DEF ContinueVisit, Vertex
<1>2. c \in 0 .. NumCycles /\ p \in 0 .. NumCycles /\ p < c /\ parent[c] = p
  BY <1>1 DEF TaskInv, TaskOK, Type, Task, TaskOf
<1>3. /\ Popped("ContinueVisit") /\ visit_stack' = Pop(visit_stack)
      /\ UNCHANGED <<children, dfn, head_dfn, num, stack, parent, wto>>
      /\ part' = [part EXCEPT ![c] = Append(@, LabelComp(v)), ![p] = Append(@, CycleComp(c))]
      /\ containing' = [containing EXCEPT ![v] = c]
  BY <1>1 DEF ContinueVisit
<1>4. NumCycles' = NumCycles /\ Steady /\ parent' = parent
  BY <1>3 DEF NumCycles, Steady
<1> HIDE DEF n, v, c, p
<1>5. part' \in [0 .. NumCycles -> Seq(Component)] /\ ChildCycleAfterParent'
  BY <1>1, <1>2, <1>3, CycleListed
<1>6. containing' \in [Labels -> 0 .. NumCycles]
  BY <1>1, <1>2, <1>3 DEF TypeOK
<1>7. TypeOK'
  <2>1. visit_stack' \in Seq(Task) /\ UNCHANGED <<children, dfn, head_dfn, num, stack, parent>>
    BY <1>1, <1>3
  <2> QED BY <1>4, <1>5, <1>6, <2>1 DEF TypeOK, Task, TaskOf
<1>8. GraphInv'
  BY <1>3, <1>4, <1>7, TaskTaken DEF GraphInv
<1> QED BY <1>3, <1>5, <1>7, <1>8 DEF TargetInv

LEMMA StartVisitPreserves ==
    ASSUME BuilderState, StartVisit
    PROVE  TargetInv' /\ GraphInv' /\ num' = num
<1> USE DEF BuilderState, BuilderInv
<1> DEFINE n == Len(visit_stack)
           t == Top(visit_stack)
           v == t.vertex
           cc == t.containing_cycle
           k == LastIndexOf(stack, v)
           above == {stack[i] : i \in k + 1 .. Len(stack)}
           c == NumCycles + 1
           Left == /\ HeadDfn(v) # dfn[v] /\ head_dfn' = [head_dfn EXCEPT ![v] = HeadDfn(v)]
                   /\ visit_stack' = Pop(visit_stack)
                   /\ UNCHANGED <<dfn, stack, part, parent, containing>>
           Alone == /\ HeadDfn(v) = dfn[v] /\ ~ IsLoop(v)
                    /\ dfn' = [dfn EXCEPT ![v] = DFN_INF] /\ stack' = Pop(stack)
                    /\ part' = [part EXCEPT ![t.target_cycle] = Append(@, LabelComp(v))]
                    /\ containing' = (IF cc = 0 THEN containing ELSE [containing EXCEPT ![v] = cc])
                    /\ head_dfn' = [head_dfn EXCEPT ![v] = HeadDfn(v)]
                    /\ visit_stack' = Pop(visit_stack)
                    /\ UNCHANGED parent
           Opened == /\ HeadDfn(v) = dfn[v] /\ IsLoop(v)
                     /\ dfn' = Forget(dfn, v, above, DFN_INF) /\ head_dfn' = Forget(head_dfn, v, above, HeadDfn(v))
                     /\ stack' = SubSeq(stack, 1, k - 1)
                     /\ part' = [i \in 0 .. c |-> IF i = c THEN <<>> ELSE part[i]]
                     /\ parent' = Append(parent, cc)
                     /\ visit_stack' = EnqueueUnvisitedSuccs(dfn',
                           Append(Pop(visit_stack), VisitTask("ContinueVisit", v, t.target_cycle, c)), v, c, c)
                     /\ UNCHANGED containing
<1>1. /\ n \in Nat \ {0} /\ n \in Tasks /\ visit_stack[n] \in Task /\ v \in Labels
      /\ t = visit_stack[n] /\ Vertex(n) = v
      /\ Pop(visit_stack) \in Seq(Task) /\ Type(n) = "StartVisit"
  BY PoppedTask DEF StartVisit, Vertex
<1>2. t.target_cycle = cc /\ cc \in 0 .. NumCycles
  BY <1>1 DEF TaskInv, TaskOK, Type, Task, TaskOf
<1>3. UNCHANGED <<children, num, wto>> /\ Popped("StartVisit") /\ visit_stack # <<>>
  BY DEF StartVisit, Popped
<1>0. n = Len(visit_stack) /\ v = Vertex(n) /\ t = visit_stack[n] /\ cc = visit_stack[n].containing_cycle
  BY <1>1
<1>4. HeadDfn(v) \in Nat
  BY <1>1, HeadDfnIsLeast
<1>5. CASE Left
  <2>1. NumCycles' = NumCycles /\ ChildCycleAfterParent'
    BY <1>5 DEF NumCycles, ChildCycleAfterParent
  <2>2. head_dfn' \in [Labels -> Nat] /\ visit_stack' \in Seq(Task)
    BY <1>1, <1>4, <1>5 DEF TypeOK
  <2>3. TypeOK'
    BY <1>3, <1>5, <2>1, <2>2 DEF TypeOK, Task, TaskOf
  <2> HIDE DEF n, v, t, cc
  <2>4. GraphInv'
    BY <1>0, <1>3, <1>5, <2>3, VertexLeft DEF GraphInv
  <2> QED BY <1>3, <2>1, <2>3, <2>4 DEF TargetInv
<1>6. CASE Alone
  <2>1. NumCycles' = NumCycles
    BY <1>6, SMTT(60) DEF NumCycles
  <2>2. part' \in [0 .. NumCycles -> Seq(Component)] /\ ChildCycleAfterParent'
    BY <1>1, <1>2, <1>6, LabelListed
  <2>3. /\ head_dfn' \in [Labels -> Nat] /\ dfn' \in [Labels -> Nat]
        /\ containing' \in [Labels -> 0 .. NumCycles] /\ visit_stack' \in Seq(Task)
    <3>1. head_dfn' \in [Labels -> Nat] /\ visit_stack' \in Seq(Task)
      BY <1>1, <1>4, <1>6 DEF TypeOK
    <3>2. dfn' \in [Labels -> Nat]
      <4>1. DFN_INF \in Nat
        BY SMTT(60) DEF DFN_INF
      <4> QED BY <1>1, <1>6, <4>1 DEF TypeOK
    <3>3. containing' \in [Labels -> 0 .. NumCycles]
      BY <1>1, <1>2, <1>6 DEF TypeOK
    <3> QED BY <3>1, <3>2, <3>3
  <2>4. stack' \in Seq(Labels)
    <3>1. PopFindsVertex
      BY VertexFound
    <3>2. stack # <<>> /\ stack \in Seq(Labels)
      <4>1. \E i \in DOMAIN stack : stack[i] = Top(visit_stack).vertex
        BY <1>3, <3>1 DEF PopFindsVertex
      <4> QED BY <4>1 DEF TypeOK
    <3> QED BY <1>6, <3>2, PopProperties
  <2>5. TypeOK'
    BY <1>3, <1>6, <2>1, <2>2, <2>3, <2>4 DEF TypeOK, Task, TaskOf
  <2> HIDE DEF n, v, t, cc
  <2>6. GraphInv'
    BY <1>0, <1>3, <1>6, <2>5, VertexAlone DEF GraphInv
  <2> QED BY <1>3, <2>2, <2>5, <2>6 DEF TargetInv
<1>7. CASE Opened
  <2>1. /\ c \in Nat /\ NumCycles' = c /\ 0 .. NumCycles \subseteq 0 .. c
        /\ parent' \in Seq(0 .. c) /\ part' \in [0 .. c -> Seq(Component)]
        /\ ChildCycleAfterParent'
    BY <1>2, <1>7, PartitionOpened
  <2>2. dfn' \in [Labels -> Nat] /\ head_dfn' \in [Labels -> Nat]
    <3>1. \A number \in [Labels -> Nat], value \in Nat : Forget(number, v, above, value) \in [Labels -> Nat]
      BY DEF Forget
    <3>2. DFN_INF \in Nat
      BY DEF DFN_INF
    <3> HIDE DEF v, above
    <3> QED BY <1>4, <1>7, <3>1, <3>2 DEF TypeOK
  <2>3. stack' \in Seq(Labels)
    <3>1. stack \in Seq(Labels) /\ DOMAIN stack = 1 .. Len(stack) /\ Len(stack) \in Nat
      BY DEF TypeOK
    <3>2. PICK m \in DOMAIN stack : stack[m] = v
      BY <1>1 DEF TaskInv, TaskOK, Type, Vertex, StackInv
    <3>3. \A l \in DOMAIN stack : stack[l] = v => l = m
      <4> SUFFICES ASSUME NEW l \in DOMAIN stack, stack[l] = v PROVE l = m
        OBVIOUS
      <4>1. dfn[v] \in Nat
        BY <1>1 DEF TypeOK
      <4>2. ~ (l < m) /\ ~ (m < l)
        BY <3>2, <4>1 DEF StackInv
      <4> QED BY <3>1, <4>2
    <3>4. k = m
      BY <3>1, <3>2, <3>3, LastIndex
    <3> DEFINE b == k - 1
    <3>5. b \in Nat /\ b <= Len(stack)
      BY <3>1, <3>4
    <3> HIDE DEF b, k
    <3>6. SubSeq(stack, 1, b) = [i \in 1 .. b |-> stack[i]] /\ \A i \in 1 .. b : stack[i] \in Labels
      BY <3>1, <3>5
    <3>7. [i \in 1 .. b |-> stack[i]] \in Seq(Labels)
      BY <3>5, <3>6
    <3> QED BY <1>7, <3>6, <3>7 DEF b
  <2>4. visit_stack' \in Seq(TaskOf(0 .. c))
    <3> DEFINE next == VisitTask("ContinueVisit", v, cc, c)
               C == 0 .. c
               number == dfn'
               q == visit_stack'
    <3>1. /\ next \in TaskOf(C) /\ c \in C /\ number \in [Labels -> Nat] /\ 0 .. NumCycles \subseteq C /\ TypeOK
      BY <1>1, <1>2, <2>1, <2>2, SMTT(60) DEF VisitTask, TaskOf, TaskType
    <3>2. q = EnqueueUnvisitedSuccs(number, Append(Pop(visit_stack), next), v, c, c)
      BY <1>2, <1>7
    <3> HIDE DEF next, C, number, q, cc, v, t, n, c, BuilderState
    <3>3. q \in Seq(TaskOf(C))
      BY <1>0, <1>3, <3>1, <3>2, TaskReplaced
    <3> QED BY <3>3 DEF q, C
  <2>5. containing' \in [Labels -> 0 .. c]
    BY <1>7, <2>1 DEF TypeOK
  <2>6. TypeOK'
    BY <1>3, <2>1, <2>2, <2>3, <2>4, <2>5 DEF TypeOK, TaskOf
  <2> HIDE DEF n, v, t, cc, k, above, c
  <2>7. k = LastIndexOf(stack, v) /\ above = {stack[i] : i \in k + 1 .. Len(stack)} /\ c = NumCycles + 1
    BY DEF k, above, c
  <2>8. GraphInv'
    BY <1>0, <1>2, <1>3, <1>7, <2>6, <2>7, CycleOpened DEF GraphInv
  <2> QED BY <1>3, <2>1, <2>6, <2>8 DEF TargetInv
<1>8. Left \/ Alone \/ Opened
  <2> HIDE DEF BuilderState
  <2> QED BY DEF StartVisit
<1> HIDE DEF BuilderState, Left, Alone, Opened
<1> QED BY <1>5, <1>6, <1>7, <1>8

-----------------------------------------------------------------------------
(***************************************************************************)
(* How far num can go.  Opening a cycle finishes its head and forgets the  *)
(* rest of the stack above it, so that between two finished vertices fewer *)
(* vertices are numbered than there are labels.                            *)
(***************************************************************************)
Finished == {x \in Labels : dfn[x] = DFN_INF}
OpenSet == {x \in Labels : Open(x)}
Size == Cardinality(Labels)

NumInv == num <= Cardinality(Finished) * (Size + 1) + Cardinality(OpenSet)

LEMMA SetSizes ==
    /\ Size \in Nat
    /\ IsFiniteSet(Finished) /\ Cardinality(Finished) \in Nat
    /\ IsFiniteSet(OpenSet) /\ Cardinality(OpenSet) \in Nat
    /\ Cardinality(Finished) + Cardinality(OpenSet) <= Size
<1>1. IsFiniteSet(Labels) /\ Finished \in SUBSET Labels /\ OpenSet \in SUBSET Labels
  BY LabelsAssumption DEF Finished, OpenSet
<1>2. IsFiniteSet(Finished) /\ IsFiniteSet(OpenSet)
  BY <1>1, FS_Subset
<1>3. Cardinality(Finished) \in Nat /\ Cardinality(OpenSet) \in Nat /\ Cardinality(Labels) \in Nat
  BY <1>1, <1>2, FS_CardinalityType
<1>4. Finished \cap OpenSet = {}
  BY DEF Finished, OpenSet, Open
<1>5. Cardinality(Finished \cup OpenSet) = Cardinality(Finished) + Cardinality(OpenSet) - Cardinality({})
  BY <1>2, <1>4, FS_Union
<1>6. Cardinality(Finished \cup OpenSet) <= Cardinality(Labels)
  <2>1. Finished \cup OpenSet \in SUBSET Labels
    BY <1>1
  <2> QED BY <1>1, <2>1, FS_Subset
<1> QED BY <1>2, <1>3, <1>5, <1>6, FS_EmptySet DEF Size

\* A step that finishes one vertex more pays for all that is open.
LEMMA FinishedPays ==
    ASSUME num \in Nat, NumInv, num' \in Nat, num' <= num + 1,
           NEW v \in Labels, v \notin Finished, Finished' = Finished \cup {v},
           Cardinality(OpenSet)' \in Nat
    PROVE  NumInv'
<1> DEFINE f == Cardinality(Finished)
           o == Cardinality(OpenSet)
           o2 == Cardinality(OpenSet)'
<1>1. Size \in Nat /\ f \in Nat /\ o \in Nat /\ f + o <= Size /\ IsFiniteSet(Finished)
  BY SetSizes
<1>2. Cardinality(Finished \cup {v}) = f + 1
  BY <1>1, FS_AddElement
<1>3. num <= f * (Size + 1) + o /\ o2 \in Nat
  BY DEF NumInv
<1>4. Size' = Size
  BY DEF Size
<1>5. Cardinality(Finished)' = f + 1
  BY <1>2
<1> HIDE DEF f, o, o2
<1>6. (f + 1) * (Size + 1) = f * (Size + 1) + (Size + 1) /\ f * (Size + 1) \in Nat
  BY <1>1
<1>7. num + 1 <= (f + 1) * (Size + 1)
  BY <1>1, <1>3, <1>6
<1>8. num' <= (f + 1) * (Size + 1) + o2
  BY <1>1, <1>3, <1>6, <1>7
<1> QED BY <1>4, <1>5, <1>8 DEF NumInv, o2

LEMMA NumInvKept ==
    ASSUME BuilderState, NumInv, [Next]_vars
    PROVE  NumInv'
<1> USE DEF BuilderState, BuilderInv
<1> DEFINE n == Len(visit_stack)
           v == Vertex(n)
<1>1. ASSUME dfn' = dfn, num' = num
      PROVE  NumInv'
  <2>1. Finished' = Finished /\ OpenSet' = OpenSet
    BY <1>1 DEF Finished, OpenSet, Open
  <2> QED BY <1>1, <2>1 DEF NumInv, Size
<1>2. num \in Nat /\ \A x \in Labels : dfn[x] \in Nat
  BY DEF TypeOK
<1>3. OpenSet' \in SUBSET Labels /\ Cardinality(OpenSet)' \in Nat
  <2>1. OpenSet' \in SUBSET Labels /\ IsFiniteSet(Labels)
    BY LabelsAssumption DEF OpenSet
  <2>2. IsFiniteSet(OpenSet')
    BY <2>1, FS_Subset
  <2> QED BY <2>1, <2>2, FS_CardinalityType
<1>4. CASE PushSuccessors
  <2>1. v \in Labels /\ Top(visit_stack).vertex = v
    BY <1>4, PoppedTask DEF PushSuccessors, Vertex
  <2> HIDE DEF v, n, BuilderState
  <2>2. CASE dfn' = dfn /\ num' = num
    BY <1>1, <2>2
  <2>3. CASE dfn[v] = 0 /\ num' = num + 1 /\ dfn' = [dfn EXCEPT ![v] = num + 1]
    <3>1. dfn'[v] = num + 1 /\ \A x \in Labels : x # v => dfn'[x] = dfn[x]
      BY <2>1, <2>3 DEF TypeOK, BuilderState
    <3>2. v \notin Finished /\ v \notin OpenSet
      BY <2>3 DEF Finished, OpenSet, Open, DFN_INF
    <3>3. CASE num + 1 = DFN_INF
      <4>1. Finished' = Finished \cup {v}
        BY <2>1, <3>1, <3>3 DEF Finished, DFN_INF
      <4> QED BY <1>2, <1>3, <2>1, <2>3, <3>2, <4>1, FinishedPays
    <3>4. CASE num + 1 # DFN_INF
      <4>1. Finished' = Finished
        BY <2>1, <2>3, <3>1, <3>4 DEF Finished, DFN_INF
      <4>2. OpenSet' = OpenSet \cup {v}
        BY <1>2, <2>1, <2>3, <3>1, <3>4 DEF OpenSet, Open, DFN_INF
      <4>3. Cardinality(OpenSet') = Cardinality(OpenSet) + 1
        BY <3>2, <4>2, SetSizes, FS_AddElement
      <4>4. Cardinality(Finished) * (Size + 1) \in Nat /\ Cardinality(OpenSet) \in Nat
        BY SetSizes
      <4> HIDE DEF Finished, OpenSet
      <4>5. num' <= Cardinality(Finished') * (Size + 1) + Cardinality(OpenSet')
        BY <1>2, <2>3, <4>1, <4>3, <4>4 DEF NumInv
      <4> QED BY <4>5 DEF NumInv, Size
    <3> QED BY <3>3, <3>4
  <2> QED BY <1>4, <2>1, <2>2, <2>3 DEF PushSuccessors
<1>5. CASE StartVisit
  <2>1. v \in Labels /\ Top(visit_stack).vertex = v /\ Open(v) /\ num' = num
    BY <1>5, TopPending, PoppedTask DEF StartVisit, Vertex
  <2>2. v \notin Finished
    BY <2>1 DEF Open, Finished
  <2> DEFINE k == LastIndexOf(stack, v)
             above == {stack[i] : i \in k + 1 .. Len(stack)}
  <2>3. \/ dfn' = dfn
        \/ dfn' = [dfn EXCEPT ![v] = DFN_INF]
        \/ dfn' = Forget(dfn, v, above, DFN_INF)
    BY <1>5, <2>1 DEF StartVisit
  <2>4. CASE dfn' = [dfn EXCEPT ![v] = DFN_INF]
    <3>1. Finished' = Finished \cup {v}
      BY <2>1, <2>4 DEF Finished, TypeOK
    <3> QED BY <1>2, <1>3, <2>1, <2>2, <3>1, FinishedPays
  <2>5. CASE dfn' = Forget(dfn, v, above, DFN_INF)
    <3>1. \A x \in above : x \in Labels => Open(x)
      <4> SUFFICES ASSUME NEW i \in k + 1 .. Len(stack), stack[i] \in Labels PROVE Open(stack[i])
        OBVIOUS
      <4>1. stack \in Seq(Labels) /\ DOMAIN stack = 1 .. Len(stack) /\ Len(stack) \in Nat
        BY DEF TypeOK
      <4>2. k \in Nat
        <5> HIDE DEF k
        <5>1. PICK m \in DOMAIN stack : stack[m] = v
          BY <2>1 DEF StackInv
        <5>2. \A l \in DOMAIN stack : stack[l] = v => l = m
          BY <1>2, <2>1, <4>1, <5>1, SMTT(60) DEF StackInv
        <5>3. k = m
          BY <4>1, <5>1, <5>2, LastIndex DEF k
        <5> QED BY <4>1, <5>3
      <4>3. i \in DOMAIN stack
        BY <4>1, <4>2
      <4> QED BY <4>3 DEF StackInv
    <3> HIDE DEF above
    <3>2. \A x \in Labels : dfn'[x] = IF x = v THEN DFN_INF ELSE IF x \in above THEN 0 ELSE dfn[x]
      BY <2>5 DEF Forget
    <3>3. Finished' = Finished \cup {v}
      <4>1. DFN_INF # 0 /\ DFN_INF' = DFN_INF
        BY DEF DFN_INF
      <4> QED BY <2>1, <3>1, <3>2, <4>1 DEF Finished, Open
    <3> QED BY <1>2, <1>3, <2>1, <2>2, <3>3, FinishedPays
  <2> QED BY <1>1, <2>1, <2>3, <2>4, <2>5
<1>6. CASE ContinueVisit
  BY <1>1, <1>6 DEF ContinueVisit
<1>7. CASE Finalize \/ Terminated \/ UNCHANGED vars
  BY <1>1, <1>7 DEF Finalize, Terminated, vars
<1> QED BY <1>4, <1>5, <1>6, <1>7 DEF Next

LEMMA NumBound ==
    ASSUME NumInv, num \in Nat
    PROVE  num <= Size * (Size + 1)
<1> DEFINE f == Cardinality(Finished)
           o == Cardinality(OpenSet)
<1>1. Size \in Nat /\ f \in Nat /\ o \in Nat /\ f + o <= Size
  BY SetSizes
<1>2. num <= f * (Size + 1) + o
  BY DEF NumInv
<1> HIDE DEF f, o
<1>3. PICK d \in Nat : Size = f + d
  <2>1. Size - f \in Nat /\ Size = f + (Size - f)
    BY <1>1
  <2> QED BY <2>1
<1>4. Size * (Size + 1) = f * (Size + 1) + d * (Size + 1)
  BY <1>1, <1>3
<1>5. o <= d /\ d <= d * (Size + 1)
  <2>1. o <= d
    BY <1>1, <1>3
  <2>2. d * (Size + 1) = d * Size + d /\ d * Size \in Nat
    BY <1>1
  <2> QED BY <1>1, <2>1, <2>2
<1>6. f * (Size + 1) \in Nat /\ d * (Size + 1) \in Nat
  BY <1>1
<1> QED BY <1>1, <1>2, <1>4, <1>5, <1>6

-----------------------------------------------------------------------------
(***************************************************************************)
(* The inductive invariant.  Numbers run out only when num reaches the     *)
(* value that marks a finished vertex; until then every step keeps all of  *)
(* BuilderInv.                                                             *)
(***************************************************************************)
IndInv == num \in Nat /\ (num < DFN_INF => BuilderInv /\ NumInv)

LEMMA BuilderInvKept ==
    ASSUME BuilderState, [Next]_vars
    PROVE  num' \in Nat /\ (num' < DFN_INF => BuilderInv')
<1>1. CASE PushSuccessors
  BY <1>1, PushSuccessorsPreserves DEF TargetInv, GraphInv, BuilderInv, TypeOK
<1>2. CASE StartVisit
  BY <1>2, StartVisitPreserves DEF TargetInv, GraphInv, BuilderInv, TypeOK
<1>3. CASE ContinueVisit
  BY <1>3, ContinueVisitPreserves DEF TargetInv, GraphInv, BuilderInv, TypeOK
<1>4. CASE UNCHANGED <<children, dfn, head_dfn, num, stack, visit_stack, part, parent, containing>>
  <2>1. /\ NumCycles' = NumCycles /\ TypeOK /\ ChildCycleAfterParent /\ GraphInv
    BY <1>4 DEF NumCycles, BuilderState, BuilderInv, GraphInv
  <2>2. TypeOK' /\ ChildCycleAfterParent'
    BY <1>4, <2>1 DEF TypeOK, ChildCycleAfterParent
  <2>3. GraphInv'
    <3>1. Tasks' = Tasks
      BY <1>4 DEF Tasks
    <3>2. \A i : /\ Type(i)' = Type(i) /\ Vertex(i)' = Vertex(i) /\ Level(i)' = Level(i)
                 /\ Begun(i)' <=> Begun(i)
      BY <1>4 DEF Type, Vertex, Level, Begun
    <3>3. /\ \A x : (White(x)' <=> White(x)) /\ (Open(x)' <=> Open(x)) /\ MinDfn(x)' = MinDfn(x)
          /\ \A x, y : Edge(x, y)' <=> Edge(x, y)
      BY <1>4, SteadyFacts DEF Steady
    <3>4. \A x : Waiting(x)' <=> Waiting(x)
      BY <3>1, <3>2, <3>3 DEF Waiting, Pending
    <3>5. \A i, w : Holds(i, w)' <=> Holds(i, w)
      BY <1>4, <3>1, <3>2, <3>4 DEF Holds
    <3>6. \A i, X : (Covers(X, i)' <=> Covers(X, i)) /\ (HoldsWithin(i, X)' <=> HoldsWithin(i, X))
                    /\ (Members(i, X)' <=> Members(i, X))
      BY <1>4, <3>1, <3>2, <3>3, <3>4, <3>5 DEF Covers, HoldsWithin, Members
    <3>7. StackInv'
      BY <1>4, <2>1, <3>3 DEF StackInv, GraphInv
    <3>8. TaskInv'
      <4>1. \A i \in Tasks : TaskOK(visit_stack[i])'
        BY <1>4, <2>1 DEF TaskInv, TaskOK, GraphInv, Open
      <4> QED BY <2>1, <3>1, <3>2, <3>3, <4>1 DEF TaskInv, GraphInv
    <3>9. WaitingInv'
      BY <1>4, <2>1, <3>1, <3>2, <3>3, <3>4, <3>5, <3>6 DEF WaitingInv, GraphInv
    <3>10. WhiteInv' /\ CycleInv'
      BY <2>1, <3>1, <3>2, <3>3, <3>5, <3>6 DEF WhiteInv, CycleInv, GraphInv
    <3> QED BY <3>7, <3>8, <3>9, <3>10 DEF GraphInv
  <2> QED BY <2>2, <2>3, SMTT(60) DEF BuilderInv, GraphInv, TypeOK
<1>5. Finalize \/ Terminated \/ UNCHANGED vars =>
          UNCHANGED <<children, dfn, head_dfn, num, stack, visit_stack, part, parent, containing>>
  BY DEF Finalize, Terminated, vars
<1> QED BY <1>1, <1>2, <1>3, <1>4, <1>5 DEF Next

LEMMA NumGrows ==
    ASSUME num \in Nat, [Next]_vars
    PROVE  num' \in Nat /\ num <= num'
<1>1. num' = num \/ num' = num + 1
  BY DEF Next, PushSuccessors, StartVisit, ContinueVisit, Finalize, Terminated, vars
<1> QED BY <1>1, SMTT(60)

LEMMA Inductive == IndInv /\ [Next]_vars => IndInv'
<1> SUFFICES ASSUME IndInv, [Next]_vars PROVE IndInv'
  OBVIOUS
<1>1. num \in Nat /\ num' \in Nat /\ num <= num'
  BY NumGrows DEF IndInv
<1>2. CASE num < DFN_INF
  <2>1. BuilderState /\ NumInv
    BY <1>2 DEF IndInv, BuilderState
  <2>2. (num' < DFN_INF => BuilderInv') /\ NumInv'
    BY <2>1, BuilderInvKept, NumInvKept
  <2> QED BY <1>1, <2>2 DEF IndInv
<1>3. CASE ~ (num < DFN_INF)
  <2>1. ~ (num' < DFN_INF) /\ DFN_INF' = DFN_INF
    BY <1>1, <1>3 DEF DFN_INF
  <2> QED BY <1>1, <2>1 DEF IndInv
<1> QED BY <1>2, <1>3

LEMMA InitInd == Init => IndInv
<1> SUFFICES ASSUME Init PROVE IndInv
  OBVIOUS
<1>1. num = 0 /\ BuilderInv
  BY InitEstablishes
<1>2. Cardinality(Finished) * (Size + 1) \in Nat /\ Cardinality(OpenSet) \in Nat
  BY SetSizes
<1> HIDE DEF Finished, OpenSet
<1>3. NumInv
  BY <1>1, <1>2 DEF NumInv
<1> QED BY <1>1, <1>3 DEF IndInv

LEMMA StateOK == BuilderState => UnwrapsSucceed
BY VertexFound DEF BuilderState, BuilderInv, UnwrapsSucceed

(***************************************************************************)
(* On every graph, and as long as the numbers have not reached the mark of *)
(* a finished vertex: start_visit finds its vertex on the stack and on top *)
(* of it, no successor is without a number, the task, partition and        *)
(* nesting tables are well formed, and a nested cycle comes after the one  *)
(* that lists it, so that no unwrap of start_visit or finalize fails.      *)
(***************************************************************************)
THEOREM UnwrapsSucceedUntilOverflow == Spec => [](num < DFN_INF => UnwrapsSucceed)
<1>1. IndInv => (num < DFN_INF => UnwrapsSucceed)
  BY StateOK DEF IndInv, BuilderState
<1> QED BY <1>1, InitInd, Inductive, PTL DEF Spec

(***************************************************************************)
(* start_visit renumbers what it forgets, but only so often: in a graph of *)
(* L labels at most L * (L + 1) numbers are given out.  An i32 has enough  *)
(* of them for 46 340 labels, and then no unwrap fails at all.             *)
(***************************************************************************)
THEOREM UnwrapsSucceedAlways ==
    ASSUME Size * (Size + 1) < DFN_INF
    PROVE  Spec => [](UnwrapsSucceed /\ num <= Size * (Size + 1))
<1> DEFINE Bounded == num \in Nat /\ num < DFN_INF /\ BuilderInv /\ NumInv
<1>1. NumInv /\ num \in Nat => num <= Size * (Size + 1)
  BY NumBound
<1>2. (NumInv /\ num \in Nat => num <= Size * (Size + 1))'
  BY <1>1, PTL
<1>3. Init => Bounded
  BY InitInd, InitEstablishes DEF IndInv, DFN_INF
<1>4. Bounded /\ [Next]_vars => Bounded'
  <2> SUFFICES ASSUME Bounded, [Next]_vars PROVE Bounded'
    OBVIOUS
  <2>1. BuilderState /\ NumInv /\ num \in Nat
    BY DEF BuilderState
  <2>2. num' \in Nat /\ NumInv' /\ (num' < DFN_INF => BuilderInv')
    BY <2>1, NumInvKept, BuilderInvKept
  <2>3. num' <= Size * (Size + 1)
    BY <2>2, <1>2 DEF Size
  <2>4. num' < DFN_INF
    BY <2>2, <2>3, SetSizes DEF DFN_INF
  <2> QED BY <2>2, <2>4
<1>5. Bounded => UnwrapsSucceed /\ num <= Size * (Size + 1)
  BY StateOK, NumBound DEF BuilderState
<1> HIDE DEF Bounded
<1> QED BY <1>3, <1>4, <1>5, PTL DEF Spec
=============================================================================
