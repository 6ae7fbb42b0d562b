----------------------------- MODULE WtoSoundness -----------------------------
(***************************************************************************)
(* What WtoBuilder computes is a weak topological order of the CFG, for    *)
(* every graph, each of its cycles is strongly connected, what Wto answers *)
(* of a label (its heads, the cycles around it) is exact, and so is the    *)
(* bound on tail-call chains that is read off it.                          *)
(*                                                                         *)
(* The labels are listed in the reverse of the order in which they are     *)
(* walked.  The line of the labels listed so far, and where each partition *)
(* has its components in it, are not kept by the code: the invariant says  *)
(* that there are such a line and such places.                             *)
(***************************************************************************)
EXTENDS WtoBuilderProofs

Target(i) == visit_stack[i].target_cycle
Cycle(i) == visit_stack[i].containing_cycle
Running(i) == Type(i) = "ContinueVisit"

\* x is open and was numbered after v.
Above(v, x) == Open(x) /\ dfn[x] > dfn[v]

-----------------------------------------------------------------------------
(***************************************************************************)
(* The steps, told apart by what they do.  The tasks below the one that is *)
(* popped stay as they are.                                                *)
(***************************************************************************)
Below(n) ==
    \A i \in 1 .. n - 1 :
        /\ i \in Tasks /\ i \in Tasks' /\ i < n
        /\ Type(i)' = Type(i) /\ Vertex(i)' = Vertex(i)
        /\ Target(i)' = Target(i) /\ Cycle(i)' = Cycle(i)
        /\ Vertex(i) \in Labels
        /\ Begun(i) => Level(i)' = Level(i) /\ Level(i) \in Nat

Pops(n, v) ==
    /\ n \in Nat \ {0} /\ n = Len(visit_stack) /\ Tasks = 1 .. n
    /\ Len(visit_stack') = n - 1 /\ Tasks' = 1 .. n - 1
    /\ Vertex(n) = v /\ v \in Labels
    /\ Below(n)

Pushes(n, v, type, t, c) ==
    /\ n \in Nat \ {0} /\ n = Len(visit_stack) /\ Tasks = 1 .. n
    /\ Len(visit_stack') \in Nat /\ n <= Len(visit_stack') /\ Tasks' = 1 .. Len(visit_stack')
    /\ Vertex(n) = v /\ v \in Labels
    /\ Below(n)
    /\ Type(n)' = type /\ Vertex(n)' = v /\ Target(n)' = t /\ Cycle(n)' = c
    /\ \A i \in Tasks' : i > n => /\ Type(i)' = "PushSuccessors" /\ Target(i)' = c /\ Cycle(i)' = c
                                  /\ Vertex(i)' \in Labels /\ White(Vertex(i))' /\ Edge(v, Vertex(i)')

\* All but the vertex data of v and of the forgotten.
SameGraph == children' = children

Drops(n, v) ==
    /\ Pops(n, v) /\ SameGraph
    /\ Type(n) = "PushSuccessors" /\ ~ White(v) /\ Target(n) = Cycle(n)
    /\ UNCHANGED <<dfn, head_dfn, num, part, parent>>
    /\ \A x \in Labels : Waiting(x)' <=> Waiting(x)

Numbers(n, v) ==
    /\ Pushes(n, v, "StartVisit", Cycle(n), Cycle(n)) /\ SameGraph
    /\ Type(n) = "PushSuccessors" /\ White(v) /\ Target(n) = Cycle(n)
    /\ UNCHANGED <<head_dfn, part, parent>>
    /\ num \in Nat /\ dfn'[v] = num + 1 /\ \A x \in Labels : x # v => dfn'[x] = dfn[x]
    /\ \A x \in Labels : /\ Open(x)' <=> Open(x) \/ x = v
                         /\ White(x)' <=> White(x) /\ x # v
                         /\ Waiting(x)' <=> Waiting(x)
                         /\ Open(x) => dfn[x] <= num

Leaves(n, v) ==
    /\ Pops(n, v) /\ SameGraph
    /\ Type(n) = "StartVisit" /\ Open(v) /\ Target(n) = Cycle(n)
    /\ UNCHANGED <<dfn, num, part, parent>>
    /\ n # 1
    /\ head_dfn'[v] < dfn[v] /\ \A x \in Labels : x # v => head_dfn'[x] = head_dfn[x]
    /\ \A x \in Labels : Waiting(x)' <=> Waiting(x) \/ x = v
    /\ ~ Waiting(v) /\ \E s \in Labels : /\ Edge(v, s) /\ Open(s) /\ s # v
                                         /\ dfn[s] = head_dfn'[v] \/ (Waiting(s) /\ head_dfn[s] = head_dfn'[v])

IsAlone(n, v) ==
    /\ Pops(n, v) /\ SameGraph
    /\ Type(n) = "StartVisit" /\ Open(v) /\ Target(n) = Cycle(n)
    /\ parent' = parent /\ part' = [part EXCEPT ![Target(n)] = Append(@, LabelComp(v))]
    /\ dfn'[v] = DFN_INF
    /\ \A x \in Labels : x # v => dfn'[x] = dfn[x] /\ head_dfn'[x] = head_dfn[x]
    /\ \A x \in Labels : /\ Open(x)' <=> Open(x) /\ x # v
                         /\ White(x)' <=> White(x)
                         /\ Waiting(x)' <=> Waiting(x)
                         /\ Waiting(x) => dfn[x] < dfn[v] /\ x # v
    /\ \A i \in 1 .. n - 1 : Begun(i) => Level(i) < dfn[v] /\ Vertex(i) # v
    /\ \A s \in Labels : Edge(v, s) => dfn[s] = DFN_INF

Opens(n, v) ==
    /\ Pushes(n, v, "ContinueVisit", Cycle(n), NumCycles + 1) /\ SameGraph
    /\ Type(n) = "StartVisit" /\ Open(v) /\ ~ Waiting(v) /\ Target(n) = Cycle(n)
    /\ Level(n)' = dfn[v]
    /\ NumCycles' = NumCycles + 1
    /\ part' = [c \in 0 .. NumCycles + 1 |-> IF c = NumCycles + 1 THEN <<>> ELSE part[c]]
    /\ dfn'[v] = DFN_INF
    /\ \A x \in Labels : /\ Above(v, x) => dfn'[x] = 0
                         /\ x # v /\ ~ Above(v, x) => dfn'[x] = dfn[x] /\ head_dfn'[x] = head_dfn[x]
                         /\ Open(x)' <=> Open(x) /\ dfn[x] < dfn[v]
                         /\ Waiting(x)' <=> Waiting(x) /\ dfn[x] < dfn[v]
                         /\ Above(v, x) => Waiting(x) /\ head_dfn[x] >= dfn[v]
                         /\ Open(x) /\ dfn[x] = dfn[v] => x = v
    /\ \A i \in 1 .. n - 1 : Begun(i) => Level(i) < dfn[v] /\ Vertex(i) # v
    /\ \A x, s \in Labels : (x = v \/ Above(v, x)) /\ Edge(x, s) => s = v \/ Above(v, s) \/ dfn[s] = DFN_INF
    /\ \E s \in Labels : Edge(v, s) /\ (s = v \/ Above(v, s))
    /\ \A X \in SUBSET Labels :
          /\ \A s \in Labels : Above(v, s) /\ Edge(v, s) => s \in X
          /\ \A x \in X, s \in Labels : Above(v, x) /\ Above(v, s) /\ Edge(x, s) => s \in X
          => \A x \in Labels : Above(v, x) => x \in X

Closes(n, v) ==
    /\ Pops(n, v) /\ SameGraph
    /\ Running(n) /\ dfn[v] = DFN_INF
    /\ Target(n) < Cycle(n)
    /\ UNCHANGED <<dfn, head_dfn, num, parent>>
    /\ part' = [part EXCEPT ![Cycle(n)] = Append(@, LabelComp(v)), ![Target(n)] = Append(@, CycleComp(Cycle(n)))]
    /\ \A x \in Labels : Waiting(x)' <=> Waiting(x)
    /\ \A x \in Labels : Open(x) => dfn[x] < Level(n)
    /\ \A i \in 1 .. n - 1 : Begun(i) => Level(i) < Level(n) /\ Vertex(i) # v
    /\ \A s \in Labels : Edge(v, s) => ~ White(s)

Idles ==
    UNCHANGED <<children, dfn, head_dfn, num, stack, visit_stack, part, parent, containing>>

-----------------------------------------------------------------------------
LEMMA TaskTypes ==
    ASSUME TypeOK, NEW i \in Tasks
    PROVE  /\ Vertex(i) \in Labels /\ Type(i) \in TaskType
           /\ Target(i) \in 0 .. NumCycles /\ Cycle(i) \in 0 .. NumCycles
           /\ Level(i) \in Nat
<1>1. visit_stack \in Seq(Task) /\ i \in DOMAIN visit_stack
  BY DEF TypeOK, Task, TaskOf, Tasks
<1>2. visit_stack[i] \in Task
  BY <1>1
<1>3. Vertex(i) \in Labels /\ Type(i) \in TaskType /\ Target(i) \in 0 .. NumCycles /\ Cycle(i) \in 0 .. NumCycles
  BY <1>2 DEF Task, TaskOf, Vertex, Type, Target, Cycle
<1> QED BY <1>3 DEF Level, TypeOK

LEMMA StepPops ==
    ASSUME TypeOK, visit_stack # <<>>, NEW n, n = Len(visit_stack), visit_stack' = Pop(visit_stack),
           \A i \in 1 .. n - 1 : Begun(i) => Level(i)' = Level(i)
    PROVE  Pops(n, Vertex(n))
<1>1. Popped(Top(visit_stack).type)
  BY DEF Popped
<1>2. /\ n \in Nat \ {0} /\ Tasks = 1 .. n
      /\ Pop(visit_stack) \in Seq(Task) /\ Len(Pop(visit_stack)) = n - 1 /\ Vertex(n) \in Labels
      /\ \A i \in 1 .. n - 1 : Pop(visit_stack)[i] = visit_stack[i]
  BY <1>1, PoppedTask
<1>3. Len(visit_stack') = n - 1 /\ Tasks' = 1 .. n - 1 /\ n - 1 \in Nat
  BY <1>2 DEF Tasks
<1>4. Below(n)
  <2> SUFFICES ASSUME NEW i \in 1 .. n - 1
               PROVE  /\ i \in Tasks /\ i \in Tasks' /\ i < n
                      /\ visit_stack'[i] = visit_stack[i]
                      /\ Vertex(i) \in Labels /\ Level(i) \in Nat
    BY DEF Below, Type, Vertex, Target, Cycle
  <2>1. i \in Tasks /\ i \in Tasks' /\ i < n
    BY <1>2, <1>3, SMTT(60)
  <2> QED BY <1>2, <2>1, TaskTypes, SMTT(60)
<1> QED BY <1>2, <1>3, <1>4 DEF Pops

LEMMA StepPushes ==
    ASSUME TypeOK, visit_stack # <<>>, NEW n, n = Len(visit_stack), NEW v, v = Vertex(n),
           NEW number \in [Labels -> Nat], number = dfn', NEW C, 0 .. NumCycles \subseteq C,
           NEW t \in TaskOf(C), t.vertex = v, t.type # "PushSuccessors", NEW c \in C, t.containing_cycle = c,
           visit_stack' = EnqueueUnvisitedSuccs(number, Append(Pop(visit_stack), t), v, c, c),
           \A i \in 1 .. n - 1 : Begun(i) => Level(i)' = Level(i)
    PROVE  Pushes(n, v, t.type, t.target_cycle, c)
<1>1. Popped(Top(visit_stack).type)
  BY DEF Popped
<1>2. n \in Nat \ {0} /\ Tasks = 1 .. n /\ v \in Labels
  BY <1>1, PoppedTask
<1>3. TopReplacedBy(n, v, t, c) /\ visit_stack' \in Seq(TaskOf(C))
  BY TopReplaced
<1>4. Below(n)
  <2> SUFFICES ASSUME NEW i \in 1 .. n - 1
               PROVE  /\ i \in Tasks /\ i \in Tasks' /\ i < n
                      /\ visit_stack'[i] = visit_stack[i]
                      /\ Vertex(i) \in Labels /\ Level(i) \in Nat
    BY SMTT(60) DEF Below, Type, Vertex, Target, Cycle
  <2>1. i \in Tasks /\ i \in Tasks' /\ i < n /\ visit_stack'[i] = visit_stack[i]
    BY <1>3, SMTT(60) DEF TopReplacedBy
  <2> QED BY <2>1, TaskTypes, SMTT(60)
<1>5. Type(n)' = t.type /\ Vertex(n)' = v /\ Target(n)' = t.target_cycle /\ Cycle(n)' = c
  BY <1>3 DEF TopReplacedBy, Target, Cycle
<1>6. \A i \in Tasks' : i > n => /\ Type(i)' = "PushSuccessors" /\ Target(i)' = c /\ Cycle(i)' = c
                                 /\ Vertex(i)' \in Labels /\ White(Vertex(i))' /\ Edge(v, Vertex(i)')
  <2> SUFFICES ASSUME NEW i \in Tasks', i > n
               PROVE  /\ Type(i)' = "PushSuccessors" /\ Target(i)' = c /\ Cycle(i)' = c
                      /\ Vertex(i)' \in Labels /\ White(Vertex(i))' /\ Edge(v, Vertex(i)')
    OBVIOUS
  <2>1. /\ Type(i)' = "PushSuccessors"
        /\ visit_stack'[i].target_cycle = c /\ visit_stack'[i].containing_cycle = c
        /\ Vertex(i)' \in Labels /\ White(Vertex(i))' /\ Edge(v, Vertex(i)')
    BY <1>3, SMTT(60) DEF TopReplacedBy
  <2> QED BY <2>1, SMTT(60) DEF Target, Cycle
<1>7. Len(visit_stack') \in Nat /\ n <= Len(visit_stack') /\ Tasks' = 1 .. Len(visit_stack')
  BY <1>3 DEF TopReplacedBy
<1> QED BY <1>2, <1>4, <1>5, <1>6, <1>7, SMTT(60) DEF Pushes

\* Where the vertex data and the stack of tasks below the top are unchanged.
LEMMA LevelsKept ==
    ASSUME UNCHANGED <<dfn, head_dfn>>, visit_stack' = Pop(visit_stack), TypeOK, visit_stack # <<>>
    PROVE  \A i \in 1 .. Len(visit_stack) - 1 : Level(i)' = Level(i)
BY TaskPopped DEF Level

LEMMA WaitingKept ==
    ASSUME TypeOK, visit_stack # <<>>, NEW n, n = Len(visit_stack), visit_stack' = Pop(visit_stack),
           Type(n) # "StartVisit", dfn' = dfn
    PROVE  \A x \in Labels : Waiting(x)' <=> Waiting(x)
<1>1. /\ Tasks' = 1 .. n - 1
      /\ \A i \in Tasks' : /\ i \in Tasks /\ i < n
                           /\ Type(i)' = Type(i) /\ Vertex(i)' = Vertex(i)
  BY TaskPopped
<1>2. n \in Nat \ {0} /\ Tasks = 1 .. n
  <2>1. Popped(Top(visit_stack).type)
    BY DEF Popped
  <2> QED BY <2>1, PoppedTask
<1>3. \A i \in Tasks : i = n \/ i \in Tasks'
  BY <1>1, <1>2
<1>4. \A x \in Labels : Pending(x)' <=> Pending(x)
  BY <1>1, <1>3 DEF Pending
<1> QED BY <1>4 DEF Waiting, Open

LEMMA StepDrops ==
    ASSUME BuilderState, PushSuccessors, NEW n, n = Len(visit_stack), NEW v, v = Vertex(n), dfn[v] # 0,
           visit_stack' = Pop(visit_stack), UNCHANGED <<dfn, num, stack>>
    PROVE  Drops(n, v)
<1> USE DEF BuilderState, BuilderInv
<1>1. /\ n \in Tasks /\ Type(n) = "PushSuccessors" /\ v \in Labels /\ visit_stack # <<>>
      /\ UNCHANGED <<children, head_dfn, part, parent>>
  BY PoppedTask DEF PushSuccessors, Popped
<1>2. Target(n) = Cycle(n)
  BY <1>1 DEF TaskInv, TaskOK, Type, Target, Cycle
<1>3. Pops(n, v)
  BY <1>1, LevelsKept, StepPops
<1>4. \A x \in Labels : Waiting(x)' <=> Waiting(x)
  BY <1>1, WaitingKept, SMTT(60)
<1> QED BY <1>1, <1>2, <1>3, <1>4, SMTT(60) DEF Drops, SameGraph, White

LEMMA StepNumbers ==
    ASSUME BuilderState, num' < DFN_INF, PushSuccessors, NEW n, n = Len(visit_stack), NEW v, v = Vertex(n),
           White(v), num' = num + 1, dfn' = [dfn EXCEPT ![v] = num + 1],
           visit_stack' = EnqueueUnvisitedSuccs(dfn',
               Append(Pop(visit_stack), VisitTask("StartVisit", v, Target(n), Cycle(n))), v, Target(n), Cycle(n))
    PROVE  Numbers(n, v)
<1> USE DEF BuilderState, BuilderInv
<1>1. /\ n \in Tasks /\ Type(n) = "PushSuccessors" /\ v \in Labels /\ visit_stack # <<>>
      /\ Tasks = 1 .. n /\ n \in Nat \ {0}
      /\ UNCHANGED <<children, head_dfn, part, parent>>
  BY PoppedTask DEF PushSuccessors, Popped
<1>2. Target(n) = Cycle(n) /\ Cycle(n) \in 0 .. NumCycles
  <2>1. Target(n) = Cycle(n)
    BY <1>1 DEF TaskInv, TaskOK, Type, Target, Cycle
  <2> QED BY <1>1, <2>1, TaskTypes, SMTT(60)
<1>3. \A x \in Labels : dfn[x] \in Nat
  BY DEF TypeOK
<1>4. num \in Nat /\ dfn'[v] = num + 1 /\ \A x \in Labels : x # v => dfn'[x] = dfn[x]
  BY <1>1, SMTT(60) DEF TypeOK
<1>5. \A x \in Labels : /\ Open(x)' <=> Open(x) \/ x = v
                        /\ White(x)' <=> White(x) /\ x # v
                        /\ Open(x) => dfn[x] <= num /\ x # v
  BY <1>1, <1>4, SMTT(60) DEF White, Open, DFN_INF, StackInv
<1>6. \A i \in Tasks : Type(i) = "ContinueVisit" => Vertex(i) # v
  BY <1>1, SMTT(60) DEF TaskInv, TaskOK, Type, Vertex, White, DFN_INF
<1>7. \A i \in Tasks : Type(i) = "StartVisit" => Open(Vertex(i)) /\ Vertex(i) # v
  BY <1>5 DEF TaskInv, TaskOK, Type, Vertex, White, Open
<1>8. \A x \in Labels : Pending(x) => x # v
  BY <1>7 DEF Pending
<1> DEFINE t == VisitTask("StartVisit", v, Cycle(n), Cycle(n))
           C == 0 .. NumCycles
           number == dfn'
           c == Cycle(n)
<1>9. number \in [Labels -> Nat] /\ t \in TaskOf(C) /\ c \in C /\ 0 .. NumCycles \subseteq C
      /\ t.vertex = v /\ t.type = "StartVisit" /\ t.containing_cycle = c /\ number = dfn' /\ t.target_cycle = c
  BY <1>1, <1>2, <1>4 DEF TypeOK, TaskType, TaskOf, VisitTask
<1>10. visit_stack' = EnqueueUnvisitedSuccs(number, Append(Pop(visit_stack), t), v, c, c)
  BY <1>2
<1> HIDE DEF t, C, number, c
<1>11. TopReplacedBy(n, v, t, c)
  <2>1. t.type # "PushSuccessors"
    BY <1>9
  <2> QED BY <1>1, <1>9, <1>10, <2>1, TopReplaced
<1>12. \A i \in 1 .. n - 1 : Begun(i) => Level(i)' = Level(i)
  <2> SUFFICES ASSUME NEW i \in 1 .. n - 1, Begun(i) PROVE Level(i)' = Level(i)
    OBVIOUS
  <2>1. i \in Tasks /\ Type(i)' = Type(i) /\ Vertex(i)' = Vertex(i) /\ Vertex(i) \in Labels
    BY <1>11, SMTT(60) DEF TopReplacedBy
  <2> QED BY <1>1, <1>4, <1>7, <2>1 DEF Level
<1>13. Pushes(n, v, t.type, t.target_cycle, c)
  <2>1. t.type # "PushSuccessors"
    BY <1>9
  <2> QED BY <1>1, <1>9, <1>10, <1>12, <2>1, StepPushes
<1>14. \A x \in Labels : x # v => (Pending(x)' <=> Pending(x))
  <2> SUFFICES ASSUME NEW x \in Labels, x # v PROVE Pending(x)' <=> Pending(x)
    OBVIOUS
  <2>1. ASSUME NEW i \in Tasks, Type(i) = "StartVisit", Vertex(i) = x
        PROVE  Pending(x)'
    <3>1. i \in 1 .. n - 1
      BY <1>1, <2>1, SMTT(60)
    <3>2. i \in Tasks' /\ Type(i)' = Type(i) /\ Vertex(i)' = Vertex(i)
      BY <1>11, <3>1 DEF TopReplacedBy
    <3> QED BY <2>1, <3>2 DEF Pending
  <2>2. ASSUME NEW i \in Tasks', Type(i)' = "StartVisit", Vertex(i)' = x
        PROVE  Pending(x)
    <3>0. /\ Tasks' = 1 .. Len(visit_stack') /\ Len(visit_stack') \in Nat /\ Vertex(n)' = v
          /\ i > n => Type(i)' = "PushSuccessors"
      BY <1>11 DEF TopReplacedBy
    <3>1. i # n /\ ~ (i > n) /\ i \in Nat
      BY <2>2, <3>0
    <3>2. i \in 1 .. n - 1
      BY <1>1, <1>11, <2>2, <3>1 DEF TopReplacedBy
    <3>3. i \in Tasks /\ Type(i)' = Type(i) /\ Vertex(i)' = Vertex(i)
      BY <1>11, <3>2, SMTT(60) DEF TopReplacedBy
    <3> QED BY <2>2, <3>3, SMTT(60) DEF Pending
  <2> QED BY <2>1, <2>2 DEF Pending
<1>15. Pending(v)'
  BY <1>9, <1>11 DEF TopReplacedBy, Pending
<1>16. \A x \in Labels : Waiting(x)' <=> Waiting(x)
  BY <1>1, <1>5, <1>14, <1>15 DEF Waiting
<1> QED BY <1>1, <1>2, <1>4, <1>5, <1>9, <1>13, <1>16, SMTT(60) DEF Numbers, SameGraph, c

LEMMA StepLeaves ==
    ASSUME BuilderState, StartVisit, NEW n, n = Len(visit_stack), NEW v, v = Vertex(n), HeadDfn(v) # dfn[v],
           head_dfn' = [head_dfn EXCEPT ![v] = HeadDfn(v)],
           visit_stack' = Pop(visit_stack), UNCHANGED <<dfn, stack, part, parent>>
    PROVE  Leaves(n, v)
<1> USE DEF BuilderState, BuilderInv
<1> DEFINE h == HeadDfn(v)
<1>0. Popped("StartVisit") /\ visit_stack # <<>> /\ UNCHANGED <<children, num>>
  BY DEF StartVisit, Popped
<1>1. /\ n \in Nat \ {0} /\ Tasks = 1 .. n /\ n \in Tasks /\ Type(n) = "StartVisit" /\ v \in Labels
      /\ Open(v) /\ Pending(v) /\ Level(n) = dfn[v] /\ dfn[v] \in Nat
      /\ \A x \in Labels : Pending(x) => dfn[x] < dfn[v] \/ x = v
  BY <1>0, TopPending
<1>2. Target(n) = Cycle(n)
  BY <1>1 DEF TaskInv, TaskOK, Type, Target, Cycle
<1>3. h < dfn[v] /\ \E x \in Labels : Open(x) /\ dfn[x] = h
  BY <1>0, TopHead, SMTT(60)
<1>4. PICK s \in Labels : Edge(v, s) /\ Open(s) /\ h = MinDfn(s)
  BY <1>0, TopHead
<1>5. head_dfn'[v] = h /\ \A x \in Labels : x # v => head_dfn'[x] = head_dfn[x]
  BY <1>1 DEF TypeOK
<1> HIDE DEF h
<1>6. s # v /\ (dfn[s] = h \/ (Waiting(s) /\ head_dfn[s] = h))
  <2>1. /\ Pending(s) => MinDfn(s) = dfn[s]
        /\ Waiting(s) => MinDfn(s) = head_dfn[s]
    BY <1>4, OpenMinDfn
  <2> QED BY <1>1, <1>3, <1>4, <2>1 DEF Waiting
<1>7. n # 1
  <2> SUFFICES ASSUME n = 1 PROVE FALSE
    OBVIOUS
  <2>1. \A i \in Tasks : i = n /\ Vertex(i) = v
    BY <1>1
  <2>2. PICK x \in Labels : Open(x) /\ dfn[x] = h
    BY <1>3
  <2>3. ~ Pending(x)
    BY <1>1, <1>3, <2>1, <2>2 DEF Pending
  <2>4. PICK i \in Tasks : Holds(i, x)
    BY <2>2, <2>3 DEF WaitingInv, Waiting
  <2>5. i = n /\ Level(i) < dfn[x] /\ dfn[x] \in Nat
    BY <2>1, <2>4 DEF Holds, TypeOK
  <2>6. Level(i) = dfn[v]
    BY <1>1, <2>5
  <2> QED BY <1>1, <1>3, <2>2, <2>5, <2>6
<1>8. /\ Tasks' = 1 .. n - 1
      /\ \A i \in Tasks' : /\ i \in Tasks /\ i < n
                           /\ Type(i)' = Type(i) /\ Vertex(i)' = Vertex(i)
  BY <1>0, TaskPopped
<1>9. \A i \in 1 .. n - 1 : /\ i \in Tasks /\ Vertex(i) \in Labels
                            /\ Begun(i) => Vertex(i) # v
  BY <1>0, BelowTop
<1>10. \A i \in 1 .. n - 1 : Begun(i) => Level(i)' = Level(i)
  BY <1>5, <1>8, <1>9 DEF Level
<1>11. Pops(n, v)
  BY <1>0, <1>10, StepPops, SMTT(60)
<1>12. \A x \in Labels : Pending(x)' <=> Pending(x) /\ x # v
  <2>1. \A i \in Tasks : i = n \/ i \in Tasks'
    BY <1>1, <1>8
  <2> QED BY <1>1, <1>8, <1>9, <2>1, SMTT(60) DEF Pending, Begun
<1>13. \A x \in Labels : Open(x)' <=> Open(x)
  BY DEF Open
<1>14. \A x \in Labels : Waiting(x)' <=> Waiting(x) \/ x = v
  BY <1>1, <1>12, <1>13 DEF Waiting
<1>15. ~ Waiting(v)
  BY <1>1 DEF Waiting
<1> QED BY <1>0, <1>1, <1>2, <1>3, <1>4, <1>5, <1>6, <1>7, <1>11, <1>14, <1>15, SMTT(60) DEF Leaves, SameGraph

LEMMA StepAlone ==
    ASSUME BuilderState, StartVisit, NEW n, n = Len(visit_stack), NEW v, v = Vertex(n),
           HeadDfn(v) = dfn[v], ~ IsLoop(v),
           dfn' = [dfn EXCEPT ![v] = DFN_INF], head_dfn' = [head_dfn EXCEPT ![v] = HeadDfn(v)],
           part' = [part EXCEPT ![Target(n)] = Append(@, LabelComp(v))],
           visit_stack' = Pop(visit_stack), parent' = parent
    PROVE  IsAlone(n, v)
<1> USE DEF BuilderState, BuilderInv
<1>0. Popped("StartVisit") /\ visit_stack # <<>> /\ UNCHANGED <<children, num>>
  BY DEF StartVisit, Popped
<1>1. /\ n \in Nat \ {0} /\ Tasks = 1 .. n /\ n \in Tasks /\ Type(n) = "StartVisit" /\ v \in Labels
      /\ Open(v) /\ Pending(v) /\ Level(n) = dfn[v] /\ dfn[v] \in Nat
      /\ \A s \in Labels : Edge(v, s) => ~ White(s)
      /\ \A x \in Labels : Open(x) => dfn[x] < dfn[v] \/ x = v \/ Holds(n, x)
  BY <1>0, TopPending, SMTT(60)
<1>2. Target(n) = Cycle(n)
  BY <1>1 DEF TaskInv, TaskOK, Type, Target, Cycle
<1>3. \A w \in Labels : ~ Holds(n, w)
  BY <1>0, TopHead, SMTT(60)
<1>4. /\ dfn'[v] = DFN_INF
      /\ \A x \in Labels : x # v => dfn'[x] = dfn[x] /\ head_dfn'[x] = head_dfn[x]
  BY <1>1 DEF TypeOK
<1>5. /\ Tasks' = 1 .. n - 1
      /\ \A i \in Tasks' : /\ i \in Tasks /\ i < n
                           /\ Type(i)' = Type(i) /\ Vertex(i)' = Vertex(i)
  BY <1>0, TaskPopped
<1>6. \A i \in 1 .. n - 1 : /\ i \in Tasks /\ Vertex(i) \in Labels
                            /\ Begun(i) => Vertex(i) # v /\ Level(i) < dfn[v]
  BY <1>0, BelowTop
<1>7. \A i \in 1 .. n - 1 : Begun(i) => Level(i)' = Level(i)
  BY <1>4, <1>5, <1>6 DEF Level
<1>8. Pops(n, v)
  BY <1>0, <1>7, StepPops, SMTT(60)
<1>9. \A x \in Labels : Pending(x)' <=> Pending(x) /\ x # v
  <2>1. \A i \in Tasks : i = n \/ i \in Tasks'
    BY <1>1, <1>5
  <2> QED BY <1>1, <1>5, <1>6, <2>1, SMTT(60) DEF Pending, Begun
<1>10. \A x \in Labels : /\ Open(x)' <=> Open(x) /\ x # v
                         /\ White(x)' <=> White(x)
  BY <1>1, <1>4 DEF Open, White, DFN_INF
<1>11. \A x \in Labels : /\ Waiting(x)' <=> Waiting(x)
                         /\ Waiting(x) => dfn[x] < dfn[v] /\ x # v
  BY <1>1, <1>3, <1>9, <1>10 DEF Waiting
<1>12. ASSUME NEW s \in Labels, Edge(v, s)
       PROVE  dfn[s] = DFN_INF
  <2> SUFFICES ASSUME Open(s) PROVE FALSE
    BY <1>1, <1>12, SMTT(60) DEF White, Open
  <2>1. dfn[s] < dfn[v] \/ s = v
    BY <1>1, <1>3, SMTT(60)
  <2>2. MinDfn(s) <= dfn[s] /\ MinDfn(s) \in Nat /\ dfn[s] \in Nat
    BY OpenMinDfn, MinDfnType DEF TypeOK
  <2>3. MinDfn(s) <= dfn[v]
    BY <1>1, <2>1, <2>2
  <2> QED BY <1>1, <1>12, <2>3, HeadDfnIsLeast, SMTT(60)
<1> QED BY <1>0, <1>1, <1>2, <1>4, <1>6, <1>8, <1>10, <1>11, <1>12, SMTT(60) DEF IsAlone, SameGraph

LEMMA StepCloses ==
    ASSUME BuilderState, ContinueVisit, NEW n, n = Len(visit_stack), NEW v, v = Vertex(n)
    PROVE  Closes(n, v)
<1> USE DEF BuilderState, BuilderInv
<1>0. Popped("ContinueVisit") /\ visit_stack # <<>> /\ UNCHANGED <<children, num, dfn, head_dfn, parent>>
      /\ visit_stack' = Pop(visit_stack)
  BY DEF ContinueVisit, Popped
<1>1. n \in Nat \ {0} /\ Tasks = 1 .. n /\ n \in Tasks /\ Type(n) = "ContinueVisit" /\ v \in Labels
      /\ Top(visit_stack) = visit_stack[n]
  BY <1>0, PoppedTask
<1>2. Running(n) /\ Begun(n)
  BY <1>1 DEF Running, Begun
<1>3. dfn[v] = DFN_INF /\ Target(n) < Cycle(n)
  BY <1>1, SMTT(60) DEF TaskInv, TaskOK, Type, Target, Cycle, Vertex
<1>4. part' = [part EXCEPT ![Cycle(n)] = Append(@, LabelComp(v)), ![Target(n)] = Append(@, CycleComp(Cycle(n)))]
  BY <1>1 DEF ContinueVisit, Target, Cycle, Vertex
<1>5. Pops(n, v)
  BY <1>0, LevelsKept, StepPops, SMTT(60)
<1>6. \A x \in Labels : Waiting(x)' <=> Waiting(x)
  BY <1>0, <1>1, WaitingKept
<1>7. ASSUME NEW i \in Tasks, i < n, Begun(i)
      PROVE  Level(i) < Level(n) /\ Vertex(i) # v
  <2>1. Level(i) < Level(n) /\ Level(i) \in Nat /\ Level(n) \in Nat
    BY <1>1, <1>2, <1>7, TaskTypes, SMTT(60) DEF TaskInv
  <2>2. Type(i) = "StartVisit" => Open(Vertex(i))
    BY <1>7 DEF TaskInv, TaskOK, Type, Vertex
  <2> QED BY <1>1, <1>3, <2>1, <2>2, SMTT(60) DEF Level, Open
<1>8. ASSUME NEW x \in Labels, Open(x)
      PROVE  dfn[x] < Level(n)
  <2>1. CASE Pending(x)
    <3>1. PICK i \in Tasks : Type(i) = "StartVisit" /\ Vertex(i) = x
      BY <2>1 DEF Pending
    <3>2. i < n /\ Begun(i) /\ Level(i) = dfn[x]
      BY <1>1, <3>1 DEF Begun, Level
    <3> QED BY <1>7, <3>2, SMTT(60)
  <2>2. CASE ~ Pending(x)
    <3>1. PICK i \in Tasks : Holds(i, x)
      BY <1>8, <2>2, SMTT(60) DEF Waiting, WaitingInv
    <3>2. i < n
      BY <1>1, <3>1, SMTT(60) DEF Holds
    <3> QED BY <1>1, <1>2, <3>1, <3>2, SMTT(60) DEF Holds
  <2> QED BY <2>1, <2>2
<1>9. ASSUME NEW s \in Labels, Edge(v, s)
      PROVE  ~ White(s)
  <2>1. Covers({}, n)
    BY <1>1 DEF Covers
  <2>2. {} \in SUBSET Labels
    OBVIOUS
  <2> QED BY <1>1, <1>2, <1>9, <2>1, <2>2, SMTT(60) DEF WhiteInv
<1>10. \A i \in 1 .. n - 1 : Begun(i) => Level(i) < Level(n) /\ Vertex(i) # v
  BY <1>1, <1>7, SMTT(60)
<1> QED BY <1>0, <1>2, <1>3, <1>4, <1>5, <1>6, <1>8, <1>9, <1>10, SMTT(60) DEF Closes, SameGraph

\* The vertices above v on the stack.
LEMMA AboveOnStack ==
    ASSUME BuilderState, NEW v \in Labels, Open(v), NEW k, k = LastIndexOf(stack, v),
           NEW above, above = {stack[i] : i \in k + 1 .. Len(stack)}
    PROVE  \A x : x \in above <=> x \in Labels /\ Above(v, x)
<1> USE DEF BuilderState, BuilderInv
<1>1. stack \in Seq(Labels) /\ Len(stack) \in Nat /\ DOMAIN stack = 1 .. Len(stack)
  BY DEF TypeOK
<1>2. \A m \in DOMAIN stack : stack[m] \in Labels /\ Open(stack[m]) /\ dfn[stack[m]] \in Nat
  BY <1>1, SMTT(60) DEF StackInv, TypeOK
<1>3. PICK m \in DOMAIN stack : stack[m] = v
  BY DEF StackInv
<1>4. ASSUME NEW l \in DOMAIN stack, stack[l] = v
      PROVE  l = m
  <2>1. ~ (l < m) /\ ~ (m < l)
    BY <1>2, <1>3, <1>4 DEF StackInv
  <2> QED BY <1>1, <2>1
<1>5. k = m
  BY <1>1, <1>3, <1>4, LastIndex, ZenonT(60)
<1>6. ASSUME NEW x \in above
      PROVE  x \in Labels /\ Above(v, x)
  <2>1. PICK i \in k + 1 .. Len(stack) : x = stack[i]
    BY <1>6
  <2>2. i \in DOMAIN stack /\ m < i
    BY <1>1, <1>5
  <2>3. dfn[v] < dfn[x] /\ x \in Labels /\ Open(x) /\ dfn[x] \in Nat /\ dfn[v] \in Nat
    BY <1>2, <1>3, <2>1, <2>2, SMTT(60) DEF StackInv
  <2> QED BY <2>3 DEF Above
<1>7. ASSUME NEW x \in Labels, Above(v, x)
      PROVE  x \in above
  <2>1. Open(x) /\ dfn[x] > dfn[v] /\ dfn[x] \in Nat /\ dfn[v] \in Nat
    BY <1>7 DEF TypeOK, Above
  <2>2. PICK i \in DOMAIN stack : stack[i] = x
    BY <2>1 DEF StackInv
  <2>3. ~ (i < m) /\ i # m
    <3>1. i < m => dfn[x] < dfn[v]
      BY <1>3, <2>2 DEF StackInv
    <3> QED BY <1>3, <2>1, <2>2, <3>1
  <2>4. i \in k + 1 .. Len(stack)
    BY <1>1, <1>5, <2>3, SMTT(60)
  <2> QED BY <2>2, <2>4
<1> QED BY <1>6, <1>7

LEMMA StepOpens ==
    ASSUME BuilderState, StartVisit, NEW n, n = Len(visit_stack), NEW v, v = Vertex(n),
           HeadDfn(v) = dfn[v], IsLoop(v),
           NEW k, k = LastIndexOf(stack, v), NEW above, above = {stack[i] : i \in k + 1 .. Len(stack)},
           dfn' = Forget(dfn, v, above, DFN_INF), head_dfn' = Forget(head_dfn, v, above, HeadDfn(v)),
           part' = [c \in 0 .. NumCycles + 1 |-> IF c = NumCycles + 1 THEN <<>> ELSE part[c]],
           parent' = Append(parent, Cycle(n)),
           visit_stack' = EnqueueUnvisitedSuccs(dfn',
               Append(Pop(visit_stack), VisitTask("ContinueVisit", v, Target(n), NumCycles + 1)),
               v, NumCycles + 1, NumCycles + 1)
    PROVE  Opens(n, v)
<1> USE DEF BuilderState, BuilderInv
<1>0. Popped("StartVisit") /\ visit_stack # <<>> /\ UNCHANGED <<children, num>>
  BY DEF StartVisit, Popped
<1>1. /\ n \in Nat \ {0} /\ Tasks = 1 .. n /\ n \in Tasks /\ Type(n) = "StartVisit" /\ v \in Labels
      /\ Open(v) /\ Pending(v) /\ Level(n) = dfn[v] /\ dfn[v] \in Nat
      /\ \A y, s \in Labels : (y = v \/ Holds(n, y)) /\ Edge(y, s) => ~ White(s)
      /\ \A x \in Labels : Pending(x) => dfn[x] < dfn[v] \/ x = v
      /\ \A w \in Labels : Holds(n, w) <=> Open(w) /\ dfn[w] > dfn[v]
  BY <1>0, TopPending
<1>2. Target(n) = Cycle(n) /\ Cycle(n) \in 0 .. NumCycles /\ NumCycles \in Nat
  <2>1. Target(n) = Cycle(n)
    BY <1>1, SMTT(60) DEF TaskInv, TaskOK, Type, Target, Cycle
  <2> QED BY <1>1, <2>1, TaskTypes, PartType, SMTT(60)
<1>3. \A w \in Labels : Holds(n, w) => head_dfn[w] >= dfn[v]
  BY <1>0, TopHead
<1>4. \A x : x \in above <=> x \in Labels /\ Above(v, x)
  BY <1>1, AboveOnStack, ZenonT(60)
<1>5. \A x \in Labels : dfn[x] \in Nat /\ head_dfn[x] \in Nat
  BY DEF TypeOK
<1>6. ~ Above(v, v)
  BY <1>1 DEF Above
<1>7. \A x \in Labels : dfn'[x] = (IF x = v THEN DFN_INF ELSE IF x \in above THEN 0 ELSE dfn[x])
                     /\ head_dfn'[x] = (IF x = v THEN HeadDfn(v) ELSE IF x \in above THEN 0 ELSE head_dfn[x])
  BY SMTT(60) DEF Forget
<1>8. /\ dfn'[v] = DFN_INF /\ head_dfn'[v] = dfn[v]
      /\ \A x \in Labels : /\ Above(v, x) => dfn'[x] = 0
                           /\ x # v /\ ~ Above(v, x) => dfn'[x] = dfn[x] /\ head_dfn'[x] = head_dfn[x]
  BY <1>1, <1>4, <1>6, <1>7, SMTT(60)
<1>9. \A x \in Labels : Above(v, x) <=> Holds(n, x)
  BY <1>1 DEF Above
<1>10. \A x \in Labels : Open(x) /\ dfn[x] = dfn[v] => x = v
  BY <1>1, OpenOnce
<1>11. \A x \in Labels : /\ Open(x)' <=> Open(x) /\ dfn[x] < dfn[v]
                         /\ White(x)' <=> White(x) \/ Above(v, x)
  <2> SUFFICES ASSUME NEW x \in Labels
               PROVE  /\ Open(x)' <=> Open(x) /\ dfn[x] < dfn[v]
                      /\ White(x)' <=> White(x) \/ Above(v, x)
    OBVIOUS
  <2>1. CASE x = v
    BY <1>1, <1>6, <1>8, <2>1, SMTT(60) DEF Open, White, DFN_INF
  <2>2. CASE Above(v, x)
    BY <1>1, <1>5, <1>8, <2>2, SMTT(60) DEF Open, White, Above
  <2>3. CASE x # v /\ ~ Above(v, x)
    <3>1. dfn'[x] = dfn[x] /\ (Open(x) => dfn[x] < dfn[v])
      BY <1>1, <1>5, <1>8, <1>10, <2>3, SMTT(60) DEF Above
    <3> QED BY <2>3, <3>1 DEF Open, White
  <2> QED BY <2>1, <2>2, <2>3
<1> DEFINE c == NumCycles + 1
           t == VisitTask("ContinueVisit", v, Cycle(n), c)
           C == 0 .. c
           number == dfn'
<1>12. number \in [Labels -> Nat] /\ t \in TaskOf(C) /\ c \in C /\ 0 .. NumCycles \subseteq C
      /\ t.vertex = v /\ t.type = "ContinueVisit" /\ t.containing_cycle = c /\ number = dfn'
      /\ t.target_cycle = Cycle(n)
  <2>1. number \in [Labels -> Nat]
    <3>1. DFN_INF \in Nat /\ dfn' = [l \in Labels |-> IF l = v THEN DFN_INF ELSE IF l \in above THEN 0 ELSE dfn[l]]
      BY DEF DFN_INF, Forget
    <3> QED BY <1>5, <3>1, SMTT(60)
  <2>2. c \in C /\ Cycle(n) \in C /\ 0 .. NumCycles \subseteq C
    BY <1>2
  <2> QED BY <1>1, <2>1, <2>2, SMTT(60) DEF TaskType, TaskOf, VisitTask
<1>13. visit_stack' = EnqueueUnvisitedSuccs(number, Append(Pop(visit_stack), t), v, c, c)
  BY <1>2
<1>14. c = NumCycles + 1
  OBVIOUS
<1> HIDE DEF t, C, number, c
<1>15. TopReplacedBy(n, v, t, c)
  <2>1. t.type # "PushSuccessors"
    BY <1>12
  <2> QED BY <1>0, <1>12, <1>13, <2>1, TopReplaced, ZenonT(60)
<1>16. \A i \in 1 .. n - 1 : /\ i \in Tasks /\ Vertex(i) \in Labels
                             /\ Begun(i) => /\ Vertex(i) # v /\ Level(i) < dfn[v] /\ Level(i) \in Nat
                                            /\ Type(i) = "StartVisit" \/ Type(i) = "ContinueVisit"
  BY <1>0, BelowTop
<1>17. \A i \in 1 .. n - 1 : Begun(i) => Level(i)' = Level(i)
  <2> SUFFICES ASSUME NEW i \in 1 .. n - 1, Begun(i) PROVE Level(i)' = Level(i)
    OBVIOUS
  <2>1. i \in Tasks /\ Type(i)' = Type(i) /\ Vertex(i)' = Vertex(i) /\ Vertex(i) \in Labels
    BY <1>15, SMTT(60) DEF TopReplacedBy
  <2>2. ~ Above(v, Vertex(i))
    <3>1. CASE Type(i) = "StartVisit"
      BY <1>1, <1>16, <2>1, <3>1, SMTT(60) DEF Level, Above
    <3>2. CASE Type(i) = "ContinueVisit"
      <4>1. dfn[Vertex(i)] = DFN_INF
        BY <2>1, <3>2, SMTT(60) DEF TaskInv, TaskOK, Type, Vertex
      <4> QED BY <4>1, SMTT(60) DEF Above, Open
    <3> QED BY <1>16, <3>1, <3>2
  <2>3. dfn'[Vertex(i)] = dfn[Vertex(i)] /\ head_dfn'[Vertex(i)] = head_dfn[Vertex(i)]
    BY <1>8, <1>16, <2>1, <2>2, SMTT(60)
  <2> QED BY <2>1, <2>3 DEF Level
<1>18. Pushes(n, v, t.type, t.target_cycle, c)
  <2>1. t.type # "PushSuccessors"
    BY <1>12
  <2> QED BY <1>0, <1>12, <1>13, <1>17, <2>1, StepPushes, SMTT(60)
<1>19. Level(n)' = dfn[v]
  BY <1>8, <1>12, <1>15 DEF TopReplacedBy, Level
<1>20. \A x \in Labels : Pending(x)' <=> Pending(x) /\ x # v
  <2> SUFFICES ASSUME NEW x \in Labels PROVE Pending(x)' <=> Pending(x) /\ x # v
    OBVIOUS
  <2>1. ASSUME NEW i \in Tasks, Type(i) = "StartVisit", Vertex(i) = x, x # v
        PROVE  Pending(x)'
    <3>1. i \in 1 .. n - 1
      BY <1>1, <2>1, SMTT(60)
    <3>2. i \in Tasks' /\ Type(i)' = Type(i) /\ Vertex(i)' = Vertex(i)
      BY <1>15, <3>1, SMTT(60) DEF TopReplacedBy
    <3> QED BY <2>1, <3>2 DEF Pending
  <2>2. ASSUME NEW i \in Tasks', Type(i)' = "StartVisit", Vertex(i)' = x
        PROVE  Pending(x) /\ x # v
    <3>0. /\ Tasks' = 1 .. Len(visit_stack') /\ Len(visit_stack') \in Nat /\ Type(n)' = "ContinueVisit"
          /\ i > n => Type(i)' = "PushSuccessors"
      BY <1>12, <1>15, SMTT(60) DEF TopReplacedBy
    <3>1. i # n /\ ~ (i > n) /\ i \in Nat
      BY <2>2, <3>0, SMTT(60)
    <3>2. i \in 1 .. n - 1
      BY <1>1, <2>2, <3>0, <3>1, SMTT(60)
    <3>3. i \in Tasks /\ Type(i)' = Type(i) /\ Vertex(i)' = Vertex(i)
      BY <1>15, <3>2, SMTT(60) DEF TopReplacedBy
    <3> QED BY <1>16, <2>2, <3>2, <3>3 DEF Pending, Begun
  <2> QED BY <2>1, <2>2 DEF Pending
<1>21. \A x \in Labels : /\ Waiting(x)' <=> Waiting(x) /\ dfn[x] < dfn[v]
                         /\ Above(v, x) => Waiting(x) /\ head_dfn[x] >= dfn[v]
  <2>1. \A x \in Labels : Waiting(x)' <=> Waiting(x) /\ dfn[x] < dfn[v]
    BY <1>1, <1>11, <1>20, SMTT(60) DEF Waiting
  <2>2. \A x \in Labels : Above(v, x) => Waiting(x) /\ head_dfn[x] >= dfn[v]
    BY <1>3, <1>9, SMTT(60) DEF Holds
  <2> QED BY <2>1, <2>2, SMTT(60)
<1>22. ASSUME NEW x \in Labels, NEW s \in Labels, x = v \/ Above(v, x), Edge(x, s)
       PROVE  s = v \/ Above(v, s) \/ dfn[s] = DFN_INF
  <2> SUFFICES ASSUME Open(s), s # v PROVE Above(v, s)
    BY <1>1, <1>9, <1>22, SMTT(60) DEF White, Open
  <2>1. dfn[s] \in Nat /\ dfn[s] # dfn[v]
    BY <1>5, <1>10, SMTT(60)
  <2>2. dfn[v] <= dfn[s]
    <3>1. CASE x = v
      <4>1. HeadDfn(v) <= MinDfn(s) /\ MinDfn(s) \in Nat
        BY <1>1, <1>22, <3>1, HeadDfnIsLeast, MinDfnType, SMTT(60)
      <4>2. MinDfn(s) <= dfn[s]
        BY OpenMinDfn
      <4> QED BY <1>1, <2>1, <4>1, <4>2, SMTT(60)
    <3>2. CASE Above(v, x)
      <4>1. Waiting(x) /\ head_dfn[x] >= dfn[v] /\ head_dfn[x] \in Nat
        BY <1>5, <1>21, <3>2, SMTT(60)
      <4>2. head_dfn[x] <= dfn[s]
        BY <1>22, <4>1, SMTT(60) DEF WaitingInv
      <4> QED BY <1>1, <2>1, <4>1, <4>2, SMTT(60)
    <3> QED BY <1>22, <3>1, <3>2
  <2> QED BY <1>1, <2>1, <2>2, SMTT(60) DEF Above
<1>23. \E s \in Labels : Edge(v, s) /\ (s = v \/ Above(v, s))
  <2>1. PICK s \in Labels : Edge(v, s) /\ MinDfn(s) <= dfn[v]
    BY <1>1, HeadDfnIsLeast
  <2>2. Open(s)
    BY <1>1, <2>1, MinDfnOpen, SMTT(60)
  <2> QED BY <1>1, <1>22, <2>1, <2>2 DEF Open
<1>24. ASSUME NEW X \in SUBSET Labels,
              \A s \in Labels : Above(v, s) /\ Edge(v, s) => s \in X,
              \A x \in X, s \in Labels : Above(v, x) /\ Above(v, s) /\ Edge(x, s) => s \in X
       PROVE  \A x \in Labels : Above(v, x) => x \in X
  <2>1. HoldsWithin(n, X)
    BY <1>9, <1>24 DEF HoldsWithin
  <2> QED BY <1>1, <1>9, <2>1 DEF WaitingInv
<1>25. NumCycles' = NumCycles + 1
  <2>1. parent \in Seq(0 .. NumCycles)
    BY DEF TypeOK
  <2>2. Len(parent') = Len(parent) + 1
    BY <2>1
  <2> QED BY <2>2 DEF NumCycles
<1>26. Pushes(n, v, "ContinueVisit", Cycle(n), NumCycles + 1)
  BY <1>12, <1>14, <1>18
<1>27. ~ Waiting(v)
  BY <1>1 DEF Waiting
<1>28. \A i \in 1 .. n - 1 : Begun(i) => Level(i) < dfn[v] /\ Vertex(i) # v
  BY <1>16
<1> HIDE DEF BuilderState, BuilderInv
<1> QED BY <1>0, <1>1, <1>2, <1>8, <1>10, <1>11, <1>19, <1>21, <1>22, <1>23, <1>24, <1>25, <1>26, <1>27, <1>28, SMTT(60)
        DEF Opens, SameGraph

Moves(n, v) ==
    \/ Drops(n, v) \/ Numbers(n, v)
    \/ Leaves(n, v) \/ IsAlone(n, v) \/ Opens(n, v)
    \/ Closes(n, v)

LEMMA Steps ==
    ASSUME BuilderState, num' < DFN_INF, [Next]_vars
    PROVE  \/ wto' = wto /\ Moves(Len(visit_stack), Vertex(Len(visit_stack)))
           \/ Idles
<1> USE DEF BuilderState, BuilderInv
<1> DEFINE n == Len(visit_stack)
           v == Vertex(n)
<1>1. CASE PushSuccessors
  <2>1. Top(visit_stack) = visit_stack[n] /\ wto' = wto
    BY <1>1, PoppedTask DEF PushSuccessors
  <2>2. CASE dfn[v] # 0 /\ visit_stack' = Pop(visit_stack) /\ UNCHANGED <<dfn, num, stack>>
    <3> HIDE DEF n, v
    <3>1. n = Len(visit_stack) /\ v = Vertex(n)
      BY DEF n, v
    <3>2. Drops(n, v)
      BY <1>1, <2>2, <3>1, StepDrops
    <3> QED BY <2>1, <3>2 DEF Moves, n, v
  <2>3. CASE /\ dfn[v] = 0 /\ num' = num + 1 /\ dfn' = [dfn EXCEPT ![v] = num + 1]
             /\ visit_stack' = EnqueueUnvisitedSuccs(dfn',
                   Append(Pop(visit_stack), VisitTask("StartVisit", v, Target(n), Cycle(n))), v, Target(n), Cycle(n))
    <3> HIDE DEF n, v
    <3>1. n = Len(visit_stack) /\ v = Vertex(n) /\ White(v)
      BY <2>3 DEF n, v, White
    <3>2. Numbers(n, v)
      BY <1>1, <2>3, <3>1, StepNumbers
    <3> QED BY <2>1, <3>2 DEF Moves, n, v
  <2> QED BY <1>1, <2>1, <2>2, <2>3, SMTT(60) DEF PushSuccessors, Vertex, Target, Cycle
<1>2. CASE StartVisit
  <2>1. Top(visit_stack) = visit_stack[n] /\ wto' = wto
    BY <1>2, PoppedTask DEF StartVisit
  <2> DEFINE k == LastIndexOf(stack, v)
             above == {stack[i] : i \in k + 1 .. Len(stack)}
             c == NumCycles + 1
  <2>2. CASE /\ HeadDfn(v) # dfn[v] /\ head_dfn' = [head_dfn EXCEPT ![v] = HeadDfn(v)]
             /\ visit_stack' = Pop(visit_stack) /\ UNCHANGED <<dfn, stack, part, parent>>
    <3> HIDE DEF n, v
    <3>1. n = Len(visit_stack) /\ v = Vertex(n)
      BY DEF n, v
    <3>2. Leaves(n, v)
      BY <1>2, <2>2, <3>1, StepLeaves
    <3> QED BY <2>1, <3>2 DEF Moves, n, v
  <2>3. CASE /\ HeadDfn(v) = dfn[v] /\ ~ IsLoop(v)
             /\ dfn' = [dfn EXCEPT ![v] = DFN_INF] /\ head_dfn' = [head_dfn EXCEPT ![v] = HeadDfn(v)]
             /\ part' = [part EXCEPT ![Target(n)] = Append(@, LabelComp(v))]
             /\ visit_stack' = Pop(visit_stack) /\ parent' = parent
    <3> HIDE DEF n, v
    <3>1. n = Len(visit_stack) /\ v = Vertex(n)
      BY DEF n, v
    <3>2. IsAlone(n, v)
      BY <1>2, <2>3, <3>1, StepAlone
    <3> QED BY <2>1, <3>2 DEF Moves, n, v
  <2>4. CASE /\ HeadDfn(v) = dfn[v] /\ IsLoop(v)
             /\ dfn' = Forget(dfn, v, above, DFN_INF) /\ head_dfn' = Forget(head_dfn, v, above, HeadDfn(v))
             /\ part' = [i \in 0 .. c |-> IF i = c THEN <<>> ELSE part[i]]
             /\ parent' = Append(parent, Cycle(n))
             /\ visit_stack' = EnqueueUnvisitedSuccs(dfn',
                   Append(Pop(visit_stack), VisitTask("ContinueVisit", v, Target(n), c)), v, c, c)
    <3> HIDE DEF n, v, k, above
    <3>1. n = Len(visit_stack) /\ v = Vertex(n) /\ k = LastIndexOf(stack, v)
          /\ above = {stack[i] : i \in k + 1 .. Len(stack)}
      BY DEF n, v, k, above
    <3>2. Opens(n, v)
      BY <1>2, <2>4, <3>1, StepOpens
    <3> QED BY <2>1, <3>2 DEF Moves, n, v
  <2> HIDE DEF BuilderState, BuilderInv
  <2> QED BY <1>2, <2>1, <2>2, <2>3, <2>4, SMTT(60) DEF StartVisit, Vertex, Target, Cycle
<1>3. CASE ContinueVisit
  <2>1. Closes(n, v) /\ wto' = wto
    BY <1>3, StepCloses DEF ContinueVisit
  <2> QED BY <2>1 DEF Moves
<1>4. Finalize \/ Terminated \/ UNCHANGED vars => Idles
  BY DEF Finalize, Terminated, vars, Idles
<1> QED BY <1>1, <1>2, <1>3, <1>4, SMTT(60) DEF Next

-----------------------------------------------------------------------------
(***************************************************************************)
(* The tasks from the bottom of the stack to the top: each works in the    *)
(* partition that the one below has opened or works in itself, and the     *)
(* first one is for the entry.                                             *)
(***************************************************************************)
NestInv ==
    /\ \A i \in Tasks : i = 1 => /\ Target(i) = 0 /\ Vertex(i) = Entry
                                 /\ Type(i) = "PushSuccessors" => White(Entry) /\ Tasks = {1}
    /\ \A i \in Tasks : i + 1 \in Tasks => Target(i + 1) = Cycle(i)
    /\ \A i, j \in Tasks : i < j /\ Running(i) => Cycle(i) <= Target(j)
    /\ \A i \in Tasks : Target(i) = 0 \/ \E j \in Tasks : j < i /\ Running(j) /\ Cycle(j) = Target(i)

LEMMA NestPopped ==
    ASSUME NestInv, NEW n, NEW v, Pops(n, v)
    PROVE  NestInv'
<1>1. /\ n \in Nat \ {0} /\ Tasks = 1 .. n /\ Tasks' = 1 .. n - 1
      /\ \A i \in 1 .. n - 1 : /\ i \in Tasks /\ i \in Tasks' /\ i < n
                               /\ Type(i)' = Type(i) /\ Vertex(i)' = Vertex(i)
                               /\ Target(i)' = Target(i) /\ Cycle(i)' = Cycle(i)
                               /\ Running(i)' <=> Running(i)
  BY DEF Pops, Below, Running
<1>2. ASSUME NEW i \in Tasks', i = 1
      PROVE  Target(i)' = 0 /\ Vertex(i)' = Entry /\ Type(i)' # "PushSuccessors"
  <2>1. n # 1 /\ n \in Tasks /\ i \in Tasks
    BY <1>1, <1>2
  <2>2. Tasks # {1}
    BY <2>1
  <2> QED BY <1>1, <1>2, <2>1, <2>2, SMTT(60) DEF NestInv
<1>3. \A i \in Tasks' : i + 1 \in Tasks' => Target(i + 1)' = Cycle(i)'
  BY <1>1 DEF NestInv
<1>4. \A i, j \in Tasks' : i < j /\ Running(i)' => Cycle(i)' <= Target(j)'
  BY <1>1 DEF NestInv
<1>5. ASSUME NEW i \in Tasks'
      PROVE  Target(i)' = 0 \/ \E j \in Tasks' : j < i /\ Running(j)' /\ Cycle(j)' = Target(i)'
  <2>1. CASE Target(i) = 0
    BY <1>1, <2>1, SMTT(60)
  <2>2. CASE Target(i) # 0
    <3>1. PICK j \in Tasks : j < i /\ Running(j) /\ Cycle(j) = Target(i)
      BY <1>1, <2>2 DEF NestInv
    <3>2. j \in 1 .. n - 1
      BY <1>1, <3>1
    <3> QED BY <1>1, <3>1, <3>2, SMTT(60)
  <2> QED BY <2>1, <2>2, SMTT(60)
<1> QED BY <1>2, <1>3, <1>4, <1>5, SMTT(60) DEF NestInv

LEMMA NestPushed ==
    ASSUME NestInv, TypeOK, NEW n, NEW v, NEW type, NEW c \in Nat, Pushes(n, v, type, Target(n), c),
           \/ type = "StartVisit" /\ c = Target(n)
           \/ type = "ContinueVisit" /\ c > NumCycles
    PROVE  NestInv'
<1>1. /\ n \in Nat \ {0} /\ Tasks = 1 .. n /\ Tasks' = 1 .. Len(visit_stack') /\ n \in Tasks /\ n \in Tasks'
      /\ Len(visit_stack') \in Nat
      /\ \A i \in 1 .. n - 1 : /\ i \in Tasks /\ i \in Tasks' /\ i < n
                               /\ Type(i)' = Type(i) /\ Vertex(i)' = Vertex(i)
                               /\ Target(i)' = Target(i) /\ Cycle(i)' = Cycle(i)
                               /\ Running(i)' <=> Running(i)
  BY DEF Pushes, Below, Running
<1>2. /\ Type(n)' = type /\ Vertex(n)' = Vertex(n) /\ Target(n)' = Target(n) /\ Cycle(n)' = c
      /\ Running(n)' <=> type = "ContinueVisit"
      /\ type # "PushSuccessors"
  BY DEF Pushes, Running
<1>3. \A i \in Tasks' : i > n => Target(i)' = c /\ Cycle(i)' = c /\ ~ Running(i)'
  BY DEF Pushes, Running
<1>4. \A i \in Tasks' : i \in 1 .. n - 1 \/ i = n \/ i > n
  BY <1>1
<1>5. ASSUME NEW i \in Tasks', i = 1
      PROVE  Target(i)' = 0 /\ Vertex(i)' = Entry /\ Type(i)' # "PushSuccessors"
  <2>1. CASE n = 1
    BY <1>1, <1>2, <1>5, <2>1, SMTT(60) DEF NestInv
  <2>2. CASE n # 1
    <3>0. Tasks # {1}
      BY <1>1, <2>2
    <3>1. i \in 1 .. n - 1 /\ Tasks # {1}
      BY <1>1, <1>5, <2>2, <3>0
    <3> QED BY <1>1, <1>5, <3>1, SMTT(60) DEF NestInv
  <2> QED BY <2>1, <2>2
<1>6. ASSUME NEW i \in Tasks', i + 1 \in Tasks'
      PROVE  Target(i + 1)' = Cycle(i)'
  <2>1. CASE i \in 1 .. n - 1 /\ i + 1 \in 1 .. n - 1
    BY <1>1, <2>1, SMTT(60) DEF NestInv
  <2>2. CASE i + 1 = n
    <3>1. i \in 1 .. n - 1 /\ i + 1 \in Tasks
      BY <1>1, <1>6, <2>2, SMTT(60)
    <3>2. Target(i + 1) = Cycle(i)
      BY <1>1, <3>1 DEF NestInv
    <3> QED BY <1>1, <1>2, <2>2, <3>1, <3>2, SMTT(60)
  <2>3. CASE ~ (i < n)
    <3>1. i + 1 > n /\ Cycle(i)' = c
      BY <1>1, <1>2, <1>3, <1>6, <2>3, SMTT(60)
    <3> QED BY <1>3, <1>6, <3>1, SMTT(60)
  <2> QED BY <1>1, <1>6, <2>1, <2>2, <2>3, SMTT(60)
<1>7. \A i \in Tasks : Cycle(i) \in 0 .. NumCycles /\ Target(i) \in 0 .. NumCycles /\ NumCycles \in Nat
  BY TaskTypes, PartType
<1>8. ASSUME NEW i \in Tasks', NEW j \in Tasks', i < j, Running(i)'
      PROVE  Cycle(i)' <= Target(j)'
  <2>1. CASE i \in 1 .. n - 1
    <3>1. Cycle(i)' = Cycle(i) /\ Running(i) /\ i \in Tasks
      BY <1>1, <1>8, <2>1, SMTT(60)
    <3>2. CASE j \in 1 .. n - 1
      BY <1>1, <1>8, <3>1, <3>2, SMTT(60) DEF NestInv
    <3>3. Cycle(i) <= Target(n)
      BY <1>1, <2>1, <3>1 DEF NestInv
    <3>4. CASE j = n
      BY <1>2, <3>1, <3>3, <3>4, SMTT(60)
    <3>5. CASE j > n
      BY <1>1, <1>3, <1>7, <3>1, <3>3, <3>5, SMTT(60)
    <3> QED BY <1>4, <3>2, <3>4, <3>5, SMTT(60)
  <2>2. CASE i = n
    <3>1. j > n
      BY <1>8, <2>2
    <3>2. Target(j)' = c /\ Cycle(i)' = c
      BY <1>2, <1>3, <2>2, <3>1
    <3> QED BY <3>2
  <2> QED BY <1>3, <1>4, <1>8, <2>1, <2>2, SMTT(60)
<1>9. ASSUME NEW i \in Tasks', Target(i)' # 0
      PROVE  \E j \in Tasks' : j < i /\ Running(j)' /\ Cycle(j)' = Target(i)'
  <2>1. ASSUME NEW k \in Tasks, k \in 1 .. n, Target(k) # 0
        PROVE  \E j \in 1 .. n - 1 : j \in Tasks' /\ j < k /\ Running(j)' /\ Cycle(j)' = Target(k)
    <3>1. PICK j \in Tasks : j < k /\ Running(j) /\ Cycle(j) = Target(k)
      BY <2>1 DEF NestInv
    <3>2. j \in 1 .. n - 1
      BY <1>1, <2>1, <3>1
    <3> QED BY <1>1, <3>1, <3>2
  <2>2. CASE i \in 1 .. n - 1
    <3>1. Target(i) # 0 /\ Target(i)' = Target(i) /\ i \in Tasks /\ i \in 1 .. n
      BY <1>1, <1>9, <2>2
    <3> QED BY <2>1, <3>1
  <2>3. CASE i = n
    <3>1. Target(n) # 0 /\ n \in 1 .. n
      BY <1>1, <1>2, <1>9, <2>3, SMTT(60)
    <3> QED BY <1>1, <1>2, <2>1, <2>3, <3>1
  <2>4. CASE i > n
    <3>1. Target(i)' = c
      BY <1>3, <2>4
    <3>2. CASE type = "StartVisit" /\ c = Target(n)
      <4>1. n \in 1 .. n /\ Target(n) # 0
        BY <1>1, <1>9, <3>1, <3>2, SMTT(60)
      <4>2. PICK j \in 1 .. n - 1 : j \in Tasks' /\ j < n /\ Running(j)' /\ Cycle(j)' = Target(n)
        BY <1>1, <2>1, <4>1
      <4>3. j < i
        BY <1>1, <2>4, <4>2
      <4> QED BY <3>1, <3>2, <4>2, <4>3, SMTT(60)
    <3>3. CASE type = "ContinueVisit"
      BY <1>1, <1>2, <2>4, <3>1, <3>3
    <3> QED BY <3>2, <3>3, SMTT(60)
  <2> QED BY <1>4, <2>2, <2>3, <2>4
<1> QED BY <1>5, <1>6, <1>8, <1>9, SMTT(60) DEF NestInv

LEMMA NestKept ==
    ASSUME NestInv, TypeOK, NEW n, NEW v, Moves(n, v)
    PROVE  NestInv'
<1>1. CASE Drops(n, v) \/ Leaves(n, v) \/ IsAlone(n, v) \/ Closes(n, v)
  BY <1>1, NestPopped DEF Drops, Leaves, IsAlone, Closes
<1>2. CASE Numbers(n, v)
  <2>1. Pushes(n, v, "StartVisit", Target(n), Target(n)) /\ n \in Tasks
    BY <1>2 DEF Numbers, Pushes
  <2>2. Target(n) \in Nat
    BY <2>1, TaskTypes, PartType
  <2> QED BY <2>1, <2>2, NestPushed
<1>3. CASE Opens(n, v)
  <2>1. Pushes(n, v, "ContinueVisit", Target(n), NumCycles + 1)
    BY <1>3 DEF Opens
  <2>2. NumCycles + 1 \in Nat /\ NumCycles + 1 > NumCycles
    BY PartType
  <2> QED BY <2>1, <2>2, NestPushed
<1> QED BY <1>1, <1>2, <1>3, SMTT(60) DEF Moves

-----------------------------------------------------------------------------
(***************************************************************************)
(* A waiting vertex leads, through ones that wait for the same number, to  *)
(* the vertex that has the number.                                         *)
(***************************************************************************)
Joins(d, s) == Open(s) /\ (dfn[s] = d \/ (Waiting(s) /\ head_dfn[s] = d))
Back(d, X) ==
    /\ \A y \in Labels : Open(y) /\ dfn[y] = d => y \in X
    /\ \A x \in Labels, s \in X : Waiting(x) /\ head_dfn[x] = d /\ Joins(d, s) /\ Edge(x, s) => x \in X
BackInv ==
    \A d \in Nat, X \in SUBSET Labels :
        Back(d, X) => \A w \in Labels : Waiting(w) /\ head_dfn[w] = d => w \in X

LEMMA BackKept ==
    ASSUME BuilderState, BackInv, NEW n, NEW v, Moves(n, v)
    PROVE  BackInv'
<1> USE DEF BuilderState, BuilderInv
<1>0. /\ \A x, y : Edge(x, y)' <=> Edge(x, y)
      /\ v \in Labels
  BY SMTT(60) DEF Moves, Drops, Numbers, Leaves, IsAlone, Opens, Closes, SameGraph, Edge, Pops, Pushes
<1>1. \A x \in Labels : dfn[x] \in Nat /\ head_dfn[x] \in Nat
  BY DEF TypeOK
<1> SUFFICES ASSUME NEW d \in Nat, NEW X \in SUBSET Labels, Back(d, X)',
                    NEW w \in Labels, Waiting(w)', head_dfn'[w] = d
             PROVE  w \in X
  BY DEF BackInv
<1>2. CASE Drops(n, v) \/ Closes(n, v)
  <2>1. /\ dfn' = dfn /\ head_dfn' = head_dfn
        /\ \A x \in Labels : (Waiting(x)' <=> Waiting(x)) /\ (Open(x)' <=> Open(x))
    BY <1>2 DEF Drops, Closes, Open
  <2>2. Back(d, X)
    BY <1>0, <2>1 DEF Back, Joins
  <2> QED BY <2>1, <2>2 DEF BackInv
<1>3. CASE Numbers(n, v)
  <2>1. /\ head_dfn' = head_dfn
        /\ \A x \in Labels : /\ Waiting(x)' <=> Waiting(x)
                             /\ Open(x) => Open(x)' /\ x # v /\ dfn'[x] = dfn[x]
    BY <1>3 DEF Numbers, Open, White
  <2>2. Back(d, X)
    BY <1>0, <2>1 DEF Back, Joins
  <2> QED BY <2>1, <2>2 DEF BackInv
<1>4. CASE Leaves(n, v)
  <2>1. /\ dfn' = dfn /\ ~ Waiting(v)
        /\ \A x \in Labels : x # v => head_dfn'[x] = head_dfn[x]
        /\ \A x \in Labels : /\ Waiting(x)' <=> Waiting(x) \/ x = v
                             /\ Open(x)' <=> Open(x)
    BY <1>4 DEF Leaves, Open
  <2>2. \A x \in Labels : Joins(d, x) => Joins(d, x)'
    BY <2>1 DEF Joins
  <2>3. Back(d, X)
    BY <1>0, <2>1, <2>2, SMTT(60) DEF Back
  <2>4. CASE w # v
    BY <2>1, <2>3, <2>4 DEF BackInv
  <2>5. CASE w = v
    <3>1. PICK s \in Labels : Edge(v, s) /\ Joins(d, s)
      BY <1>4, <2>5, SMTT(60) DEF Leaves, Joins
    <3>2. s \in X
      BY <2>3, <3>1 DEF Joins, Back, BackInv
    <3>3. Edge(v, s)' /\ Joins(d, s)'
      BY <1>0, <2>2, <3>1
    <3> QED BY <2>5, <3>2, <3>3, SMTT(60) DEF Back
  <2> QED BY <2>4, <2>5
<1>5. CASE IsAlone(n, v)
  <2>1. /\ Open(v)
        /\ \A x \in Labels : x # v => dfn'[x] = dfn[x] /\ head_dfn'[x] = head_dfn[x]
        /\ \A x \in Labels : /\ Open(x)' <=> Open(x) /\ x # v
                             /\ Waiting(x)' <=> Waiting(x)
                             /\ Waiting(x) => dfn[x] < dfn[v] /\ x # v
    BY <1>5 DEF IsAlone
  <2> DEFINE Y == X \cup {v}
  <2>2. \A y \in Labels : Open(y) /\ dfn[y] = d => y \in Y
    BY <2>1 DEF Back
  <2>3. ASSUME NEW x \in Labels, NEW s \in Y, Waiting(x), head_dfn[x] = d, Joins(d, s), Edge(x, s)
        PROVE  x \in Y
    <3>1. x # v /\ dfn[x] < dfn[v] /\ d < dfn[x]
      BY <2>1, <2>3, SMTT(60) DEF WaitingInv
    <3>2. s # v
      BY <1>0, <1>1, <2>1, <2>3, <3>1, SMTT(60) DEF Joins
    <3>3. s \in X /\ Joins(d, s)' /\ Edge(x, s)' /\ Waiting(x)' /\ head_dfn'[x] = d
      BY <1>0, <2>1, <2>3, <3>1, <3>2, SMTT(60) DEF Joins
    <3> QED BY <3>3 DEF Back
  <2>4. Y \in SUBSET Labels
    BY <1>0
  <2>5. Back(d, Y)
    BY <2>2, <2>3 DEF Back
  <2>6. Waiting(w) /\ head_dfn[w] = d /\ w # v
    BY <2>1
  <2> HIDE DEF Y
  <2>7. w \in Y
    BY <2>4, <2>5, <2>6 DEF BackInv
  <2> QED BY <2>6, <2>7 DEF Y
<1>6. CASE Opens(n, v)
  <2>1. /\ Open(v) /\ ~ Waiting(v)
        /\ \A x \in Labels : x # v /\ ~ Above(v, x) => dfn'[x] = dfn[x] /\ head_dfn'[x] = head_dfn[x]
        /\ \A x \in Labels : /\ Open(x)' <=> Open(x) /\ dfn[x] < dfn[v]
                             /\ Waiting(x)' <=> Waiting(x) /\ dfn[x] < dfn[v]
                             /\ Above(v, x) => Waiting(x) /\ head_dfn[x] >= dfn[v]
                             /\ Open(x) /\ dfn[x] = dfn[v] => x = v
    BY <1>6 DEF Opens
  <2>2. \A x \in Labels : Open(x) /\ dfn[x] < dfn[v] => x # v /\ ~ Above(v, x)
    BY <1>0, <1>1 DEF Above
  <2> DEFINE Y == X \cup {y \in Labels : Open(y) /\ ~ (dfn[y] < dfn[v])}
  <2>3. Y \in SUBSET Labels
    OBVIOUS
  <2>4. Waiting(w) /\ dfn[w] < dfn[v] /\ head_dfn[w] = d /\ d < dfn[w]
    <3>1. Waiting(w) /\ dfn[w] < dfn[v]
      BY <2>1
    <3>2. head_dfn[w] = d
      BY <2>1, <2>2, <3>1 DEF Waiting
    <3> QED BY <3>1, <3>2 DEF WaitingInv
  <2>5. \A y \in Labels : Open(y) /\ dfn[y] = d => y \in Y
    BY <2>1, <2>2 DEF Back
  <2>6. ASSUME NEW x \in Labels, NEW s \in Y, Waiting(x), head_dfn[x] = d, Joins(d, s), Edge(x, s)
        PROVE  x \in Y
    <3>1. CASE ~ (dfn[x] < dfn[v])
      BY <2>6, <3>1 DEF Waiting
    <3>2. CASE dfn[x] < dfn[v]
      <4>0. s \in Labels /\ Open(s)
        BY <2>3, <2>6 DEF Joins
      <4>1. dfn[s] < dfn[v]
        <5>1. ASSUME ~ (dfn[s] < dfn[v])
              PROVE  FALSE
          <6>1. dfn[s] # d
            BY <1>0, <1>1, <2>4, <4>0, <5>1
          <6>2. Waiting(s) /\ head_dfn[s] = d
            BY <2>6, <6>1 DEF Joins
          <6>3. s # v
            BY <2>1, <6>2
          <6>4. Above(v, s)
            BY <1>0, <1>1, <2>1, <4>0, <5>1, <6>3, SMTT(60) DEF Above
          <6>5. d >= dfn[v]
            BY <2>1, <4>0, <6>2, <6>4
          <6> QED BY <1>0, <1>1, <2>4, <6>5
        <5> QED BY <5>1
      <4>2. s \in X
        BY <2>6, <4>1
      <4>3. Joins(d, s)'
        BY <2>1, <2>2, <2>6, <4>0, <4>1 DEF Joins
      <4>4. Waiting(x)' /\ head_dfn'[x] = d /\ Edge(x, s)'
        BY <1>0, <2>1, <2>2, <2>6, <3>2, SMTT(60) DEF Waiting
      <4> QED BY <4>2, <4>3, <4>4 DEF Back
    <3> QED BY <3>1, <3>2
  <2>7. Back(d, Y)
    BY <2>5, <2>6 DEF Back
  <2>8. w \in Y
    <3> HIDE DEF Y
    <3> QED BY <2>3, <2>4, <2>7 DEF BackInv
  <2> QED BY <2>4, <2>8
<1> QED BY <1>2, <1>3, <1>4, <1>5, <1>6, SMTT(60) DEF Moves

\* All that is above the head of a cycle leads back to it.
LEMMA AboveLeadsBack ==
    ASSUME BuilderState, BackInv, NEW n, NEW v, Opens(n, v), NEW X \in SUBSET Labels,
           \A x \in Labels : Above(v, x) /\ Edge(x, v) => x \in X,
           \A x \in Labels, s \in X : Above(v, x) /\ Above(v, s) /\ Edge(x, s) => x \in X
    PROVE  \A x \in Labels : Above(v, x) => x \in X
<1> USE DEF BuilderState, BuilderInv
<1> DEFINE bad == {x \in Labels : Above(v, x) /\ x \notin X}
           D == {dfn[x] : x \in bad}
<1> SUFFICES ASSUME bad # {} PROVE FALSE
  OBVIOUS
<1>1. \A x \in Labels : dfn[x] \in Nat /\ head_dfn[x] \in Nat
  BY DEF TypeOK
<1>2. D \in SUBSET Nat /\ D # {}
  BY <1>1
<1>3. PICK m \in D : \A e \in D : m <= e
  <2> HIDE DEF D
  <2> QED BY <1>2, LeastNat
<1>4. PICK w \in bad : m = dfn[w]
  BY <1>3
<1>5. w \in Labels /\ Above(v, w) /\ w \notin X /\ \A x \in Labels : Above(v, x) /\ dfn[x] < dfn[w] => x \in X
  BY <1>1, <1>3, <1>4
<1> HIDE DEF D, bad
<1> DEFINE d == head_dfn[w]
           Y == {x \in X : Above(v, x)} \cup {v}
<1>6. /\ v \in Labels /\ Open(v)
      /\ \A x \in Labels : /\ Above(v, x) => Waiting(x) /\ head_dfn[x] >= dfn[v]
                           /\ Open(x) /\ dfn[x] = dfn[v] => x = v
  BY DEF Opens, Pushes
<1>7. d \in Nat /\ dfn[v] <= d /\ d < dfn[w] /\ Waiting(w) /\ w # v /\ dfn[v] \in Nat /\ dfn[w] \in Nat
  <2>1. Waiting(w) /\ d >= dfn[v]
    BY <1>5, <1>6
  <2>2. d < dfn[w]
    BY <1>5, <2>1 DEF WaitingInv
  <2> QED BY <1>1, <1>5, <1>6, <2>1, <2>2
<1>8. Y \in SUBSET Labels
  BY <1>6
<1> HIDE DEF d
<1>9. ASSUME NEW y \in Labels, Open(y), dfn[y] = d
      PROVE  y \in Y
  <2>1. CASE y = v
    BY <2>1
  <2>2. CASE y # v
    <3>1. Above(v, y)
      BY <1>1, <1>6, <1>7, <1>9, <2>2, SMTT(60) DEF Above
    <3>2. y \in X
      BY <1>5, <1>7, <1>9, <3>1, SMTT(60)
    <3> QED BY <3>1, <3>2
  <2> QED BY <2>1, <2>2
<1>10. ASSUME NEW x \in Labels, NEW s \in Y, Waiting(x), head_dfn[x] = d, Edge(x, s)
       PROVE  x \in Y
  <2>1. d < dfn[x] /\ dfn[x] \in Nat /\ Open(x)
    BY <1>1, <1>10 DEF WaitingInv, Waiting
  <2>2. Above(v, x)
    BY <1>7, <2>1 DEF Above
  <2>3. x \in X
    BY <1>8, <1>10, <2>2
  <2> QED BY <2>2, <2>3
<1>11. Back(d, Y)
  BY <1>9, <1>10 DEF Back
<1>12. w \in Y
  <2>1. head_dfn[w] = d
    BY DEF d
  <2> HIDE DEF Y
  <2> QED BY <1>5, <1>7, <1>8, <1>11, <2>1 DEF BackInv
<1> QED BY <1>5, <1>7, <1>12

-----------------------------------------------------------------------------
(***************************************************************************)
(* The line of the labels listed so far.  Partition c has its components   *)
(* in it after place from[c] and up to place to[c]; a cycle is closed when *)
(* its head, the last of them, has been listed.                            *)
(***************************************************************************)
Closed(c) == c \in 1 .. NumCycles /\ ~ \E i \in Tasks : Running(i) /\ Cycle(i) = c
Current == IF Tasks = {} THEN 0 ELSE Cycle(Len(visit_stack))

PlaceInv(line, from, to) ==
    /\ line \in Seq(Labels)
    /\ from \in [0 .. NumCycles -> Nat] /\ to \in [0 .. NumCycles -> Nat]
    /\ \A c \in 0 .. NumCycles : from[c] <= to[c] /\ to[c] <= Len(line)
    /\ from[0] = 0 /\ to[Current] = Len(line)
    /\ \A i \in Tasks : Running(i) => to[Target(i)] = from[Cycle(i)]
    /\ \A i, j \in Tasks : i < j /\ Running(i) /\ Running(j) => from[Cycle(i)] <= from[Cycle(j)]
    /\ Tasks = {} => Len(line) > 0 /\ line[Len(line)] = Entry

\* Two cycles are apart or one is in the other.
LaminarInv(from, to) ==
    /\ \A c \in 1 .. NumCycles : Closed(c) => from[c] < to[c]
    /\ \A c, d \in 1 .. NumCycles :
          Closed(d) /\ (Closed(c) => to[d] <= to[c]) /\ from[c] < to[d] => from[c] <= from[d]
    /\ \A c, d \in 1 .. NumCycles : Closed(c) /\ Closed(d) /\ to[c] = to[d] => c = d

\* Component x lies after place a and up to place b.
PieceOK(x, a, b, line, from, to) ==
    /\ x.kind = "label" => b = a + 1 /\ b \in DOMAIN line /\ line[b] = x.label
    /\ x.kind = "cycle" => Closed(x.idx) /\ a = from[x.idx] /\ b = to[x.idx]
Cuts(s, cut, line, from, to) ==
    /\ cut \in [0 .. Len(s) -> Nat]
    /\ \A k \in 1 .. Len(s) : PieceOK(s[k], cut[k - 1], cut[k], line, from, to)
SpellInv(line, from, to) ==
    /\ \A c \in 0 .. NumCycles : \E cut :
          /\ Cuts(part[c], cut, line, from, to)
          /\ cut[0] = from[c] /\ cut[Len(part[c])] = to[c]
    /\ \A c \in 1 .. NumCycles : Closed(c) =>
          Len(part[c]) > 0 /\ Top(part[c]) = LabelComp(line[to[c]])

\* A label is listed once, when it is finished and heads no cycle that still runs.
ListInv(line) ==
    /\ \A p, q \in DOMAIN line : line[p] = line[q] => p = q
    /\ \A x \in Labels : (\E p \in DOMAIN line : line[p] = x)
          <=> dfn[x] = DFN_INF /\ ~ \E i \in Tasks : Running(i) /\ Vertex(i) = x

\* An edge leads to a label listed before, or to the head of a cycle around it.
EdgeInv(line, from, to) ==
    \A p \in DOMAIN line, s \in Labels : Edge(line[p], s) =>
        \/ \E q \in DOMAIN line : q < p /\ line[q] = s
        \/ \E c \in 1 .. NumCycles : Closed(c) /\ from[c] < p /\ p <= to[c] /\ line[to[c]] = s
        \/ \E i \in Tasks : Running(i) /\ Vertex(i) = s /\ from[Cycle(i)] < p

\* The labels of a closed cycle lead back to its head, and it to them.
Segment(c, line, from, to) == {line[p] : p \in from[c] + 1 .. to[c]}
LeadBack(S, v) ==
    \A X \in SUBSET S :
        (\A x \in S : (Edge(x, v) \/ \E s \in X : Edge(x, s)) => x \in X) => X = S
LeadOn(S, v) ==
    \A X \in SUBSET S : v \in X /\ (\A s \in S : (\E x \in X : Edge(x, s)) => s \in X) => X = S
BothWays(S, v) == LeadBack(S, v) /\ LeadOn(S, v)
ConnInv(line, from, to) ==
    \A c \in 1 .. NumCycles : Closed(c) => BothWays(Segment(c, line, from, to), line[to[c]])

\* The members of the cycle that task i walks again, its head excepted.
LedTo(v, M) ==
    \A X \in SUBSET M :
        (\A s \in M : (Edge(v, s) \/ \E x \in X : Edge(x, s)) => s \in X) => X = M
InCycleOf(i, M) ==
    /\ \A j \in Tasks : j > i => Vertex(j) \in M
    /\ \A x \in Labels : Open(x) => (x \in M <=> dfn[x] > Level(i))
    /\ \A x \in M, s \in Labels : Edge(x, s) => s \in M \/ dfn[s] = DFN_INF
    /\ \A j \in Tasks : j <= i /\ Running(j) => Vertex(j) \notin M
    /\ \A s \in Labels : Edge(Vertex(i), s) /\ Open(s) => dfn[s] > Level(i)
RunInv(line, from) ==
    \A i \in Tasks : Running(i) => \E M \in SUBSET Labels :
        /\ InCycleOf(i, M)
        /\ \A p \in DOMAIN line : line[p] \in M <=> p > from[Cycle(i)]
        /\ LedTo(Vertex(i), M) /\ LeadBack(M, Vertex(i))
        /\ M # {} \/ Edge(Vertex(i), Vertex(i))

LineInv(line, from, to) ==
    /\ PlaceInv(line, from, to) /\ LaminarInv(from, to) /\ SpellInv(line, from, to)
    /\ ListInv(line) /\ EdgeInv(line, from, to) /\ ConnInv(line, from, to)
    /\ RunInv(line, from)

-----------------------------------------------------------------------------
\* Where the stack of tasks goes next.
LEMMA CurrentPopped ==
    ASSUME NestInv, NEW n, NEW v, Pops(n, v)
    PROVE  /\ Current' = Target(n) /\ Current = Cycle(n)
           /\ \A i \in Tasks : i # n => i \in 1 .. n - 1
<1>1. /\ n \in Nat \ {0} /\ n = Len(visit_stack) /\ Tasks = 1 .. n
      /\ Len(visit_stack') = n - 1 /\ Tasks' = 1 .. n - 1
      /\ \A i \in 1 .. n - 1 : Cycle(i)' = Cycle(i) /\ i \in Tasks
  BY DEF Pops, Below
<1>2. Current = Cycle(n)
  BY <1>1, SMTT(60) DEF Current
<1>3. CASE n = 1
  <2>1. Tasks' = {} /\ 1 \in Tasks
    BY <1>1, <1>3, SMTT(60)
  <2>2. Target(n) = 0
    BY <1>3, <2>1, SMTT(60) DEF NestInv
  <2> QED BY <1>1, <1>2, <2>1, <2>2, SMTT(60) DEF Current
<1>4. CASE n # 1
  <2>1. n - 1 \in 1 .. n - 1 /\ n - 1 \in Tasks /\ (n - 1) + 1 \in Tasks /\ (n - 1) + 1 = n
    BY <1>1, <1>4, SMTT(60)
  <2>2. Target(n) = Cycle(n - 1)
    BY <2>1 DEF NestInv
  <2>3. Cycle(n - 1)' = Cycle(n - 1) /\ Tasks' # {}
    BY <1>1, <2>1
  <2>4. Current' = Cycle(n - 1)'
    BY <1>1, <2>3 DEF Current, Cycle
  <2> QED BY <1>1, <1>2, <2>2, <2>3, <2>4, SMTT(60)
<1> QED BY <1>3, <1>4, SMTT(60)

LEMMA CurrentPushed ==
    ASSUME NEW n, NEW v, NEW type, NEW t, NEW c, Pushes(n, v, type, t, c)
    PROVE  /\ Current' = c /\ Current = Cycle(n) /\ Tasks' # {}
           /\ \A i \in Tasks : i # n => i \in 1 .. n - 1
           /\ \A i \in Tasks' : i \in 1 .. n - 1 \/ i = n \/ (i > n /\ ~ Running(i)')
<1>1. /\ n \in Nat \ {0} /\ n = Len(visit_stack) /\ Tasks = 1 .. n
      /\ Len(visit_stack') \in Nat /\ n <= Len(visit_stack') /\ Tasks' = 1 .. Len(visit_stack')
      /\ Cycle(n)' = c
      /\ \A i \in Tasks' : i > n => Type(i)' = "PushSuccessors" /\ Cycle(i)' = c
  BY DEF Pushes
<1>2. Current = Cycle(n) /\ n \in Tasks'
  BY <1>1 DEF Current
<1>3. Len(visit_stack') \in Tasks' /\ (Len(visit_stack') = n \/ Len(visit_stack') > n) /\ Tasks' # {}
  BY <1>1
<1>4. \A i \in Tasks' : i = n \/ i > n => visit_stack'[i].containing_cycle = c
  BY <1>1 DEF Cycle
<1>5. visit_stack'[Len(visit_stack')].containing_cycle = c
  BY <1>3, <1>4
<1>6. \A i \in Tasks' : i \in 1 .. n - 1 \/ i = n \/ (i > n /\ ~ Running(i)')
  BY <1>1 DEF Running
<1>7. Current' = c
  BY <1>3, <1>5 DEF Current, Cycle
<1> QED BY <1>1, <1>2, <1>3, <1>6, <1>7, SMTT(60)

(***************************************************************************)
(* The steps that list nothing and open no cycle.                          *)
(***************************************************************************)
Quiet ==
    /\ NumCycles' = NumCycles /\ part' = part /\ SameGraph
    /\ \A x \in Labels : dfn'[x] = DFN_INF <=> dfn[x] = DFN_INF
    /\ \A i \in Tasks' : Running(i)' => i \in Tasks /\ Running(i)
    /\ \A i \in Tasks : Running(i) =>
          /\ i \in Tasks' /\ Running(i)'
          /\ Vertex(i)' = Vertex(i) /\ Target(i)' = Target(i) /\ Cycle(i)' = Cycle(i) /\ Level(i)' = Level(i)
    /\ Current' = Current /\ (Tasks' = {} => Tasks = {})

LEMMA QuietSteps ==
    ASSUME BuilderState, NestInv, NEW n, NEW v, Drops(n, v) \/ Numbers(n, v) \/ Leaves(n, v)
    PROVE  Quiet
<1>1. ASSUME Pops(n, v), ~ Running(n), n # 1, Target(n) = Cycle(n)
      PROVE  /\ \A i \in Tasks' : Running(i)' => i \in Tasks /\ Running(i)
             /\ \A i \in Tasks : Running(i) =>
                  /\ i \in Tasks' /\ Running(i)'
                  /\ Vertex(i)' = Vertex(i) /\ Target(i)' = Target(i) /\ Cycle(i)' = Cycle(i) /\ Level(i)' = Level(i)
             /\ Current' = Current /\ Tasks' # {}
  <2>1. /\ Tasks' = 1 .. n - 1 /\ n \in Nat \ {0}
        /\ \A i \in Tasks : i # n => i \in 1 .. n - 1
        /\ Current' = Current
    BY <1>1, CurrentPopped DEF Pops
  <2>2. \A i \in 1 .. n - 1 : /\ i \in Tasks /\ i \in Tasks' /\ Type(i)' = Type(i) /\ Vertex(i)' = Vertex(i)
                              /\ Target(i)' = Target(i) /\ Cycle(i)' = Cycle(i)
                              /\ Running(i) => Level(i)' = Level(i)
    BY <1>1, SMTT(60) DEF Pops, Below, Running, Begun
  <2> QED BY <1>1, <2>1, <2>2 DEF Running
<1>2. CASE Drops(n, v)
  <2>1. n # 1
    <3> SUFFICES ASSUME n = 1 PROVE FALSE
      OBVIOUS
    <3>1. 1 \in Tasks /\ Vertex(1) = v /\ Type(1) = "PushSuccessors" /\ ~ White(v)
      BY <1>2 DEF Drops, Pops
    <3> QED BY <3>1 DEF NestInv
  <2>2. Pops(n, v) /\ ~ Running(n) /\ Target(n) = Cycle(n)
    BY <1>2 DEF Drops, Running
  <2> QED BY <1>1, <1>2, <2>1, <2>2, SMTT(60) DEF Drops, Quiet, NumCycles
<1>3. CASE Leaves(n, v)
  <2>1. Pops(n, v) /\ ~ Running(n) /\ Target(n) = Cycle(n) /\ n # 1
    BY <1>3 DEF Leaves, Running
  <2> QED BY <1>1, <1>3, <2>1 DEF Leaves, Quiet, NumCycles
<1>4. CASE Numbers(n, v)
  <2>1. Pushes(n, v, "StartVisit", Cycle(n), Cycle(n)) /\ ~ Running(n) /\ ~ Running(n)'
    BY <1>4 DEF Numbers, Running, Pushes
  <2>2. /\ Current' = Current /\ Tasks' # {}
        /\ \A i \in Tasks : i # n => i \in 1 .. n - 1
        /\ \A i \in Tasks' : i \in 1 .. n - 1 \/ i = n \/ (i > n /\ ~ Running(i)')
    BY <2>1, CurrentPushed
  <2>3. \A i \in 1 .. n - 1 : /\ i \in Tasks /\ i \in Tasks' /\ Type(i)' = Type(i) /\ Vertex(i)' = Vertex(i)
                              /\ Target(i)' = Target(i) /\ Cycle(i)' = Cycle(i)
                              /\ Running(i) => Level(i)' = Level(i)
    BY <2>1 DEF Pushes, Below, Running, Begun
  <2>4. /\ \A i \in Tasks' : Running(i)' => i \in Tasks /\ Running(i)
        /\ \A i \in Tasks : Running(i) =>
             /\ i \in Tasks' /\ Running(i)'
             /\ Vertex(i)' = Vertex(i) /\ Target(i)' = Target(i) /\ Cycle(i)' = Cycle(i) /\ Level(i)' = Level(i)
    BY <2>1, <2>2, <2>3 DEF Running
  <2>5. \A x \in Labels : dfn'[x] = DFN_INF <=> dfn[x] = DFN_INF
    BY <1>4 DEF Numbers, White, Open, DFN_INF
  <2> QED BY <1>4, <2>2, <2>4, <2>5 DEF Numbers, Quiet, NumCycles
<1> QED BY <1>2, <1>3, <1>4

LEMMA QuietClosed ==
    ASSUME Quiet
    PROVE  \A c : Closed(c)' <=> Closed(c)
BY DEF Quiet, Closed

LEMMA QuietLine ==
    ASSUME Quiet, NEW line, NEW from, NEW to, LineInv(line, from, to)
    PROVE  /\ PlaceInv(line, from, to)' /\ LaminarInv(from, to)' /\ SpellInv(line, from, to)'
           /\ ListInv(line)' /\ EdgeInv(line, from, to)' /\ ConnInv(line, from, to)'
<1> USE DEF LineInv
<1>1. \A c : Closed(c)' <=> Closed(c)
  BY QuietClosed
<1>2. NumCycles' = NumCycles /\ part' = part /\ children' = children
  BY DEF Quiet, SameGraph
<1>3. PlaceInv(line, from, to)'
  <2>1. \A i \in Tasks' : Running(i)' =>
            i \in Tasks /\ Running(i) /\ Target(i)' = Target(i) /\ Cycle(i)' = Cycle(i)
    BY DEF Quiet
  <2>2. Current' = Current /\ (Tasks' = {} => Tasks = {})
    BY DEF Quiet
  <2> QED BY <1>2, <2>1, <2>2, SMTT(60) DEF PlaceInv
<1>4. LaminarInv(from, to)'
  BY <1>1, <1>2 DEF LaminarInv
<1>5. SpellInv(line, from, to)'
  BY <1>1, <1>2, SMTT(60) DEF SpellInv, Cuts, PieceOK
<1>6. ListInv(line)'
  <2>1. \A x \in Labels : (dfn'[x] = DFN_INF /\ ~ \E i \in Tasks' : Running(i)' /\ Vertex(i)' = x)
                      <=> (dfn[x] = DFN_INF /\ ~ \E i \in Tasks : Running(i) /\ Vertex(i) = x)
    BY DEF Quiet
  <2> QED BY <2>1 DEF ListInv
<1>7. EdgeInv(line, from, to)'
  <2> SUFFICES ASSUME NEW p \in DOMAIN line, NEW s \in Labels, Edge(line[p], s)
               PROVE  \/ \E q \in DOMAIN line : q < p /\ line[q] = s
                      \/ \E c \in 1 .. NumCycles' : Closed(c)' /\ from[c] < p /\ p <= to[c] /\ line[to[c]] = s
                      \/ \E i \in Tasks' : Running(i)' /\ Vertex(i)' = s /\ from[Cycle(i)'] < p
    BY <1>2 DEF EdgeInv, Edge
  <2>1. CASE \E c \in 1 .. NumCycles : Closed(c) /\ from[c] < p /\ p <= to[c] /\ line[to[c]] = s
    BY <1>1, <1>2, <2>1, SMTT(60)
  <2>2. CASE \E i \in Tasks : Running(i) /\ Vertex(i) = s /\ from[Cycle(i)] < p
    BY <2>2 DEF Quiet
  <2> QED BY <2>1, <2>2 DEF EdgeInv
<1>8. ConnInv(line, from, to)'
  <2>1. \A S, v : BothWays(S, v)' <=> BothWays(S, v)
    BY <1>2 DEF BothWays, LeadBack, LeadOn, Edge
  <2>2. ASSUME NEW c \in 1 .. NumCycles', Closed(c)'
        PROVE  BothWays(Segment(c, line, from, to), line[to[c]])'
    <3>1. BothWays(Segment(c, line, from, to), line[to[c]])
      BY <1>1, <1>2, <2>2 DEF ConnInv
    <3>2. PICK S, v : S = Segment(c, line, from, to) /\ v = line[to[c]]
      OBVIOUS
    <3>3. BothWays(S, v)'
      BY <2>1, <3>1, <3>2, SMTT(60)
    <3> QED BY <3>2, <3>3, ZenonT(60) DEF BothWays, LeadBack, LeadOn, Segment, Edge
  <2> QED BY <2>2 DEF ConnInv
<1> QED BY <1>3, <1>4, <1>5, <1>6, <1>7, <1>8

\* A task runs on with the same members.
LEMMA MembersStay ==
    ASSUME Quiet, NEW line, NEW from, NEW i \in Tasks', Running(i)', NEW M, M \in SUBSET Labels,
           InCycleOf(i, M)', \A p \in DOMAIN line : line[p] \in M <=> p > from[Cycle(i)],
           LedTo(Vertex(i), M), LeadBack(M, Vertex(i)), M # {} \/ Edge(Vertex(i), Vertex(i))
    PROVE  /\ \A p \in DOMAIN line : line[p] \in M <=> p > from[Cycle(i)']
           /\ LedTo(Vertex(i), M)' /\ LeadBack(M, Vertex(i))'
           /\ M # {} \/ Edge(Vertex(i), Vertex(i))'
<1>1. Vertex(i)' = Vertex(i) /\ Cycle(i)' = Cycle(i) /\ children' = children
  BY DEF Quiet, SameGraph
<1>2. \A x, y : Edge(x, y)' <=> Edge(x, y)
  BY <1>1 DEF Edge
<1> QED BY <1>1, <1>2, SMTT(60) DEF LedTo, LeadBack

LEMMA MembersKept ==
    ASSUME BuilderState, NestInv, NEW n, NEW v, Drops(n, v) \/ Numbers(n, v) \/ Leaves(n, v),
           NEW i \in Tasks, Running(i), NEW M \in SUBSET Labels, InCycleOf(i, M)
    PROVE  InCycleOf(i, M)'
<1>1. Quiet
  BY QuietSteps
<1>2. /\ Vertex(i)' = Vertex(i) /\ Level(i)' = Level(i)
      /\ \A x, y : Edge(x, y)' <=> Edge(x, y)
      /\ \A x \in Labels : dfn'[x] = DFN_INF <=> dfn[x] = DFN_INF
      /\ \A j \in Tasks' : Running(j)' => j \in Tasks /\ Running(j) /\ Vertex(j)' = Vertex(j)
  BY <1>1 DEF Quiet, SameGraph, Edge
<1>3. \A x \in M, s \in Labels : Edge(x, s)' => s \in M \/ dfn'[s] = DFN_INF
  BY <1>2 DEF InCycleOf
<1>4. \A j \in Tasks' : j <= i /\ Running(j)' => Vertex(j)' \notin M
  BY <1>2 DEF InCycleOf
<1>5. CASE Drops(n, v) \/ Leaves(n, v)
  <2>1. Pops(n, v) /\ dfn' = dfn
    BY <1>5 DEF Drops, Leaves
  <2>2. \A j \in Tasks' : j \in Tasks /\ Vertex(j)' = Vertex(j)
    BY <2>1 DEF Pops, Below
  <2>3. \A x : Open(x)' <=> Open(x)
    BY <2>1 DEF Open
  <2> QED BY <1>2, <1>3, <1>4, <2>1, <2>2, <2>3, SMTT(60) DEF InCycleOf
<1>6. CASE Numbers(n, v)
  <2>1. /\ Pushes(n, v, "StartVisit", Cycle(n), Cycle(n)) /\ Type(n) = "PushSuccessors"
        /\ num \in Nat /\ dfn'[v] = num + 1 /\ \A x \in Labels : x # v => dfn'[x] = dfn[x]
        /\ \A x \in Labels : Open(x)' <=> Open(x) \/ x = v
    BY <1>6 DEF Numbers
  <2>2. /\ n \in Nat /\ Tasks = 1 .. n /\ Vertex(n) = v /\ Vertex(n)' = v /\ v \in Labels
        /\ Tasks' = 1 .. Len(visit_stack') /\ Len(visit_stack') \in Nat
        /\ \A j \in 1 .. n - 1 : j \in Tasks /\ Vertex(j)' = Vertex(j)
        /\ \A j \in Tasks' : j > n => Vertex(j)' \in Labels /\ White(Vertex(j))' /\ Edge(v, Vertex(j)')
    BY <2>1 DEF Pushes, Below
  <2>3. n > i /\ v \in M
    <3>1. i # n
      BY <2>1 DEF Running
    <3> QED BY <2>2, <3>1 DEF InCycleOf
  <2>4. ASSUME NEW j \in Tasks', j > i PROVE Vertex(j)' \in M
    <3>1. CASE j \in 1 .. n - 1
      BY <2>2, <2>4, <3>1 DEF InCycleOf
    <3>2. CASE j = n
      BY <2>2, <2>3, <3>2
    <3>3. CASE j > n
      <4>1. Vertex(j)' \in Labels /\ White(Vertex(j))' /\ Edge(v, Vertex(j)')
        BY <2>2, <3>3
      <4>2. dfn'[Vertex(j)'] # DFN_INF
        BY <4>1 DEF White, DFN_INF
      <4> QED BY <1>2, <2>3, <4>1, <4>2 DEF InCycleOf
    <3> QED BY <2>2, <3>1, <3>2, <3>3
  <2>5. num + 1 > Level(i)
    <3>1. head_dfn[Vertex(i)] \in 1 .. num /\ Level(i) = head_dfn[Vertex(i)]
      BY DEF BuilderState, BuilderInv, TaskInv, TaskOK, Running, Type, Vertex, Level
    <3> QED BY <2>1, <3>1
  <2>6. \A x \in Labels : Open(x)' => (x \in M <=> dfn'[x] > Level(i))
    BY <2>1, <2>3, <2>5 DEF InCycleOf
  <2>7. \A s \in Labels : Edge(Vertex(i), s) /\ Open(s)' => dfn'[s] > Level(i)
    BY <2>1, <2>5 DEF InCycleOf
  <2> QED BY <1>2, <1>3, <1>4, <2>4, <2>6, <2>7, SMTT(60) DEF InCycleOf
<1> QED BY <1>5, <1>6

LEMMA QuietKept ==
    ASSUME BuilderState, NestInv, NEW n, NEW v, Drops(n, v) \/ Numbers(n, v) \/ Leaves(n, v),
           NEW line, NEW from, NEW to, LineInv(line, from, to)
    PROVE  LineInv(line, from, to)'
<1>1. Quiet
  BY QuietSteps
<1>2. ASSUME NEW i \in Tasks', Running(i)'
      PROVE  \E M \in SUBSET Labels :
                /\ InCycleOf(i, M)'
                /\ \A p \in DOMAIN line : line[p] \in M <=> p > from[Cycle(i)']
                /\ LedTo(Vertex(i), M)' /\ LeadBack(M, Vertex(i))'
                /\ M # {} \/ Edge(Vertex(i), Vertex(i))'
  <2>1. i \in Tasks /\ Running(i)
    BY <1>1, <1>2 DEF Quiet
  <2>2. PICK M \in SUBSET Labels :
            /\ InCycleOf(i, M)
            /\ \A p \in DOMAIN line : line[p] \in M <=> p > from[Cycle(i)]
            /\ LedTo(Vertex(i), M) /\ LeadBack(M, Vertex(i))
            /\ M # {} \/ Edge(Vertex(i), Vertex(i))
    BY <2>1 DEF LineInv, RunInv
  <2>3. InCycleOf(i, M)'
    BY <2>1, <2>2, MembersKept
  <2>4. /\ \A p \in DOMAIN line : line[p] \in M <=> p > from[Cycle(i)']
        /\ LedTo(Vertex(i), M)' /\ LeadBack(M, Vertex(i))'
        /\ M # {} \/ Edge(Vertex(i), Vertex(i))'
    BY <1>1, <1>2, <2>2, <2>3, MembersStay, ZenonT(90)
  <2> QED BY <2>3, <2>4
<1>3. RunInv(line, from)'
  BY <1>2 DEF RunInv
<1> QED BY <1>1, <1>3, QuietLine DEF LineInv

-----------------------------------------------------------------------------
(***************************************************************************)
(* The steps that list the vertex: when it is alone, and when its cycle is *)
(* closed.                                                                 *)
(***************************************************************************)
Listing(n, v) == IsAlone(n, v) \/ Closes(n, v)

Grown(line, v, line2) ==
    /\ line2 = Append(line, v) /\ line2 \in Seq(Labels) /\ Len(line) \in Nat /\ Len(line2) = Len(line) + 1
    /\ DOMAIN line = 1 .. Len(line) /\ DOMAIN line2 = 1 .. Len(line) + 1
    /\ \A p \in DOMAIN line : p \in DOMAIN line2 /\ line2[p] = line[p] /\ p <= Len(line)
    /\ Len(line) + 1 \in DOMAIN line2 /\ line2[Len(line) + 1] = v
    /\ \A p \in DOMAIN line2 : p \in DOMAIN line \/ p = Len(line) + 1

LEMMA LineGrows ==
    ASSUME NEW line \in Seq(Labels), NEW v \in Labels
    PROVE  Grown(line, v, Append(line, v))
<1>1. /\ Append(line, v) \in Seq(Labels) /\ Len(line) \in Nat /\ Len(Append(line, v)) = Len(line) + 1
      /\ DOMAIN line = 1 .. Len(line) /\ DOMAIN Append(line, v) = 1 .. Len(line) + 1
      /\ Append(line, v)[Len(line) + 1] = v
      /\ \A p \in 1 .. Len(line) : Append(line, v)[p] = line[p]
  OBVIOUS
<1> QED BY <1>1 DEF Grown

\* The partitions that reach up to the end of the line when v is listed.
Reaches(n, line, to) ==
    [d \in 0 .. NumCycles |-> IF d = Target(n) \/ d = Cycle(n) THEN Len(line) + 1 ELSE to[d]]

LEMMA ListingTasks ==
    ASSUME BuilderState, NestInv, NEW n, NEW v, Listing(n, v)
    PROVE  /\ n \in Nat /\ n \in Tasks /\ Tasks = 1 .. n /\ Tasks' = 1 .. n - 1
           /\ Vertex(n) = v /\ v \in Labels
           /\ \A i \in Tasks' : /\ i \in Tasks /\ i < n
                                /\ Running(i)' <=> Running(i)
                                /\ Vertex(i)' = Vertex(i) /\ Target(i)' = Target(i) /\ Cycle(i)' = Cycle(i)
                                /\ Running(i) => Level(i)' = Level(i) /\ Vertex(i) # v
           /\ \A i \in Tasks : i # n => i \in Tasks' /\ i < n
           /\ Current = Cycle(n) /\ Current' = Target(n)
           /\ NumCycles' = NumCycles /\ children' = children
           /\ dfn'[v] = DFN_INF
           /\ \A x \in Labels : x # v => dfn'[x] = dfn[x]
           /\ \A x \in Labels : Open(x)' => Open(x) /\ dfn'[x] = dfn[x]
<1>1. Pops(n, v) /\ children' = children /\ NumCycles' = NumCycles
  BY DEF Listing, IsAlone, Closes, SameGraph, NumCycles
<1>2. /\ n \in Nat \ {0} /\ Tasks = 1 .. n /\ Tasks' = 1 .. n - 1
      /\ Vertex(n) = v /\ v \in Labels
      /\ \A i \in 1 .. n - 1 : /\ i \in Tasks /\ i < n
                               /\ Type(i)' = Type(i) /\ Vertex(i)' = Vertex(i)
                               /\ Target(i)' = Target(i) /\ Cycle(i)' = Cycle(i)
                               /\ Begun(i) => Level(i)' = Level(i)
  BY <1>1 DEF Pops, Below
<1>3. \A i \in 1 .. n - 1 : Begun(i) => Vertex(i) # v
  BY DEF Listing, IsAlone, Closes
<1>4. \A i \in 1 .. n - 1 : /\ Running(i)' <=> Running(i)
                            /\ Running(i) => Begun(i)
  BY <1>2 DEF Running, Begun
<1>5. Current = Cycle(n) /\ Current' = Target(n)
  BY <1>1, CurrentPopped
<1>6. /\ dfn'[v] = DFN_INF
      /\ \A x \in Labels : x # v => dfn'[x] = dfn[x]
  BY DEF Listing, IsAlone, Closes
<1>7. \A x \in Labels : Open(x)' => Open(x) /\ dfn'[x] = dfn[x]
  <2> SUFFICES ASSUME NEW x \in Labels, Open(x)' PROVE Open(x) /\ dfn'[x] = dfn[x]
    OBVIOUS
  <2>1. x # v
    BY <1>6 DEF Open
  <2> QED BY <1>6, <2>1 DEF Open
<1>8. n \in Tasks /\ \A i \in Tasks : i # n => i \in Tasks' /\ i < n
  BY <1>2
<1> QED BY <1>1, <1>2, <1>3, <1>4, <1>5, <1>6, <1>7, <1>8

LEMMA ListingCycles ==
    ASSUME BuilderState, NestInv, NEW n, NEW v, Listing(n, v)
    PROVE  /\ Target(n) \in 0 .. NumCycles /\ Cycle(n) \in 0 .. NumCycles /\ NumCycles \in Nat
           /\ Target(n) <= Cycle(n) /\ (Running(n) <=> Target(n) < Cycle(n))
           /\ ~ Closed(Target(n)) /\ ~ Closed(Cycle(n))
           /\ \A d \in 1 .. NumCycles : Closed(d)' <=> Closed(d) \/ (Running(n) /\ d = Cycle(n))
           /\ \A i \in Tasks' : Running(i) => /\ Target(i) \in 0 .. NumCycles /\ Cycle(i) \in 0 .. NumCycles
                                              /\ Target(i) < Cycle(i) /\ Cycle(i) <= Target(n)
<1> USE DEF BuilderState, BuilderInv
<1>1. /\ n \in Nat /\ n \in Tasks /\ Tasks = 1 .. n /\ Tasks' = 1 .. n - 1 /\ NumCycles' = NumCycles
      /\ \A i \in Tasks' : /\ i \in Tasks /\ i < n
                           /\ Running(i)' <=> Running(i)
                           /\ Target(i)' = Target(i) /\ Cycle(i)' = Cycle(i)
      /\ \A i \in Tasks : i # n => i \in Tasks' /\ i < n
  BY ListingTasks
<1>2. NumCycles \in Nat /\ \A i \in Tasks : Cycle(i) \in 0 .. NumCycles /\ Target(i) \in 0 .. NumCycles
  BY TaskTypes, PartType
<1>3. Target(n) <= Cycle(n) /\ (Running(n) <=> Target(n) < Cycle(n))
  <2>1. CASE IsAlone(n, v)
    BY <1>1, <1>2, <2>1 DEF IsAlone, Running
  <2>2. CASE Closes(n, v)
    BY <1>1, <1>2, <2>2 DEF Closes
  <2> QED BY <2>1, <2>2 DEF Listing
<1>4. \A i \in Tasks : Running(i) => Target(i) < Cycle(i)
  BY DEF TaskInv, TaskOK, Running, Type, Target, Cycle
<1>5. \A i \in Tasks' : Running(i) => Cycle(i) <= Target(n)
  BY <1>1 DEF NestInv
<1>6. ~ Closed(Target(n))
  BY <1>1, SMTT(60) DEF NestInv, Closed
<1>7. ~ Closed(Cycle(n))
  <2>1. CASE Running(n)
    BY <1>1, <2>1 DEF Closed
  <2>2. CASE ~ Running(n)
    <3>1. Cycle(n) = Target(n)
      BY <1>1, <1>2, <1>3, <2>2
    <3> QED BY <1>6, <3>1
  <2> QED BY <2>1, <2>2
<1>8. ASSUME NEW d \in 1 .. NumCycles
      PROVE  Closed(d)' <=> Closed(d) \/ (Running(n) /\ d = Cycle(n))
  <2>1. ASSUME Closed(d)', ~ Closed(d)
        PROVE  Running(n) /\ d = Cycle(n)
    <3>1. PICK i \in Tasks : Running(i) /\ Cycle(i) = d
      BY <1>8, <2>1 DEF Closed
    <3>2. i = n
      BY <1>1, <2>1, <3>1 DEF Closed
    <3> QED BY <3>1, <3>2
  <2>2. ASSUME Closed(d)
        PROVE  Closed(d)'
    BY <1>1, <2>2 DEF Closed
  <2>3. ASSUME Running(n), d = Cycle(n)
        PROVE  Closed(d)'
    <3>1. \A i \in Tasks' : Running(i) => Cycle(i) # d
      BY <1>1, <1>2, <1>3, <1>5, <2>3, SMTT(60)
    <3> QED BY <1>1, <1>8, <3>1 DEF Closed
  <2> QED BY <2>1, <2>2, <2>3
<1> QED BY <1>1, <1>2, <1>3, <1>4, <1>5, <1>6, <1>7, <1>8

LEMMA ReachesFacts ==
    ASSUME BuilderState, NestInv, NEW n, NEW v, Listing(n, v),
           NEW line, NEW from, NEW to, PlaceInv(line, from, to), NEW to2, to2 = Reaches(n, line, to)
    PROVE  /\ to2 \in [0 .. NumCycles -> Nat]
           /\ to2[Target(n)] = Len(line) + 1 /\ to2[Cycle(n)] = Len(line) + 1
           /\ \A d \in 0 .. NumCycles : d # Target(n) /\ d # Cycle(n) => to2[d] = to[d]
           /\ \A d \in 0 .. NumCycles : Closed(d) => to2[d] = to[d]
           /\ to[Cycle(n)] = Len(line)
           /\ \A d \in 0 .. NumCycles : /\ from[d] \in Nat /\ to[d] \in Nat
                                        /\ from[d] <= to[d] /\ to[d] <= Len(line)
           /\ Len(line) \in Nat /\ line \in Seq(Labels) /\ from \in [0 .. NumCycles -> Nat]
<1>1. Target(n) \in 0 .. NumCycles /\ Cycle(n) \in 0 .. NumCycles /\ ~ Closed(Target(n)) /\ ~ Closed(Cycle(n))
  BY ListingCycles
<1>2. /\ line \in Seq(Labels) /\ from \in [0 .. NumCycles -> Nat] /\ to \in [0 .. NumCycles -> Nat]
      /\ \A c \in 0 .. NumCycles : from[c] <= to[c] /\ to[c] <= Len(line)
      /\ to[Current] = Len(line) /\ Current = Cycle(n)
  BY ListingTasks DEF PlaceInv
<1>3. Len(line) \in Nat
  BY <1>2
<1> QED BY <1>1, <1>2, <1>3, SMTT(60) DEF Reaches

LEMMA ListingPlace ==
    ASSUME BuilderState, NestInv, NEW n, NEW v, Listing(n, v),
           NEW line, NEW from, NEW to, PlaceInv(line, from, to),
           NEW line2, Grown(line, v, line2), NEW to2, to2 = Reaches(n, line, to)
    PROVE  PlaceInv(line2, from, to2)'
<1>1. /\ to2 \in [0 .. NumCycles -> Nat]
      /\ to2[Target(n)] = Len(line) + 1
      /\ \A d \in 0 .. NumCycles : d # Target(n) /\ d # Cycle(n) => to2[d] = to[d]
      /\ to2[Cycle(n)] = Len(line) + 1
      /\ \A d \in 0 .. NumCycles : /\ from[d] \in Nat /\ to[d] \in Nat
                                   /\ from[d] <= to[d] /\ to[d] <= Len(line)
      /\ Len(line) \in Nat /\ from \in [0 .. NumCycles -> Nat]
  BY ReachesFacts
<1>2. /\ n \in Nat /\ n \in Tasks /\ Tasks = 1 .. n /\ Tasks' = 1 .. n - 1 /\ NumCycles' = NumCycles
      /\ Vertex(n) = v /\ Current' = Target(n)
      /\ \A i \in Tasks' : /\ i \in Tasks /\ i < n
                           /\ Running(i)' <=> Running(i)
                           /\ Target(i)' = Target(i) /\ Cycle(i)' = Cycle(i)
  BY ListingTasks
<1>3. /\ Target(n) \in 0 .. NumCycles /\ Cycle(n) \in 0 .. NumCycles /\ NumCycles \in Nat
      /\ Target(n) <= Cycle(n)
      /\ \A i \in Tasks' : Running(i) => /\ Target(i) \in 0 .. NumCycles /\ Cycle(i) \in 0 .. NumCycles
                                         /\ Target(i) < Cycle(i) /\ Cycle(i) <= Target(n)
  BY ListingCycles
<1>4. line2 \in Seq(Labels) /\ Len(line2) = Len(line) + 1 /\ line2[Len(line) + 1] = v
  BY DEF Grown
<1>5. \A c \in 0 .. NumCycles : from[c] <= to2[c] /\ to2[c] <= Len(line2)
  <2> SUFFICES ASSUME NEW c \in 0 .. NumCycles PROVE from[c] <= to2[c] /\ to2[c] <= Len(line2)
    OBVIOUS
  <2>1. to2[c] = Len(line) + 1 \/ to2[c] = to[c]
    BY <1>1, SMTT(60)
  <2> QED BY <1>1, <1>4, <2>1, SMTT(60)
<1>6. \A i \in Tasks' : Running(i)' => to2[Target(i)'] = from[Cycle(i)']
  <2> SUFFICES ASSUME NEW i \in Tasks', Running(i) PROVE to2[Target(i)] = from[Cycle(i)]
    BY <1>2
  <2>1. Target(i) # Target(n) /\ Target(i) # Cycle(n) /\ Target(i) \in 0 .. NumCycles
    BY <1>3
  <2>2. to2[Target(i)] = to[Target(i)]
    BY <1>1, <2>1
  <2> QED BY <1>2, <2>2 DEF PlaceInv
<1>7. \A i, j \in Tasks' : i < j /\ Running(i)' /\ Running(j)' => from[Cycle(i)'] <= from[Cycle(j)']
  BY <1>2, SMTT(60) DEF PlaceInv
<1>8. Tasks' = {} => Len(line2) > 0 /\ line2[Len(line2)] = Entry
  <2> SUFFICES ASSUME Tasks' = {} PROVE v = Entry
    BY <1>1, <1>4
  <2>1. n = 1
    <3>1. ~ (1 \in 1 .. n - 1) /\ n >= 1
      BY <1>2
    <3> QED BY <1>2, <3>1
  <2> QED BY <1>2, <2>1 DEF NestInv
<1>9. from[0] = 0
  BY DEF PlaceInv
<1> QED BY <1>1, <1>2, <1>4, <1>5, <1>6, <1>7, <1>8, <1>9 DEF PlaceInv

LEMMA ListingLaminar ==
    ASSUME BuilderState, NestInv, NEW n, NEW v, Listing(n, v),
           NEW line, NEW from, NEW to, PlaceInv(line, from, to), LaminarInv(from, to),
           NEW to2, to2 = Reaches(n, line, to)
    PROVE  LaminarInv(from, to2)'
<1>1. /\ to2[Cycle(n)] = Len(line) + 1
      /\ \A d \in 0 .. NumCycles : Closed(d) => to2[d] = to[d]
      /\ \A d \in 0 .. NumCycles : /\ from[d] \in Nat /\ to[d] \in Nat
                                   /\ from[d] <= to[d] /\ to[d] <= Len(line)
      /\ Len(line) \in Nat
  BY ReachesFacts
<1>2. /\ NumCycles' = NumCycles /\ NumCycles \in Nat /\ n \in Tasks /\ ~ Closed(Cycle(n)) /\ Cycle(n) \in 0 .. NumCycles
      /\ \A i \in Tasks : i # n => i < n
      /\ \A d \in 1 .. NumCycles : Closed(d)' <=> Closed(d) \/ (Running(n) /\ d = Cycle(n))
  BY ListingTasks, ListingCycles
<1>3. ASSUME NEW c \in 1 .. NumCycles, Closed(c)'
      PROVE  from[c] < to2[c]
  <2>0. c \in 0 .. NumCycles
    OBVIOUS
  <2>1. CASE Closed(c)
    BY <1>1, <2>0, <2>1, SMTT(60) DEF LaminarInv
  <2>2. CASE c = Cycle(n)
    BY <1>1, <2>0, <2>2, SMTT(60)
  <2> QED BY <1>2, <1>3, <2>1, <2>2, SMTT(60)
<1>4. ASSUME NEW c \in 1 .. NumCycles, NEW d \in 1 .. NumCycles,
             Closed(d)', Closed(c)' => to2[d] <= to2[c], from[c] < to2[d]
      PROVE  from[c] <= from[d]
  <2>0. c \in 0 .. NumCycles /\ d \in 0 .. NumCycles
    OBVIOUS
  <2>1. CASE Closed(d)
    <3>1. to2[d] = to[d] /\ (Closed(c) => to2[c] = to[c] /\ Closed(c)')
      BY <1>1, <1>2, <2>0, <2>1
    <3> QED BY <1>4, <2>1, <3>1 DEF LaminarInv
  <2>2. CASE ~ Closed(d)
    <3>1. Running(n) /\ d = Cycle(n)
      BY <1>2, <1>4, <2>2, SMTT(60)
    <3>2. CASE Closed(c)
      <4>1. to2[c] <= Len(line) /\ to2[c] \in Nat /\ Closed(c)'
        BY <1>1, <1>2, <2>0, <3>2, SMTT(60)
      <4> QED BY <1>1, <1>4, <3>1, <4>1, SMTT(60)
    <3>3. CASE ~ Closed(c)
      <4>1. PICK i \in Tasks : Running(i) /\ Cycle(i) = c
        BY <3>3 DEF Closed
      <4>2. i = n \/ i < n
        BY <1>2
      <4>3. i = n \/ from[Cycle(i)] <= from[Cycle(n)]
        BY <1>2, <3>1, <4>1, <4>2 DEF PlaceInv
      <4> QED BY <1>1, <2>0, <3>1, <4>1, <4>3
    <3> QED BY <3>2, <3>3
  <2> QED BY <2>1, <2>2
<1>5. ASSUME NEW c \in 1 .. NumCycles, NEW d \in 1 .. NumCycles, Closed(c)', Closed(d)', to2[c] = to2[d]
      PROVE  c = d
  <2>0. c \in 0 .. NumCycles /\ d \in 0 .. NumCycles
    OBVIOUS
  <2>1. CASE Closed(c) /\ Closed(d)
    BY <1>1, <1>5, <2>0, <2>1, SMTT(60) DEF LaminarInv
  <2>2. CASE c = Cycle(n) /\ d = Cycle(n)
    BY <2>2
  <2>3. ASSUME NEW x \in 0 .. NumCycles, Closed(x) PROVE to2[x] # to2[Cycle(n)]
    <3>1. to2[x] <= Len(line) /\ to2[x] \in Nat
      BY <1>1, <2>3, SMTT(60)
    <3> QED BY <1>1, <3>1
  <2> QED BY <1>2, <1>5, <2>0, <2>1, <2>2, <2>3
<1> QED BY <1>2, <1>3, <1>4, <1>5 DEF LaminarInv

LEMMA ListingList ==
    ASSUME BuilderState, NestInv, NEW n, NEW v, Listing(n, v),
           NEW line, line \in Seq(Labels), ListInv(line), NEW line2, Grown(line, v, line2)
    PROVE  ListInv(line2)' /\ ~ \E p \in DOMAIN line : line[p] = v
<1>1. /\ n \in Tasks /\ v \in Labels /\ Vertex(n) = v
      /\ \A i \in Tasks' : /\ i \in Tasks /\ i < n
                           /\ Running(i)' <=> Running(i)
                           /\ Vertex(i)' = Vertex(i)
                           /\ Running(i) => Vertex(i) # v
      /\ \A i \in Tasks : i # n => i \in Tasks'
      /\ dfn'[v] = DFN_INF
      /\ \A x \in Labels : x # v => dfn'[x] = dfn[x]
  BY ListingTasks
<1>2. ~ \E p \in DOMAIN line : line[p] = v
  <2>1. CASE IsAlone(n, v)
    <3>1. Open(v)
      BY <2>1 DEF IsAlone
    <3> QED BY <1>1, <3>1, SMTT(60) DEF ListInv, Open
  <2>2. CASE Closes(n, v)
    <3>1. Running(n)
      BY <2>2 DEF Closes
    <3> QED BY <1>1, <3>1, SMTT(60) DEF ListInv
  <2> QED BY <2>1, <2>2 DEF Listing
<1>3. \A p, q \in DOMAIN line2 : line2[p] = line2[q] => p = q
  BY <1>2 DEF Grown, ListInv
<1>4. ASSUME NEW x \in Labels
      PROVE  (\E p \in DOMAIN line2 : line2[p] = x)
                 <=> dfn'[x] = DFN_INF /\ ~ \E i \in Tasks' : Running(i)' /\ Vertex(i)' = x
  <2>1. CASE x = v
    <3>1. \E p \in DOMAIN line2 : line2[p] = x
      BY <2>1 DEF Grown
    <3> QED BY <1>1, <2>1, <3>1
  <2>2. CASE x # v
    <3>1. (\E p \in DOMAIN line2 : line2[p] = x) <=> \E p \in DOMAIN line : line[p] = x
      BY <2>2 DEF Grown
    <3>2. (\E i \in Tasks' : Running(i)' /\ Vertex(i)' = x) <=> \E i \in Tasks : Running(i) /\ Vertex(i) = x
      BY <1>1, <2>2
    <3> QED BY <1>1, <2>2, <3>1, <3>2 DEF ListInv
  <2> QED BY <2>1, <2>2
<1> QED BY <1>2, <1>3, <1>4, SMTT(60) DEF ListInv

\* The cuts of a list stay when the line grows, and go on when the list does.
LEMMA CutsStay ==
    ASSUME NEW s, NEW cut, NEW line, NEW from, NEW to, Cuts(s, cut, line, from, to),
           NEW line2, NEW from2, NEW to2,
           \A c : Closed(c) => Closed(c)' /\ from2[c] = from[c] /\ to2[c] = to[c],
           \A p \in DOMAIN line : p \in DOMAIN line2 /\ line2[p] = line[p]
    PROVE  Cuts(s, cut, line2, from2, to2)'
BY SMTT(60) DEF Cuts, PieceOK

LEMMA CutsGoOn ==
    ASSUME NEW S, NEW s \in Seq(S), NEW x, NEW cut, NEW line, NEW from, NEW to, Cuts(s, cut, line, from, to)',
           NEW b \in Nat, PieceOK(x, cut[Len(s)], b, line, from, to)'
    PROVE  \E cut2 : /\ Cuts(Append(s, x), cut2, line, from, to)'
                     /\ cut2[0] = cut[0] /\ cut2[Len(Append(s, x))] = b
<1> DEFINE N == Len(s)
           cut2 == [k \in 0 .. N + 1 |-> IF k = N + 1 THEN b ELSE cut[k]]
<1>1. N \in Nat /\ Len(Append(s, x)) = N + 1 /\ Append(s, x)[N + 1] = x
      /\ \A k \in 1 .. N : Append(s, x)[k] = s[k]
  OBVIOUS
<1> HIDE DEF N
<1>2. cut \in [0 .. N -> Nat] /\ \A k \in 1 .. N : PieceOK(s[k], cut[k - 1], cut[k], line, from, to)'
  BY DEF Cuts, N
<1>3. cut2 \in [0 .. N + 1 -> Nat]
  BY <1>1, <1>2, SMTT(60)
<1>4. cut2[N + 1] = b /\ \A k \in 0 .. N : cut2[k] = cut[k]
  BY <1>1
<1> HIDE DEF cut2
<1>5. ASSUME NEW k \in 1 .. N + 1
      PROVE  PieceOK(Append(s, x)[k], cut2[k - 1], cut2[k], line, from, to)'
  <2>1. CASE k = N + 1
    <3>1. cut2[k - 1] = cut[N] /\ cut2[k] = b
      BY <1>1, <1>4, <2>1
    <3>2. PieceOK(x, cut[N], b, line, from, to)'
      BY DEF N
    <3>3. Append(s, x)[k] = x
      BY <1>1, <2>1
    <3> QED BY <3>1, <3>2, <3>3
  <2>2. CASE k # N + 1
    <3>1. k \in 1 .. N /\ k - 1 \in 0 .. N /\ k \in 0 .. N
      BY <1>1, <2>2
    <3>2. cut2[k - 1] = cut[k - 1] /\ cut2[k] = cut[k] /\ Append(s, x)[k] = s[k]
      BY <1>1, <1>4, <3>1, SMTT(60)
    <3> QED BY <1>2, <3>1, <3>2
  <2> QED BY <2>1, <2>2
<1>6. Cuts(Append(s, x), cut2, line, from, to)'
  BY <1>1, <1>3, <1>5 DEF Cuts
<1> QED BY <1>1, <1>4, <1>6

LEMMA ListingSpell ==
    ASSUME BuilderState, NestInv, NEW n, NEW v, Listing(n, v),
           NEW line, NEW from, NEW to, PlaceInv(line, from, to), LaminarInv(from, to), SpellInv(line, from, to),
           NEW line2, Grown(line, v, line2), NEW to2, to2 = Reaches(n, line, to)
    PROVE  SpellInv(line2, from, to2)'
<1>0. PICK t, c : t = Target(n) /\ c = Cycle(n)
  OBVIOUS
<1>1. /\ to2 \in [0 .. NumCycles -> Nat]
      /\ to2[t] = Len(line) + 1 /\ to2[c] = Len(line) + 1
      /\ \A d \in 0 .. NumCycles : d # t /\ d # c => to2[d] = to[d]
      /\ \A d \in 0 .. NumCycles : Closed(d) => to2[d] = to[d]
      /\ to[c] = Len(line)
      /\ \A d \in 0 .. NumCycles : /\ from[d] \in Nat /\ to[d] \in Nat
                                   /\ from[d] <= to[d] /\ to[d] <= Len(line)
      /\ Len(line) \in Nat
  BY <1>0, ReachesFacts, SMTT(60)
<1>2. NumCycles' = NumCycles /\ n \in Tasks
  BY ListingTasks
<1>3. /\ t \in 0 .. NumCycles /\ c \in 0 .. NumCycles /\ NumCycles \in Nat
      /\ Running(n) <=> t < c
      /\ \A d \in 1 .. NumCycles : Closed(d)' <=> Closed(d) \/ (Running(n) /\ d = c)
      /\ ~ Closed(t) /\ ~ Closed(c)
  BY <1>0, ListingCycles
<1>4. Running(n) => to[t] = from[c]
  BY <1>0, <1>2, SMTT(60) DEF PlaceInv
<1>5. part \in [0 .. NumCycles -> Seq(Component)]
  BY SMTT(60) DEF BuilderState, BuilderInv, TypeOK
<1>6. /\ c = t => part' = [part EXCEPT ![t] = Append(@, LabelComp(v))]
      /\ c # t => part' = [part EXCEPT ![c] = Append(@, LabelComp(v)), ![t] = Append(@, CycleComp(c))]
  BY <1>0, <1>3 DEF Listing, IsAlone, Closes
<1>7. \A d : Closed(d) => Closed(d)' /\ from[d] = from[d] /\ to2[d] = to[d]
  BY <1>1, <1>3, SMTT(60) DEF Closed
<1>8. \A p \in DOMAIN line : p \in DOMAIN line2 /\ line2[p] = line[p]
  BY DEF Grown
<1>9. LabelComp(v).kind = "label" /\ LabelComp(v).label = v
      /\ CycleComp(c).kind = "cycle" /\ CycleComp(c).idx = c
  BY DEF LabelComp, CycleComp
<1>10. Len(line) + 1 \in DOMAIN line2 /\ line2[Len(line) + 1] = v
  BY DEF Grown
<1>11. ASSUME NEW d \in 0 .. NumCycles
       PROVE  \E s, cut : /\ s = part'[d] /\ Cuts(s, cut, line2, from, to2)'
                          /\ cut[0] = from[d] /\ cut[Len(s)] = to2[d]
  <2>1. PICK s \in Seq(Component) : s = part[d]
    BY <1>5
  <2>2. PICK cut : Cuts(s, cut, line, from, to) /\ cut[0] = from[d] /\ cut[Len(s)] = to[d]
    BY <2>1 DEF SpellInv
  <2>3. Cuts(s, cut, line2, from, to2)'
    BY <1>7, <1>8, <2>2, CutsStay, SMTT(60)
  <2>4. CASE d # t /\ d # c
    <3>1. part'[d] = s /\ to2[d] = to[d]
      BY <1>1, <1>3, <1>5, <1>6, <2>1, <2>4
    <3> QED BY <2>2, <2>3, <3>1, SMTT(60)
  <2>5. CASE d = c
    <3>1. PICK x : x = LabelComp(v)
      OBVIOUS
    <3>2. part'[d] = Append(s, x)
      BY <1>3, <1>5, <1>6, <2>1, <2>5, <3>1
    <3>3. PieceOK(x, cut[Len(s)], to2[d], line2, from, to2)'
      BY <1>1, <1>9, <1>10, <2>2, <2>5, <3>1, SMTT(60) DEF PieceOK
    <3>4. to2[d] \in Nat
      BY <1>1
    <3>5. \E cut2 : /\ Cuts(Append(s, x), cut2, line2, from, to2)'
                    /\ cut2[0] = cut[0] /\ cut2[Len(Append(s, x))] = to2[d]
      BY <2>3, <3>3, <3>4, CutsGoOn, SMTT(60)
    <3> QED BY <2>2, <3>2, <3>5
  <2>6. CASE d = t /\ d # c
    <3>1. PICK x : x = CycleComp(c)
      OBVIOUS
    <3>2. part'[d] = Append(s, x)
      BY <1>3, <1>5, <1>6, <2>1, <2>6, <3>1, SMTT(60)
    <3>3. Running(n) /\ Closed(c)' /\ to[d] = from[c]
      <4>1. Running(n)
        BY <1>0, <1>3, <2>6 DEF Listing, IsAlone, Closes
      <4>2. c \in 1 .. NumCycles
        BY <1>3, <4>1
      <4> QED BY <1>3, <1>4, <2>6, <4>1, <4>2
    <3>4. PieceOK(x, cut[Len(s)], to2[d], line2, from, to2)'
      <4>1. PICK e : e = c
        OBVIOUS
      <4>2. x.kind = "cycle" /\ x.idx = e /\ Closed(e)' /\ cut[Len(s)] = from[e] /\ to2[d] = to2[e]
        BY <1>1, <1>9, <2>2, <2>6, <3>1, <3>3, <4>1, SMTT(60)
      <4> QED BY <4>2 DEF PieceOK
    <3>5. to2[d] \in Nat
      BY <1>1
    <3>6. \E cut2 : /\ Cuts(Append(s, x), cut2, line2, from, to2)'
                    /\ cut2[0] = cut[0] /\ cut2[Len(Append(s, x))] = to2[d]
      BY <2>3, <3>4, <3>5, CutsGoOn
    <3> QED BY <2>2, <3>2, <3>6
  <2> QED BY <2>4, <2>5, <2>6, SMTT(60)
<1>12. ASSUME NEW d \in 1 .. NumCycles, Closed(d)'
       PROVE  Len(part'[d]) > 0 /\ Top(part'[d]) = LabelComp(line2[to2[d]])
  <2>0. d \in 0 .. NumCycles
    OBVIOUS
  <2>1. CASE Closed(d)
    <3>1. d # t /\ d # c
      BY <1>3, <2>1
    <3>2. part'[d] = part[d] /\ to2[d] = to[d]
      BY <1>1, <1>5, <1>6, <2>0, <3>1
    <3>3. from[d] < to[d] /\ to[d] <= Len(line) /\ from[d] \in Nat /\ to[d] \in Nat
      BY <1>1, <2>0, <2>1 DEF LaminarInv
    <3>4. to[d] \in DOMAIN line
      BY <1>1, <3>3, SMTT(60) DEF Grown
    <3> QED BY <1>8, <2>1, <3>2, <3>4 DEF SpellInv
  <2>2. CASE ~ Closed(d)
    <3>1. Running(n) /\ d = c
      BY <1>3, <1>12, <2>2
    <3>2. c # t
      BY <1>3, <3>1
    <3>3. part[d] \in Seq(Component) /\ part'[d] = Append(part[d], LabelComp(v))
      BY <1>5, <1>6, <2>0, <3>1, <3>2
    <3>4. Len(part'[d]) > 0 /\ Top(part'[d]) = LabelComp(v)
      BY <3>3 DEF Top
    <3> QED BY <1>1, <1>10, <3>1, <3>4, SMTT(60)
  <2> QED BY <2>1, <2>2
<1>13. \A d \in 0 .. NumCycles' : \E cut :
           /\ Cuts(part[d], cut, line2, from, to2)'
           /\ cut[0] = from[d] /\ cut[Len(part'[d])] = to2[d]
  BY <1>2, <1>11, SMTT(60) DEF Cuts, PieceOK
<1> QED BY <1>2, <1>12, <1>13 DEF SpellInv

\* What is listed leads to what has its number for good.
LEMMA ListedEdges ==
    ASSUME BuilderState, NEW line, NEW from, NEW to, LineInv(line, from, to),
           NEW p \in DOMAIN line, NEW s \in Labels, Edge(line[p], s)
    PROVE  dfn[s] = DFN_INF
<1> USE DEF BuilderState, BuilderInv
<1>1. \A q \in DOMAIN line : line[q] = s => dfn[s] = DFN_INF
  BY DEF LineInv, ListInv
<1>2. CASE \E c \in 1 .. NumCycles : Closed(c) /\ from[c] < p /\ p <= to[c] /\ line[to[c]] = s
  <2>1. PICK c \in 1 .. NumCycles : p <= to[c] /\ line[to[c]] = s
    BY <1>2
  <2>2. c \in 0 .. NumCycles
    OBVIOUS
  <2>3. /\ line \in Seq(Labels) /\ to \in [0 .. NumCycles -> Nat]
        /\ \A d \in 0 .. NumCycles : to[d] <= Len(line)
    BY DEF LineInv, PlaceInv
  <2>4. to[c] \in Nat /\ to[c] <= Len(line) /\ p \in 1 .. Len(line) /\ DOMAIN line = 1 .. Len(line)
    BY <2>2, <2>3
  <2>5. to[c] \in DOMAIN line
    BY <2>1, <2>4
  <2> QED BY <1>1, <2>1, <2>5
<1>3. CASE \E i \in Tasks : Running(i) /\ Vertex(i) = s
  BY <1>3 DEF TaskInv, TaskOK, Running, Type, Vertex
<1> QED BY <1>1, <1>2, <1>3 DEF LineInv, EdgeInv

\* When a cycle is closed, its members are what was listed since it was opened.
LEMMA MembersListed ==
    ASSUME BuilderState, NestInv, NEW n, NEW v, Closes(n, v), NEW line, NEW from, NEW to, LineInv(line, from, to),
           NEW M \in SUBSET Labels, InCycleOf(n, M), LedTo(v, M)
    PROVE  /\ \A x \in M : \E p \in DOMAIN line : line[p] = x
           /\ M # {} => \E s \in M : Edge(v, s)
<1>1. /\ n \in Tasks /\ v \in Labels /\ Vertex(n) = v /\ \A i \in Tasks : i <= n
      /\ \A x \in Labels : Open(x) => dfn[x] < Level(n)
      /\ \A s \in Labels : Edge(v, s) => ~ White(s)
  <2>1. /\ n \in Tasks /\ v \in Labels /\ Vertex(n) = v /\ Tasks = 1 .. n /\ n \in Nat
    BY ListingTasks DEF Listing
  <2> QED BY <2>1 DEF Closes
<1>2. \A x \in Labels : dfn[x] \in Nat /\ Level(n) \in Nat
  BY <1>1, TaskTypes DEF BuilderState, BuilderInv, TypeOK
<1>3. ASSUME NEW x \in M
      PROVE  x \in Labels /\ ~ Open(x) /\ ~ \E i \in Tasks : Running(i) /\ Vertex(i) = x
  <2>1. x \in Labels
    OBVIOUS
  <2>2. ~ Open(x)
    <3> SUFFICES ASSUME Open(x) PROVE FALSE
      OBVIOUS
    <3>1. dfn[x] > Level(n)
      BY <2>1 DEF InCycleOf
    <3> QED BY <1>1, <1>2, <2>1, <3>1
  <2> QED BY <1>1, <2>1, <2>2 DEF InCycleOf
<1>4. ASSUME NEW x \in M, ~ White(x)
      PROVE  \E p \in DOMAIN line : line[p] = x
  <2>1. dfn[x] = DFN_INF
    BY <1>3, <1>4 DEF Open, White
  <2> QED BY <1>3, <2>1 DEF LineInv, ListInv
<1> DEFINE X == {x \in M : ~ White(x)}
<1>5. X \in SUBSET M
  OBVIOUS
<1>6. ASSUME NEW s \in M, Edge(v, s) \/ \E x \in X : Edge(x, s)
      PROVE  s \in X
  <2>1. CASE Edge(v, s)
    BY <1>1, <1>3, <2>1
  <2>2. CASE \E x \in X : Edge(x, s)
    <3>1. PICK x \in X : Edge(x, s)
      BY <2>2
    <3>2. PICK p \in DOMAIN line : line[p] = x
      BY <1>4, <3>1
    <3>3. dfn[s] = DFN_INF
      BY <1>3, <3>1, <3>2, ListedEdges
    <3> QED BY <3>3 DEF White, DFN_INF
  <2> QED BY <1>6, <2>1, <2>2
<1>7. X = M
  <2> HIDE DEF X
  <2> QED BY <1>5, <1>6 DEF LedTo
<1>8. \A x \in M : \E p \in DOMAIN line : line[p] = x
  BY <1>4, <1>7
<1>9. ASSUME \A s \in M : ~ Edge(v, s) PROVE M = {}
  <2>1. {} \in SUBSET M /\ \A s \in M : (Edge(v, s) \/ \E x \in {} : Edge(x, s)) => s \in {}
    BY <1>9
  <2> QED BY <2>1 DEF LedTo
<1> QED BY <1>8, <1>9

LEMMA ListingEdges ==
    ASSUME BuilderState, NestInv, NEW n, NEW v, Listing(n, v), NEW line, NEW from, NEW to, LineInv(line, from, to)
    PROVE  \A s \in Labels : Edge(v, s) => dfn[s] = DFN_INF
<1>1. CASE IsAlone(n, v)
  BY <1>1 DEF IsAlone
<1>2. CASE Closes(n, v)
  <2> SUFFICES ASSUME NEW s \in Labels, Edge(v, s), dfn[s] # DFN_INF PROVE FALSE
    OBVIOUS
  <2>1. ~ White(s) /\ Running(n) /\ \A x \in Labels : Open(x) => dfn[x] < Level(n)
    BY <1>2 DEF Closes
  <2>2. n \in Tasks /\ Vertex(n) = v
    BY ListingTasks
  <2>3. dfn[s] > Level(n)
    BY <2>1, <2>2 DEF White, Open, LineInv, RunInv, InCycleOf
  <2>4. dfn[s] < Level(n)
    BY <2>1 DEF White, Open
  <2>5. dfn[s] \in Nat /\ Level(n) \in Nat
    BY <2>2, TaskTypes DEF BuilderState, BuilderInv, TypeOK
  <2> QED BY <2>3, <2>4, <2>5
<1> QED BY <1>1, <1>2 DEF Listing

LEMMA ListingEdge ==
    ASSUME BuilderState, NestInv, NEW n, NEW v, Listing(n, v),
           NEW line, NEW from, NEW to, LineInv(line, from, to),
           NEW line2, Grown(line, v, line2), NEW to2, to2 = Reaches(n, line, to)
    PROVE  EdgeInv(line2, from, to2)'
<1>0. PlaceInv(line, from, to)
  BY DEF LineInv
<1>1. /\ to2[Cycle(n)] = Len(line) + 1
      /\ \A d \in 0 .. NumCycles : Closed(d) => to2[d] = to[d]
      /\ \A d \in 0 .. NumCycles : /\ from[d] \in Nat /\ to[d] \in Nat
                                   /\ from[d] <= to[d] /\ to[d] <= Len(line)
      /\ to[Cycle(n)] = Len(line)
      /\ Len(line) \in Nat
  BY <1>0, ReachesFacts
<1>2. /\ n \in Tasks /\ v \in Labels /\ Vertex(n) = v
      /\ \A i \in Tasks' : /\ i \in Tasks /\ i < n
                           /\ Running(i)' <=> Running(i)
                           /\ Vertex(i)' = Vertex(i) /\ Cycle(i)' = Cycle(i)
      /\ \A i \in Tasks : i # n => i \in Tasks'
      /\ NumCycles' = NumCycles /\ children' = children
  BY ListingTasks
<1>3. /\ Target(n) \in 0 .. NumCycles /\ Cycle(n) \in 0 .. NumCycles /\ NumCycles \in Nat
      /\ Running(n) <=> Target(n) < Cycle(n)
      /\ \A d \in 1 .. NumCycles : Closed(d)' <=> Closed(d) \/ (Running(n) /\ d = Cycle(n))
      /\ \A i \in Tasks' : Running(i) => Cycle(i) \in 0 .. NumCycles
  BY ListingCycles
<1>4. /\ \A p \in DOMAIN line : p \in DOMAIN line2 /\ line2[p] = line[p] /\ p <= Len(line) /\ p \in Nat
      /\ Len(line) + 1 \in DOMAIN line2 /\ line2[Len(line) + 1] = v
      /\ \A p \in DOMAIN line2 : p \in DOMAIN line \/ p = Len(line) + 1
      /\ DOMAIN line = 1 .. Len(line)
  BY DEF Grown
<1>5. Running(n) => Cycle(n) \in 1 .. NumCycles
  BY <1>3
<1> SUFFICES ASSUME NEW p \in DOMAIN line2, NEW s \in Labels, Edge(line2[p], s)
             PROVE  \/ \E q \in DOMAIN line2 : q < p /\ line2[q] = s
                    \/ \E c \in 1 .. NumCycles : Closed(c)' /\ from[c] < p /\ p <= to2[c] /\ line2[to2[c]] = s
                    \/ \E i \in Tasks' : Running(i)' /\ Vertex(i)' = s /\ from[Cycle(i)'] < p
  BY <1>2 DEF EdgeInv, Edge
<1>6. ASSUME NEW i \in Tasks, Running(i), Vertex(i) = s, from[Cycle(i)] < p, p <= Len(line) + 1
      PROVE  \/ \E c \in 1 .. NumCycles : Closed(c)' /\ from[c] < p /\ p <= to2[c] /\ line2[to2[c]] = s
             \/ \E j \in Tasks' : Running(j)' /\ Vertex(j)' = s /\ from[Cycle(j)'] < p
  <2>1. CASE i = n
    <3>1. PICK c \in 1 .. NumCycles : c = Cycle(n)
      BY <1>5, <1>6, <2>1
    <3>2. Closed(c)' /\ from[c] < p /\ p <= to2[c] /\ line2[to2[c]] = s
      BY <1>1, <1>2, <1>3, <1>4, <1>6, <2>1, <3>1, SMTT(60)
    <3> QED BY <3>2
  <2>2. CASE i # n
    BY <1>2, <1>6, <2>2, SMTT(60)
  <2> QED BY <2>1, <2>2
<1>7. CASE p \in DOMAIN line
  <2>1. Edge(line[p], s) /\ p <= Len(line) + 1
    BY <1>1, <1>4, <1>7
  <2>2. CASE \E q \in DOMAIN line : q < p /\ line[q] = s
    BY <1>4, <2>2
  <2>3. CASE \E c \in 1 .. NumCycles : Closed(c) /\ from[c] < p /\ p <= to[c] /\ line[to[c]] = s
    <3>1. PICK c \in 1 .. NumCycles : Closed(c) /\ from[c] < p /\ p <= to[c] /\ line[to[c]] = s
      BY <2>3
    <3>2. c \in 0 .. NumCycles
      OBVIOUS
    <3>3. to[c] \in DOMAIN line
      BY <1>1, <1>4, <1>7, <3>1, <3>2
    <3> QED BY <1>1, <1>3, <1>4, <3>1, <3>2, <3>3, ZenonT(60)
  <2>4. CASE \E i \in Tasks : Running(i) /\ Vertex(i) = s /\ from[Cycle(i)] < p
    BY <1>6, <2>1, <2>4, SMTT(60)
  <2> QED BY <1>7, <2>1, <2>2, <2>3, <2>4, SMTT(60) DEF LineInv, EdgeInv
<1>8. CASE p = Len(line) + 1
  <2>1. dfn[s] = DFN_INF
    BY <1>4, <1>8, ListingEdges, SMTT(60)
  <2>2. CASE \E q \in DOMAIN line : line[q] = s
    <3>1. \A q \in DOMAIN line : q < p
      BY <1>1, <1>4, <1>8, SMTT(60)
    <3> QED BY <1>4, <2>2, <3>1, SMTT(60)
  <2>3. CASE ~ \E q \in DOMAIN line : line[q] = s
    <3>1. PICK i \in Tasks : Running(i) /\ Vertex(i) = s
      BY <2>1, <2>3 DEF LineInv, ListInv
    <3>2. Cycle(i) \in 0 .. NumCycles
      BY <1>2, <1>3, <3>1
    <3>3. from[Cycle(i)] < p /\ p <= Len(line) + 1
      BY <1>1, <1>8, <3>2, SMTT(60)
    <3> QED BY <1>6, <3>1, <3>3
  <2> QED BY <2>2, <2>3
<1> QED BY <1>4, <1>7, <1>8

LEMMA ListingConn ==
    ASSUME BuilderState, NestInv, NEW n, NEW v, Listing(n, v),
           NEW line, NEW from, NEW to, LineInv(line, from, to),
           NEW line2, Grown(line, v, line2), NEW to2, to2 = Reaches(n, line, to)
    PROVE  ConnInv(line2, from, to2)'
<1>0. PlaceInv(line, from, to)
  BY DEF LineInv
<1>1. /\ to2[Cycle(n)] = Len(line) + 1
      /\ \A d \in 0 .. NumCycles : Closed(d) => to2[d] = to[d]
      /\ \A d \in 0 .. NumCycles : /\ from[d] \in Nat /\ to[d] \in Nat
                                   /\ from[d] <= to[d] /\ to[d] <= Len(line)
      /\ to[Cycle(n)] = Len(line)
      /\ Len(line) \in Nat
  BY <1>0, ReachesFacts
<1>2. /\ n \in Tasks /\ v \in Labels /\ Vertex(n) = v
      /\ NumCycles' = NumCycles /\ children' = children
  BY ListingTasks
<1>3. /\ Target(n) \in 0 .. NumCycles /\ Cycle(n) \in 0 .. NumCycles /\ NumCycles \in Nat
      /\ Running(n) <=> Target(n) < Cycle(n)
      /\ \A d \in 1 .. NumCycles : Closed(d)' <=> Closed(d) \/ (Running(n) /\ d = Cycle(n))
  BY ListingCycles
<1>4. /\ \A p \in DOMAIN line : p \in DOMAIN line2 /\ line2[p] = line[p]
      /\ Len(line) + 1 \in DOMAIN line2 /\ line2[Len(line) + 1] = v
      /\ DOMAIN line = 1 .. Len(line)
  BY DEF Grown
<1> SUFFICES ASSUME NEW c \in 1 .. NumCycles, Closed(c)'
             PROVE  BothWays(Segment(c, line2, from, to2), line2[to2[c]])'
  BY <1>2 DEF ConnInv
<1>5. PICK S, h : S = Segment(c, line2, from, to2) /\ h = line2[to2[c]]
  OBVIOUS
<1> SUFFICES BothWays(S, h)
  <2>1. BothWays(S, h) => BothWays(S, h)'
    BY <1>2 DEF BothWays, LeadBack, LeadOn, Edge
  <2>2. BothWays(S, h)' => BothWays(Segment(c, line2, from, to2), line2[to2[c]])'
    BY <1>5, ZenonT(60) DEF BothWays, LeadBack, LeadOn, Segment, Edge
  <2> QED BY <2>1, <2>2
<1>6. c \in 0 .. NumCycles
  OBVIOUS
<1>7. CASE Closed(c)
  <2>1. to2[c] = to[c] /\ from[c] < to[c] /\ to[c] <= Len(line) /\ from[c] \in Nat /\ to[c] \in Nat
    BY <1>1, <1>6, <1>7 DEF LineInv, LaminarInv
  <2>2. to[c] \in DOMAIN line /\ \A p \in from[c] + 1 .. to[c] : p \in DOMAIN line
    BY <1>1, <1>4, <2>1, SMTT(60)
  <2>3. h = line[to[c]]
    BY <1>4, <1>5, <2>1, <2>2
  <2>4. S = Segment(c, line, from, to)
    BY <1>4, <1>5, <2>1, <2>2, ZenonT(60) DEF Segment
  <2> QED BY <1>7, <2>3, <2>4 DEF LineInv, ConnInv
<1>8. CASE ~ Closed(c)
  <2>1. Running(n) /\ c = Cycle(n) /\ Closes(n, v)
    BY <1>3, <1>8 DEF Listing, IsAlone, Running
  <2>2. PICK M \in SUBSET Labels :
            /\ InCycleOf(n, M)
            /\ \A p \in DOMAIN line : line[p] \in M <=> p > from[Cycle(n)]
            /\ LedTo(v, M) /\ LeadBack(M, v)
            /\ M # {} \/ Edge(v, v)
    BY <1>2, <2>1 DEF LineInv, RunInv
  <2>3. /\ \A x \in M : \E p \in DOMAIN line : line[p] = x
        /\ M # {} => \E s \in M : Edge(v, s)
    BY <2>1, <2>2, MembersListed
  <2>4. from[c] \in Nat /\ from[c] <= Len(line) /\ to2[c] = Len(line) + 1 /\ h = v
    BY <1>1, <1>4, <1>5, <1>6, <2>1
  <2>5. S = M \cup {v}
    <3>1. ASSUME NEW x \in S PROVE x \in M \cup {v}
      <4>1. PICK p \in from[c] + 1 .. Len(line) + 1 : x = line2[p]
        BY <1>5, <2>4, <3>1 DEF Segment
      <4>2. CASE p = Len(line) + 1
        BY <1>4, <4>1, <4>2, SMTT(60)
      <4>3. CASE p # Len(line) + 1
        <5>1. p \in DOMAIN line /\ p > from[c]
          BY <1>1, <1>4, <2>4, <4>1, <4>3, SMTT(60)
        <5> QED BY <1>4, <2>1, <2>2, <4>1, <5>1, SMTT(60)
      <4> QED BY <4>2, <4>3
    <3>2. ASSUME NEW x \in M PROVE x \in S
      <4>1. PICK p \in DOMAIN line : line[p] = x
        BY <2>3
      <4>2. p > from[c]
        BY <2>1, <2>2, <4>1
      <4>3. p \in from[c] + 1 .. Len(line) + 1 /\ line2[p] = x
        BY <1>1, <1>4, <2>4, <4>1, <4>2, SMTT(60)
      <4> QED BY <1>5, <2>4, <4>3, SMTT(60) DEF Segment
    <3>3. v \in S
      <4>1. Len(line) + 1 \in from[c] + 1 .. Len(line) + 1
        BY <1>1, <2>4
      <4> QED BY <1>4, <1>5, <2>4, <4>1 DEF Segment
    <3> QED BY <3>1, <3>2, <3>3
  <2>6. ASSUME NEW X \in SUBSET S, \A x \in S : (Edge(x, v) \/ \E s \in X : Edge(x, s)) => x \in X
        PROVE  X = S
    <3> DEFINE Y == {x \in X : x \in M}
    <3>1. Y \in SUBSET M /\ Y \subseteq X
      OBVIOUS
    <3>2. \A x \in M : (Edge(x, v) \/ \E s \in Y : Edge(x, s)) => x \in Y
      BY <2>5, <2>6
    <3>3. Y = M
      <4> HIDE DEF Y
      <4> QED BY <2>2, <3>1, <3>2 DEF LeadBack
    <3>4. v \in X
      <4>1. Edge(v, v) \/ \E s \in X : Edge(v, s)
        BY <2>2, <2>3, <3>1, <3>3
      <4> QED BY <2>5, <2>6, <4>1
    <3> QED BY <2>5, <3>1, <3>3, <3>4, SMTT(60)
  <2>7. ASSUME NEW X \in SUBSET S, v \in X, \A s \in S : (\E x \in X : Edge(x, s)) => s \in X
        PROVE  X = S
    <3> DEFINE Y == {x \in X : x \in M}
    <3>1. Y \in SUBSET M /\ Y \subseteq X
      OBVIOUS
    <3>2. \A s \in M : (Edge(v, s) \/ \E x \in Y : Edge(x, s)) => s \in Y
      BY <2>5, <2>7
    <3>3. Y = M
      <4> HIDE DEF Y
      <4> QED BY <2>2, <3>1, <3>2, SMTT(60) DEF LedTo
    <3> QED BY <2>5, <2>7, <3>1, <3>3, SMTT(60)
  <2> QED BY <2>4, <2>6, <2>7 DEF BothWays, LeadBack, LeadOn
<1> QED BY <1>7, <1>8, SMTT(60)

LEMMA ListingRun ==
    ASSUME BuilderState, NestInv, NEW n, NEW v, Listing(n, v),
           NEW line, NEW from, NEW to, LineInv(line, from, to),
           NEW line2, Grown(line, v, line2)
    PROVE  RunInv(line2, from)'
<1>0. PlaceInv(line, from, to)
  BY DEF LineInv
<1>1. /\ \A d \in 0 .. NumCycles : from[d] \in Nat /\ to[d] \in Nat /\ from[d] <= to[d] /\ to[d] <= Len(line)
      /\ Len(line) \in Nat
  BY <1>0, ReachesFacts
<1>2. /\ n \in Nat /\ n \in Tasks /\ v \in Labels /\ Vertex(n) = v
      /\ \A i \in Tasks' : /\ i \in Tasks /\ i < n
                           /\ Running(i)' <=> Running(i)
                           /\ Vertex(i)' = Vertex(i) /\ Cycle(i)' = Cycle(i)
                           /\ Running(i) => Level(i)' = Level(i)
      /\ children' = children
      /\ dfn'[v] = DFN_INF
      /\ \A x \in Labels : x # v => dfn'[x] = dfn[x]
      /\ \A x \in Labels : Open(x)' => Open(x) /\ dfn'[x] = dfn[x]
  BY ListingTasks
<1>3. \A i \in Tasks' : Running(i) => Cycle(i) \in 0 .. NumCycles
  BY ListingCycles
<1>4. \A x, y : Edge(x, y)' <=> Edge(x, y)
  BY <1>2 DEF Edge
<1> SUFFICES ASSUME NEW i \in Tasks', Running(i)
             PROVE  \E M \in SUBSET Labels :
                       /\ InCycleOf(i, M)'
                       /\ \A p \in DOMAIN line2 : line2[p] \in M <=> p > from[Cycle(i)]
                       /\ LedTo(Vertex(i), M)' /\ LeadBack(M, Vertex(i))'
                       /\ M # {} \/ Edge(Vertex(i), Vertex(i))'
  BY <1>2 DEF RunInv
<1>5. i \in Tasks /\ i < n /\ Vertex(i)' = Vertex(i) /\ Cycle(i)' = Cycle(i) /\ Level(i)' = Level(i)
  BY <1>2
<1>6. PICK M \in SUBSET Labels :
          /\ InCycleOf(i, M)
          /\ \A p \in DOMAIN line : line[p] \in M <=> p > from[Cycle(i)]
          /\ LedTo(Vertex(i), M) /\ LeadBack(M, Vertex(i))
          /\ M # {} \/ Edge(Vertex(i), Vertex(i))
  BY <1>5 DEF LineInv, RunInv
<1>7. InCycleOf(i, M)'
  <2>1. \A j \in Tasks' : j > i => Vertex(j)' \in M
    <3> SUFFICES ASSUME NEW j \in Tasks', j > i PROVE Vertex(j)' \in M
      OBVIOUS
    <3>1. j \in Tasks /\ Vertex(j)' = Vertex(j)
      BY <1>2
    <3>2. Vertex(j) \in M
      BY <1>6, <3>1 DEF InCycleOf
    <3> QED BY <3>1, <3>2
  <2>2. \A x \in Labels : Open(x)' => (x \in M <=> dfn'[x] > Level(i)')
    BY <1>2, <1>5, <1>6, SMTT(60) DEF InCycleOf
  <2>3. \A x \in M, s \in Labels : Edge(x, s)' => s \in M \/ dfn'[s] = DFN_INF
    BY <1>2, <1>4, <1>6 DEF InCycleOf
  <2>4. \A j \in Tasks' : j <= i /\ Running(j)' => Vertex(j)' \notin M
    BY <1>2, <1>6 DEF InCycleOf
  <2>5. \A s \in Labels : Edge(Vertex(i), s) /\ Open(s)' => dfn'[s] > Level(i)'
    BY <1>2, <1>5, <1>6 DEF InCycleOf
  <2> QED BY <1>4, <1>5, <2>1, <2>2, <2>3, <2>4, <2>5, SMTT(60) DEF InCycleOf
<1>8. ASSUME NEW p \in DOMAIN line2
      PROVE  line2[p] \in M <=> p > from[Cycle(i)]
  <2>1. CASE p \in DOMAIN line
    <3>1. line2[p] = line[p]
      BY <2>1 DEF Grown
    <3> QED BY <1>6, <2>1, <3>1, SMTT(60)
  <2>2. CASE p = Len(line) + 1
    <3>1. line2[p] = v
      BY <2>2 DEF Grown
    <3>2. v \in M
      BY <1>2, <1>5, <1>6 DEF InCycleOf
    <3>3. p > from[Cycle(i)]
      BY <1>1, <1>3, <2>2
    <3> QED BY <3>1, <3>2, <3>3
  <2> QED BY <2>1, <2>2 DEF Grown
<1>9. LedTo(Vertex(i), M)' /\ LeadBack(M, Vertex(i))' /\ (M # {} \/ Edge(Vertex(i), Vertex(i))')
  <2>1. Vertex(i)' = Vertex(i)
    BY <1>5
  <2>2. LedTo(Vertex(i), M)'
    BY <1>4, <1>6, <2>1 DEF LedTo
  <2>3. LeadBack(M, Vertex(i))'
    BY <1>4, <1>6, <2>1 DEF LeadBack
  <2> QED BY <1>4, <1>6, <2>1, <2>2, <2>3, SMTT(60)
<1> QED BY <1>7, <1>8, <1>9

LEMMA ListingKept ==
    ASSUME BuilderState, NestInv, NEW n, NEW v, Listing(n, v),
           NEW line, NEW from, NEW to, LineInv(line, from, to)
    PROVE  \E line2, to2 : LineInv(line2, from, to2)'
<1>1. line \in Seq(Labels) /\ PlaceInv(line, from, to) /\ LaminarInv(from, to) /\ SpellInv(line, from, to)
      /\ ListInv(line)
  BY DEF LineInv, PlaceInv
<1>2. v \in Labels
  BY ListingTasks
<1>3. PICK line2 : Grown(line, v, line2)
  BY <1>1, <1>2, LineGrows, SMTT(60)
<1>4. PICK to2 : to2 = Reaches(n, line, to)
  OBVIOUS
<1>5. PlaceInv(line2, from, to2)'
  BY <1>1, <1>3, <1>4, ListingPlace
<1>6. LaminarInv(from, to2)'
  BY <1>1, <1>4, ListingLaminar, SMTT(60)
<1>7. SpellInv(line2, from, to2)'
  BY <1>1, <1>3, <1>4, ListingSpell, SMTT(60)
<1>8. ListInv(line2)'
  BY <1>1, <1>3, ListingList
<1>9. EdgeInv(line2, from, to2)'
  BY <1>3, <1>4, ListingEdge
<1>10. ConnInv(line2, from, to2)'
  BY <1>3, <1>4, ListingConn
<1>11. RunInv(line2, from)'
  BY <1>3, ListingRun
<1>12. LineInv(line2, from, to2)'
  BY <1>5, <1>6, <1>7, <1>8, <1>9, <1>10, <1>11, SMTT(60) DEF LineInv
<1> QED BY <1>12

-----------------------------------------------------------------------------
(***************************************************************************)
(* The step that opens a cycle.                                            *)
(***************************************************************************)
Opened(f, a) == [d \in 0 .. NumCycles + 1 |-> IF d = NumCycles + 1 THEN a ELSE f[d]]

LEMMA OpensTasks ==
    ASSUME BuilderState, NestInv, NEW n, NEW v, Opens(n, v)
    PROVE  /\ n \in Nat /\ n \in Tasks /\ v \in Labels /\ Vertex(n) = v /\ ~ Running(n)
           /\ n \in Tasks' /\ Running(n)' /\ Vertex(n)' = v
           /\ Target(n)' = Cycle(n) /\ Cycle(n)' = NumCycles + 1 /\ Level(n)' = dfn[v]
           /\ \A i \in 1 .. n - 1 : /\ i \in Tasks /\ i \in Tasks' /\ i < n
                                    /\ Running(i)' <=> Running(i)
                                    /\ Vertex(i)' = Vertex(i) /\ Target(i)' = Target(i) /\ Cycle(i)' = Cycle(i)
                                    /\ Cycle(i) \in 0 .. NumCycles /\ Target(i) \in 0 .. NumCycles
                                    /\ Running(i) => Level(i)' = Level(i) /\ Vertex(i) # v
           /\ \A i \in Tasks : i = n \/ i \in 1 .. n - 1
           /\ \A i \in Tasks' : i = n \/ i \in 1 .. n - 1 \/ (i > n /\ ~ Running(i)')
           /\ \A i \in Tasks' : i > n => Vertex(i)' \in Labels /\ White(Vertex(i))' /\ Edge(v, Vertex(i)')
           /\ Current = Cycle(n) /\ Current' = NumCycles + 1 /\ Tasks' # {}
           /\ NumCycles' = NumCycles + 1 /\ NumCycles \in Nat /\ Cycle(n) \in 0 .. NumCycles /\ children' = children
           /\ \A d \in 1 .. NumCycles + 1 : Closed(d)' <=> Closed(d)
           /\ ~ Closed(NumCycles + 1)
<1>1. /\ Pushes(n, v, "ContinueVisit", Cycle(n), NumCycles + 1) /\ Type(n) = "StartVisit"
      /\ Level(n)' = dfn[v] /\ NumCycles' = NumCycles + 1 /\ children' = children
      /\ \A i \in 1 .. n - 1 : Begun(i) => Vertex(i) # v
  BY DEF Opens, SameGraph
<1>2. /\ n \in Nat \ {0} /\ Tasks = 1 .. n /\ n \in Tasks /\ Vertex(n) = v /\ v \in Labels
      /\ Len(visit_stack') \in Nat /\ n <= Len(visit_stack') /\ Tasks' = 1 .. Len(visit_stack')
      /\ Type(n)' = "ContinueVisit" /\ Vertex(n)' = v /\ Target(n)' = Cycle(n) /\ Cycle(n)' = NumCycles + 1
      /\ \A i \in 1 .. n - 1 : /\ i \in Tasks /\ i \in Tasks' /\ i < n
                               /\ Type(i)' = Type(i) /\ Vertex(i)' = Vertex(i)
                               /\ Target(i)' = Target(i) /\ Cycle(i)' = Cycle(i)
                               /\ Begun(i) => Level(i)' = Level(i)
      /\ \A i \in Tasks' : i > n => /\ Type(i)' = "PushSuccessors"
                                    /\ Vertex(i)' \in Labels /\ White(Vertex(i))' /\ Edge(v, Vertex(i)')
  BY <1>1 DEF Pushes, Below
<1>3. NumCycles \in Nat /\ \A i \in Tasks : Cycle(i) \in 0 .. NumCycles /\ Target(i) \in 0 .. NumCycles
  BY TaskTypes, PartType DEF BuilderState, BuilderInv
<1>4. /\ Current' = NumCycles + 1 /\ Current = Cycle(n) /\ Tasks' # {}
  BY <1>1, CurrentPushed
<1>5. ~ Running(n) /\ Running(n)' /\ n \in Tasks'
  BY <1>1, <1>2 DEF Running
<1>6. \A i \in 1 .. n - 1 : (Running(i)' <=> Running(i)) /\ (Running(i) => Begun(i))
  BY <1>2 DEF Running, Begun
<1>7. \A i \in Tasks' : i > n => ~ Running(i)'
  BY <1>2 DEF Running
<1>8. /\ \A i \in Tasks : i = n \/ i \in 1 .. n - 1
      /\ \A i \in Tasks' : i = n \/ i \in 1 .. n - 1 \/ i > n
  BY <1>2
<1>9. \A d \in 1 .. NumCycles : Closed(d)' <=> Closed(d)
  <2> SUFFICES ASSUME NEW d \in 1 .. NumCycles PROVE Closed(d)' <=> Closed(d)
    OBVIOUS
  <2>1. d # NumCycles + 1 /\ d \in 1 .. NumCycles'
    BY <1>1, <1>3, SMTT(60)
  <2>2. \A i \in Tasks' : Running(i)' /\ Cycle(i)' = d => i \in Tasks /\ Running(i) /\ Cycle(i) = d
    BY <1>2, <1>6, <1>7, <1>8, <2>1, SMTT(60)
  <2>3. \A i \in Tasks : Running(i) /\ Cycle(i) = d => i \in Tasks' /\ Running(i)' /\ Cycle(i)' = d
    BY <1>2, <1>5, <1>6, <1>8
  <2> QED BY <2>1, <2>2, <2>3, SMTT(60) DEF Closed
<1>10. PICK e : e = NumCycles + 1
  OBVIOUS
<1>11. ~ Closed(e)' /\ ~ Closed(e)
  BY <1>2, <1>3, <1>5, <1>10 DEF Closed
<1>12. \A d \in 1 .. NumCycles + 1 : d \in 1 .. NumCycles \/ d = e
  BY <1>3, <1>10
<1>13. \A d \in 1 .. NumCycles + 1 : Closed(d)' <=> Closed(d)
  BY <1>9, <1>11, <1>12, SMTT(60)
<1> QED BY <1>1, <1>2, <1>3, <1>4, <1>5, <1>6, <1>7, <1>8, <1>10, <1>11, <1>13, SMTT(60)

LEMMA OpensNumbers ==
    ASSUME BuilderState, NEW n, NEW v, Opens(n, v)
    PROVE  /\ dfn'[v] = DFN_INF /\ Open(v) /\ ~ Above(v, v)
           /\ \A x \in Labels : dfn[x] = DFN_INF => dfn'[x] = DFN_INF
           /\ \A x \in Labels : dfn'[x] = DFN_INF => dfn[x] = DFN_INF \/ x = v
           /\ \A x \in Labels : Open(x)' => Open(x) /\ dfn[x] < dfn[v] /\ dfn'[x] = dfn[x] /\ ~ Above(v, x)
           /\ \A x \in Labels : White(x)' => dfn[x] # DFN_INF /\ x # v
<1>1. /\ dfn'[v] = DFN_INF /\ Open(v) /\ v \in Labels
      /\ \A x \in Labels : /\ Above(v, x) => dfn'[x] = 0
                           /\ x # v /\ ~ Above(v, x) => dfn'[x] = dfn[x]
                           /\ Open(x)' <=> Open(x) /\ dfn[x] < dfn[v]
  BY DEF Opens, Pushes
<1>2. \A x \in Labels : dfn[x] \in Nat
  BY DEF BuilderState, BuilderInv, TypeOK
<1>3. ~ Above(v, v) /\ \A x \in Labels : dfn[x] < dfn[v] => ~ Above(v, x) /\ x # v
  BY <1>1, <1>2 DEF Above
<1>4. DFN_INF # 0
  BY DEF DFN_INF
<1>5. \A x \in Labels : dfn[x] = DFN_INF => dfn'[x] = DFN_INF
  BY <1>1 DEF Above, Open
<1>6. \A x \in Labels : White(x)' => dfn[x] # DFN_INF /\ x # v
  BY <1>1, <1>4, <1>5 DEF White
<1> QED BY <1>1, <1>3, <1>4, <1>5, <1>6, SMTT(60)

LEMMA OpensPlaces ==
    ASSUME BuilderState, NestInv, NEW n, NEW v, Opens(n, v),
           NEW line, NEW from, NEW to, PlaceInv(line, from, to), NEW from2, from2 = Opened(from, Len(line)),
           NEW to2, to2 = Opened(to, Len(line))
    PROVE  /\ from2 \in [0 .. NumCycles + 1 -> Nat] /\ to2 \in [0 .. NumCycles + 1 -> Nat]
           /\ from2[NumCycles + 1] = Len(line) /\ to2[NumCycles + 1] = Len(line)
           /\ \A d \in 0 .. NumCycles : /\ from2[d] = from[d] /\ to2[d] = to[d]
                                        /\ from[d] \in Nat /\ to[d] \in Nat
                                        /\ from[d] <= to[d] /\ to[d] <= Len(line)
           /\ \A d : Closed(d) => Closed(d)' /\ from2[d] = from[d] /\ to2[d] = to[d]
           /\ \A d \in 0 .. NumCycles + 1 : d \in 0 .. NumCycles \/ d = NumCycles + 1
           /\ Len(line) \in Nat /\ DOMAIN line = 1 .. Len(line)
<1>1. /\ NumCycles \in Nat
      /\ \A d \in 1 .. NumCycles + 1 : Closed(d)' <=> Closed(d)
  BY OpensTasks
<1>2. /\ line \in Seq(Labels) /\ from \in [0 .. NumCycles -> Nat] /\ to \in [0 .. NumCycles -> Nat]
      /\ \A c \in 0 .. NumCycles : from[c] <= to[c] /\ to[c] <= Len(line)
  BY DEF PlaceInv
<1>3. Len(line) \in Nat /\ DOMAIN line = 1 .. Len(line)
  BY <1>2
<1>4. /\ from2 \in [0 .. NumCycles + 1 -> Nat] /\ to2 \in [0 .. NumCycles + 1 -> Nat]
      /\ from2[NumCycles + 1] = Len(line) /\ to2[NumCycles + 1] = Len(line)
      /\ \A d \in 0 .. NumCycles : from2[d] = from[d] /\ to2[d] = to[d]
  BY <1>1, <1>2, <1>3, SMTT(60) DEF Opened
<1>5. \A d : Closed(d) => d \in 0 .. NumCycles /\ d \in 1 .. NumCycles + 1
  BY <1>1 DEF Closed
<1>6. \A d \in 0 .. NumCycles + 1 : d \in 0 .. NumCycles \/ d = NumCycles + 1
  BY <1>1
<1> QED BY <1>1, <1>2, <1>3, <1>4, <1>5, <1>6

LEMMA OpensLine ==
    ASSUME BuilderState, NestInv, NEW n, NEW v, Opens(n, v),
           NEW line, NEW from, NEW to, LineInv(line, from, to), NEW from2, from2 = Opened(from, Len(line)),
           NEW to2, to2 = Opened(to, Len(line))
    PROVE  /\ PlaceInv(line, from2, to2)' /\ LaminarInv(from2, to2)' /\ SpellInv(line, from2, to2)'
           /\ ListInv(line)' /\ EdgeInv(line, from2, to2)' /\ ConnInv(line, from2, to2)'
<1>0. PlaceInv(line, from, to) /\ LaminarInv(from, to) /\ SpellInv(line, from, to)
      /\ ListInv(line) /\ EdgeInv(line, from, to) /\ ConnInv(line, from, to)
  BY DEF LineInv
<1>1. /\ n \in Nat /\ n \in Tasks /\ v \in Labels /\ ~ Running(n)
      /\ n \in Tasks' /\ Running(n)' /\ Vertex(n)' = v
      /\ Target(n)' = Cycle(n) /\ Cycle(n)' = NumCycles + 1
      /\ \A i \in 1 .. n - 1 : /\ i \in Tasks /\ i \in Tasks' /\ i < n
                               /\ Running(i)' <=> Running(i)
                               /\ Vertex(i)' = Vertex(i) /\ Target(i)' = Target(i) /\ Cycle(i)' = Cycle(i)
                               /\ Cycle(i) \in 0 .. NumCycles /\ Target(i) \in 0 .. NumCycles
                               /\ Running(i) => Vertex(i) # v
      /\ \A i \in Tasks : i = n \/ i \in 1 .. n - 1
      /\ \A i \in Tasks' : i = n \/ i \in 1 .. n - 1 \/ (i > n /\ ~ Running(i)')
      /\ Current = Cycle(n) /\ Current' = NumCycles + 1 /\ Tasks' # {}
      /\ NumCycles' = NumCycles + 1 /\ NumCycles \in Nat /\ Cycle(n) \in 0 .. NumCycles /\ children' = children
      /\ \A d \in 1 .. NumCycles + 1 : Closed(d)' <=> Closed(d)
      /\ ~ Closed(NumCycles + 1)
  BY OpensTasks, SMTT(60)
<1>2. /\ from2 \in [0 .. NumCycles + 1 -> Nat] /\ to2 \in [0 .. NumCycles + 1 -> Nat]
      /\ from2[NumCycles + 1] = Len(line) /\ to2[NumCycles + 1] = Len(line)
      /\ \A d \in 0 .. NumCycles : /\ from2[d] = from[d] /\ to2[d] = to[d]
                                   /\ from[d] \in Nat /\ to[d] \in Nat
                                   /\ from[d] <= to[d] /\ to[d] <= Len(line)
      /\ \A d : Closed(d) => Closed(d)' /\ from2[d] = from[d] /\ to2[d] = to[d]
      /\ \A d \in 0 .. NumCycles + 1 : d \in 0 .. NumCycles \/ d = NumCycles + 1
      /\ Len(line) \in Nat /\ DOMAIN line = 1 .. Len(line)
  BY <1>0, OpensPlaces
<1>3. /\ dfn'[v] = DFN_INF /\ Open(v)
      /\ \A x \in Labels : dfn[x] = DFN_INF => dfn'[x] = DFN_INF
      /\ \A x \in Labels : dfn'[x] = DFN_INF => dfn[x] = DFN_INF \/ x = v
  BY OpensNumbers
<1>4. \A d : Closed(d) => d \in 1 .. NumCycles /\ d \in 0 .. NumCycles
  BY <1>1, SMTT(60) DEF Closed
<1>5. PlaceInv(line, from2, to2)'
  <2>1. \A c \in 0 .. NumCycles + 1 : from2[c] <= to2[c] /\ to2[c] <= Len(line)
    BY <1>2
  <2>2. ASSUME NEW i \in Tasks', Running(i)' PROVE to2[Target(i)'] = from2[Cycle(i)']
    <3>1. CASE i = n
      BY <1>0, <1>1, <1>2, <3>1, SMTT(60) DEF PlaceInv
    <3>2. CASE i \in 1 .. n - 1
      <4>1. /\ i \in Tasks /\ Running(i) /\ Target(i)' = Target(i) /\ Cycle(i)' = Cycle(i)
            /\ Cycle(i) \in 0 .. NumCycles /\ Target(i) \in 0 .. NumCycles
        BY <1>1, <2>2, <3>2
      <4>2. to2[Target(i)] = to[Target(i)] /\ from2[Cycle(i)] = from[Cycle(i)]
        BY <1>2, <4>1
      <4> QED BY <1>0, <4>1, <4>2 DEF PlaceInv
    <3> QED BY <1>1, <2>2, <3>1, <3>2, SMTT(60)
  <2>3. ASSUME NEW i \in Tasks', NEW j \in Tasks', i < j, Running(i)', Running(j)'
        PROVE  from2[Cycle(i)'] <= from2[Cycle(j)']
    <3>1. i \in 1 .. n - 1
      BY <1>1, <2>3
    <3>2. i \in Tasks /\ Running(i) /\ Cycle(i)' = Cycle(i) /\ Cycle(i) \in 0 .. NumCycles
      BY <1>1, <2>3, <3>1
    <3>3. CASE j = n
      <4>1. /\ from2[Cycle(i)] = from[Cycle(i)] /\ from[Cycle(i)] \in Nat /\ to[Cycle(i)] \in Nat
            /\ from[Cycle(i)] <= to[Cycle(i)] /\ to[Cycle(i)] <= Len(line)
        BY <1>2, <3>2, SMTT(60)
      <4>2. from2[Cycle(j)'] = Len(line) /\ Len(line) \in Nat
        BY <1>1, <1>2, <3>3
      <4> QED BY <3>2, <4>1, <4>2
    <3>4. CASE j \in 1 .. n - 1
      <4>1. j \in Tasks /\ Running(j) /\ Cycle(j)' = Cycle(j) /\ Cycle(j) \in 0 .. NumCycles
        BY <1>1, <2>3, <3>4
      <4>2. from2[Cycle(i)] = from[Cycle(i)] /\ from2[Cycle(j)] = from[Cycle(j)]
        BY <1>2, <3>2, <4>1
      <4>3. from[Cycle(i)] <= from[Cycle(j)]
        BY <1>0, <2>3, <3>2, <4>1, SMTT(60) DEF PlaceInv
      <4> QED BY <3>2, <4>1, <4>2, <4>3
    <3> QED BY <1>1, <2>3, <3>3, <3>4
  <2>4. from2[0] = 0
    <3>1. 0 \in 0 .. NumCycles
      BY <1>1
    <3> QED BY <1>0, <1>2, <3>1, SMTT(60) DEF PlaceInv
  <2>5. line \in Seq(Labels) /\ to2[Current'] = Len(line)
    BY <1>0, <1>1, <1>2, SMTT(60) DEF PlaceInv
  <2> QED BY <1>1, <1>2, <2>1, <2>2, <2>3, <2>4, <2>5 DEF PlaceInv
<1>6. LaminarInv(from2, to2)'
  <2>1. ASSUME NEW c \in 1 .. NumCycles + 1, NEW d \in 1 .. NumCycles + 1,
               Closed(d), Closed(c) => to2[d] <= to2[c], from2[c] < to2[d]
        PROVE  from2[c] <= from2[d]
    <3>1. d \in 0 .. NumCycles /\ d \in 1 .. NumCycles /\ to2[d] = to[d] /\ from2[d] = from[d]
      BY <1>2, <1>4, <2>1
    <3>2. c # NumCycles + 1
      <4>1. to2[d] <= Len(line) /\ to2[d] \in Nat
        BY <1>2, <3>1, SMTT(60)
      <4> QED BY <1>2, <2>1, <4>1, SMTT(60)
    <3>3. c \in 1 .. NumCycles /\ c \in 0 .. NumCycles
      BY <1>1, <3>2, SMTT(60)
    <3> QED BY <1>0, <1>2, <2>1, <3>1, <3>3, SMTT(60) DEF LaminarInv
  <2>2. \A c \in 1 .. NumCycles + 1 : Closed(c) => from2[c] < to2[c]
    BY <1>0, <1>2, <1>4, SMTT(60) DEF LaminarInv
  <2>3. \A c, d \in 1 .. NumCycles + 1 : Closed(c) /\ Closed(d) /\ to2[c] = to2[d] => c = d
    BY <1>0, <1>2, <1>4, SMTT(60) DEF LaminarInv
  <2> QED BY <1>1, <2>1, <2>2, <2>3, SMTT(60) DEF LaminarInv
<1>7. SpellInv(line, from2, to2)'
  <2>1. \A d \in 0 .. NumCycles : part'[d] = part[d]
    BY <1>1 DEF Opens
  <2>2. part'[NumCycles + 1] = <<>>
    BY <1>1 DEF Opens
  <2>3. ASSUME NEW d \in 0 .. NumCycles + 1
        PROVE  \E s, cut : /\ s = part'[d] /\ Cuts(s, cut, line, from2, to2)'
                           /\ cut[0] = from2[d] /\ cut[Len(s)] = to2[d]
    <3>1. CASE d \in 0 .. NumCycles
      <4>1. PICK s : s = part[d]
        OBVIOUS
      <4>2. PICK cut : Cuts(s, cut, line, from, to) /\ cut[0] = from[d] /\ cut[Len(s)] = to[d]
        BY <1>0, <3>1, <4>1 DEF SpellInv
      <4>3. Cuts(s, cut, line, from2, to2)'
        <5>1. \A e : Closed(e) => Closed(e)' /\ from2[e] = from[e] /\ to2[e] = to[e]
          BY <1>2
        <5>2. \A p \in DOMAIN line : p \in DOMAIN line /\ line[p] = line[p]
          OBVIOUS
        <5> QED BY <4>2, <5>1, <5>2, CutsStay
      <4> QED BY <1>2, <2>1, <3>1, <4>1, <4>2, <4>3, SMTT(60)
    <3>2. CASE d = NumCycles + 1
      <4>1. PICK cut : cut = [k \in 0 .. 0 |-> Len(line)]
        OBVIOUS
      <4>2. Len(<<>>) = 0 /\ cut \in [0 .. 0 -> Nat] /\ cut[0] = Len(line)
        BY <1>2, <4>1
      <4>3. 1 .. Len(<<>>) = {} /\ 0 .. Len(<<>>) = 0 .. 0
        BY <4>2
      <4>4. Cuts(<<>>, cut, line, from2, to2)'
        BY <4>2, <4>3 DEF Cuts
      <4> QED BY <1>2, <2>2, <3>2, <4>2, <4>4, SMTT(60)
    <3> QED BY <1>2, <3>1, <3>2
  <2>4. ASSUME NEW c \in 1 .. NumCycles + 1, Closed(c)
        PROVE  Len(part'[c]) > 0 /\ Top(part'[c]) = LabelComp(line[to2[c]])
    <3>1. c \in 1 .. NumCycles /\ part'[c] = part[c] /\ to2[c] = to[c]
      BY <1>2, <1>4, <2>1, <2>4
    <3> QED BY <1>0, <2>4, <3>1 DEF SpellInv
  <2>5. \A d \in 0 .. NumCycles' : \E cut :
             /\ Cuts(part[d], cut, line, from2, to2)'
             /\ cut[0] = from2[d] /\ cut[Len(part'[d])] = to2[d]
    <3> SUFFICES ASSUME NEW d \in 0 .. NumCycles'
                 PROVE  \E cut : /\ Cuts(part[d], cut, line, from2, to2)'
                                 /\ cut[0] = from2[d] /\ cut[Len(part'[d])] = to2[d]
      OBVIOUS
    <3>1. d \in 0 .. NumCycles + 1
      BY <1>1
    <3>2. PICK s, cut : /\ s = part'[d] /\ Cuts(s, cut, line, from2, to2)'
                        /\ cut[0] = from2[d] /\ cut[Len(s)] = to2[d]
      BY <2>3, <3>1
    <3>3. Cuts(part[d], cut, line, from2, to2)'
      BY <3>2, ZenonT(60) DEF Cuts, PieceOK
    <3> QED BY <3>2, <3>3
  <2> QED BY <1>1, <2>4, <2>5 DEF SpellInv
<1>8. ListInv(line)'
  <2> SUFFICES ASSUME NEW x \in Labels
               PROVE  (dfn'[x] = DFN_INF /\ ~ \E i \in Tasks' : Running(i)' /\ Vertex(i)' = x)
                          <=> (dfn[x] = DFN_INF /\ ~ \E i \in Tasks : Running(i) /\ Vertex(i) = x)
    BY <1>0 DEF ListInv
  <2>1. CASE x = v
    BY <1>1, <1>3, <2>1, SMTT(60) DEF Open
  <2>2. CASE x # v
    <3>1. (\E i \in Tasks' : Running(i)' /\ Vertex(i)' = x) <=> \E i \in Tasks : Running(i) /\ Vertex(i) = x
      BY <1>1, <2>2, SMTT(60)
    <3> QED BY <1>3, <2>2, <3>1
  <2> QED BY <2>1, <2>2
<1>9. EdgeInv(line, from2, to2)'
  <2> SUFFICES ASSUME NEW p \in DOMAIN line, NEW s \in Labels, Edge(line[p], s)
               PROVE  \/ \E q \in DOMAIN line : q < p /\ line[q] = s
                      \/ \E c \in 1 .. NumCycles + 1 : Closed(c)' /\ from2[c] < p /\ p <= to2[c] /\ line[to2[c]] = s
                      \/ \E i \in Tasks' : Running(i)' /\ Vertex(i)' = s /\ from2[Cycle(i)'] < p
    BY <1>1, SMTT(60) DEF EdgeInv, Edge
  <2>1. CASE \E c \in 1 .. NumCycles : Closed(c) /\ from[c] < p /\ p <= to[c] /\ line[to[c]] = s
    <3>1. PICK c \in 1 .. NumCycles : Closed(c) /\ from[c] < p /\ p <= to[c] /\ line[to[c]] = s
      BY <2>1
    <3>2. c \in 1 .. NumCycles + 1
      BY <1>1
    <3> QED BY <1>2, <3>1, <3>2
  <2>2. CASE \E i \in Tasks : Running(i) /\ Vertex(i) = s /\ from[Cycle(i)] < p
    <3>1. PICK i \in Tasks : Running(i) /\ Vertex(i) = s /\ from[Cycle(i)] < p
      BY <2>2
    <3>2. i \in 1 .. n - 1
      BY <1>1, <3>1
    <3>3. /\ i \in Tasks' /\ Running(i)' /\ Vertex(i)' = s /\ Cycle(i)' = Cycle(i)
          /\ Cycle(i) \in 0 .. NumCycles
      BY <1>1, <3>1, <3>2
    <3>4. from2[Cycle(i)'] < p
      BY <1>2, <3>1, <3>3
    <3> QED BY <3>3, <3>4, SMTT(60)
  <2> QED BY <1>0, <2>1, <2>2 DEF EdgeInv
<1>10. ConnInv(line, from2, to2)'
  <2> SUFFICES ASSUME NEW c \in 1 .. NumCycles + 1, Closed(c)
               PROVE  BothWays(Segment(c, line, from2, to2), line[to2[c]])'
    BY <1>1 DEF ConnInv
  <2>1. from2[c] = from[c] /\ to2[c] = to[c] /\ c \in 1 .. NumCycles
    BY <1>2, <1>4
  <2>2. PICK S, h : S = Segment(c, line, from, to) /\ h = line[to[c]]
    OBVIOUS
  <2>3. BothWays(S, h)
    BY <1>0, <2>1, <2>2, SMTT(60) DEF ConnInv
  <2>4. BothWays(S, h)'
    BY <1>1, <2>3 DEF BothWays, LeadBack, LeadOn, Edge
  <2>5. S = Segment(c, line, from2, to2) /\ h = line[to2[c]]
    BY <2>1, <2>2, ZenonT(60) DEF Segment
  <2> QED BY <2>4, <2>5, ZenonT(60) DEF BothWays, LeadBack, LeadOn, Segment, Edge
<1> QED BY <1>5, <1>6, <1>7, <1>8, <1>9, <1>10

LEMMA OpensRun ==
    ASSUME BuilderState, NestInv, BackInv, NEW n, NEW v, Opens(n, v),
           NEW line, NEW from, NEW to, LineInv(line, from, to), NEW from2, from2 = Opened(from, Len(line))
    PROVE  RunInv(line, from2)'
<1>1. /\ n \in Nat /\ n \in Tasks /\ v \in Labels /\ Vertex(n) = v /\ ~ Running(n)
      /\ Vertex(n)' = v /\ Cycle(n)' = NumCycles + 1 /\ Level(n)' = dfn[v]
      /\ \A i \in 1 .. n - 1 : /\ i \in Tasks /\ i < n
                               /\ Running(i)' <=> Running(i)
                               /\ Vertex(i)' = Vertex(i) /\ Cycle(i)' = Cycle(i)
                               /\ Cycle(i) \in 0 .. NumCycles
                               /\ Running(i) => Level(i)' = Level(i)
      /\ \A i \in Tasks' : i = n \/ i \in 1 .. n - 1 \/ (i > n /\ ~ Running(i)')
      /\ \A i \in Tasks' : i > n => Vertex(i)' \in Labels /\ White(Vertex(i))' /\ Edge(v, Vertex(i)')
      /\ children' = children
  BY OpensTasks
<1>2. /\ from2[NumCycles + 1] = Len(line)
      /\ \A d \in 0 .. NumCycles : from2[d] = from[d]
      /\ Len(line) \in Nat /\ DOMAIN line = 1 .. Len(line)
  <2>1. PlaceInv(line, from, to)
    BY DEF LineInv
  <2>2. PICK to2 : to2 = Opened(to, Len(line))
    OBVIOUS
  <2> QED BY <2>1, <2>2, OpensPlaces
<1>3. /\ dfn'[v] = DFN_INF /\ Open(v) /\ ~ Above(v, v)
      /\ \A x \in Labels : dfn[x] = DFN_INF => dfn'[x] = DFN_INF
      /\ \A x \in Labels : Open(x)' => Open(x) /\ dfn[x] < dfn[v] /\ dfn'[x] = dfn[x] /\ ~ Above(v, x)
      /\ \A x \in Labels : White(x)' => dfn[x] # DFN_INF /\ x # v
  BY OpensNumbers
<1>4. \A x, y : Edge(x, y)' <=> Edge(x, y)
  BY <1>1 DEF Edge
<1>5. ASSUME NEW i \in 1 .. n - 1, i \in Tasks', Running(i)'
      PROVE  \E M \in SUBSET Labels :
                /\ InCycleOf(i, M)'
                /\ \A p \in DOMAIN line : line[p] \in M <=> p > from2[Cycle(i)']
                /\ LedTo(Vertex(i), M)' /\ LeadBack(M, Vertex(i))'
                /\ M # {} \/ Edge(Vertex(i), Vertex(i))'
  <2>1. /\ i \in Tasks /\ i < n /\ Running(i) /\ Vertex(i)' = Vertex(i) /\ Cycle(i)' = Cycle(i)
        /\ Level(i)' = Level(i) /\ from2[Cycle(i)'] = from[Cycle(i)]
    BY <1>1, <1>2, <1>5
  <2>2. PICK M \in SUBSET Labels :
            /\ InCycleOf(i, M)
            /\ \A p \in DOMAIN line : line[p] \in M <=> p > from[Cycle(i)]
            /\ LedTo(Vertex(i), M) /\ LeadBack(M, Vertex(i))
            /\ M # {} \/ Edge(Vertex(i), Vertex(i))
    BY <2>1 DEF LineInv, RunInv
  <2>3. v \in M
    BY <1>1, <2>1, <2>2 DEF InCycleOf
  <2>4. ASSUME NEW j \in Tasks', j > i PROVE Vertex(j)' \in M
    <3>1. CASE j \in 1 .. n - 1
      BY <1>1, <2>2, <2>4, <3>1 DEF InCycleOf
    <3>2. CASE j = n
      BY <1>1, <2>3, <3>2
    <3>3. CASE j > n
      <4>1. Vertex(j)' \in Labels /\ White(Vertex(j))' /\ Edge(v, Vertex(j)')
        BY <1>1, <3>3
      <4>2. dfn[Vertex(j)'] # DFN_INF
        BY <1>3, <4>1 DEF White
      <4> QED BY <2>2, <2>3, <4>1, <4>2, SMTT(60) DEF InCycleOf
    <3> QED BY <1>1, <3>1, <3>2, <3>3
  <2>5. \A x \in Labels : Open(x)' => (x \in M <=> dfn'[x] > Level(i)')
    BY <1>3, <2>1, <2>2 DEF InCycleOf
  <2>6. \A x \in M, s \in Labels : Edge(x, s)' => s \in M \/ dfn'[s] = DFN_INF
    BY <1>3, <1>4, <2>2 DEF InCycleOf
  <2>7. \A j \in Tasks' : j <= i /\ Running(j)' => Vertex(j)' \notin M
    <3> SUFFICES ASSUME NEW j \in Tasks', j <= i, Running(j)' PROVE Vertex(j)' \notin M
      OBVIOUS
    <3>1. j \in 1 .. n - 1
      BY <1>1, <2>1, SMTT(60)
    <3> QED BY <1>1, <2>2, <3>1, SMTT(60) DEF InCycleOf
  <2>8. \A s \in Labels : Edge(Vertex(i), s) /\ Open(s)' => dfn'[s] > Level(i)'
    BY <1>3, <2>1, <2>2 DEF InCycleOf
  <2>9. InCycleOf(i, M)'
    BY <1>4, <2>1, <2>4, <2>5, <2>6, <2>7, <2>8, SMTT(60) DEF InCycleOf
  <2>10. Vertex(i)' = Vertex(i)
    BY <2>1
  <2>11. LedTo(Vertex(i), M)'
    BY <1>4, <2>2, <2>10 DEF LedTo
  <2>12. LeadBack(M, Vertex(i))'
    BY <1>4, <2>2, <2>10 DEF LeadBack
  <2> QED BY <1>4, <2>1, <2>2, <2>9, <2>11, <2>12
<1>6. \E M \in SUBSET Labels :
          /\ InCycleOf(n, M)'
          /\ \A p \in DOMAIN line : line[p] \in M <=> p > from2[Cycle(n)']
          /\ LedTo(Vertex(n), M)' /\ LeadBack(M, Vertex(n))'
          /\ M # {} \/ Edge(Vertex(n), Vertex(n))'
  <2>1. PICK M \in SUBSET Labels : \A x \in Labels : x \in M <=> Above(v, x)
    <3>1. {x \in Labels : Above(v, x)} \in SUBSET Labels
      OBVIOUS
    <3> QED BY <3>1
  <2>2. \A x, s \in Labels : (x = v \/ Above(v, x)) /\ Edge(x, s) => s = v \/ Above(v, s) \/ dfn[s] = DFN_INF
    BY DEF Opens
  <2>3. \A x \in Labels : Above(v, x) => Open(x) /\ dfn[x] > dfn[v] /\ dfn[x] # DFN_INF
    BY DEF Above, Open
  <2>4. \A x \in Labels : dfn[x] \in Nat
    BY DEF BuilderState, BuilderInv, TypeOK
  <2>5. ASSUME NEW j \in Tasks', j > n PROVE Vertex(j)' \in M
    <3>1. Vertex(j)' \in Labels /\ White(Vertex(j))' /\ Edge(v, Vertex(j)')
      BY <1>1, <2>5
    <3> QED BY <1>1, <1>3, <2>1, <2>2, <3>1, SMTT(60)
  <2>6. \A x \in Labels : Open(x)' => (x \in M <=> dfn'[x] > Level(n)')
    BY <1>1, <1>3, <2>1, <2>3, <2>4, SMTT(60)
  <2>7. \A x \in M, s \in Labels : Edge(x, s)' => s \in M \/ dfn'[s] = DFN_INF
    BY <1>3, <1>4, <2>1, <2>2, SMTT(60)
  <2>8. ASSUME NEW j \in Tasks', j <= n, Running(j)' PROVE Vertex(j)' \notin M
    <3>1. CASE j = n
      BY <1>1, <1>3, <2>1, <3>1, SMTT(60)
    <3>2. CASE j \in 1 .. n - 1
      <4>1. dfn[Vertex(j)] = DFN_INF /\ Vertex(j)' = Vertex(j)
        BY <1>1, <2>8, <3>2, SMTT(60) DEF BuilderState, BuilderInv, TaskInv, TaskOK, Running, Type, Vertex
      <4> QED BY <2>1, <2>3, <4>1, SMTT(60)
    <3> QED BY <1>1, <2>8, <3>1, <3>2
  <2>9. \A s \in Labels : Edge(Vertex(n), s)' /\ Open(s)' => dfn'[s] > Level(n)'
    BY <1>1, <1>3, <1>4, <2>2, SMTT(60) DEF Open
  <2>10. InCycleOf(n, M)'
    BY <1>1, <2>5, <2>6, <2>7, <2>8, <2>9, SMTT(60) DEF InCycleOf
  <2>11. \A p \in DOMAIN line : line[p] \in M <=> p > from2[Cycle(n)']
    <3>1. \A p \in DOMAIN line : line[p] \in Labels => dfn[line[p]] = DFN_INF
      BY DEF LineInv, ListInv
    <3> QED BY <1>1, <1>2, <2>1, <2>3, <3>1, SMTT(60)
  <2>12. LedTo(v, M)
    <3> SUFFICES ASSUME NEW X \in SUBSET M, \A s \in M : (Edge(v, s) \/ \E x \in X : Edge(x, s)) => s \in X
                 PROVE  X = M
      BY DEF LedTo
    <3>1. X \in SUBSET Labels
      OBVIOUS
    <3>2. /\ \A s \in Labels : Above(v, s) /\ Edge(v, s) => s \in X
          /\ \A x \in X, s \in Labels : Above(v, x) /\ Above(v, s) /\ Edge(x, s) => s \in X
      BY <2>1
    <3>3. \A x \in Labels : Above(v, x) => x \in X
      BY <3>1, <3>2 DEF Opens
    <3> QED BY <2>1, <3>3
  <2>13. LeadBack(M, v)
    <3> SUFFICES ASSUME NEW X \in SUBSET M, \A x \in M : (Edge(x, v) \/ \E s \in X : Edge(x, s)) => x \in X
                 PROVE  X = M
      BY DEF LeadBack
    <3>1. X \in SUBSET Labels
      OBVIOUS
    <3>2. /\ \A x \in Labels : Above(v, x) /\ Edge(x, v) => x \in X
          /\ \A x \in Labels, s \in X : Above(v, x) /\ Above(v, s) /\ Edge(x, s) => x \in X
      BY <2>1
    <3>3. \A x \in Labels : Above(v, x) => x \in X
      BY <3>1, <3>2, AboveLeadsBack, SMTT(60)
    <3> QED BY <2>1, <3>3
  <2>14. M # {} \/ Edge(v, v)
    BY <2>1 DEF Opens
  <2>15. Vertex(n)' = v
    BY <1>1
  <2>16. LedTo(Vertex(n), M)'
    BY <1>4, <2>12, <2>15, SMTT(60) DEF LedTo
  <2>17. LeadBack(M, Vertex(n))'
    BY <1>4, <2>13, <2>15 DEF LeadBack
  <2> QED BY <1>4, <2>10, <2>11, <2>14, <2>15, <2>16, <2>17
<1>7. ASSUME NEW i \in Tasks', Running(i)'
      PROVE  i = n \/ i \in 1 .. n - 1
  BY <1>1, <1>7
<1> QED BY <1>5, <1>6, <1>7, SMTT(60) DEF RunInv

LEMMA OpensKept ==
    ASSUME BuilderState, NestInv, BackInv, NEW n, NEW v, Opens(n, v),
           NEW line, NEW from, NEW to, LineInv(line, from, to)
    PROVE  \E from2, to2 : LineInv(line, from2, to2)'
<1>1. PICK from2, to2 : from2 = Opened(from, Len(line)) /\ to2 = Opened(to, Len(line))
  OBVIOUS
<1>2. /\ PlaceInv(line, from2, to2)' /\ LaminarInv(from2, to2)' /\ SpellInv(line, from2, to2)'
      /\ ListInv(line)' /\ EdgeInv(line, from2, to2)' /\ ConnInv(line, from2, to2)'
  BY <1>1, OpensLine
<1>3. RunInv(line, from2)'
  BY <1>1, OpensRun
<1>4. LineInv(line, from2, to2)'
  BY <1>2, <1>3 DEF LineInv
<1> QED BY <1>4

-----------------------------------------------------------------------------
(***************************************************************************)
(* There is such a line at every step.                                     *)
(***************************************************************************)
PlaceFound == NestInv /\ BackInv /\ \E line, from, to : LineInv(line, from, to)

LEMMA InitPlaces ==
    ASSUME Init
    PROVE  PlaceFound
<1>1. /\ \A x \in Labels : dfn[x] = 0 /\ dfn[x] # DFN_INF /\ ~ Open(x) /\ ~ Waiting(x)
      /\ Entry \in Labels /\ NumCycles = 0 /\ White(Entry)
      /\ part[0] = <<>>
  BY LabelsAssumption DEF Init, Open, Waiting, White, NumCycles, DFN_INF
<1>2. /\ Tasks = {1} /\ Len(visit_stack) = 1
      /\ Type(1) = "PushSuccessors" /\ Vertex(1) = Entry /\ Target(1) = 0 /\ Cycle(1) = 0
  <2>1. visit_stack = <<VisitTask("PushSuccessors", Entry, 0, 0)>>
    BY DEF Init
  <2>2. /\ DOMAIN visit_stack = {1} /\ Len(visit_stack) = 1
        /\ visit_stack[1] = VisitTask("PushSuccessors", Entry, 0, 0)
    BY <2>1
  <2> QED BY <2>2 DEF Tasks, VisitTask, Type, Vertex, Target, Cycle
<1>3. \A i \in Tasks : ~ Running(i) /\ i = 1
  BY <1>2 DEF Running
<1>4. NestInv
  BY <1>1, <1>2, <1>3 DEF NestInv
<1>5. BackInv
  BY <1>1 DEF BackInv
<1>6. \A c : ~ Closed(c)
  BY <1>1 DEF Closed
<1>7. PICK line : line = <<>>
  OBVIOUS
<1>8. PICK from : from = [c \in 0 .. 0 |-> 0]
  OBVIOUS
<1>9. line \in Seq(Labels) /\ Len(line) = 0 /\ DOMAIN line = {}
  BY <1>7
<1>10. 0 .. NumCycles = {0} /\ 0 .. 0 = {0} /\ 1 .. NumCycles = {}
  BY <1>1
<1>11. from \in [0 .. NumCycles -> Nat] /\ from[0] = 0
  BY <1>8, <1>10
<1>12. PlaceInv(line, from, from)
  <2>1. Current = 0
    BY <1>2 DEF Current
  <2> QED BY <1>2, <1>3, <1>9, <1>10, <1>11, <2>1, SMTT(60) DEF PlaceInv
<1>13. LaminarInv(from, from)
  BY <1>10 DEF LaminarInv
<1>14. SpellInv(line, from, from)
  <2>1. Len(part[0]) = 0 /\ 0 .. Len(part[0]) = 0 .. 0 /\ 1 .. Len(part[0]) = {}
    BY <1>1
  <2>2. Cuts(part[0], from, line, from, from)
    BY <1>10, <1>11, <2>1 DEF Cuts
  <2> QED BY <1>10, <1>11, <2>1, <2>2 DEF SpellInv
<1>15. ListInv(line) /\ EdgeInv(line, from, from) /\ ConnInv(line, from, from) /\ RunInv(line, from)
  BY <1>1, <1>3, <1>9, <1>10, SMTT(60) DEF ListInv, EdgeInv, ConnInv, RunInv
<1>16. LineInv(line, from, from)
  BY <1>12, <1>13, <1>14, <1>15, SMTT(60) DEF LineInv
<1> QED BY <1>4, <1>5, <1>16 DEF PlaceFound

LEMMA PlacesKept ==
    ASSUME BuilderState, PlaceFound, num' < DFN_INF, [Next]_vars
    PROVE  PlaceFound'
<1>1. PICK line, from, to : LineInv(line, from, to)
  BY DEF PlaceFound
<1>2. NestInv /\ BackInv /\ TypeOK
  BY DEF PlaceFound, BuilderState, BuilderInv
<1>3. PICK n, v : n = Len(visit_stack) /\ v = Vertex(Len(visit_stack))
  OBVIOUS
<1>4. CASE Moves(n, v)
  <2>1. NestInv' /\ BackInv'
    BY <1>2, <1>4, NestKept, BackKept
  <2>2. \E line2, from2, to2 : LineInv(line2, from2, to2)'
    <3>1. CASE Drops(n, v) \/ Numbers(n, v) \/ Leaves(n, v)
      <4>1. LineInv(line, from, to)'
        BY <1>1, <1>2, <3>1, QuietKept, SMTT(60)
      <4> QED BY <4>1
    <3>2. CASE IsAlone(n, v) \/ Closes(n, v)
      <4>1. \E line2, to2 : LineInv(line2, from, to2)'
        BY <1>1, <1>2, <3>2, ListingKept, SMTT(60) DEF Listing
      <4> QED BY <4>1
    <3>3. CASE Opens(n, v)
      <4>1. \E from2, to2 : LineInv(line, from2, to2)'
        BY <1>1, <1>2, <3>3, OpensKept, SMTT(60)
      <4> QED BY <4>1
    <3> QED BY <1>4, <3>1, <3>2, <3>3, SMTT(60) DEF Moves
  <2> QED BY <2>1, <2>2 DEF PlaceFound
<1>5. CASE Idles
  <2>1. /\ Tasks' = Tasks /\ NumCycles' = NumCycles /\ part' = part /\ children' = children /\ dfn' = dfn
        /\ visit_stack' = visit_stack
        /\ \A i : /\ Type(i)' = Type(i) /\ Vertex(i)' = Vertex(i) /\ Level(i)' = Level(i)
                  /\ Target(i)' = Target(i) /\ Cycle(i)' = Cycle(i)
                  /\ Running(i)' <=> Running(i)
    BY <1>5 DEF Idles, Tasks, NumCycles, Type, Vertex, Level, Target, Cycle, Running
  <2>2. /\ \A x : (White(x)' <=> White(x)) /\ (Open(x)' <=> Open(x))
        /\ \A x, y : Edge(x, y)' <=> Edge(x, y)
        /\ head_dfn' = head_dfn
    BY <1>5 DEF Idles, White, Open, Edge
  <2>3. \A x : Waiting(x)' <=> Waiting(x)
    BY <2>1, <2>2, SMTT(60) DEF Waiting, Pending
  <2>4. NestInv'
    BY <1>2, <2>1, <2>2 DEF NestInv
  <2>5. BackInv'
    <3>1. \A d, X : Back(d, X)' <=> Back(d, X)
      BY <2>1, <2>2, <2>3, SMTT(60) DEF Back, Joins
    <3> QED BY <1>2, <2>2, <2>3, <3>1, SMTT(60) DEF BackInv
  <2>6. Current' = Current
    BY <2>1 DEF Current
  <2>7. Quiet
    BY <2>1, <2>6, SMTT(60) DEF Quiet, SameGraph
  <2>8. RunInv(line, from)'
    <3>1. \A i, M : InCycleOf(i, M)' <=> InCycleOf(i, M)
      BY <2>1, <2>2, SMTT(60) DEF InCycleOf
    <3> SUFFICES ASSUME NEW i \in Tasks, Running(i)
                 PROVE  \E M \in SUBSET Labels :
                           /\ InCycleOf(i, M)
                           /\ \A p \in DOMAIN line : line[p] \in M <=> p > from[Cycle(i)']
                           /\ LedTo(Vertex(i), M)' /\ LeadBack(M, Vertex(i))'
                           /\ M # {} \/ Edge(Vertex(i), Vertex(i))'
      BY <2>1, <3>1, SMTT(60) DEF RunInv
    <3>2. PICK M \in SUBSET Labels :
              /\ InCycleOf(i, M)
              /\ \A p \in DOMAIN line : line[p] \in M <=> p > from[Cycle(i)]
              /\ LedTo(Vertex(i), M) /\ LeadBack(M, Vertex(i))
              /\ M # {} \/ Edge(Vertex(i), Vertex(i))
      BY <1>1 DEF LineInv, RunInv
    <3>3. i \in Tasks' /\ Running(i)' /\ InCycleOf(i, M)'
      BY <2>1, <3>1, <3>2, SMTT(60)
    <3>4. /\ \A p \in DOMAIN line : line[p] \in M <=> p > from[Cycle(i)']
          /\ LedTo(Vertex(i), M)' /\ LeadBack(M, Vertex(i))'
          /\ M # {} \/ Edge(Vertex(i), Vertex(i))'
      BY <2>7, <3>2, <3>3, MembersStay, ZenonT(90)
    <3> QED BY <3>2, <3>4, SMTT(60)
  <2>9. LineInv(line, from, to)'
    BY <1>1, <2>7, <2>8, QuietLine DEF LineInv
  <2> QED BY <2>4, <2>5, <2>9 DEF PlaceFound
<1> QED BY <1>3, <1>4, <1>5, Steps

-----------------------------------------------------------------------------
(***************************************************************************)
(* The walk of a partition is its part of the line, backwards.             *)
(***************************************************************************)
LEMMA FlattenSteps ==
    ASSUME NEW S, NEW seqs \in Seq(Seq(S)), NEW N \in Nat \ {0}, Len(seqs) = N,
           NEW F, F[1] = seqs[1], \A i \in 1 .. N - 1 : F[i + 1] = F[i] \o seqs[i + 1]
    PROVE  FlattenSeq(seqs) = F[N]
<1> DEFINE body(f) == [i \in 1 .. N |-> IF i = 1 THEN seqs[i] ELSE f[i - 1] \o seqs[i]]
           h == CHOOSE f : f = body(f)
<1>1. FlattenSeq(seqs) = h[N]
  BY DEF FlattenSeq
<1>2. \E f : f = body(f)
  <2> DEFINE f == [i \in 1 .. N |-> F[i]]
  <2>1. ASSUME NEW i \in 1 .. N
        PROVE  f[i] = IF i = 1 THEN seqs[i] ELSE f[i - 1] \o seqs[i]
    <3>1. CASE i = 1
      BY <3>1
    <3>2. CASE i # 1
      <4>1. i - 1 \in 1 .. N - 1 /\ i - 1 \in 1 .. N /\ (i - 1) + 1 = i
        BY <3>2
      <4>2. F[i] = F[i - 1] \o seqs[i]
        BY <4>1
      <4> QED BY <3>2, <4>1, <4>2
    <3> QED BY <3>1, <3>2
  <2>2. f = body(f)
    BY <2>1
  <2> QED BY <2>2
<1>3. h = body(h)
  BY <1>2, ZenonT(60)
<1> HIDE DEF h
<1>4. \A i \in 1 .. N : h[i] = IF i = 1 THEN seqs[i] ELSE h[i - 1] \o seqs[i]
  BY <1>3
<1> DEFINE T == {k \in 0 .. N - 1 : h[k + 1] = F[k + 1]}
<1>5. N - 1 \in Nat /\ 0 \in T
  BY <1>4
<1>6. ASSUME NEW k \in 0 .. (N - 1) - 1, k \in T PROVE k + 1 \in T
  <2>1. k + 1 \in 1 .. N - 1 /\ (k + 1) + 1 \in 1 .. N /\ (k + 1) + 1 # 1 /\ ((k + 1) + 1) - 1 = k + 1
        /\ k + 1 \in 0 .. N - 1
    OBVIOUS
  <2>2. h[(k + 1) + 1] = h[k + 1] \o seqs[(k + 1) + 1]
    BY <1>4, <2>1
  <2>3. F[(k + 1) + 1] = F[k + 1] \o seqs[(k + 1) + 1]
    BY <2>1
  <2>4. h[k + 1] = F[k + 1]
    BY <1>6
  <2> QED BY <2>1, <2>2, <2>3, <2>4
<1> HIDE DEF T
<1>7. \A k \in 0 .. N - 1 : k \in T
  BY <1>5, <1>6, RangeInduction
<1>8. N - 1 \in T /\ (N - 1) + 1 = N
  BY <1>5, <1>7
<1> QED BY <1>1, <1>8 DEF T

\* The labels after place a and up to place b, the last one first.
Backward(line, a, b) == [i \in 1 .. b - a |-> line[b + 1 - i]]

LEMMA BackwardType ==
    ASSUME NEW S, NEW line \in Seq(S), NEW a \in Nat, NEW b \in Nat, a <= b, b <= Len(line)
    PROVE  /\ Backward(line, a, b) \in Seq(S) /\ Len(Backward(line, a, b)) = b - a
           /\ DOMAIN Backward(line, a, b) = 1 .. b - a
<1>1. \A i \in 1 .. b - a : b + 1 - i \in 1 .. Len(line) /\ line[b + 1 - i] \in S
  OBVIOUS
<1>2. Backward(line, a, b) \in [1 .. b - a -> S] /\ b - a \in Nat
  BY <1>1 DEF Backward
<1> QED BY <1>2

LEMMA BackwardJoin ==
    ASSUME NEW S, NEW line \in Seq(S), NEW a \in Nat, NEW b \in Nat, NEW d \in Nat,
           a <= b, b <= d, d <= Len(line)
    PROVE  Backward(line, b, d) \o Backward(line, a, b) = Backward(line, a, d)
<1> DEFINE P == Backward(line, b, d)
           Q == Backward(line, a, b)
           R == Backward(line, a, d)
<1>0. a <= d /\ b <= Len(line)
  BY LenProperties
<1>1. P \in Seq(S) /\ Len(P) = d - b /\ Q \in Seq(S) /\ Len(Q) = b - a /\ R \in Seq(S) /\ Len(R) = d - a
  <2>1. P \in Seq(S) /\ Len(P) = d - b
    BY BackwardType, ZenonT(60)
  <2>2. Q \in Seq(S) /\ Len(Q) = b - a
    BY <1>0, BackwardType, ZenonT(60)
  <2>3. R \in Seq(S) /\ Len(R) = d - a
    BY <1>0, BackwardType, ZenonT(60)
  <2> QED BY <2>1, <2>2, <2>3
<1>2. /\ \A i \in 1 .. d - b : P[i] = line[d + 1 - i]
      /\ \A i \in 1 .. b - a : Q[i] = line[b + 1 - i]
      /\ \A i \in 1 .. d - a : R[i] = line[d + 1 - i]
  BY DEF Backward
<1> HIDE DEF P, Q, R
<1>3. P \o Q \in Seq(S) /\ Len(P \o Q) = d - a
  <2>1. P \o Q \in Seq(S) /\ Len(P \o Q) = Len(P) + Len(Q)
    BY <1>1, ConcatProperties, SMTT(60)
  <2> QED BY <1>1, <2>1
<1>4. ASSUME NEW i \in 1 .. d - a
      PROVE  (P \o Q)[i] = R[i]
  <2>1. CASE i <= d - b
    <3>1. i \in 1 .. d - b
      BY <2>1
    <3>2. (P \o Q)[i] = P[i]
      BY ONLY <1>1, <3>1, d - b \in Nat, ConcatProperties
    <3> QED BY <1>2, <3>1, <3>2
  <2>2. CASE ~ (i <= d - b)
    <3>1. i - (d - b) \in 1 .. b - a /\ b + 1 - (i - (d - b)) = d + 1 - i
      BY <2>2
    <3>2. (P \o Q)[i] = Q[i - (d - b)]
      BY <1>1, <2>2, SMTT(60)
    <3> QED BY <1>2, <3>1, <3>2, SMTT(60)
  <2> QED BY <2>1, <2>2
<1>5. P \o Q = R
  BY <1>1, <1>3, <1>4, SMTT(60)
<1> QED BY <1>5 DEF P, Q, R

\* One round of Walk, with f for the nested cycles.
Piece(f, x) == IF x.kind = "label" THEN <<x.label>> ELSE f[x.idx]
WalkRound(f, c) == FlattenSeq([k \in 1 .. Len(part[c]) |-> Piece(f, Reverse(part[c])[k])])

LEMMA WalkUnfolds ==
    Walk = CHOOSE f : f = [c \in 0 .. NumCycles |-> WalkRound(f, c)]
BY DEF Walk, WalkRound, Piece

\* The builder has no task left: every cycle is closed.
LEMMA AllClosed ==
    ASSUME visit_stack = <<>>
    PROVE  Tasks = {} /\ Current = 0 /\ \A c \in 1 .. NumCycles : Closed(c)
<1>1. Tasks = {}
  BY DEF Tasks
<1> QED BY <1>1 DEF Current, Closed

LEMMA WalkRoundIs ==
    ASSUME NEW s \in Seq(Component), NEW cut, NEW line \in Seq(Labels), NEW from, NEW to, Cuts(s, cut, line, from, to),
           cut[Len(s)] <= Len(line), NEW f, \A d \in 1 .. NumCycles : from[d] < to[d],
           \A k \in 1 .. Len(s) : s[k].kind = "cycle" =>
               f[s[k].idx] = Backward(line, from[s[k].idx], to[s[k].idx])
    PROVE  /\ cut[0] <= cut[Len(s)]
           /\ FlattenSeq([k \in 1 .. Len(s) |-> Piece(f, Reverse(s)[k])]) = Backward(line, cut[0], cut[Len(s)])
<1> DEFINE seqs == [k \in 1 .. Len(s) |-> Piece(f, Reverse(s)[k])]
<1>1. PICK N \in Nat : N = Len(s)
  OBVIOUS
<1>2. /\ \A k \in 0 .. N : cut[k] \in Nat
      /\ \A k \in 1 .. N : s[k] \in Component /\ PieceOK(s[k], cut[k - 1], cut[k], line, from, to)
  BY <1>1, SMTT(60) DEF Cuts
<1>3. Len(line) \in Nat
  OBVIOUS
<1>4. ASSUME NEW k \in 1 .. N, cut[k] <= Len(line)
      PROVE  cut[k - 1] <= cut[k] /\ Piece(f, s[k]) = Backward(line, cut[k - 1], cut[k])
  <2>1. k - 1 \in 0 .. N /\ k \in 0 .. N
    BY <1>1
  <2>2. cut[k - 1] \in Nat /\ cut[k] \in Nat
    BY <1>2, <2>1, SMTT(60)
  <2>3. s[k] \in Component /\ PieceOK(s[k], cut[k - 1], cut[k], line, from, to)
    BY <1>2
  <2>4. PICK x, a, b : x = s[k] /\ a = cut[k - 1] /\ b = cut[k]
    OBVIOUS
  <2>5. /\ a \in Nat /\ b \in Nat /\ x \in Component /\ PieceOK(x, a, b, line, from, to)
        /\ x.kind = "cycle" => f[x.idx] = Backward(line, from[x.idx], to[x.idx])
    BY <1>1, <2>2, <2>3, <2>4, SMTT(60)
  <2>6. x.kind = "label" \/ x.kind = "cycle"
    BY <2>5 DEF Component
  <2>7. CASE x.kind = "label"
    <3>1. b = a + 1 /\ line[b] = x.label
      BY <2>5, <2>7 DEF PieceOK
    <3>2. Backward(line, a, b) = [i \in 1 .. 1 |-> line[b + 1 - i]]
      BY <2>5, <3>1 DEF Backward
    <3>3. [i \in 1 .. 1 |-> line[b + 1 - i]] = <<line[b]>>
      BY <2>5
    <3> QED BY <2>4, <2>5, <2>7, <3>1, <3>2, <3>3, SMTT(60) DEF Piece
  <2>8. CASE x.kind = "cycle"
    <3>1. Closed(x.idx) /\ a = from[x.idx] /\ b = to[x.idx]
      BY <2>5, <2>8 DEF PieceOK
    <3>2. x.idx \in 1 .. NumCycles
      BY <3>1 DEF Closed
    <3>3. a < b
      BY <3>1, <3>2, SMTT(60)
    <3>4. x.kind # "label"
      BY <2>8
    <3> QED BY <2>4, <2>5, <2>8, <3>1, <3>3, <3>4, SMTT(60) DEF Piece
  <2> QED BY <2>6, <2>7, <2>8
\* From the end of the list.
<1> DEFINE T == {j \in 0 .. N : cut[N - j] <= cut[N]}
<1>5. \A j \in 0 .. N : j \in T
  <2>1. 0 \in T
    BY <1>2
  <2>2. ASSUME NEW j \in 0 .. N - 1, j \in T PROVE j + 1 \in T
    <3>1. N - j \in 1 .. N /\ N - j \in 0 .. N /\ (N - j) - 1 = N - (j + 1) /\ N - (j + 1) \in 0 .. N /\ N \in 0 .. N
          /\ j + 1 \in 0 .. N
      OBVIOUS
    <3>2. cut[N - j] <= cut[N] /\ cut[N] <= Len(line) /\ cut[N - j] \in Nat /\ cut[N] \in Nat
          /\ cut[N - (j + 1)] \in Nat
      BY <1>1, <1>2, <2>2, <3>1, SMTT(60)
    <3>3. cut[N - j] <= Len(line)
      BY <1>3, <3>2, SMTT(60)
    <3>4. cut[N - (j + 1)] <= cut[N - j]
      BY <1>4, <3>1, <3>3
    <3>5. cut[N - (j + 1)] <= cut[N]
      BY <3>2, <3>4, SMTT(60)
    <3> QED BY <3>1, <3>5
  <2> HIDE DEF T
  <2> QED BY <2>1, <2>2, RangeInduction
<1>6. \A k \in 0 .. N : cut[k] \in Nat /\ cut[k] <= cut[N] /\ cut[k] <= Len(line)
  <2> SUFFICES ASSUME NEW k \in 0 .. N PROVE cut[k] \in Nat /\ cut[k] <= cut[N] /\ cut[k] <= Len(line)
    OBVIOUS
  <2>1. N - k \in 0 .. N /\ N - (N - k) = k
    OBVIOUS
  <2>2. cut[k] <= cut[N]
    BY <1>5, <2>1
  <2>3. cut[k] \in Nat /\ cut[N] \in Nat
    BY <1>2
  <2> QED BY <1>1, <1>3, <2>2, <2>3
<1> HIDE DEF T
<1>7. \A k \in 1 .. N : seqs[k] = Backward(line, cut[N - k], cut[N - k + 1])
  <2> SUFFICES ASSUME NEW k \in 1 .. N PROVE seqs[k] = Backward(line, cut[N - k], cut[N - k + 1])
    OBVIOUS
  <2>1. N - k + 1 \in 1 .. N /\ (N - k + 1) - 1 = N - k /\ N - k + 1 \in 0 .. N
    OBVIOUS
  <2>2. Reverse(s)[k] = s[N - k + 1]
    BY <1>1 DEF Reverse
  <2>3. Piece(f, s[N - k + 1]) = Backward(line, cut[N - k], cut[N - k + 1])
    BY <1>4, <1>6, <2>1
  <2> QED BY <1>1, <2>2, <2>3
<1>8. \A k \in 1 .. N : N - k \in 0 .. N /\ N - k + 1 \in 0 .. N /\ N - k + 1 \in 1 .. N /\ (N - k + 1) - 1 = N - k
  OBVIOUS
<1>9. \A k \in 1 .. N : seqs[k] \in Seq(Labels)
  <2> SUFFICES ASSUME NEW k \in 1 .. N PROVE Backward(line, cut[N - k], cut[N - k + 1]) \in Seq(Labels)
    BY <1>7
  <2>1. cut[N - k] <= cut[N - k + 1]
    BY <1>4, <1>6, <1>8
  <2> QED BY <1>6, <1>8, <2>1, BackwardType
<1>10. seqs \in Seq(Seq(Labels)) /\ Len(seqs) = N
  <2>1. seqs \in [1 .. N -> Seq(Labels)]
    BY <1>1, <1>9
  <2> HIDE DEF seqs
  <2> QED BY <1>1, <2>1, SMTT(60)
<1>11. CASE N = 0
  <2>1. FlattenSeq(seqs) = seqs
    BY <1>10, <1>11 DEF FlattenSeq
  <2>2. seqs = Backward(line, cut[0], cut[N])
    <3>1. cut[0] - cut[0] = 0
      BY <1>6, <1>11
    <3>2. Backward(line, cut[0], cut[0]) = [i \in 1 .. 0 |-> line[cut[0] + 1 - i]]
      BY <3>1 DEF Backward
    <3>3. 1 .. 0 = {} /\ 1 .. Len(s) = {}
      BY <1>1, <1>11
    <3>4. seqs = [k \in {} |-> 0] /\ [i \in 1 .. 0 |-> line[cut[0] + 1 - i]] = [k \in {} |-> 0]
      BY <3>3
    <3> QED BY <1>11, <3>2, <3>4
  <2> QED BY <1>1, <1>6, <1>11, <2>1, <2>2
<1>12. CASE N # 0
  <2> DEFINE F == [k \in 1 .. N |-> Backward(line, cut[N - k], cut[N])]
  <2>1. F[1] = seqs[1]
    <3>1. 1 \in 1 .. N /\ N - 1 + 1 = N
      BY <1>12
    <3>2. seqs[1] = Backward(line, cut[N - 1], cut[N])
      BY <1>7, <3>1
    <3> QED BY <3>1, <3>2
  <2>2. ASSUME NEW i \in 1 .. N - 1
        PROVE  F[i + 1] = F[i] \o seqs[i + 1]
    <3>1. i \in 1 .. N /\ i + 1 \in 1 .. N /\ N - (i + 1) + 1 = N - i /\ N - i \in 0 .. N /\ N - (i + 1) \in 0 .. N
          /\ N - i \in 1 .. N /\ (N - i) - 1 = N - (i + 1) /\ N \in 0 .. N
      OBVIOUS
    <3>2. cut[N - (i + 1)] <= cut[N - i]
      BY <1>4, <1>6, <3>1, SMTT(60)
    <3>3. Backward(line, cut[N - i], cut[N]) \o Backward(line, cut[N - (i + 1)], cut[N - i])
              = Backward(line, cut[N - (i + 1)], cut[N])
      BY <1>6, <3>1, <3>2, BackwardJoin, ZenonT(60)
    <3>4. seqs[i + 1] = Backward(line, cut[N - (i + 1)], cut[N - i])
      BY <1>7, <3>1
    <3> QED BY <3>1, <3>3, <3>4
  <2>3. F[N] = Backward(line, cut[0], cut[N])
    BY <1>12
  <2>4. N \in Nat \ {0}
    BY <1>12
  <2> HIDE DEF F, seqs
  <2>5. FlattenSeq(seqs) = F[N]
    BY <1>10, <2>1, <2>2, <2>4, FlattenSteps, ZenonT(60)
  <2>6. cut[0] <= cut[N]
    BY <1>6
  <2> QED BY <1>1, <2>3, <2>5, <2>6, SMTT(60) DEF seqs
<1> QED BY <1>11, <1>12

(***************************************************************************)
(* The cycles are numbered from the outside to the inside, so that there   *)
(* is one walk of them all.                                                *)
(***************************************************************************)
LEMMA WalkIs ==
    ASSUME TypeOK, ChildCycleAfterParent, visit_stack = <<>>, NEW line, NEW from, NEW to, LineInv(line, from, to)
    PROVE  \A c \in 0 .. NumCycles : Walk[c] = Backward(line, from[c], to[c])
<1>1. line \in Seq(Labels) /\ NumCycles \in Nat /\ part \in [0 .. NumCycles -> Seq(Component)]
  BY PartType, SMTT(60) DEF LineInv, PlaceInv, TypeOK
<1>2. \A d \in 1 .. NumCycles : from[d] < to[d]
  BY AllClosed DEF LineInv, LaminarInv
<1>3. \A c \in 0 .. NumCycles : from[c] \in Nat /\ to[c] \in Nat /\ from[c] <= to[c] /\ to[c] <= Len(line)
  BY DEF LineInv, PlaceInv
<1>4. ASSUME NEW c \in 0 .. NumCycles, NEW f,
             \A d \in 0 .. NumCycles : d > c => f[d] = Backward(line, from[d], to[d])
      PROVE  WalkRound(f, c) = Backward(line, from[c], to[c])
  <2>1. PICK cut : /\ Cuts(part[c], cut, line, from, to)
                   /\ cut[0] = from[c] /\ cut[Len(part[c])] = to[c]
    BY DEF LineInv, SpellInv
  <2>2. PICK s : s = part[c]
    OBVIOUS
  <2>3. s \in Seq(Component) /\ Cuts(s, cut, line, from, to) /\ cut[0] = from[c] /\ cut[Len(s)] = to[c]
        /\ cut[Len(s)] <= Len(line)
    BY <1>1, <1>3, <2>1, <2>2
  <2>4. ASSUME NEW k \in 1 .. Len(s), s[k].kind = "cycle"
        PROVE  f[s[k].idx] = Backward(line, from[s[k].idx], to[s[k].idx])
    <3>1. k \in DOMAIN part[c] /\ part[c][k] = s[k] /\ s[k] \in Component
      BY <2>2, <2>3
    <3>2. s[k].idx > c /\ s[k].idx <= NumCycles
      BY <2>4, <3>1 DEF ChildCycleAfterParent
    <3>3. s[k].idx \in Nat
      BY <2>4, <3>1 DEF Component
    <3>4. s[k].idx \in 0 .. NumCycles
      BY <1>1, <3>2, <3>3
    <3> QED BY <1>4, <3>2, <3>4
  <2>5. FlattenSeq([k \in 1 .. Len(s) |-> Piece(f, Reverse(s)[k])]) = Backward(line, cut[0], cut[Len(s)])
    BY <1>1, <1>2, <2>3, <2>4, WalkRoundIs, ZenonT(60)
  <2> QED BY <2>2, <2>3, <2>5, SMTT(60) DEF WalkRound
<1>5. PICK f : f = [c \in 0 .. NumCycles |-> Backward(line, from[c], to[c])]
  OBVIOUS
<1>6. f = [c \in 0 .. NumCycles |-> WalkRound(f, c)]
  <2>1. \A c \in 0 .. NumCycles : WalkRound(f, c) = Backward(line, from[c], to[c])
    BY <1>4, <1>5
  <2> QED BY <1>5, <2>1
<1>7. Walk = [c \in 0 .. NumCycles |-> WalkRound(Walk, c)]
  <2>1. \E g : g = [c \in 0 .. NumCycles |-> WalkRound(g, c)]
    BY <1>6
  <2> QED BY <2>1, WalkUnfolds
<1>8. PICK w : w = Walk
  OBVIOUS
<1>9. \A c \in 0 .. NumCycles : w[c] = WalkRound(w, c)
  BY <1>7, <1>8
<1> DEFINE T == {i \in 0 .. NumCycles : \A d \in 0 .. NumCycles : d >= NumCycles - i =>
                     w[d] = Backward(line, from[d], to[d])}
<1>10. \A i \in 0 .. NumCycles : i \in T
  <2>1. PICK N \in Nat : N = NumCycles
    BY <1>1
  <2>2. 0 \in T
    <3>1. N \in 0 .. NumCycles /\ 0 \in 0 .. NumCycles
          /\ \A d \in 0 .. NumCycles : (d > N => FALSE) /\ (d >= NumCycles - 0 => d = N)
      BY <2>1
    <3>2. \A d \in 0 .. NumCycles : d > N => w[d] = Backward(line, from[d], to[d])
      BY <3>1
    <3>3. WalkRound(w, N) = Backward(line, from[N], to[N])
      BY <1>4, <3>1, <3>2
    <3>4. w[N] = Backward(line, from[N], to[N])
      BY <1>9, <3>1, <3>3
    <3> QED BY <3>1, <3>4
  <2>3. ASSUME NEW i \in 0 .. N - 1, i \in T PROVE i + 1 \in T
    <3>1. /\ N - (i + 1) \in 0 .. NumCycles /\ i + 1 \in 0 .. NumCycles
          /\ \A d \in 0 .. NumCycles : /\ d > N - (i + 1) => d >= NumCycles - i
                                       /\ d >= NumCycles - (i + 1) => d = N - (i + 1) \/ d >= NumCycles - i
      BY <2>1
    <3>2. \A d \in 0 .. NumCycles : d >= NumCycles - i => w[d] = Backward(line, from[d], to[d])
      BY <2>3, SMTT(60)
    <3>3. w[N - (i + 1)] = Backward(line, from[N - (i + 1)], to[N - (i + 1)])
      BY <1>4, <1>9, <3>1, <3>2
    <3> QED BY <3>1, <3>2, <3>3, SMTT(60)
  <2> HIDE DEF T
  <2> QED BY <2>1, <2>2, <2>3, RangeInduction, SMTT(60)
<1>11. NumCycles \in T /\ \A d \in 0 .. NumCycles : d >= NumCycles - NumCycles
  <2> HIDE DEF T
  <2> QED BY <1>1, <1>10
<1> QED BY <1>8, <1>11

(***************************************************************************)
(* finalize's record, read off the line: position p of the order is place  *)
(* N + 1 - p of the line, and cycle c spans the places after from[c] up to *)
(* to[c].                                                                  *)
(***************************************************************************)
Mirrors(w, line, from, to) ==
    /\ w.order \in Seq(Labels) /\ Len(w.order) = Len(line)
    /\ \A p \in 1 .. Len(line) : w.order[p] = line[Len(line) + 1 - p]
    /\ w.heads = {Len(line) + 1 - to[c] : c \in 1 .. NumCycles}
    /\ \A c \in 1 .. NumCycles : w.last[Len(line) + 1 - to[c]] = Len(line) - from[c]
    /\ \A p \in 1 .. Len(line) : p \notin w.heads => w.last[p] = p

LEMMA WtoMirrors ==
    ASSUME TypeOK, ChildCycleAfterParent, visit_stack = <<>>, NEW line, NEW from, NEW to, LineInv(line, from, to),
           NEW order, order = Walk[0], NEW w, w = WtoOf(order, HeadPositions(order))
    PROVE  Mirrors(w, line, from, to)
<1>1. line \in Seq(Labels) /\ NumCycles \in Nat /\ part \in [0 .. NumCycles -> Seq(Component)]
  BY PartType DEF LineInv, PlaceInv, TypeOK
<1>2. PICK N \in Nat : N = Len(line)
  BY <1>1
<1>3. \A c \in 1 .. NumCycles : Closed(c) /\ from[c] < to[c] /\ Top(part[c]) = LabelComp(line[to[c]])
  BY AllClosed DEF LineInv, LaminarInv, SpellInv
<1>4. \A c \in 0 .. NumCycles : from[c] \in Nat /\ to[c] \in Nat /\ from[c] <= to[c] /\ to[c] <= N
  BY <1>2 DEF LineInv, PlaceInv
<1>5. from[0] = 0 /\ to[0] = N
  BY <1>2, AllClosed DEF LineInv, PlaceInv
<1>6. \A c \in 0 .. NumCycles : Walk[c] = Backward(line, from[c], to[c]) /\ Len(Walk[c]) = to[c] - from[c]
  <2> SUFFICES ASSUME NEW c \in 0 .. NumCycles
               PROVE  Walk[c] = Backward(line, from[c], to[c]) /\ Len(Walk[c]) = to[c] - from[c]
    OBVIOUS
  <2>1. Walk[c] = Backward(line, from[c], to[c])
    BY WalkIs
  <2>2. Len(Backward(line, from[c], to[c])) = to[c] - from[c]
    BY <1>1, <1>2, <1>4, BackwardType, ZenonT(60)
  <2> QED BY <2>1, <2>2
<1>7. order = Backward(line, 0, N)
  BY <1>1, <1>5, <1>6
<1>8. order \in Seq(Labels) /\ Len(order) = N /\ DOMAIN order = 1 .. N
  <2>1. PICK a, b : a = 0 /\ b = N
    OBVIOUS
  <2>2. a \in Nat /\ b \in Nat /\ a <= b /\ b <= Len(line) /\ b - a = N /\ order = Backward(line, a, b)
    BY <1>2, <1>7, <2>1
  <2>3. line \in Seq(Labels)
    BY <1>1
  <2>4. Backward(line, a, b) \in Seq(Labels)
    BY <2>2, <2>3, BackwardType
  <2>5. Len(Backward(line, a, b)) = b - a
    BY <2>2, <2>3, BackwardType, ZenonT(60)
  <2>6. DOMAIN Backward(line, a, b) = 1 .. b - a
    BY DEF Backward
  <2> QED BY <2>2, <2>4, <2>5, <2>6
<1>9. \A p \in 1 .. N : order[p] = line[N + 1 - p]
  BY <1>7 DEF Backward
<1>10. \A p, q \in 1 .. N : line[p] = line[q] => p = q
  <2>1. DOMAIN line = 1 .. N
    BY <1>1, <1>2
  <2>2. \A p, q \in DOMAIN line : line[p] = line[q] => p = q
    BY DEF LineInv, ListInv
  <2> QED BY <2>1, <2>2
<1>11. \A c \in 1 .. NumCycles : /\ to[c] \in 1 .. N /\ N + 1 - to[c] \in 1 .. N /\ c \in 0 .. NumCycles
                                 /\ N + 1 - (N + 1 - to[c]) = to[c] /\ from[c] \in Nat
  BY <1>3, <1>4, SMTT(60)
<1> DEFINE head == HeadPositions(order)
<1>12. ASSUME NEW c \in 1 .. NumCycles
       PROVE  head[c] = N + 1 - to[c]
  <2>1. CycleHead(c) = line[to[c]]
    <3>1. Top(part[c]) = [kind |-> "label", label |-> line[to[c]]]
      BY <1>3 DEF LabelComp
    <3> QED BY <3>1 DEF CycleHead
  <2>2. order[N + 1 - to[c]] = line[to[c]] /\ N + 1 - to[c] \in 1 .. N
    BY <1>9, <1>11, SMTT(60)
  <2>3. \A p \in 1 .. N : order[p] = line[to[c]] => p = N + 1 - to[c]
    <3> SUFFICES ASSUME NEW p \in 1 .. N, order[p] = line[to[c]] PROVE p = N + 1 - to[c]
      OBVIOUS
    <3>1. N + 1 - p \in 1 .. N /\ line[N + 1 - p] = line[to[c]]
      BY <1>9
    <3>2. N + 1 - p = to[c]
      BY <1>10, <1>11, <3>1
    <3> QED BY <1>11, <3>2, SMTT(60)
  <2>4. PositionOf(order, line[to[c]]) = N + 1 - to[c]
    BY <1>8, <2>2, <2>3 DEF PositionOf
  <2> QED BY <2>1, <2>4 DEF HeadPositions
<1>13. \A c, d \in 1 .. NumCycles : head[c] = head[d] => c = d
  <2> SUFFICES ASSUME NEW c \in 1 .. NumCycles, NEW d \in 1 .. NumCycles, head[c] = head[d] PROVE c = d
    OBVIOUS
  <2>1. to[c] = to[d]
    BY <1>11, <1>12, ZenonT(60)
  <2> QED BY <1>3, <2>1 DEF LineInv, LaminarInv
<1> HIDE DEF head
<1>14. w.order = order /\ w.heads = {head[c] : c \in 1 .. NumCycles}
       /\ w.last = [p \in 1 .. N |->
             IF \E c \in 1 .. NumCycles : head[c] = p
             THEN p + Len(Walk[CHOOSE c \in 1 .. NumCycles : head[c] = p]) - 1 ELSE p]
  BY <1>8 DEF WtoOf, head
<1>15. ASSUME NEW c \in 1 .. NumCycles
       PROVE  w.last[N + 1 - to[c]] = N - from[c]
  <2>1. \E d \in 1 .. NumCycles : head[d] = N + 1 - to[c]
    BY <1>12
  <2>2. PICK d : d = CHOOSE e \in 1 .. NumCycles : head[e] = N + 1 - to[c]
    OBVIOUS
  <2>3. d \in 1 .. NumCycles /\ head[d] = N + 1 - to[c]
    BY <2>1, <2>2
  <2>4. d = c
    BY <1>12, <1>13, <2>3
  <2>5. w.last[N + 1 - to[c]] = (N + 1 - to[c]) + Len(Walk[d]) - 1
    BY <1>11, <1>14, <2>1, <2>2, ZenonT(60)
  <2>6. Len(Walk[d]) = to[c] - from[c]
    BY <1>6, <1>11, <2>4
  <2>7. PICK t, g : t = to[c] /\ g = from[c]
    OBVIOUS
  <2>8. t \in Nat /\ g \in Nat
    <3>1. to[c] \in 1 .. N /\ from[c] \in Nat
      BY <1>11
    <3> QED BY <2>7, <3>1
  <2>9. (N + 1 - t) + (t - g) - 1 = N - g
    BY <2>8
  <2> QED BY <2>5, <2>6, <2>7, <2>9
<1>16. w.heads = {N + 1 - to[c] : c \in 1 .. NumCycles}
  BY <1>12, <1>14
<1>17. \A p \in 1 .. N : p \notin w.heads => w.last[p] = p
  BY <1>14
<1>18. w.order \in Seq(Labels) /\ Len(w.order) = N /\ \A p \in 1 .. N : w.order[p] = line[N + 1 - p]
  BY <1>8, <1>9, <1>14
<1> QED BY <1>2, <1>15, <1>16, <1>17, <1>18, SMTT(60) DEF Mirrors

(***************************************************************************)
(* The order is weak topological, edge by edge and cycle by cycle.         *)
(***************************************************************************)
LEMMA IsWtoHolds ==
    ASSUME TypeOK, visit_stack = <<>>, NEW line, NEW from, NEW to, LineInv(line, from, to),
           NEW w, Mirrors(w, line, from, to)
    PROVE  IsWto(w, Entry, Edges, Labels)
<1>1. line \in Seq(Labels) /\ Tasks = {} /\ \A c \in 1 .. NumCycles : Closed(c)
  BY AllClosed DEF LineInv, PlaceInv
<1>2. PICK N \in Nat : N = Len(line) /\ DOMAIN line = 1 .. N
  BY <1>1
<1>3. \A p \in 1 .. N : line[p] \in Labels /\ N + 1 - p \in 1 .. N /\ N + 1 - (N + 1 - p) = p
  BY <1>1, <1>2
<1>4. \A c \in 1 .. NumCycles : from[c] \in Nat /\ to[c] \in 1 .. N /\ from[c] < to[c]
  <2> SUFFICES ASSUME NEW c \in 1 .. NumCycles PROVE from[c] \in Nat /\ to[c] \in 1 .. N /\ from[c] < to[c]
    OBVIOUS
  <2>1. c \in 0 .. NumCycles
    BY PartType
  <2>2. from[c] \in Nat /\ to[c] \in Nat /\ to[c] <= N
    BY <1>2, <2>1 DEF LineInv, PlaceInv
  <2>3. from[c] < to[c]
    BY <1>1 DEF LineInv, LaminarInv
  <2> QED BY <2>2, <2>3
<1>5. /\ w.order \in Seq(Labels) /\ Len(w.order) = N
      /\ \A p \in 1 .. N : w.order[p] = line[N + 1 - p]
      /\ w.heads = {N + 1 - to[c] : c \in 1 .. NumCycles}
      /\ \A c \in 1 .. NumCycles : w.last[N + 1 - to[c]] = N - from[c]
      /\ \A p \in 1 .. N : p \notin w.heads => w.last[p] = p
  BY <1>2, SMTT(60) DEF Mirrors
<1>6. Positions(w) = 1 .. N
  BY <1>5 DEF Positions
<1>7. \A h \in w.heads : \E c \in 1 .. NumCycles :
          h = N + 1 - to[c] /\ h \in 1 .. N /\ w.last[h] = N - from[c] /\ w.last[h] \in 1 .. N /\ h <= w.last[h]
  <2> SUFFICES ASSUME NEW c \in 1 .. NumCycles
               PROVE  LET h == N + 1 - to[c] IN h \in 1 .. N /\ w.last[h] = N - from[c] /\ w.last[h] \in 1 .. N
                                                /\ h <= w.last[h]
    BY <1>5
  <2>1. N + 1 - to[c] \in 1 .. N /\ N - from[c] \in 1 .. N /\ N + 1 - to[c] <= N - from[c]
    BY <1>4, SMTT(60)
  <2> QED BY <1>5, <2>1
<1>8. WellNested(w)
  <2>1. w.heads \subseteq 1 .. N
    BY <1>7
  <2>2. \A p \in 1 .. N : w.last[p] \in 1 .. N /\ p <= w.last[p]
    <3> SUFFICES ASSUME NEW p \in 1 .. N PROVE w.last[p] \in 1 .. N /\ p <= w.last[p]
      OBVIOUS
    <3>1. CASE p \in w.heads
      BY <1>7, <3>1
    <3>2. CASE p \notin w.heads
      BY <1>5, <3>2
    <3> QED BY <3>1, <3>2
  <2>3. \A p \in 1 .. N \ w.heads : w.last[p] = p
    BY <1>5
  <2>4. ASSUME NEW p \in w.heads, NEW q \in 1 .. N, InCycle(w, p, q)
        PROVE  w.last[q] <= w.last[p]
    <3>1. PICK c \in 1 .. NumCycles : p = N + 1 - to[c] /\ w.last[p] = N - from[c]
      BY <1>7
    <3>2. CASE q \in w.heads
      <4>1. PICK d \in 1 .. NumCycles : q = N + 1 - to[d] /\ w.last[q] = N - from[d]
        BY <1>7, <3>2
      <4>2. q <= w.last[q] /\ p <= q /\ q <= w.last[p]
        BY <2>2, <2>4 DEF InCycle
      <4>3. to[d] <= to[c] /\ from[c] < to[d]
        BY <1>4, <3>1, <4>1, <4>2, SMTT(60)
      <4>4. from[c] <= from[d]
        BY <1>1, <4>3 DEF LineInv, LaminarInv
      <4> QED BY <1>4, <3>1, <4>1, <4>4
    <3>3. CASE q \notin w.heads
      BY <1>5, <2>4, <3>3 DEF InCycle
    <3> QED BY <3>2, <3>3
  <2> QED BY <1>6, <2>1, <2>2, <2>3, <2>4 DEF WellNested
<1>9. \A p, q \in 1 .. N : line[p] = line[q] => p = q
  BY <1>2 DEF LineInv, ListInv
<1>10. OncePerLabel(w)
  <2> SUFFICES ASSUME NEW p \in 1 .. N, NEW q \in 1 .. N, w.order[p] = w.order[q] PROVE p = q
    BY <1>6 DEF OncePerLabel
  <2>1. line[N + 1 - p] = line[N + 1 - q]
    BY <1>5
  <2>2. N + 1 - p = N + 1 - q
    BY <1>3, <1>9, <2>1, ZenonT(60)
  <2> QED BY <2>2
\* The edges, seen from the line.
<1>11. ASSUME NEW p \in 1 .. N, NEW s \in Labels, Edge(line[p], s)
       PROVE  \/ \E q \in 1 .. N : q < p /\ line[q] = s
              \/ \E c \in 1 .. NumCycles : from[c] < p /\ p <= to[c] /\ line[to[c]] = s
  BY <1>1, <1>2, <1>11 DEF LineInv, EdgeInv
<1>12. \A x, y : <<x, y>> \in Edges => x \in Labels /\ y \in Labels /\ Edge(x, y)
  BY DEF Edges
<1>13. \A x, y \in Labels : Edge(x, y) => <<x, y>> \in Edges
  BY DEF Edges
<1>14. CoversReachable(w, Entry, Edges)
  <2>1. N > 0 /\ line[N] = Entry
    BY <1>1, <1>2 DEF LineInv, PlaceInv
  <2>2. w.order[1] = Entry
    <3>1. 1 \in 1 .. N /\ N + 1 - 1 = N
      BY <2>1
    <3> QED BY <1>5, <2>1, <3>1
  <2>3. ASSUME NEW p \in 1 .. N, NEW e \in Edges, e[1] = w.order[p]
        PROVE  \E q \in 1 .. N : w.order[q] = e[2]
    <3>1. e = <<e[1], e[2]>> /\ e[2] \in Labels /\ Edge(e[1], e[2])
      BY DEF Edges
    <3>2. N + 1 - p \in 1 .. N /\ Edge(line[N + 1 - p], e[2])
      BY <1>3, <1>5, <2>3, <3>1
    <3>3. \E q \in 1 .. N : line[q] = e[2]
      BY <1>4, <1>11, <3>1, <3>2, SMTT(60)
    <3>4. PICK q \in 1 .. N : line[q] = e[2]
      BY <3>3
    <3>5. N + 1 - q \in 1 .. N /\ w.order[N + 1 - q] = e[2]
      BY <1>3, <1>5, <3>4
    <3> QED BY <3>5
  <2> QED BY <1>5, <1>6, <2>1, <2>2, <2>3, ZenonT(60) DEF CoversReachable
<1>15. BackEdgesReturnToHeads(w, Edges)
  <2> SUFFICES ASSUME NEW p \in 1 .. N, NEW q \in 1 .. N, <<w.order[p], w.order[q]>> \in Edges
               PROVE  p < q \/ (q \in w.heads /\ InCycle(w, q, p))
    BY <1>6 DEF BackEdgesReturnToHeads
  <2>1. PICK a, b : a = N + 1 - p /\ b = N + 1 - q
    OBVIOUS
  <2>2. a \in 1 .. N /\ b \in 1 .. N /\ line[b] \in Labels /\ Edge(line[a], line[b])
    BY <1>3, <1>5, <1>12, <2>1, SMTT(60)
  <2>3. CASE \E r \in 1 .. N : r < a /\ line[r] = line[b]
    <3>1. b < a
      BY <1>9, <2>2, <2>3
    <3> QED BY <2>1, <3>1
  <2>4. CASE \E c \in 1 .. NumCycles : from[c] < a /\ a <= to[c] /\ line[to[c]] = line[b]
    <3>1. PICK c \in 1 .. NumCycles : from[c] < a /\ a <= to[c] /\ line[to[c]] = line[b]
      BY <2>4
    <3>2. to[c] = b
      BY <1>4, <1>9, <2>2, <3>1, SMTT(60)
    <3>3. q = N + 1 - to[c] /\ q \in w.heads /\ w.last[q] = N - from[c]
      BY <1>5, <2>1, <3>2, SMTT(60)
    <3>4. q <= p /\ p <= N - from[c]
      BY <1>4, <2>1, <3>1, <3>2, SMTT(60)
    <3> QED BY <3>3, <3>4 DEF InCycle
  <2> QED BY <1>11, <2>2, <2>3, <2>4, SMTT(60)
<1>16. HeadsAreTargets(w, Edges)
  <2> SUFFICES ASSUME NEW h \in w.heads
               PROVE  \E p \in 1 .. N : InCycle(w, h, p) /\ <<w.order[p], w.order[h]>> \in Edges
    BY <1>6 DEF HeadsAreTargets
  <2>1. PICK c \in 1 .. NumCycles : h = N + 1 - to[c] /\ h \in 1 .. N /\ w.last[h] = N - from[c]
    BY <1>7
  <2>2. PICK S, v : S = Segment(c, line, from, to) /\ v = line[to[c]]
    OBVIOUS
  <2>3. LeadBack(S, v)
    BY <1>1, <2>2 DEF LineInv, ConnInv, BothWays
  <2>4. v \in S
    <3>1. to[c] \in from[c] + 1 .. to[c]
      BY <1>4
    <3> QED BY <2>2, <3>1 DEF Segment
  <2>5. {} # S /\ {} \in SUBSET S
    BY <2>4
  <2>6. \E x \in S : Edge(x, v)
    BY <2>3, <2>5 DEF LeadBack
  <2>7. PICK a \in from[c] + 1 .. to[c] : Edge(line[a], v)
    BY <2>2, <2>6 DEF Segment
  <2>8. a \in 1 .. N /\ N + 1 - a \in 1 .. N /\ h <= N + 1 - a /\ N + 1 - a <= N - from[c]
    <3>1. from[c] \in Nat /\ to[c] \in 1 .. N /\ from[c] < to[c]
      BY <1>4
    <3> QED BY <2>1, <3>1, SMTT(60)
  <2>9. w.order[N + 1 - a] = line[a] /\ w.order[h] = v /\ line[a] \in Labels /\ v \in Labels
    <3>1. w.order[N + 1 - a] = line[a] /\ line[a] \in Labels
      BY <1>3, <1>5, <2>8
    <3>2. to[c] \in 1 .. N /\ line[to[c]] \in Labels
      BY <1>3, <1>4
    <3>3. N + 1 - h = to[c]
      BY <2>1, <3>2, SMTT(60)
    <3>4. w.order[h] = line[to[c]]
      BY <1>5, <2>1, <3>3, SMTT(60)
    <3> QED BY <2>2, <3>1, <3>2, <3>4
  <2>10. InCycle(w, h, N + 1 - a) /\ <<w.order[N + 1 - a], w.order[h]>> \in Edges
    BY <1>13, <2>1, <2>7, <2>8, <2>9 DEF InCycle
  <2> QED BY <2>8, <2>10
<1> QED BY <1>5, <1>8, <1>10, <1>14, <1>15, <1>16, SMTT(60) DEF IsWto

(***************************************************************************)
(* The positions of the cycle at h lead back to h: a part of it that holds *)
(* the sources of the edges to h and to the part itself is all of it.      *)
(***************************************************************************)
Sources(w, h, X) ==
    {p \in h .. w.last[h] : \E q \in X : Edge(w.order[p], w.order[q])}
LeadsBackTo(w, h) ==
    \A X \in SUBSET (h .. w.last[h]) :
        Sources(w, h, {h}) \subseteq X /\ Sources(w, h, X) \subseteq X => X = h .. w.last[h]

LEMMA LeadsBackHolds ==
    ASSUME TypeOK, visit_stack = <<>>, NEW line, NEW from, NEW to, LineInv(line, from, to),
           NEW w, Mirrors(w, line, from, to), NEW h \in w.heads
    PROVE  LeadsBackTo(w, h) /\ h .. w.last[h] \subseteq 1 .. Len(w.order)
<1>1. line \in Seq(Labels) /\ \A c \in 1 .. NumCycles : Closed(c)
  BY AllClosed DEF LineInv, PlaceInv
<1>2. PICK N \in Nat : N = Len(line) /\ DOMAIN line = 1 .. N
  BY <1>1
<1>3. PICK c \in 1 .. NumCycles : h = N + 1 - to[c] /\ w.last[h] = N - from[c]
  BY <1>2, SMTT(60) DEF Mirrors
<1>4. \A p \in 1 .. N : w.order[p] = line[N + 1 - p]
  BY <1>2 DEF Mirrors
<1>5. PICK a, b : a = from[c] /\ b = to[c]
  OBVIOUS
<1>6. a \in Nat /\ b \in 1 .. N /\ a < b /\ h = N + 1 - b /\ h .. w.last[h] = N + 1 - b .. N - a
  <2>1. c \in 0 .. NumCycles
    BY PartType
  <2>2. a \in Nat /\ b \in Nat /\ b <= N
    BY <1>2, <1>5, <2>1, SMTT(60) DEF LineInv, PlaceInv
  <2>3. a < b
    BY <1>1, <1>5 DEF LineInv, LaminarInv
  <2> QED BY <1>3, <1>5, <2>2, <2>3, SMTT(60)
<1>7. \A p, q \in 1 .. N : line[p] = line[q] => p = q
  BY <1>2 DEF LineInv, ListInv
<1>8. PICK S, v : S = {line[p] : p \in a + 1 .. b} /\ v = line[b]
  OBVIOUS
<1>9. LeadBack(S, v)
  <2>1. LeadBack(Segment(c, line, from, to), line[to[c]])
    BY <1>1 DEF LineInv, ConnInv, BothWays
  <2> QED BY <1>5, <1>8, <2>1 DEF Segment
<1>10. \A p \in h .. w.last[h] : N + 1 - p \in a + 1 .. b /\ p \in 1 .. N /\ N + 1 - p \in 1 .. N
  <2>1. \A p \in N + 1 - b .. N - a : N + 1 - p \in a + 1 .. b /\ p \in 1 .. N /\ N + 1 - p \in 1 .. N
    BY <1>6
  <2> QED BY <1>6, <2>1
<1>11. ASSUME NEW X \in SUBSET (h .. w.last[h]), Sources(w, h, {h}) \subseteq X, Sources(w, h, X) \subseteq X
       PROVE  X = h .. w.last[h]
  <2>1. PICK Y : Y = {line[N + 1 - p] : p \in X}
    OBVIOUS
  <2>2. Y \in SUBSET S
    BY <1>8, <1>10, <2>1
  <2>3. ASSUME NEW x \in S, Edge(x, v) \/ \E s \in Y : Edge(x, s)
        PROVE  x \in Y
    <3>1. PICK i \in a + 1 .. b : x = line[i]
      BY <1>8
    <3>2. PICK p : p = N + 1 - i
      OBVIOUS
    <3>3. p \in h .. w.last[h] /\ p \in 1 .. N /\ N + 1 - p = i
      <4>1. p \in N + 1 - b .. N - a /\ p \in 1 .. N /\ N + 1 - p = i
        BY <1>6, <3>2
      <4> QED BY <1>6, <4>1
    <3>4. w.order[p] = x
      BY <1>4, <3>1, <3>3, SMTT(60)
    <3>5. CASE Edge(x, v)
      <4>1. w.order[h] = v
        <5>1. h \in 1 .. N /\ N + 1 - h = b
          BY <1>6
        <5> QED BY <1>4, <1>8, <5>1
      <4>2. p \in Sources(w, h, {h})
        BY <3>3, <3>4, <3>5, <4>1, SMTT(60) DEF Sources
      <4> QED BY <1>11, <2>1, <3>1, <3>3, <4>2
    <3>6. CASE \E s \in Y : Edge(x, s)
      <4>1. PICK q \in X : Edge(x, line[N + 1 - q])
        BY <2>1, <3>6
      <4>2. w.order[q] = line[N + 1 - q]
        BY <1>4, <1>10
      <4>3. p \in Sources(w, h, X)
        BY <3>3, <3>4, <4>1, <4>2, SMTT(60) DEF Sources
      <4> QED BY <1>11, <2>1, <3>1, <3>3, <4>3, SMTT(60)
    <3> QED BY <2>3, <3>5, <3>6
  <2>4. Y = S
    BY <1>9, <2>2, <2>3, SMTT(60) DEF LeadBack
  <2>5. ASSUME NEW p \in h .. w.last[h] PROVE p \in X
    <3>1. line[N + 1 - p] \in Y
      BY <1>8, <1>10, <2>4
    <3>2. PICK q \in X : line[N + 1 - p] = line[N + 1 - q]
      BY <2>1, <3>1
    <3>3. N + 1 - p = N + 1 - q
      BY <1>7, <1>10, <3>2, SMTT(60)
    <3>4. p \in 1 .. N /\ q \in 1 .. N
      BY <1>10
    <3>5. p = q
      BY <3>3, <3>4
    <3> QED BY <3>5
  <2> QED BY <2>5
<1>12. h .. w.last[h] \subseteq 1 .. Len(w.order)
  BY <1>2, <1>10 DEF Mirrors
<1> QED BY <1>11, <1>12 DEF LeadsBackTo

(***************************************************************************)
(* Going back from the head, N times, reaches all of a cycle in N          *)
(* positions: each time adds a position or shows that none is missing.     *)
(***************************************************************************)
LEMMA BackReaches ==
    ASSUME NEW w, Len(w.order) \in Nat, NEW h, h .. w.last[h] \subseteq 1 .. Len(w.order), LeadsBackTo(w, h)
    PROVE  LET inside == h .. w.last[h]
               back[k \in 0 .. Len(w.order)] ==
                   IF k = 0
                   THEN {p \in inside : Edge(w.order[p], w.order[h])}
                   ELSE back[k - 1] \cup {p \in inside : \E q \in back[k - 1] :
                                              Edge(w.order[p], w.order[q])}
           IN  back[Len(w.order)] = inside
<1> DEFINE N == Len(w.order)
           inside == h .. w.last[h]
           First == {p \in inside : Edge(w.order[p], w.order[h])}
           Preds(X) == {p \in inside : \E q \in X : Edge(w.order[p], w.order[q])}
           Round(f, k) == IF k = 0 THEN First ELSE f[k - 1] \cup Preds(f[k - 1])
           body(f) == [k \in 0 .. N |-> Round(f, k)]
           back == CHOOSE f : f = body(f)
<1>1. SUFFICES back[N] = inside
  OBVIOUS
<1>2. N \in Nat
  OBVIOUS
<1>3. /\ inside \subseteq 1 .. N /\ First \subseteq inside
      /\ \A X : Preds(X) \subseteq inside
      /\ \A X \in SUBSET inside : First \subseteq X /\ Preds(X) \subseteq X => X = inside
  <2>1. Sources(w, h, {h}) = First
    BY DEF Sources
  <2>2. \A X : Sources(w, h, X) = Preds(X)
    BY DEF Sources
  <2> HIDE DEF First, Preds
  <2>3. ASSUME NEW X \in SUBSET inside, First \subseteq X, Preds(X) \subseteq X
        PROVE  X = inside
    <3>1. Sources(w, h, {h}) \subseteq X
      BY <2>1, <2>3
    <3>2. Sources(w, h, X) \subseteq X
      BY <2>2, <2>3
    <3> QED BY <3>1, <3>2 DEF LeadsBackTo
  <2>4. First \subseteq inside /\ \A X : Preds(X) \subseteq inside
    BY DEF First, Preds
  <2> QED BY <2>3, <2>4
<1> HIDE DEF N, First, Preds
<1> USE <1>2
<1>4. \E f : f = body(f)
  <2> DEFINE T == {K \in 0 .. N : \E f : \A k \in 0 .. K : f[k] = Round(f, k)}
  <2>1. 0 \in T
    <3>1. PICK f : f = [k \in 0 .. N |-> First]
      OBVIOUS
    <3>2. \A k \in 0 .. 0 : f[k] = Round(f, k)
      BY <3>1
    <3> QED BY <3>2
  <2>2. ASSUME NEW K \in 0 .. N - 1, K \in T PROVE K + 1 \in T
    <3>1. PICK f : \A k \in 0 .. K : f[k] = Round(f, k)
      BY <2>2
    <3>2. PICK g : g = [k \in 0 .. N |-> IF k <= K THEN f[k] ELSE f[K] \cup Preds(f[K])]
      OBVIOUS
    <3>3. ASSUME NEW k \in 0 .. K + 1 PROVE g[k] = Round(g, k)
      <4>1. CASE k = 0
        <5>1. 0 \in 0 .. K /\ 0 \in 0 .. N /\ 0 <= K
          OBVIOUS
        <5> QED BY <3>1, <3>2, <4>1, <5>1
      <4>2. CASE k # 0 /\ k <= K
        <5>1. k \in 0 .. K /\ k \in 0 .. N /\ k - 1 \in 0 .. N /\ k - 1 <= K
          BY <4>2
        <5>2. f[k] = f[k - 1] \cup Preds(f[k - 1])
          BY <3>1, <4>2, <5>1
        <5>3. g[k] = f[k] /\ g[k - 1] = f[k - 1]
          BY <3>2, <4>2, <5>1
        <5> QED BY <4>2, <5>2, <5>3
      <4>3. CASE k = K + 1
        <5>1. k # 0 /\ k \in 0 .. N /\ ~ (k <= K) /\ k - 1 = K /\ K \in 0 .. N /\ K <= K
          BY <4>3
        <5>2. g[k] = f[K] \cup Preds(f[K]) /\ g[k - 1] = f[K]
          BY <3>2, <5>1
        <5> QED BY <5>1, <5>2
      <4> QED BY <4>1, <4>2, <4>3
    <3> HIDE DEF Round
    <3> QED BY <3>3
  <2> HIDE DEF T
  <2>3. N \in T
    <3>1. \A K \in 0 .. N : K \in T
      BY <2>1, <2>2, RangeInduction, SMTT(60)
    <3> QED BY <3>1
  <2>4. PICK f : \A k \in 0 .. N : f[k] = Round(f, k)
    BY <2>3 DEF T
  <2>5. PICK g : g = [k \in 0 .. N |-> f[k]]
    OBVIOUS
  <2>6. \A k \in 0 .. N : g[k] = Round(g, k)
    <3> SUFFICES ASSUME NEW k \in 0 .. N PROVE g[k] = Round(g, k)
      OBVIOUS
    <3>1. g[k] = f[k] /\ (k # 0 => k - 1 \in 0 .. N /\ g[k - 1] = f[k - 1])
      BY <2>5
    <3>2. f[k] = Round(f, k)
      BY <2>4
    <3> QED BY <3>1, <3>2
  <2> HIDE DEF Round
  <2>7. g = body(g)
    BY <2>5, <2>6
  <2> QED BY <2>7
<1>5. back = body(back)
  <2> HIDE DEF body
  <2> QED BY <1>4
<1> HIDE DEF back
<1>6. /\ back[0] = First
      /\ \A k \in 0 .. N - 1 : back[k + 1] = back[k] \cup Preds(back[k])
  <2>1. \A k \in 0 .. N : back[k] = Round(back, k)
    BY <1>5
  <2>2. \A k \in 0 .. N - 1 : k + 1 \in 0 .. N /\ k + 1 # 0 /\ (k + 1) - 1 = k
    OBVIOUS
  <2>3. back[0] = First
    <3>1. 0 \in 0 .. N
      OBVIOUS
    <3>2. back[0] = Round(back, 0)
      BY <2>1, <3>1
    <3> QED BY <3>2
  <2>4. ASSUME NEW k \in 0 .. N - 1
        PROVE  back[k + 1] = back[k] \cup Preds(back[k])
    <3>1. back[k + 1] = Round(back, k + 1)
      BY <2>1, <2>2
    <3> QED BY <2>2, <3>1
  <2> QED BY <2>3, <2>4
<1>7. IsFiniteSet(1 .. N) /\ Cardinality(1 .. N) = N
  <2>1. 1 \in Int /\ N \in Int
    BY <1>3
  <2>2. IsFiniteSet(1 .. N) /\ Cardinality(1 .. N) = IF 1 > N THEN 0 ELSE N - 1 + 1
    BY <2>1, FS_Interval
  <2> QED BY <2>2
<1>8. \A X \in SUBSET inside : IsFiniteSet(X) /\ Cardinality(X) \in Nat /\ Cardinality(X) <= N
                               /\ (Cardinality(X) = N => X = 1 .. N)
  <2> SUFFICES ASSUME NEW X \in SUBSET inside
               PROVE  IsFiniteSet(X) /\ Cardinality(X) \in Nat /\ Cardinality(X) <= N
                      /\ (Cardinality(X) = N => X = 1 .. N)
    OBVIOUS
  <2>1. X \in SUBSET (1 .. N)
    BY <1>3
  <2>2. IsFiniteSet(X) /\ Cardinality(X) <= N /\ (Cardinality(X) = N => X = 1 .. N)
    BY <1>7, <2>1, FS_Subset, ZenonT(60)
  <2> QED BY <2>2, FS_CardinalityType
<1> DEFINE Done0(X) == Preds(X) \subseteq X
           T == {k \in 0 .. N : /\ back[k] \subseteq inside /\ First \subseteq back[k]
                                /\ Cardinality(back[k]) >= k \/ Done0(back[k])}
<1> HIDE DEF inside
<1>9. 0 \in T
  <2>1. 0 \in 0 .. N
    OBVIOUS
  <2>2. back[0] \subseteq inside /\ First \subseteq back[0]
    BY <1>3, <1>6
  <2>3. Cardinality(back[0]) \in Nat
    BY <1>8, <2>2
  <2> QED BY <2>1, <2>2, <2>3
<1>10. ASSUME NEW k \in 0 .. N - 1, k \in T PROVE k + 1 \in T
  <2>1. PICK X, Y : X = back[k] /\ Y = back[k + 1]
    OBVIOUS
  <2>2. Y = X \cup Preds(X) /\ X \subseteq inside /\ First \subseteq X /\ Y \subseteq inside
    BY <1>6, <1>3, <1>10, <2>1, SMTT(60)
  <2>3. Cardinality(X) >= k \/ Done0(X)
    BY <1>10, <2>1
  <2>4. CASE Done0(X)
    <3>1. Y = X
      BY <2>2, <2>4
    <3>2. k + 1 \in 0 .. N
      OBVIOUS
    <3> QED BY <2>1, <2>2, <2>4, <3>1, <3>2
  <2>5. CASE ~ Done0(X)
    <3>1. X # Y /\ X \subseteq Y
      BY <2>2, <2>5
    <3>2. IsFiniteSet(Y) /\ Cardinality(X) <= Cardinality(Y) /\ Cardinality(X) # Cardinality(Y)
      BY <1>8, <2>2, <3>1, FS_Subset, SMTT(60)
    <3>3. Cardinality(X) \in Nat /\ Cardinality(Y) \in Nat
      BY <1>8, <2>2
    <3>4. Cardinality(Y) >= k + 1
      BY <2>3, <2>5, <3>2, <3>3
    <3>5. k + 1 \in 0 .. N /\ First \subseteq Y
      BY <2>2
    <3>6. Cardinality(back[k + 1]) >= k + 1
      BY <2>1, <3>4, SMTT(60)
    <3> QED BY <2>1, <2>2, <3>5, <3>6
  <2> QED BY <2>4, <2>5
<1>11. N \in T
  <2> HIDE DEF T
  <2>1. \A k \in 0 .. N : k \in T
    BY <1>9, <1>10, RangeInduction, SMTT(60)
  <2> QED BY <2>1
<1>12. PICK X : X = back[N]
  OBVIOUS
<1>13. X \subseteq inside /\ First \subseteq X /\ (Cardinality(X) >= N \/ Done0(X))
  BY <1>11, <1>12
<1>14. CASE Done0(X)
  BY <1>3, <1>12, <1>13, <1>14
<1>15. CASE ~ Done0(X)
  <2>1. X = 1 .. N
    BY <1>8, <1>13, <1>15
  <2> QED BY <1>3, <1>12, <1>13, <2>1
<1> QED BY <1>14, <1>15, SMTT(60)

-----------------------------------------------------------------------------
(***************************************************************************)
(* The result, once there is one.                                          *)
(***************************************************************************)
Result ==
    Done => /\ IsWto(wto, Entry, Edges, Labels)
            /\ \A h \in wto.heads :
                  LeadsBackTo(wto, h) /\ h .. wto.last[h] \subseteq 1 .. Len(wto.order)

LEMMA ResultMeans == Result => ResultIsWto /\ CyclesAreStronglyConnected
<1> SUFFICES ASSUME Result, Done PROVE ResultIsWto /\ CyclesAreStronglyConnected
  BY DEF ResultIsWto, CyclesAreStronglyConnected
<1>1. ResultIsWto
  BY DEF Result, ResultIsWto
<1>2. Len(wto.order) \in Nat
  <2>1. wto.order \in Seq(Labels)
    BY DEF Result, IsWto
  <2> QED BY <2>1
<1>3. \A h \in wto.heads : LeadsBackTo(wto, h) /\ h .. wto.last[h] \subseteq 1 .. Len(wto.order)
  BY DEF Result
<1>4. CyclesAreStronglyConnected
  BY <1>2, <1>3, BackReaches DEF CyclesAreStronglyConnected
<1> QED BY <1>1, <1>4, SMTT(60)

LEMMA ResultFound ==
    ASSUME BuilderState, PlaceFound, Finalize
    PROVE  Result'
<1>1. TypeOK /\ ChildCycleAfterParent /\ visit_stack = <<>>
  BY DEF BuilderState, BuilderInv, Finalize
<1>2. PICK line, from, to : LineInv(line, from, to)
  BY DEF PlaceFound
<1>3. PICK order : order = Walk[0] /\ wto' = WtoOf(order, HeadPositions(order))
  BY DEF Finalize
<1>4. PICK w : w = wto'
  OBVIOUS
<1>5. Mirrors(w, line, from, to)
  BY <1>1, <1>2, <1>3, <1>4, WtoMirrors
<1>6. IsWto(w, Entry, Edges, Labels)
  BY <1>1, <1>2, <1>5, IsWtoHolds
<1>7. \A h \in w.heads : LeadsBackTo(w, h) /\ h .. w.last[h] \subseteq 1 .. Len(w.order)
  BY <1>1, <1>2, <1>5, LeadsBackHolds
<1>8. /\ \A x, y : Edge(x, y)' <=> Edge(x, y)
      /\ Edges' = Edges
  BY DEF Finalize, Edge, Edges
<1>9. \A h : LeadsBackTo(w, h)' <=> LeadsBackTo(w, h)
  BY <1>8, ZenonT(60) DEF LeadsBackTo, Sources
<1> QED BY <1>4, <1>6, <1>7, <1>8, <1>9, ZenonT(60) DEF Result, LeadsBackTo, Sources

LEMMA ResultStays ==
    ASSUME Result, children' = children, wto' = wto
    PROVE  Result'
<1>1. /\ \A x, y : Edge(x, y)' <=> Edge(x, y)
      /\ Edges' = Edges /\ (Done' <=> Done)
  BY DEF Edge, Edges, Done
<1>2. PICK w : w = wto /\ w = wto'
  OBVIOUS
<1>3. \A h : LeadsBackTo(w, h)' <=> LeadsBackTo(w, h)
  BY <1>1, ZenonT(60) DEF LeadsBackTo, Sources
<1>4. Done => /\ IsWto(w, Entry, Edges, Labels)
              /\ \A h \in w.heads : LeadsBackTo(w, h) /\ h .. w.last[h] \subseteq 1 .. Len(w.order)
  BY <1>2 DEF Result
<1>5. \A h : LeadsBackTo(wto, h)' <=> LeadsBackTo(w, h)'
  BY <1>2 DEF LeadsBackTo, Sources
<1> QED BY <1>1, <1>2, <1>3, <1>4, <1>5 DEF Result

LEMMA ResultKept ==
    ASSUME BuilderState, PlaceFound, Result, [Next]_vars
    PROVE  Result'
<1>1. CASE Finalize
  BY <1>1, ResultFound
<1>2. CASE ~ Finalize
  <2>1. children' = children /\ wto' = wto
    BY <1>2 DEF Next, PushSuccessors, StartVisit, ContinueVisit, Terminated, vars
  <2> QED BY <2>1, ResultStays, SMTT(60)
<1> QED BY <1>1, <1>2

(***************************************************************************)
(* The theorems.                                                           *)
(***************************************************************************)
SoundInv == num \in Nat /\ (num < DFN_INF => BuilderInv /\ NumInv /\ PlaceFound /\ Result)

LEMMA SoundInit == Init => SoundInv
<1> SUFFICES ASSUME Init PROVE SoundInv
  OBVIOUS
<1>1. IndInv
  BY InitInd
<1>2. PlaceFound
  BY InitPlaces
<1>3. Result
  BY DEF Init, Result, Done
<1> QED BY <1>1, <1>2, <1>3 DEF SoundInv, IndInv

LEMMA SoundKept == SoundInv /\ [Next]_vars => SoundInv'
<1> SUFFICES ASSUME SoundInv, [Next]_vars PROVE SoundInv'
  OBVIOUS
<1>1. IndInv' /\ num' \in Nat /\ num <= num' /\ num \in Nat
  BY Inductive, NumGrows DEF SoundInv, IndInv
<1>2. CASE num' < DFN_INF
  <2>1. num < DFN_INF
    BY <1>1, <1>2 DEF DFN_INF
  <2>2. BuilderState /\ PlaceFound /\ Result
    BY <2>1 DEF SoundInv, BuilderState
  <2>3. PlaceFound' /\ Result'
    BY <1>2, <2>2, PlacesKept, ResultKept
  <2> QED BY <1>1, <2>3 DEF SoundInv, IndInv
<1>3. CASE ~ (num' < DFN_INF)
  BY <1>1, <1>3 DEF SoundInv, DFN_INF
<1> QED BY <1>2, <1>3

(***************************************************************************)
(* What build returns is a weak topological order of the part of the CFG   *)
(* that the entry reaches: every label once, cycles nested, every edge     *)
(* forward or back to the head of a cycle around its source, and a cycle   *)
(* only where an edge returns.  On every graph, as long as the numbers     *)
(* have not reached the mark of a finished vertex.                         *)
(***************************************************************************)
THEOREM ResultIsWtoUntilOverflow == Spec => [](num < DFN_INF => ResultIsWto)
<1>1. SoundInv => (num < DFN_INF => ResultIsWto)
  BY ResultMeans DEF SoundInv
<1> QED BY <1>1, SoundInit, SoundKept, PTL DEF Spec

(***************************************************************************)
(* Each cycle of the result is needed: in the subgraph of a cycle, every   *)
(* member has a path back to its head.                                     *)
(***************************************************************************)
THEOREM CyclesConnectedUntilOverflow == Spec => [](num < DFN_INF => CyclesAreStronglyConnected)
<1>1. SoundInv => (num < DFN_INF => CyclesAreStronglyConnected)
  BY ResultMeans DEF SoundInv
<1> QED BY <1>1, SoundInit, SoundKept, PTL DEF Spec

LEMMA SoundAlways ==
    ASSUME Size * (Size + 1) < DFN_INF
    PROVE  Spec => [](num < DFN_INF /\ SoundInv)
<1>1. Spec => [](UnwrapsSucceed /\ num <= Size * (Size + 1))
  BY UnwrapsSucceedAlways
<1>2. SoundInv /\ num <= Size * (Size + 1) => num < DFN_INF
  <2> SUFFICES ASSUME SoundInv, num <= Size * (Size + 1) PROVE num < DFN_INF
    OBVIOUS
  <2>1. Size * (Size + 1) \in Nat /\ num \in Nat
    BY SetSizes DEF SoundInv
  <2> QED BY <2>1 DEF DFN_INF
<1> QED BY <1>1, <1>2, SoundInit, SoundKept, PTL DEF Spec

(***************************************************************************)
(* The numbers do not reach that mark in a graph of up to 46 340 labels,   *)
(* and there the result is a weak topological order whatever the graph.    *)
(***************************************************************************)
THEOREM ResultIsWtoAlways ==
    ASSUME Size * (Size + 1) < DFN_INF
    PROVE  Spec => []ResultIsWto
<1>1. num < DFN_INF /\ SoundInv => ResultIsWto
  BY ResultMeans DEF SoundInv
<1> QED BY <1>1, SoundAlways, PTL

(***************************************************************************)
(* Nor is there a cycle too many in the result, so that widening happens   *)
(* only where the graph has a loop.                                        *)
(***************************************************************************)
THEOREM CyclesConnectedAlways ==
    ASSUME Size * (Size + 1) < DFN_INF
    PROVE  Spec => []CyclesAreStronglyConnected
<1>1. num < DFN_INF /\ SoundInv => CyclesAreStronglyConnected
  BY ResultMeans DEF SoundInv
<1> QED BY <1>1, SoundAlways, PTL

-----------------------------------------------------------------------------
(***************************************************************************)
(* containing_cycle_map names the partition that lists a label.            *)
(***************************************************************************)
TableInv ==
    /\ \A c \in 0 .. NumCycles : \A k \in DOMAIN part[c] :
          part[c][k].kind = "label" => containing[part[c][k].label] = c
    /\ \A x \in Labels : dfn[x] # DFN_INF => containing[x] = 0

\* What a partition lists is on the line.
LEMMA ListedOnLine ==
    ASSUME NEW line, NEW from, NEW to, LineInv(line, from, to), TypeOK,
           NEW c \in 0 .. NumCycles, NEW k \in DOMAIN part[c], part[c][k].kind = "label"
    PROVE  \E p \in DOMAIN line : line[p] = part[c][k].label
<1>1. PICK cut : Cuts(part[c], cut, line, from, to)
  BY DEF LineInv, SpellInv
<1>2. k \in 1 .. Len(part[c])
  BY PartType
<1>3. PieceOK(part[c][k], cut[k - 1], cut[k], line, from, to)
  BY <1>1, <1>2, SMTT(60) DEF Cuts
<1> QED BY <1>3 DEF PieceOK

LEMMA TableGrows ==
    ASSUME TypeOK, TableInv, NEW v \in Labels, NEW c \in 0 .. NumCycles,
           containing' = [containing EXCEPT ![v] = c], parent' = parent,
           dfn'[v] = DFN_INF, \A x \in Labels : x # v => dfn'[x] = dfn[x],
           \A d \in 0 .. NumCycles : \A k \in DOMAIN part[d] : part[d][k].kind = "label" => part[d][k].label # v,
           \A d \in 0 .. NumCycles : part[d] \in Seq(Component),
           \A d \in 0 .. NumCycles : \A k \in DOMAIN part'[d] : part'[d][k].kind = "label" =>
               (k \in DOMAIN part[d] /\ part'[d][k] = part[d][k]) \/ (d = c /\ part'[d][k].label = v)
    PROVE  TableInv'
<1>1. NumCycles' = NumCycles
  BY DEF NumCycles
<1>2. containing'[v] = c /\ \A x \in Labels : x # v => containing'[x] = containing[x]
  BY DEF TypeOK
<1>3. ASSUME NEW d \in 0 .. NumCycles, NEW k \in DOMAIN part'[d], part'[d][k].kind = "label"
      PROVE  containing'[part'[d][k].label] = d
  <2>1. CASE d = c /\ part'[d][k].label = v
    BY <1>2, <2>1
  <2>2. CASE k \in DOMAIN part[d] /\ part'[d][k] = part[d][k]
    <3>1. part[d][k] \in Component
      BY <2>2
    <3>2. part[d][k].label \in Labels /\ part[d][k].label # v
      BY <1>3, <2>2, <3>1 DEF Component
    <3>3. containing[part[d][k].label] = d
      BY <1>3, <2>2 DEF TableInv
    <3> QED BY <1>2, <2>2, <3>2, <3>3
  <2> QED BY <1>3, <2>1, <2>2
<1>4. \A x \in Labels : dfn'[x] # DFN_INF => containing'[x] = 0
  BY <1>2 DEF TableInv
<1> QED BY <1>1, <1>3, <1>4 DEF TableInv

LEMMA TableStays ==
    ASSUME TableInv, containing' = containing,
           \A x \in Labels : dfn'[x] # DFN_INF => dfn[x] # DFN_INF,
           \A c \in 0 .. NumCycles' : \A k \in DOMAIN part'[c] :
               c \in 0 .. NumCycles /\ k \in DOMAIN part[c] /\ part'[c][k] = part[c][k]
    PROVE  TableInv'
<1>1. ASSUME NEW c \in 0 .. NumCycles', NEW k \in DOMAIN part'[c], part'[c][k].kind = "label"
      PROVE  containing'[part'[c][k].label] = c
  <2>1. c \in 0 .. NumCycles /\ k \in DOMAIN part[c] /\ part'[c][k] = part[c][k]
    OBVIOUS
  <2> QED BY <1>1, <2>1 DEF TableInv
<1> QED BY <1>1 DEF TableInv

LEMMA TableKept ==
    ASSUME BuilderState, PlaceFound, TableInv, [Next]_vars
    PROVE  TableInv'
<1> USE DEF BuilderState, BuilderInv
<1>1. PICK line, from, to : LineInv(line, from, to)
  BY DEF PlaceFound
<1>2. /\ dfn \in [Labels -> Nat] /\ containing \in [Labels -> 0 .. NumCycles] /\ NumCycles \in Nat
      /\ part \in [0 .. NumCycles -> Seq(Component)]
      /\ \A d \in 0 .. NumCycles : part[d] \in Seq(Component)
  BY PartType, SMTT(60) DEF TypeOK
\* A vertex that is open or heads a running cycle is not listed.
<1>3. ASSUME NEW v \in Labels, dfn[v] # DFN_INF \/ \E i \in Tasks : Running(i) /\ Vertex(i) = v
      PROVE  \A d \in 0 .. NumCycles : \A k \in DOMAIN part[d] : part[d][k].kind = "label" => part[d][k].label # v
  <2> SUFFICES ASSUME NEW d \in 0 .. NumCycles, NEW k \in DOMAIN part[d], part[d][k].kind = "label", part[d][k].label = v
               PROVE  FALSE
    OBVIOUS
  <2>1. \E p \in DOMAIN line : line[p] = v
    BY <1>1, ListedOnLine
  <2> QED BY <1>1, <1>3, <2>1 DEF LineInv, ListInv
<1>4. CASE PushSuccessors
  <2>1. containing' = containing /\ part' = part /\ NumCycles' = NumCycles
    BY <1>4 DEF PushSuccessors, NumCycles
  <2>2. \A x \in Labels : dfn'[x] # DFN_INF => dfn[x] # DFN_INF
    <3> DEFINE v == Top(visit_stack).vertex
    <3>1. dfn' = dfn \/ (dfn[v] = 0 /\ dfn' = [dfn EXCEPT ![v] = num + 1])
      BY <1>4, SMTT(60) DEF PushSuccessors
    <3> HIDE DEF v
    <3> QED BY <1>2, <3>1 DEF DFN_INF
  <2> QED BY <2>1, <2>2, TableStays, SMTT(60)
<1>5. CASE StartVisit
  <2>0. Popped("StartVisit")
    BY <1>5 DEF StartVisit
  <2>1. PICK n, v : n = Len(visit_stack) /\ v = Vertex(n)
    OBVIOUS
  <2>2. /\ n \in Tasks /\ Type(n) = "StartVisit" /\ v \in Labels /\ Open(v)
        /\ Top(visit_stack) = visit_stack[n] /\ Target(n) = Cycle(n)
    BY <2>0, <2>1, TopPending, PoppedTask DEF TaskInv, TaskOK, Type, Target, Cycle
  <2>3. Target(n) \in 0 .. NumCycles
    BY <2>2, TaskTypes
  <2>4. CASE UNCHANGED <<dfn, part, parent, containing>>
    BY <2>4, TableStays DEF NumCycles
  <2>5. CASE /\ dfn' = [dfn EXCEPT ![v] = DFN_INF] /\ parent' = parent
             /\ part' = [part EXCEPT ![Target(n)] = Append(@, LabelComp(v))]
             /\ containing' = IF Cycle(n) = 0 THEN containing ELSE [containing EXCEPT ![v] = Cycle(n)]
    <3>1. dfn[v] # DFN_INF /\ containing[v] = 0
      BY <2>2 DEF Open, TableInv
    <3>2. containing' = [containing EXCEPT ![v] = Target(n)]
      BY <1>2, <2>2, <2>5, <3>1
    <3>3. dfn'[v] = DFN_INF /\ \A x \in Labels : x # v => dfn'[x] = dfn[x]
      BY <1>2, <2>2, <2>5
    <3>4. ASSUME NEW d \in 0 .. NumCycles, NEW k \in DOMAIN part'[d]
          PROVE  (k \in DOMAIN part[d] /\ part'[d][k] = part[d][k]) \/ (d = Target(n) /\ part'[d][k].label = v)
      <4>1. CASE d # Target(n)
        BY <1>2, <2>3, <2>5, <4>1, SMTT(60)
      <4>2. CASE d = Target(n)
        <5>1. part'[d] = Append(part[d], LabelComp(v)) /\ LabelComp(v) \in Component
          BY <1>2, <2>2, <2>3, <2>5, <4>2, SMTT(60) DEF LabelComp, Component
        <5>2. (k \in DOMAIN part[d] /\ part'[d][k] = part[d][k]) \/ part'[d][k] = LabelComp(v)
          BY <1>2, <5>1, Appended
        <5> QED BY <4>2, <5>2 DEF LabelComp
      <4> QED BY <4>1, <4>2
    <3>5. \A d \in 0 .. NumCycles : \A k \in DOMAIN part[d] : part[d][k].kind = "label" => part[d][k].label # v
      BY <1>3, <2>2, <3>1
    <3>6. PICK c : c = Target(n)
      OBVIOUS
    <3>7. c \in 0 .. NumCycles /\ containing' = [containing EXCEPT ![v] = c] /\ parent' = parent /\ v \in Labels
      BY <2>2, <2>3, <2>5, <3>2, <3>6
    <3>8. \A d \in 0 .. NumCycles : \A k \in DOMAIN part'[d] :
              (k \in DOMAIN part[d] /\ part'[d][k] = part[d][k]) \/ (d = c /\ part'[d][k].label = v)
      BY <3>4, <3>6
    <3>9. \A d \in 0 .. NumCycles : part[d] \in Seq(Component)
      BY <1>2
    <3> HIDE DEF TableInv
    <3> QED BY <3>3, <3>5, <3>7, <3>8, <3>9, TableGrows
  <2>6. CASE /\ containing' = containing
             /\ parent' = Append(parent, Cycle(n))
             /\ part' = [i \in 0 .. NumCycles + 1 |-> IF i = NumCycles + 1 THEN <<>> ELSE part[i]]
             /\ \E above : dfn' = Forget(dfn, v, above, DFN_INF) /\ \A x \in above : dfn[x] # DFN_INF
    <3>1. \A x \in Labels : dfn'[x] # DFN_INF => dfn[x] # DFN_INF
      BY <1>2, <2>6 DEF Forget
    <3>2. NumCycles' = NumCycles + 1
      BY <2>2, <2>3, <2>6 DEF NumCycles, TypeOK
    <3>3. ASSUME NEW c \in 0 .. NumCycles', NEW k \in DOMAIN part'[c]
          PROVE  c \in 0 .. NumCycles /\ k \in DOMAIN part[c] /\ part'[c][k] = part[c][k]
      <4>1. c # NumCycles + 1
        BY <1>2, <2>6, <3>2
      <4> QED BY <1>2, <2>6, <3>2, <4>1
    <3> QED BY <2>6, <3>1, <3>3, TableStays
  <2>7. \A i \in DOMAIN stack : stack[i] \in Labels /\ dfn[stack[i]] # DFN_INF
    <3>1. \A i \in DOMAIN stack : stack[i] \in Labels
      BY DEF TypeOK
    <3> QED BY <3>1 DEF StackInv, Open
  <2>8. ASSUME HeadDfn(v) = dfn[v], IsLoop(v)
        PROVE  \E above : dfn' = Forget(dfn, v, above, DFN_INF) /\ \A x \in above : dfn[x] # DFN_INF
    <3> DEFINE above == {stack[i] : i \in LastIndexOf(stack, v) + 1 .. Len(stack)}
    <3>1. dfn' = Forget(dfn, v, above, DFN_INF)
      BY <1>5, <2>1, <2>2, <2>8 DEF StartVisit, Vertex
    <3>2. DOMAIN stack = 1 .. Len(stack) /\ Len(stack) \in Nat
      BY DEF TypeOK
    <3>3. LastIndexOf(stack, v) \in DOMAIN stack
      <4>1. PICK k \in DOMAIN stack : stack[k] = v
        BY <2>2 DEF StackInv
      <4>0. DOMAIN stack = 1 .. Len(stack) /\ \A m \in DOMAIN stack : dfn[stack[m]] \in Nat
        <5>1. \A m \in DOMAIN stack : stack[m] \in Labels
          BY DEF TypeOK
        <5> QED BY <1>2, <3>2, <5>1
      <4>2. ASSUME NEW m \in DOMAIN stack, stack[m] = v
            PROVE  m = k
        <5>1. ~ (m < k) /\ ~ (k < m)
          BY <4>0, <4>1, <4>2 DEF StackInv
        <5> QED BY <4>0, <5>1
      <4> QED BY <4>1, <4>2, LastIndex DEF TypeOK
    <3>4. \A x \in above : dfn[x] # DFN_INF
      BY <2>7, <3>2, <3>3
    <3> QED BY <3>1, <3>4
  <2> QED BY <1>5, <2>1, <2>2, <2>4, <2>5, <2>6, <2>8, SMTT(60) DEF StartVisit, Vertex, Target, Cycle
<1>6. CASE ContinueVisit
  <2>0. Popped("ContinueVisit")
    BY <1>6 DEF ContinueVisit
  <2>1. PICK n, v : n = Len(visit_stack) /\ v = Vertex(n)
    OBVIOUS
  <2>2. n \in Tasks /\ Type(n) = "ContinueVisit" /\ v \in Labels /\ Top(visit_stack) = visit_stack[n]
    BY <2>0, <2>1, PoppedTask
  <2>3. Running(n) /\ dfn[v] = DFN_INF /\ Target(n) < Cycle(n)
        /\ Target(n) \in 0 .. NumCycles /\ Cycle(n) \in 0 .. NumCycles
    BY <2>1, <2>2, TaskTypes, SMTT(60) DEF TaskInv, TaskOK, Type, Target, Cycle, Vertex, Running
  <2>4. /\ part' = [part EXCEPT ![Cycle(n)] = Append(@, LabelComp(v)), ![Target(n)] = Append(@, CycleComp(Cycle(n)))]
        /\ containing' = [containing EXCEPT ![v] = Cycle(n)] /\ dfn' = dfn /\ parent' = parent
    BY <1>6, <2>1, <2>2 DEF ContinueVisit, Vertex, Target, Cycle
  <2>5. Target(n) # Cycle(n)
    BY <1>2, <2>3
  <2>6. ASSUME NEW d \in 0 .. NumCycles, NEW k \in DOMAIN part'[d], part'[d][k].kind = "label"
        PROVE  (k \in DOMAIN part[d] /\ part'[d][k] = part[d][k]) \/ (d = Cycle(n) /\ part'[d][k].label = v)
    <3>1. CASE d # Target(n) /\ d # Cycle(n)
      BY <1>2, <2>3, <2>4, <3>1, SMTT(60)
    <3>2. CASE d = Cycle(n)
      <4>1. part'[d] = Append(part[d], LabelComp(v)) /\ LabelComp(v) \in Component
        BY <1>2, <2>2, <2>3, <2>4, <2>5, <3>2 DEF LabelComp, Component
      <4>2. (k \in DOMAIN part[d] /\ part'[d][k] = part[d][k]) \/ part'[d][k] = LabelComp(v)
        BY <1>2, <4>1, Appended
      <4> QED BY <3>2, <4>2 DEF LabelComp
    <3>3. CASE d = Target(n)
      <4>1. Cycle(n) \in Nat
        BY <2>3
      <4>2. part'[d] = Append(part[d], CycleComp(Cycle(n))) /\ CycleComp(Cycle(n)) \in Component
        BY <1>2, <2>3, <2>4, <2>5, <3>3, <4>1, SMTT(60) DEF CycleComp, Component
      <4>3. (k \in DOMAIN part[d] /\ part'[d][k] = part[d][k]) \/ part'[d][k] = CycleComp(Cycle(n))
        BY <1>2, <4>2, Appended, SMTT(60)
      <4> QED BY <2>6, <4>3 DEF CycleComp
    <3> QED BY <3>1, <3>2, <3>3
  <2>7. PICK c : c = Cycle(n)
    OBVIOUS
  <2>8. /\ c \in 0 .. NumCycles /\ containing' = [containing EXCEPT ![v] = c] /\ parent' = parent /\ v \in Labels
        /\ dfn'[v] = DFN_INF /\ \A x \in Labels : x # v => dfn'[x] = dfn[x]
    BY <2>2, <2>3, <2>4, <2>7
  <2>9. \A d \in 0 .. NumCycles : \A k \in DOMAIN part'[d] : part'[d][k].kind = "label" =>
            (k \in DOMAIN part[d] /\ part'[d][k] = part[d][k]) \/ (d = c /\ part'[d][k].label = v)
    BY <2>6, <2>7
  <2>10. \A d \in 0 .. NumCycles : \A k \in DOMAIN part[d] : part[d][k].kind = "label" => part[d][k].label # v
    BY <1>3, <2>1, <2>2, <2>3
  <2>11. \A d \in 0 .. NumCycles : part[d] \in Seq(Component)
    BY <1>2
  <2> HIDE DEF TableInv
  <2> QED BY <2>8, <2>9, <2>10, <2>11, TableGrows
<1>7. CASE Finalize \/ Terminated \/ UNCHANGED vars
  <2>1. UNCHANGED <<dfn, part, parent, containing>>
    BY <1>7 DEF Finalize, Terminated, vars
  <2> QED BY <2>1, TableStays DEF NumCycles
<1> QED BY <1>4, <1>5, <1>6, <1>7 DEF Next

-----------------------------------------------------------------------------
(***************************************************************************)
(* The places of the cycles, once all of them are closed.                  *)
(***************************************************************************)
Spans(line, from, to) ==
    /\ NumCycles \in Nat /\ Len(line) \in Nat /\ DOMAIN line = 1 .. Len(line)
    /\ \A p \in 1 .. Len(line) : line[p] \in Labels
    /\ \A p, q \in 1 .. Len(line) : line[p] = line[q] => p = q
    /\ \A c \in 0 .. NumCycles : from[c] \in Nat /\ to[c] \in Nat /\ to[c] <= Len(line)
    /\ from[0] = 0 /\ to[0] = Len(line)
    /\ \A c \in 1 .. NumCycles : from[c] < to[c]
    /\ \A c, d \in 1 .. NumCycles : to[c] = to[d] => c = d
    /\ \A c, d \in 1 .. NumCycles : to[d] <= to[c] /\ from[c] < to[d] => from[c] <= from[d]
    /\ \A c \in 1 .. NumCycles : CycleHead(c) = line[to[c]] /\ containing[line[to[c]]] = c

LEMMA SpansHold ==
    ASSUME TypeOK, TableInv, visit_stack = <<>>, NEW line, NEW from, NEW to, LineInv(line, from, to)
    PROVE  Spans(line, from, to)
<1>1. NumCycles \in Nat /\ line \in Seq(Labels) /\ Len(line) \in Nat /\ DOMAIN line = 1 .. Len(line)
  BY PartType DEF LineInv, PlaceInv
<1>2. /\ \A p \in 1 .. Len(line) : line[p] \in Labels
      /\ \A p, q \in 1 .. Len(line) : line[p] = line[q] => p = q
  BY <1>1, SMTT(60) DEF LineInv, ListInv
<1>3. /\ \A c \in 0 .. NumCycles : from[c] \in Nat /\ to[c] \in Nat /\ to[c] <= Len(line)
      /\ from[0] = 0 /\ to[0] = Len(line)
  BY AllClosed DEF LineInv, PlaceInv
<1>4. \A c \in 1 .. NumCycles : Closed(c)
  BY AllClosed
<1>5. /\ \A c \in 1 .. NumCycles : from[c] < to[c]
      /\ \A c, d \in 1 .. NumCycles : to[c] = to[d] => c = d
      /\ \A c, d \in 1 .. NumCycles : to[d] <= to[c] /\ from[c] < to[d] => from[c] <= from[d]
  BY <1>4 DEF LineInv, LaminarInv
<1>6. ASSUME NEW c \in 1 .. NumCycles
      PROVE  CycleHead(c) = line[to[c]] /\ containing[line[to[c]]] = c
  <2>1. Len(part[c]) > 0 /\ Top(part[c]) = LabelComp(line[to[c]])
    BY <1>4 DEF LineInv, SpellInv
  <2>2. Top(part[c]) = [kind |-> "label", label |-> line[to[c]]]
    BY <2>1 DEF LabelComp
  <2>3. Len(part[c]) \in DOMAIN part[c] /\ c \in 0 .. NumCycles
    BY <1>1, <2>1, PartType
  <2>4. part[c][Len(part[c])] = [kind |-> "label", label |-> line[to[c]]]
    BY <2>2 DEF Top
  <2>5. containing[part[c][Len(part[c])].label] = c
    BY <2>3, <2>4 DEF TableInv
  <2> QED BY <2>2, <2>4, <2>5 DEF CycleHead
<1> QED BY <1>1, <1>2, <1>3, <1>5, <1>6 DEF Spans

(***************************************************************************)
(* A place of a partition is in one of its components.                     *)
(***************************************************************************)
LEMMA PieceAt ==
    ASSUME TypeOK, visit_stack = <<>>, NEW line, NEW from, NEW to, LineInv(line, from, to),
           NEW c \in 0 .. NumCycles, NEW p \in Nat, from[c] < p, p <= to[c]
    PROVE  \E k \in 1 .. Len(part[c]), a, b \in Nat :
              /\ PieceOK(part[c][k], a, b, line, from, to)
              /\ from[c] <= a /\ a < p /\ p <= b /\ b <= to[c]
<1>1. PICK cut : /\ Cuts(part[c], cut, line, from, to)
                 /\ cut[0] = from[c] /\ cut[Len(part[c])] = to[c]
  BY DEF LineInv, SpellInv
<1>2. PICK N \in Nat : N = Len(part[c])
  BY PartType
<1>3. /\ \A k \in 0 .. N : cut[k] \in Nat
      /\ \A k \in 1 .. N : PieceOK(part[c][k], cut[k - 1], cut[k], line, from, to) /\ part[c][k] \in Component
  <2>1. cut \in [0 .. N -> Nat] /\ \A k \in 1 .. N : PieceOK(part[c][k], cut[k - 1], cut[k], line, from, to)
    BY <1>1, <1>2 DEF Cuts
  <2>2. \A k \in 1 .. N : part[c][k] \in Component
    BY <1>2, PartType
  <2> QED BY <2>1, <2>2, SMTT(60)
<1>4. \A d \in 1 .. NumCycles : from[d] < to[d]
  BY AllClosed DEF LineInv, LaminarInv
<1>5. ASSUME NEW k \in 1 .. N
      PROVE  cut[k - 1] <= cut[k]
  <2>1. cut[k - 1] \in Nat /\ cut[k] \in Nat
    BY <1>3
  <2>2. part[c][k].kind = "label" \/ part[c][k].kind = "cycle"
    BY <1>3 DEF Component
  <2>3. \A x, a, b : x.kind = "cycle" /\ PieceOK(x, a, b, line, from, to) => a < b
    BY <1>4 DEF PieceOK, Closed
  <2>4. \A x, a, b : x.kind = "label" /\ PieceOK(x, a, b, line, from, to) => b = a + 1
    BY DEF PieceOK
  <2>5. PieceOK(part[c][k], cut[k - 1], cut[k], line, from, to)
    BY <1>3, SMTT(60)
  <2>6. cut[k - 1] < cut[k] \/ cut[k] = cut[k - 1] + 1
    BY <2>2, <2>3, <2>4, <2>5
  <2> QED BY <2>1, <2>6
<1>6. \A k \in 0 .. N : cut[0] <= cut[k]
  <2> DEFINE T == {k \in 0 .. N : cut[0] <= cut[k]}
  <2>1. 0 \in T
    BY <1>3
  <2>2. ASSUME NEW k \in 0 .. N - 1, k \in T PROVE k + 1 \in T
    <3>1. k + 1 \in 1 .. N /\ (k + 1) - 1 = k /\ 0 \in 0 .. N /\ k \in 0 .. N /\ k + 1 \in 0 .. N
      OBVIOUS
    <3>2. cut[k] <= cut[k + 1] /\ cut[0] <= cut[k]
      BY <1>5, <2>2, <3>1
    <3>3. cut[0] <= cut[k + 1]
      BY <1>3, <3>1, <3>2
    <3> QED BY <3>1, <3>3
  <2> HIDE DEF T
  <2>3. \A k \in 0 .. N : k \in T
    BY <2>1, <2>2, RangeInduction
  <2> QED BY <2>3 DEF T
<1>7. \A k \in 0 .. N : cut[k] <= cut[N]
  <2> DEFINE T == {j \in 0 .. N : cut[N - j] <= cut[N]}
  <2>1. 0 \in T
    BY <1>3
  <2>2. ASSUME NEW j \in 0 .. N - 1, j \in T PROVE j + 1 \in T
    <3>1. N - j \in 1 .. N /\ (N - j) - 1 = N - (j + 1) /\ N - j \in 0 .. N /\ N - (j + 1) \in 0 .. N /\ N \in 0 .. N
          /\ j + 1 \in 0 .. N
      OBVIOUS
    <3>2. cut[N - (j + 1)] <= cut[N - j] /\ cut[N - j] <= cut[N]
      BY <1>5, <2>2, <3>1
    <3>3. cut[N - (j + 1)] <= cut[N]
      BY <1>3, <3>1, <3>2, SMTT(60)
    <3> QED BY <3>1, <3>3
  <2> HIDE DEF T
  <2>3. \A j \in 0 .. N : j \in T
    BY <2>1, <2>2, RangeInduction
  <2>4. \A k \in 0 .. N : N - k \in 0 .. N /\ N - (N - k) = k
    OBVIOUS
  <2> QED BY <2>3, <2>4 DEF T
<1>8. \E k \in 1 .. N : cut[k - 1] < p /\ p <= cut[k]
  <2> SUFFICES ASSUME \A k \in 1 .. N : ~ (cut[k - 1] < p /\ p <= cut[k])
               PROVE  FALSE
    OBVIOUS
  <2> DEFINE T == {k \in 0 .. N : cut[k] < p}
  <2>1. 0 \in T
    BY <1>1
  <2>2. ASSUME NEW k \in 0 .. N - 1, k \in T PROVE k + 1 \in T
    <3>1. k + 1 \in 1 .. N /\ (k + 1) - 1 = k /\ k + 1 \in 0 .. N /\ cut[k + 1] \in Nat
      BY <1>3
    <3>2. ~ (p <= cut[k + 1])
      BY <2>2, <3>1
    <3> QED BY <3>1, <3>2
  <2> HIDE DEF T
  <2>3. \A k \in 0 .. N : k \in T
    BY <2>1, <2>2, RangeInduction
  <2>4. N \in 0 .. N /\ cut[N] \in Nat /\ p <= cut[N]
    BY <1>1, <1>2, <1>3
  <2>5. cut[N] < p
    BY <2>3, <2>4 DEF T
  <2> QED BY <2>4, <2>5
<1>9. PICK k \in 1 .. N : cut[k - 1] < p /\ p <= cut[k]
  BY <1>8
<1>10. PICK a, b : a = cut[k - 1] /\ b = cut[k]
  OBVIOUS
<1>11. a \in Nat /\ b \in Nat /\ PieceOK(part[c][k], a, b, line, from, to) /\ from[c] <= a /\ b <= to[c]
  <2>1. k - 1 \in 0 .. N /\ k \in 0 .. N
    OBVIOUS
  <2> QED BY <1>1, <1>2, <1>3, <1>6, <1>7, <1>10, <2>1, SMTT(60)
<1> QED BY <1>2, <1>9, <1>10, <1>11, SMTT(60)

(***************************************************************************)
(* containing_cycle_map names the innermost cycle around a place, and a    *)
(* parent link the innermost one around a cycle.                           *)
(***************************************************************************)
Innermost(line, from, to, c, p) ==
    LET e == containing[line[p]]
    IN  c <= e /\ e <= NumCycles /\ from[c] <= from[e] /\ from[e] < p /\ p <= to[e] /\ to[e] <= to[c]
InnermostParent(from, to, c, e) ==
    LET q == parent[e]
    IN  c <= q /\ q < e /\ from[c] <= from[q] /\ from[q] <= from[e] /\ to[e] <= to[q] /\ to[q] <= to[c]

LEMMA InnermostNamed ==
    ASSUME TypeOK, TableInv, ChildCycleAfterParent, visit_stack = <<>>,
           NEW line, NEW from, NEW to, LineInv(line, from, to), Spans(line, from, to)
    PROVE  \A c \in 0 .. NumCycles :
              /\ \A p \in 1 .. Len(line) : from[c] < p /\ p <= to[c] => Innermost(line, from, to, c, p)
              /\ \A e \in 1 .. NumCycles : e # c /\ from[c] < to[e] /\ to[e] <= to[c] => InnermostParent(from, to, c, e)
<1> DEFINE Good(c) ==
              /\ \A p \in 1 .. Len(line) : from[c] < p /\ p <= to[c] => Innermost(line, from, to, c, p)
              /\ \A e \in 1 .. NumCycles : e # c /\ from[c] < to[e] /\ to[e] <= to[c] => InnermostParent(from, to, c, e)
<1>1. PICK N : N = NumCycles /\ N \in Nat
  BY DEF Spans
<1>2. \A c \in 0 .. N : from[c] \in Nat /\ to[c] \in Nat /\ to[c] <= Len(line)
  BY <1>1 DEF Spans
<1>3. ASSUME NEW c \in 0 .. N, \A d \in 0 .. N : c < d => Good(d)
      PROVE  Good(c)
  <2>1. ASSUME NEW p \in 1 .. Len(line), from[c] < p, p <= to[c]
        PROVE  \/ containing[line[p]] = c
               \/ \E d \in 1 .. N : /\ c < d /\ from[c] <= from[d] /\ from[d] < p /\ p <= to[d] /\ to[d] <= to[c]
                                    /\ parent[d] = c
    <3>1. PICK k \in 1 .. Len(part[c]), a \in Nat, b \in Nat :
             /\ PieceOK(part[c][k], a, b, line, from, to)
             /\ from[c] <= a /\ a < p /\ p <= b /\ b <= to[c]
      <4>1. p \in Nat /\ c \in 0 .. NumCycles
        BY <1>1
      <4> QED BY <2>1, <4>1, PieceAt, SMTT(60)
    <3>2. part[c][k] \in Component /\ k \in DOMAIN part[c] /\ c \in 0 .. NumCycles
      BY <1>1, PartType
    <3>3. CASE part[c][k].kind = "label"
      <4>1. b = a + 1 /\ line[b] = part[c][k].label
        BY <3>1, <3>3 DEF PieceOK
      <4>2. p = b
        BY <3>1, <4>1
      <4> QED BY <3>2, <3>3, <4>1, <4>2, SMTT(60) DEF TableInv
    <3>4. CASE part[c][k].kind = "cycle"
      <4>1. PICK d : d = part[c][k].idx
        OBVIOUS
      <4>2. Closed(d) /\ a = from[d] /\ b = to[d]
        BY <3>1, <3>4, <4>1 DEF PieceOK
      <4>3. d > c /\ d <= NumCycles /\ parent[d] = c
        BY <3>2, <3>4, <4>1 DEF ChildCycleAfterParent
      <4>4. d \in 1 .. N /\ c < d
        BY <1>1, <4>2, <4>3 DEF Closed
      <4> QED BY <3>1, <4>2, <4>3, <4>4, SMTT(60)
    <3> QED BY <3>2, <3>3, <3>4 DEF Component
  <2>2. ASSUME NEW p \in 1 .. Len(line), from[c] < p, p <= to[c]
        PROVE  Innermost(line, from, to, c, p)
    <3>1. CASE containing[line[p]] = c
      BY <1>1, <1>2, <2>2, <3>1 DEF Innermost
    <3>2. CASE \E d \in 1 .. N : c < d /\ from[c] <= from[d] /\ from[d] < p /\ p <= to[d] /\ to[d] <= to[c]
      <4>1. PICK d \in 1 .. N : c < d /\ from[c] <= from[d] /\ from[d] < p /\ p <= to[d] /\ to[d] <= to[c]
        BY <3>2
      <4>2. d \in 0 .. N
        OBVIOUS
      <4>3. Innermost(line, from, to, d, p)
        BY <1>3, <4>1, <4>2
      <4>4. PICK e : e = containing[line[p]]
        OBVIOUS
      <4>5. d <= e /\ e <= N /\ from[d] <= from[e] /\ from[e] < p /\ p <= to[e] /\ to[e] <= to[d]
        BY <1>1, <4>3, <4>4 DEF Innermost
      <4>6. e \in 0 .. N
        <5>1. line[p] \in Labels
          BY DEF Spans
        <5> QED BY <1>1, <4>4, <5>1 DEF TypeOK
      <4>7. from[d] \in Nat /\ to[d] \in Nat /\ from[e] \in Nat /\ to[e] \in Nat /\ from[c] \in Nat /\ to[c] \in Nat
        BY <1>2, <4>2, <4>6
      <4>8. c <= e /\ from[c] <= from[e] /\ to[e] <= to[c]
        BY <4>1, <4>5, <4>6, <4>7, SMTT(60)
      <4> QED BY <1>1, <4>4, <4>5, <4>8 DEF Innermost
    <3> QED BY <2>1, <2>2, <3>1, <3>2
  <2>3. ASSUME NEW e \in 1 .. NumCycles, e # c, from[c] < to[e], to[e] <= to[c]
        PROVE  InnermostParent(from, to, c, e)
    <3>1. PICK p : p = to[e]
      OBVIOUS
    <3>2. p \in 1 .. Len(line) /\ containing[line[p]] = e /\ e \in 0 .. N /\ e \in 1 .. N
      <4>1. e \in 0 .. N
        BY <1>1
      <4>2. to[e] \in Nat /\ to[e] <= Len(line) /\ from[c] \in Nat
        BY <1>2, <4>1
      <4>3. to[e] \in 1 .. Len(line)
        BY <2>3, <4>2 DEF Spans
      <4> QED BY <1>1, <3>1, <4>1, <4>3 DEF Spans
    <3>3. PICK d \in 1 .. N : /\ c < d /\ from[c] <= from[d] /\ from[d] < p /\ p <= to[d] /\ to[d] <= to[c]
                              /\ parent[d] = c
      BY <2>1, <2>3, <3>1, <3>2
    <3>4. d \in 0 .. N /\ from[d] \in Nat /\ to[d] \in Nat /\ from[c] \in Nat /\ to[c] \in Nat
          /\ from[e] \in Nat /\ to[e] \in Nat
      BY <1>2, <3>2, SMTT(60)
    <3>5. CASE d = e
      BY <3>3, <3>4, <3>5 DEF InnermostParent
    <3>6. CASE d # e
      <4>1. InnermostParent(from, to, d, e)
        BY <1>3, <3>1, <3>2, <3>3, <3>4, <3>6
      <4>2. PICK q : q = parent[e]
        OBVIOUS
      <4>3. d <= q /\ q < e /\ from[d] <= from[q] /\ from[q] <= from[e] /\ to[e] <= to[q] /\ to[q] <= to[d]
        BY <4>1, <4>2 DEF InnermostParent
      <4>4. q \in 0 .. N
        BY <1>1, <3>2, <4>2, SMTT(60) DEF TypeOK, NumCycles
      <4>5. from[q] \in Nat /\ to[q] \in Nat
        BY <1>2, <4>4
      <4>6. c <= q /\ from[c] <= from[q] /\ to[q] <= to[c]
        BY <3>3, <3>4, <4>3, <4>4, <4>5, SMTT(60)
      <4> QED BY <4>2, <4>3, <4>6 DEF InnermostParent
    <3> QED BY <3>5, <3>6
  <2> QED BY <2>2, <2>3
<1> HIDE DEF Good
<1> DEFINE T == {i \in 0 .. N : \A d \in 0 .. N : d >= N - i => Good(d)}
<1>4. 0 \in T
  <2>1. N \in 0 .. N /\ 0 \in 0 .. N /\ \A d \in 0 .. N : (N < d => FALSE) /\ (d >= N - 0 => d = N)
    BY <1>1
  <2>2. Good(N)
    BY <1>3, <2>1
  <2> QED BY <2>1, <2>2
<1>5. ASSUME NEW i \in 0 .. N - 1, i \in T PROVE i + 1 \in T
  <2>1. /\ N - (i + 1) \in 0 .. N /\ i + 1 \in 0 .. N
        /\ \A d \in 0 .. N : /\ N - (i + 1) < d => d >= N - i
                             /\ d >= N - (i + 1) => d = N - (i + 1) \/ d >= N - i
    BY <1>1
  <2>2. \A d \in 0 .. N : d >= N - i => Good(d)
    BY <1>5
  <2>3. Good(N - (i + 1))
    BY <1>3, <2>1, <2>2
  <2> QED BY <2>1, <2>2, <2>3
<1>6. N \in T
  <2> HIDE DEF T
  <2>1. \A i \in 0 .. N : i \in T
    BY <1>1, <1>4, <1>5, RangeInduction, SMTT(60)
  <2> QED BY <1>1, <2>1
<1>7. \A c \in 0 .. N : Good(c)
  <2>1. \A c \in 0 .. N : c >= N - N
    BY <1>1
  <2> QED BY <1>6, <2>1
<1> QED BY <1>1, <1>7 DEF Good

(***************************************************************************)
(* Wto::head looks for the innermost cycle strictly around a place.        *)
(***************************************************************************)
Inner(l) ==
    LET c == containing[l]
    IN  IF c = 0 THEN 0 ELSE IF CycleHead(c) = l THEN parent[c] ELSE c

LEMMA Head1IsInner ==
    \A l : Head1(l) = IF Inner(l) = 0 THEN NoLabel ELSE CycleHead(Inner(l))
BY DEF Head1, Inner

\* Cycle d is strictly around place p.
Round0(from, to, d, p) == from[d] < p /\ p < to[d]

LEMMA InnerIs ==
    ASSUME TypeOK, TableInv, ChildCycleAfterParent, visit_stack = <<>>,
           NEW line, NEW from, NEW to, LineInv(line, from, to), Spans(line, from, to),
           NEW p \in 1 .. Len(line), NEW e, e = Inner(line[p])
    PROVE  /\ e \in 0 .. NumCycles
           /\ e # 0 => Round0(from, to, e, p)
           /\ \A d \in 1 .. NumCycles : Round0(from, to, d, p) => e # 0 /\ from[d] <= from[e] /\ to[e] <= to[d]
<1>1. PICK N : N = NumCycles /\ N \in Nat
  BY DEF Spans
<1>2. /\ \A c \in 0 .. N : from[c] \in Nat /\ to[c] \in Nat /\ to[c] <= Len(line)
      /\ from[0] = 0 /\ to[0] = Len(line) /\ p \in Nat
      /\ \A c, d \in 1 .. N : to[c] = to[d] => c = d
      /\ \A c \in 1 .. N : from[c] < to[c] /\ to[c] \in 1 .. Len(line)
  <2>1. /\ \A c \in 0 .. N : from[c] \in Nat /\ to[c] \in Nat /\ to[c] <= Len(line)
        /\ from[0] = 0 /\ to[0] = Len(line) /\ p \in Nat
        /\ \A c, d \in 1 .. N : to[c] = to[d] => c = d
        /\ \A c \in 1 .. N : from[c] < to[c]
    BY <1>1 DEF Spans
  <2>2. \A c \in 1 .. N : c \in 0 .. N
    BY <1>1
  <2> QED BY <2>1, <2>2
<1>3. /\ \A c \in 0 .. N : from[c] < p /\ p <= to[c] => Innermost(line, from, to, c, p)
      /\ \A c \in 0 .. N : \A d \in 1 .. N : d # c /\ from[c] < to[d] /\ to[d] <= to[c] => InnermostParent(from, to, c, d)
  BY <1>1, InnermostNamed
<1>4. PICK c : c = containing[line[p]]
  OBVIOUS
<1>5. c \in 0 .. N /\ from[c] < p /\ p <= to[c]
  <2>1. 0 \in 0 .. N /\ from[0] < p /\ p <= to[0]
    BY <1>1, <1>2
  <2>2. Innermost(line, from, to, 0, p)
    BY <1>3, <2>1
  <2>3. line[p] \in Labels
    BY DEF Spans
  <2>4. c \in 0 .. N
    BY <1>1, <1>4, <2>3, SMTT(60) DEF TypeOK
  <2> QED BY <1>4, <2>2, <2>4 DEF Innermost
<1>6. \A d \in 1 .. N : Round0(from, to, d, p) => d <= c /\ from[d] <= from[c] /\ to[c] <= to[d]
  <2> SUFFICES ASSUME NEW d \in 1 .. N, Round0(from, to, d, p)
               PROVE  d <= c /\ from[d] <= from[c] /\ to[c] <= to[d]
    OBVIOUS
  <2>1. d \in 0 .. N /\ from[d] < p /\ p <= to[d]
    BY <1>1, <1>2 DEF Round0
  <2>2. Innermost(line, from, to, d, p)
    BY <1>3, <2>1
  <2> QED BY <1>4, <2>2 DEF Innermost
<1>7. CASE c = 0
  <2>1. e = 0
    BY <1>4, <1>7 DEF Inner
  <2> QED BY <1>1, <1>6, <1>7, <2>1
<1>8. CASE c # 0 /\ CycleHead(c) # line[p]
  <2>1. e = c /\ c \in 1 .. N
    BY <1>4, <1>5, <1>8 DEF Inner
  <2>2. p # to[c]
    BY <1>1, <1>8, <2>1 DEF Spans
  <2>3. Round0(from, to, c, p)
    BY <1>2, <1>5, <2>2 DEF Round0
  <2> QED BY <1>1, <1>5, <1>6, <1>8, <2>1, <2>3
<1>9. CASE c # 0 /\ CycleHead(c) = line[p]
  <2>1. e = parent[c] /\ c \in 1 .. N
    BY <1>4, <1>5, <1>9 DEF Inner
  <2>2. p = to[c]
    <3>1. CycleHead(c) = line[to[c]] /\ to[c] \in 1 .. Len(line)
      BY <1>1, <1>2, <2>1 DEF Spans
    <3>2. line[p] = line[to[c]]
      BY <1>9, <3>1
    <3>3. \A x, y \in 1 .. Len(line) : line[x] = line[y] => x = y
      BY DEF Spans
    <3> QED BY <3>1, <3>2, <3>3
  <2>3. \A d \in 0 .. N : d # c /\ from[d] < to[c] /\ to[c] <= to[d] => InnermostParent(from, to, d, c)
    BY <1>3, <2>1
  <2>4. InnermostParent(from, to, 0, c)
    <3>1. 0 \in 0 .. N /\ 0 # c /\ from[0] < to[c] /\ to[c] <= to[0]
      BY <1>1, <1>2, <1>9, <2>1
    <3> QED BY <2>3, <3>1
  <2>5. e \in 0 .. N
    BY <1>1, <2>1 DEF TypeOK, NumCycles
  <2>6. e < c /\ from[e] <= from[c] /\ to[c] <= to[e]
    BY <2>1, <2>4 DEF InnermostParent
  <2>7. e # 0 => Round0(from, to, e, p)
    <3> SUFFICES ASSUME e # 0 PROVE Round0(from, to, e, p)
      OBVIOUS
    <3>1. e \in 1 .. N /\ e # c
      BY <2>5, <2>6
    <3>2. to[e] # to[c]
      BY <1>2, <2>1, <3>1
    <3>3. from[e] \in Nat /\ to[e] \in Nat /\ from[c] \in Nat /\ to[c] \in Nat /\ from[c] < to[c]
      BY <1>2, <2>1, <1>5, <2>5
    <3> QED BY <2>2, <2>6, <3>2, <3>3 DEF Round0
  <2>8. ASSUME NEW d \in 1 .. N, Round0(from, to, d, p)
        PROVE  e # 0 /\ from[d] <= from[e] /\ to[e] <= to[d]
    <3>1. d \in 0 .. N /\ d # c /\ from[d] < to[c] /\ to[c] <= to[d]
      BY <1>1, <1>2, <2>1, <2>2, <2>8 DEF Round0
    <3>2. InnermostParent(from, to, d, c)
      BY <2>3, <3>1
    <3> QED BY <2>1, <2>5, <3>2 DEF InnermostParent
  <2> QED BY <1>1, <2>5, <2>7, <2>8
<1> QED BY <1>7, <1>8, <1>9

\* The head of the innermost cycle lies further on, has one cycle less around
\* it, and names a cycle with a smaller number.
LEMMA InnerStep ==
    ASSUME TypeOK, TableInv, ChildCycleAfterParent, visit_stack = <<>>,
           NEW line, NEW from, NEW to, LineInv(line, from, to), Spans(line, from, to),
           NEW p \in 1 .. Len(line), NEW e, e = Inner(line[p]), e # 0
    PROVE  /\ e \in 1 .. NumCycles /\ CycleHead(e) = line[to[e]] /\ to[e] \in 1 .. Len(line) /\ p < to[e]
           /\ Round0(from, to, e, p)
           /\ \A d \in 1 .. NumCycles : Round0(from, to, d, to[e]) <=> Round0(from, to, d, p) /\ d # e
           /\ Inner(line[to[e]]) < e
<1>1. PICK N : N = NumCycles /\ N \in Nat
  BY DEF Spans
<1>2. e \in 0 .. N /\ Round0(from, to, e, p)
      /\ \A d \in 1 .. N : Round0(from, to, d, p) => from[d] <= from[e] /\ to[e] <= to[d]
  BY <1>1, InnerIs
<1>3. e \in 1 .. N /\ p \in Nat
  BY <1>2
<1>4. from[e] \in Nat /\ to[e] \in Nat /\ to[e] <= Len(line) /\ from[e] < to[e] /\ CycleHead(e) = line[to[e]]
  BY <1>1, <1>2, <1>3 DEF Spans
<1>5. p < to[e] /\ from[e] < p /\ to[e] \in 1 .. Len(line)
  BY <1>2, <1>3, <1>4 DEF Round0
<1>6. ASSUME NEW d \in 1 .. N
      PROVE  Round0(from, to, d, to[e]) <=> Round0(from, to, d, p) /\ d # e
  <2>1. d \in 0 .. N
    BY <1>1
  <2>2. from[d] \in Nat /\ to[d] \in Nat /\ (to[d] = to[e] => d = e)
    BY <1>1, <1>3, <2>1 DEF Spans
  <2>3. CASE d = e
    BY <1>4, <2>3 DEF Round0
  <2>4. CASE d # e
    <3>1. ASSUME Round0(from, to, d, to[e]) PROVE Round0(from, to, d, p)
      <4>1. from[d] < to[e] /\ to[e] <= to[d] /\ to[e] < to[d]
        BY <1>4, <2>2, <3>1 DEF Round0
      <4>2. from[d] <= from[e]
        BY <1>1, <1>3, <4>1 DEF Spans
      <4> QED BY <1>3, <1>4, <1>5, <2>2, <4>1, <4>2, SMTT(60) DEF Round0
    <3>2. ASSUME Round0(from, to, d, p) PROVE Round0(from, to, d, to[e])
      <4>1. from[d] <= from[e] /\ to[e] <= to[d]
        BY <1>2, <3>2
      <4> QED BY <1>4, <2>2, <2>4, <4>1, SMTT(60) DEF Round0
    <3> QED BY <2>4, <3>1, <3>2, SMTT(60)
  <2> QED BY <2>3, <2>4
<1>7. Inner(line[to[e]]) < e
  <2>1. containing[line[to[e]]] = e
    BY <1>1, <1>3, SMTT(60) DEF Spans
  <2>2. Inner(line[to[e]]) = parent[e]
    BY <1>3, <1>4, <2>1 DEF Inner
  <2>3. 0 \in 0 .. NumCycles /\ e \in 1 .. NumCycles /\ e # 0 /\ from[0] < to[e] /\ to[e] <= to[0]
    BY <1>1, <1>3, <1>4, <1>5 DEF Spans
  <2>4. InnermostParent(from, to, 0, e)
    BY <2>3, InnermostNamed
  <2> QED BY <2>2, <2>4 DEF InnermostParent
<1> QED BY <1>1, <1>2, <1>3, <1>4, <1>5, <1>6, <1>7, SMTT(60)

-----------------------------------------------------------------------------
(***************************************************************************)
(* collect_heads: the heads one finds from a label outwards.               *)
(***************************************************************************)
NextHead(x) == IF x = NoLabel THEN NoLabel ELSE Head1(x)
Chain(h, l) == h[0] = l /\ \A k \in 0 .. NumCycles : h[k + 1] = NextHead(h[k])

LEMMA ChainDefined ==
    ASSUME NumCycles \in Nat, NEW l
    PROVE  \E h : /\ Chain(h, l)
                  /\ CollectHeads(l) = [k \in 1 .. Max({k \in 0 .. NumCycles + 1 : h[k] # NoLabel}) |-> h[k]]
<1> DEFINE Round(h, k) == IF k = 0 THEN l ELSE IF h[k - 1] = NoLabel THEN NoLabel ELSE Head1(h[k - 1])
           body(h) == [k \in 0 .. NumCycles + 1 |-> Round(h, k)]
           g == CHOOSE h : h = body(h)
<1>1. CollectHeads(l) = [k \in 1 .. Max({k \in 0 .. NumCycles + 1 : g[k] # NoLabel}) |-> g[k]]
  BY DEF CollectHeads
<1>2. PICK N \in Nat : N = NumCycles + 1
  OBVIOUS
<1>3. \E h : h = body(h)
  <2> DEFINE T == {K \in 0 .. N : \E f : \A k \in 0 .. K : f[k] = Round(f, k)}
  <2>1. 0 \in T
    <3>1. PICK f : f = [k \in 0 .. N |-> l]
      OBVIOUS
    <3>2. \A k \in 0 .. 0 : f[k] = Round(f, k)
      BY <3>1
    <3> QED BY <3>2
  <2>2. ASSUME NEW K \in 0 .. N - 1, K \in T PROVE K + 1 \in T
    <3>1. PICK f : \A k \in 0 .. K : f[k] = Round(f, k)
      BY <2>2
    <3>2. PICK f2 : f2 = [k \in 0 .. N |-> IF k <= K THEN f[k] ELSE NextHead(f[K])]
      OBVIOUS
    <3>3. ASSUME NEW k \in 0 .. K + 1 PROVE f2[k] = Round(f2, k)
      <4>1. CASE k = 0
        <5>1. 0 \in 0 .. K /\ 0 \in 0 .. N /\ 0 <= K
          OBVIOUS
        <5> QED BY <3>1, <3>2, <4>1, <5>1
      <4>2. CASE k # 0 /\ k <= K
        <5>1. k \in 0 .. K /\ k \in 0 .. N /\ k - 1 \in 0 .. N /\ k - 1 <= K
          BY <4>2
        <5>2. f[k] = Round(f, k)
          BY <3>1, <5>1
        <5>3. f2[k] = f[k] /\ f2[k - 1] = f[k - 1]
          BY <3>2, <4>2, <5>1
        <5> QED BY <4>2, <5>2, <5>3
      <4>3. CASE k = K + 1
        <5>1. k # 0 /\ k \in 0 .. N /\ ~ (k <= K) /\ k - 1 = K /\ K \in 0 .. N /\ K <= K
          BY <4>3
        <5>2. f2[k] = NextHead(f[K]) /\ f2[k - 1] = f[K]
          BY <3>2, <5>1
        <5> QED BY <5>1, <5>2 DEF NextHead
      <4> QED BY <4>1, <4>2, <4>3
    <3> HIDE DEF Round
    <3> QED BY <3>3
  <2> HIDE DEF T
  <2>3. N \in T
    <3>1. \A K \in 0 .. N : K \in T
      BY <2>1, <2>2, RangeInduction
    <3> QED BY <3>1
  <2>4. PICK f : \A k \in 0 .. N : f[k] = Round(f, k)
    BY <2>3 DEF T
  <2>5. PICK f2 : f2 = [k \in 0 .. N |-> f[k]]
    OBVIOUS
  <2>6. \A k \in 0 .. N : f2[k] = Round(f2, k)
    <3> SUFFICES ASSUME NEW k \in 0 .. N PROVE f2[k] = Round(f2, k)
      OBVIOUS
    <3>1. f2[k] = f[k] /\ (k # 0 => k - 1 \in 0 .. N /\ f2[k - 1] = f[k - 1])
      BY <2>5
    <3>2. f[k] = Round(f, k)
      BY <2>4
    <3> QED BY <3>1, <3>2
  <2> HIDE DEF Round
  <2>7. f2 = body(f2)
    BY <1>2, <2>5, <2>6
  <2> QED BY <2>7
<1>4. g = body(g)
  <2> HIDE DEF body
  <2> QED BY <1>3
<1> HIDE DEF g
<1>5. \A k \in 0 .. N : g[k] = Round(g, k)
  BY <1>2, <1>4
<1>6. g[0] = l
  <2>1. 0 \in 0 .. N
    BY <1>2
  <2>2. g[0] = Round(g, 0)
    BY <1>5, <2>1
  <2> QED BY <2>2
<1>7. ASSUME NEW k \in 0 .. NumCycles
      PROVE  g[k + 1] = NextHead(g[k])
  <2>1. k + 1 \in 0 .. N /\ k + 1 # 0 /\ (k + 1) - 1 = k
    BY <1>2
  <2>2. g[k + 1] = Round(g, k + 1)
    BY <1>5, <2>1
  <2> QED BY <2>1, <2>2 DEF NextHead
<1>8. Chain(g, l)
  BY <1>6, <1>7 DEF Chain
<1> QED BY <1>1, <1>8

\* A chain that ends has a last head.
LEMMA ChainEnds ==
    ASSUME NumCycles \in Nat, NEW l, l # NoLabel, NEW h, Chain(h, l), h[NumCycles + 1] = NoLabel
    PROVE  \E D \in 0 .. NumCycles :
              /\ \A k \in 0 .. NumCycles + 1 : h[k] # NoLabel <=> k <= D
              /\ Max({k \in 0 .. NumCycles + 1 : h[k] # NoLabel}) = D
<1>1. PICK N \in Nat : N = NumCycles
  OBVIOUS
<1> DEFINE Ends(D) == D \in 0 .. N /\ h[D + 1] = NoLabel /\ \A k \in 0 .. D : h[k] # NoLabel
<1>2. \E D \in 0 .. N : Ends(D)
  <2> SUFFICES ASSUME \A D \in 0 .. N : ~ Ends(D) PROVE FALSE
    OBVIOUS
  <2> DEFINE T == {D \in 0 .. N + 1 : \A k \in 0 .. D : h[k] # NoLabel}
  <2>1. 0 \in T
    <3>1. 0 \in 0 .. N + 1 /\ h[0] # NoLabel /\ \A k \in 0 .. 0 : k = 0
      BY DEF Chain
    <3> QED BY <3>1
  <2>2. ASSUME NEW D \in 0 .. (N + 1) - 1, D \in T PROVE D + 1 \in T
    <3>1. D \in 0 .. N /\ D + 1 \in 0 .. N + 1 /\ \A k \in 0 .. D + 1 : k = D + 1 \/ k \in 0 .. D
      OBVIOUS
    <3>2. \A k \in 0 .. D : h[k] # NoLabel
      BY <2>2
    <3>3. h[D + 1] # NoLabel
      BY <3>1, <3>2
    <3> QED BY <3>1, <3>2, <3>3
  <2> HIDE DEF T
  <2>3. N + 1 \in Nat
    OBVIOUS
  <2>4. \A D \in 0 .. N + 1 : D \in T
    BY <2>1, <2>2, <2>3, RangeInduction
  <2>5. N + 1 \in T /\ N + 1 \in 0 .. N + 1
    BY <2>4
  <2> QED BY <1>1, <2>5 DEF T
<1>3. PICK D \in 0 .. N : Ends(D)
  BY <1>2
<1> DEFINE U == {i \in 0 .. N - D : h[D + 1 + i] = NoLabel}
<1>4. \A i \in 0 .. N - D : i \in U
  <2>1. N - D \in Nat /\ D + 1 + 0 = D + 1
    OBVIOUS
  <2>2. 0 \in U
    BY <1>3, <2>1
  <2>3. ASSUME NEW i \in 0 .. (N - D) - 1, i \in U PROVE i + 1 \in U
    <3>1. D + 1 + i \in 0 .. N /\ (D + 1 + i) + 1 = D + 1 + (i + 1) /\ i + 1 \in 0 .. N - D
      OBVIOUS
    <3>2. h[(D + 1 + i) + 1] = NextHead(h[D + 1 + i])
      BY <1>1, <3>1 DEF Chain
    <3>3. h[D + 1 + (i + 1)] = NoLabel
      BY <2>3, <3>1, <3>2 DEF NextHead
    <3> QED BY <3>1, <3>3
  <2> HIDE DEF U
  <2> QED BY <2>1, <2>2, <2>3, RangeInduction
<1>5. ASSUME NEW k \in 0 .. N + 1
      PROVE  h[k] # NoLabel <=> k <= D
  <2>1. CASE k <= D
    <3>1. k \in 0 .. D
      BY <2>1
    <3> QED BY <1>3, <2>1, <3>1
  <2>2. CASE ~ (k <= D)
    <3>1. k - (D + 1) \in 0 .. N - D /\ D + 1 + (k - (D + 1)) = k
      BY <2>2
    <3>2. k - (D + 1) \in U
      BY <1>4, <3>1
    <3> QED BY <2>2, <3>1, <3>2
  <2> QED BY <2>1, <2>2
<1> HIDE DEF U, Ends
<1> DEFINE S == {k \in 0 .. N + 1 : h[k] # NoLabel}
<1>6. S = 0 .. D
  BY <1>5
<1>7. Max(S) = D
  <2>1. D \in S /\ (\A y \in S : D >= y) /\ \A x \in S : (\A y \in S : x >= y) => x = D
    BY <1>6
  <2> HIDE DEF S
  <2> QED BY <2>1 DEF Max
<1> QED BY <1>1, <1>5, <1>7

\* The first place where the line has a label.
PlaceOf(line, l) == CHOOSE p \in 1 .. Len(line) : line[p] = l

LEMMA PlaceIs ==
    ASSUME NEW line, NEW from, NEW to, Spans(line, from, to), NEW p \in 1 .. Len(line)
    PROVE  PlaceOf(line, line[p]) = p /\ line[p] # NoLabel
<1>1. line[p] \in Labels /\ \A q \in 1 .. Len(line) : line[q] = line[p] => q = p
  BY DEF Spans
<1>2. line[p] # NoLabel
  BY <1>1, LabelsAssumption DEF NoLabel
<1> QED BY <1>1, <1>2 DEF PlaceOf

(***************************************************************************)
(* The heads collected from a place are those of the cycles strictly       *)
(* around it, from the inside to the outside.                              *)
(***************************************************************************)
Collected(h, line, from, to, p, D) ==
    /\ Chain(h, line[p]) /\ D \in 0 .. NumCycles
    /\ \A k \in 0 .. NumCycles + 1 : h[k] # NoLabel <=> k <= D
    /\ CollectHeads(line[p]) = [k \in 1 .. D |-> h[k]]
    /\ \A k \in 1 .. D : \E d \in 1 .. NumCycles : Round0(from, to, d, p) /\ h[k] = line[to[d]]
    /\ \A d \in 1 .. NumCycles : Round0(from, to, d, p) => \E k \in 1 .. D : h[k] = line[to[d]]
    /\ \A i, j \in 1 .. D : i < j => PlaceOf(line, h[i]) < PlaceOf(line, h[j])

\* The k-th head, and what is left around it.
Outward(h, line, from, to, p, k) ==
    LET q == PlaceOf(line, h[k])
    IN  /\ q \in 1 .. Len(line) /\ line[q] = h[k]
        /\ k > 0 => /\ Inner(h[k]) < NumCycles + 1 - k
                    /\ \E d \in 1 .. NumCycles : Round0(from, to, d, p) /\ h[k] = line[to[d]]
        /\ \A d \in 1 .. NumCycles :
              Round0(from, to, d, q) <=> Round0(from, to, d, p) /\ \A i \in 1 .. k : h[i] # line[to[d]]
        /\ \A i \in 1 .. k - 1 : PlaceOf(line, h[i]) \in Nat /\ PlaceOf(line, h[i]) < q

LEMMA OutwardStep ==
    ASSUME TypeOK, TableInv, ChildCycleAfterParent, visit_stack = <<>>,
           NEW line, NEW from, NEW to, LineInv(line, from, to), Spans(line, from, to),
           NEW p \in 1 .. Len(line), NEW h, Chain(h, line[p]), NEW k \in 0 .. NumCycles,
           Outward(h, line, from, to, p, k), h[k + 1] # NoLabel
    PROVE  Outward(h, line, from, to, p, k + 1)
<1>1. PICK q : q = PlaceOf(line, h[k])
  OBVIOUS
<1>2. q \in 1 .. Len(line) /\ line[q] = h[k] /\ h[k] # NoLabel
  BY <1>1, PlaceIs DEF Outward
<1>3. h[k + 1] = Head1(line[q])
  BY <1>2 DEF Chain, NextHead
<1>4. PICK e : e = Inner(line[q])
  OBVIOUS
<1>5. e # 0 /\ h[k + 1] = CycleHead(e)
  BY <1>3, <1>4, Head1IsInner
<1>6. /\ e \in 1 .. NumCycles /\ CycleHead(e) = line[to[e]] /\ to[e] \in 1 .. Len(line) /\ q < to[e]
      /\ Round0(from, to, e, q)
      /\ \A d \in 1 .. NumCycles : Round0(from, to, d, to[e]) <=> Round0(from, to, d, q) /\ d # e
      /\ Inner(line[to[e]]) < e
  <2>1. q \in 1 .. Len(line) /\ e = Inner(line[q]) /\ e # 0
    BY <1>2, <1>4, <1>5
  <2> HIDE <1>4
  <2> QED BY <2>1, InnerStep, SMTT(60)
<1>7. PICK r : r = to[e] /\ r \in 1 .. Len(line)
  BY <1>6
<1>8. PlaceOf(line, h[k + 1]) = r /\ line[r] = h[k + 1]
  BY <1>5, <1>6, <1>7, PlaceIs, SMTT(60)
<1>9. /\ Inner(h[k + 1]) < NumCycles + 1 - (k + 1)
      /\ \E d \in 1 .. NumCycles : Round0(from, to, d, p) /\ h[k + 1] = line[to[d]]
  <2>1. Round0(from, to, e, p)
    BY <1>1, <1>6 DEF Outward
  <2>2. Inner(h[k + 1]) < e
    BY <1>5, <1>6
  <2>3. k > 0 => e < NumCycles + 1 - k
    BY <1>1, <1>2, <1>4 DEF Outward
  <2>4. e <= NumCycles - k /\ Inner(h[k + 1]) \in Int
    <3>1. NumCycles \in Nat
      BY DEF Spans
    <3>2. Inner(line[r]) \in 0 .. NumCycles
      BY <1>7, InnerIs, SMTT(60)
    <3> QED BY <1>6, <1>8, <2>3, <3>1, <3>2, SMTT(60)
  <2>5. Inner(h[k + 1]) < NumCycles + 1 - (k + 1)
    <3>1. PICK x : x = Inner(h[k + 1])
      OBVIOUS
    <3>2. x \in Int /\ x < e /\ e <= NumCycles - k /\ e \in Nat /\ NumCycles \in Nat
      BY <1>6, <2>2, <2>4, <3>1, SMTT(60) DEF Spans
    <3>3. x < NumCycles + 1 - (k + 1)
      BY <3>2
    <3> QED BY <3>1, <3>3
  <2> QED BY <1>5, <1>6, <2>1, <2>5
<1>10. ASSUME NEW d \in 1 .. NumCycles
       PROVE  Round0(from, to, d, r) <=> Round0(from, to, d, p) /\ \A i \in 1 .. k + 1 : h[i] # line[to[d]]
  <2>1. Round0(from, to, d, r) <=> Round0(from, to, d, q) /\ d # e
    BY <1>6, <1>7
  <2>2. Round0(from, to, d, q) <=> Round0(from, to, d, p) /\ \A i \in 1 .. k : h[i] # line[to[d]]
    BY <1>1, SMTT(60) DEF Outward
  <2>3. d # e <=> h[k + 1] # line[to[d]]
    <3>1. d \in 0 .. NumCycles /\ from[d] < to[d]
      BY DEF Spans
    <3>2. to[d] \in 1 .. Len(line)
      BY <3>1 DEF Spans
    <3>3. line[to[d]] = line[to[e]] => to[d] = to[e]
      BY <1>6, <3>2, SMTT(60) DEF Spans
    <3> QED BY <1>5, <1>6, <3>3 DEF Spans
  <2>4. \A i \in 1 .. k + 1 : i = k + 1 \/ i \in 1 .. k
    OBVIOUS
  <2>5. k + 1 \in 1 .. k + 1 /\ \A i \in 1 .. k : i \in 1 .. k + 1
    OBVIOUS
  <2> QED BY <2>1, <2>2, <2>3, <2>4, <2>5
<1>11. ASSUME NEW i \in 1 .. (k + 1) - 1
       PROVE  PlaceOf(line, h[i]) \in Nat /\ PlaceOf(line, h[i]) < r
  <2>1. CASE i = k
    <3>1. q \in Nat /\ q < r /\ PlaceOf(line, h[i]) = q
      BY <1>1, <1>2, <1>6, <1>7, <2>1, SMTT(60)
    <3> QED BY <3>1
  <2>2. CASE i # k
    <3>1. i \in 1 .. k - 1
      BY <2>2
    <3>2. PlaceOf(line, h[i]) \in Nat /\ PlaceOf(line, h[i]) < q
      BY <1>1, <3>1 DEF Outward
    <3>3. q \in Nat /\ r \in Nat /\ q < r
      BY <1>2, <1>6, <1>7
    <3> QED BY <3>2, <3>3
  <2> QED BY <2>1, <2>2
<1> QED BY <1>7, <1>8, <1>9, <1>10, <1>11 DEF Outward

LEMMA OutwardAll ==
    ASSUME TypeOK, TableInv, ChildCycleAfterParent, visit_stack = <<>>,
           NEW line, NEW from, NEW to, LineInv(line, from, to), Spans(line, from, to),
           NEW p \in 1 .. Len(line), NEW h, Chain(h, line[p])
    PROVE  \A k \in 0 .. NumCycles + 1 : (\A i \in 0 .. k : h[i] # NoLabel) => Outward(h, line, from, to, p, k)
<1>1. PICK N \in Nat : N = NumCycles + 1 /\ NumCycles \in Nat
  BY DEF Spans
<1> DEFINE T == {k \in 0 .. N : (\A i \in 0 .. k : h[i] # NoLabel) => Outward(h, line, from, to, p, k)}
<1>2. 0 \in T
  <2>1. h[0] = line[p] /\ PlaceOf(line, h[0]) = p
    BY PlaceIs DEF Chain
  <2>2. Outward(h, line, from, to, p, 0)
    <3>1. 1 .. 0 = {} /\ 1 .. 0 - 1 = {} /\ ~ (0 > 0)
      OBVIOUS
    <3> QED BY <2>1, <3>1 DEF Outward
  <2> QED BY <1>1, <2>2
<1>3. ASSUME NEW k \in 0 .. N - 1, k \in T PROVE k + 1 \in T
  <2>1. SUFFICES ASSUME \A i \in 0 .. k + 1 : h[i] # NoLabel
                 PROVE  Outward(h, line, from, to, p, k + 1)
    BY <1>1
  <2>2. h[k + 1] # NoLabel /\ k \in 0 .. NumCycles /\ \A i \in 0 .. k : h[i] # NoLabel
    <3>1. k + 1 \in 0 .. k + 1 /\ k \in 0 .. NumCycles /\ \A i \in 0 .. k : i \in 0 .. k + 1
      BY <1>1
    <3> QED BY ONLY <2>1, <3>1
  <2>3. Outward(h, line, from, to, p, k)
    BY <1>3, <2>2
  <2> HIDE DEF T
  <2> QED BY <2>2, <2>3, OutwardStep
<1> HIDE DEF T
<1>4. \A k \in 0 .. N : k \in T
  BY <1>2, <1>3, RangeInduction
<1> QED BY <1>1, <1>4 DEF T

LEMMA CollectedHolds ==
    ASSUME TypeOK, TableInv, ChildCycleAfterParent, visit_stack = <<>>,
           NEW line, NEW from, NEW to, LineInv(line, from, to), Spans(line, from, to),
           NEW p \in 1 .. Len(line)
    PROVE  \E h, D : Collected(h, line, from, to, p, D)
<1>1. PICK N \in Nat : N = NumCycles
  BY DEF Spans
<1>2. line[p] # NoLabel /\ line[p] \in Labels
  BY PlaceIs, ZenonT(60) DEF Spans
<1>3. PICK h : /\ Chain(h, line[p])
               /\ CollectHeads(line[p]) = [k \in 1 .. Max({k \in 0 .. NumCycles + 1 : h[k] # NoLabel}) |-> h[k]]
  BY <1>1, ChainDefined
<1>4. \A k \in 0 .. N + 1 : (\A i \in 0 .. k : h[i] # NoLabel) => Outward(h, line, from, to, p, k)
  BY <1>1, <1>3, OutwardAll
\* The chain ends, for each head names a cycle with a smaller number.
<1>5. h[N + 1] = NoLabel
  <2> SUFFICES ASSUME h[N + 1] # NoLabel PROVE FALSE
    OBVIOUS
  <2> DEFINE T == {i \in 0 .. N + 1 : h[N + 1 - i] # NoLabel}
  <2>1. \A i \in 0 .. N + 1 : i \in T
    <3>1. 0 \in T /\ N + 1 \in Nat
      OBVIOUS
    <3>2. ASSUME NEW i \in 0 .. (N + 1) - 1, i \in T PROVE i + 1 \in T
      <4>1. N + 1 - (i + 1) \in 0 .. N /\ (N + 1 - (i + 1)) + 1 = N + 1 - i /\ i + 1 \in 0 .. N + 1
        OBVIOUS
      <4>2. h[N + 1 - i] = NextHead(h[N + 1 - (i + 1)])
        BY <1>1, <1>3, <4>1 DEF Chain
      <4>3. h[N + 1 - (i + 1)] # NoLabel
        BY <3>2, <4>2 DEF NextHead
      <4> QED BY <4>1, <4>3
    <3> HIDE DEF T
    <3> QED BY <3>1, <3>2, RangeInduction
  <2>2. \A i \in 0 .. N + 1 : h[i] # NoLabel
    <3>1. \A i \in 0 .. N + 1 : N + 1 - i \in 0 .. N + 1 /\ N + 1 - (N + 1 - i) = i
      OBVIOUS
    <3> QED BY <2>1, <3>1
  <2>3. N + 1 \in 0 .. N + 1 /\ N + 1 > 0
    OBVIOUS
  <2>4. Outward(h, line, from, to, p, N + 1)
    BY <1>4, <2>2, <2>3
  <2>5. PICK q : q = PlaceOf(line, h[N + 1])
    OBVIOUS
  <2>6. q \in 1 .. Len(line) /\ line[q] = h[N + 1] /\ Inner(h[N + 1]) < N + 1 - (N + 1)
    BY <1>1, <2>3, <2>4, <2>5, SMTT(60) DEF Outward
  <2>7. Inner(line[q]) \in 0 .. NumCycles
    BY <2>6, InnerIs
  <2>8. Inner(line[q]) < 0 /\ Inner(line[q]) \in Nat
    BY <1>1, <2>6, <2>7
  <2> QED BY <2>8
<1>6. PICK D \in 0 .. N :
          /\ \A k \in 0 .. N + 1 : h[k] # NoLabel <=> k <= D
          /\ Max({k \in 0 .. NumCycles + 1 : h[k] # NoLabel}) = D
  BY <1>1, <1>2, <1>3, <1>5, ChainEnds
<1>7. \A k \in 0 .. D : Outward(h, line, from, to, p, k)
  <2>1. ASSUME NEW k \in 0 .. D PROVE k \in 0 .. N + 1 /\ \A i \in 0 .. k : h[i] # NoLabel
    <3>1. k \in 0 .. N + 1 /\ \A i \in 0 .. k : i \in 0 .. N + 1 /\ i <= D
      OBVIOUS
    <3> QED BY <1>6, <3>1
  <2> QED BY <1>4, <2>1
<1>8. \A k \in 1 .. D : \E d \in 1 .. NumCycles : Round0(from, to, d, p) /\ h[k] = line[to[d]]
  <2>1. \A k \in 1 .. D : k \in 0 .. D /\ k > 0
    OBVIOUS
  <2> QED BY <1>7, <2>1 DEF Outward
<1>9. \A i, j \in 1 .. D : i < j => PlaceOf(line, h[i]) < PlaceOf(line, h[j])
  <2> SUFFICES ASSUME NEW i \in 1 .. D, NEW j \in 1 .. D, i < j
               PROVE  PlaceOf(line, h[i]) < PlaceOf(line, h[j])
    OBVIOUS
  <2>1. i \in 1 .. j - 1 /\ j \in 0 .. D
    OBVIOUS
  <2> QED BY <1>7, <2>1 DEF Outward
<1>10. ASSUME NEW d \in 1 .. NumCycles, Round0(from, to, d, p)
       PROVE  \E k \in 1 .. D : h[k] = line[to[d]]
  <2> SUFFICES ASSUME \A k \in 1 .. D : h[k] # line[to[d]] PROVE FALSE
    OBVIOUS
  <2>1. PICK q : q = PlaceOf(line, h[D])
    OBVIOUS
  <2>2. D \in 0 .. D /\ D \in 0 .. N /\ D \in 0 .. N + 1 /\ D + 1 \in 0 .. N + 1 /\ ~ (D + 1 <= D)
    OBVIOUS
  <2>3. q \in 1 .. Len(line) /\ line[q] = h[D] /\ Round0(from, to, d, q)
    BY <1>7, <1>10, <2>1, <2>2 DEF Outward
  <2>4. PICK e : e = Inner(line[q])
    OBVIOUS
  <2>5. e # 0
    BY <2>3, <2>4, InnerIs
  <2>6. e \in 1 .. NumCycles /\ CycleHead(e) = line[to[e]] /\ to[e] \in 1 .. Len(line)
    <3>1. q \in 1 .. Len(line) /\ e = Inner(line[q]) /\ e # 0
      BY <2>3, <2>4, <2>5
    <3> HIDE <2>4
    <3> QED BY <3>1, InnerStep
  <2>7. h[D + 1] = Head1(line[q])
    <3>1. h[D] # NoLabel
      BY <1>6, <2>2
    <3>2. h[D + 1] = NextHead(h[D])
      BY <1>1, <1>3, <2>2 DEF Chain
    <3> QED BY <2>3, <3>1, <3>2 DEF NextHead
  <2>8. h[D + 1] = line[to[e]]
    BY <2>4, <2>5, <2>6, <2>7, Head1IsInner, SMTT(60)
  <2>9. h[D + 1] # NoLabel
    BY <2>6, <2>8, PlaceIs
  <2> QED BY <1>6, <2>2, <2>9
<1>11. CollectHeads(line[p]) = [k \in 1 .. D |-> h[k]]
  BY <1>3, <1>6
<1>12. D \in 0 .. NumCycles /\ \A k \in 0 .. NumCycles + 1 : h[k] # NoLabel <=> k <= D
  BY <1>1, <1>6, SMTT(60)
<1> QED BY <1>3, <1>8, <1>9, <1>10, <1>11, <1>12 DEF Collected

-----------------------------------------------------------------------------
(***************************************************************************)
(* The nestings of the result: inner to outer, the heads around a label.   *)
(***************************************************************************)
AroundOf(w, p) == {h \in w.heads : h # p /\ InCycle(w, h, p)}
NestingOf(w) ==
    \A p \in Positions(w) :
        /\ ToSet(w.nesting[w.order[p]]) = {w.order[h] : h \in AroundOf(w, p)}
        /\ \A i, j \in DOMAIN w.nesting[w.order[p]] :
              i < j => PositionOf(w.order, w.nesting[w.order[p]][i]) > PositionOf(w.order, w.nesting[w.order[p]][j])
LeftOutOf(w) ==
    \A h \in w.heads, p \in Positions(w) :
        Edge(w.order[p], w.order[h]) =>
            /\ p # h /\ InCycle(w, h, p) => IsSupersetOf(w.nesting[w.order[p]], w.nesting[w.order[h]])
            /\ IsSupersetOf(w.nesting[w.order[p]], w.nesting[w.order[h]]) /\ ~ InCycle(w, h, p) =>
                  \E g \in w.heads : InCycle(w, g, p) /\ w.last[g] < h

LEMMA NestingsMean ==
    NestingsExact <=> (Done => NestingOf(wto) /\ LeftOutOf(wto))
BY DEF NestingsExact, NestingMatchesCycles, LeftOutPredecessors, NestingOf, LeftOutOf, AroundOf

\* Places of the line against positions of the order.
MirrorFacts(w, line, from, to, L) ==
    /\ L = Len(line) /\ L \in Nat /\ Positions(w) = 1 .. L
    /\ \A p \in 1 .. L : L + 1 - p \in 1 .. L /\ w.order[L + 1 - p] = line[p]
                         /\ PositionOf(w.order, line[p]) = L + 1 - p
    /\ \A d \in 1 .. NumCycles : to[d] \in 1 .. L /\ L + 1 - to[d] \in w.heads
    /\ \A h \in w.heads : \E d \in 1 .. NumCycles : h = L + 1 - to[d]
    /\ \A d \in 1 .. NumCycles, p \in 1 .. L :
          Round0(from, to, d, p) <=> L + 1 - to[d] # L + 1 - p /\ InCycle(w, L + 1 - to[d], L + 1 - p)

LEMMA Mirrored ==
    ASSUME NEW line, NEW from, NEW to, Spans(line, from, to), NEW w, Mirrors(w, line, from, to)
    PROVE  \E L : MirrorFacts(w, line, from, to, L)
<1>0. PICK L : L = Len(line)
  OBVIOUS
<1>1. L \in Nat /\ w.order \in Seq(Labels) /\ Len(w.order) = L
  BY <1>0 DEF Spans, Mirrors
<1>2. Positions(w) = 1 .. L /\ DOMAIN w.order = 1 .. L
  BY <1>1 DEF Positions
<1>3. ASSUME NEW p \in 1 .. L
      PROVE  L + 1 - p \in 1 .. L /\ w.order[L + 1 - p] = line[p] /\ PositionOf(w.order, line[p]) = L + 1 - p
  <2>1. L + 1 - p \in 1 .. L /\ L + 1 - (L + 1 - p) = p
    BY <1>1
  <2>2. \A q \in 1 .. L : w.order[q] = line[L + 1 - q]
    BY <1>0 DEF Mirrors
  <2>3. w.order[L + 1 - p] = line[p]
    BY <2>1, <2>2
  <2>4. ASSUME NEW q \in 1 .. L, w.order[q] = line[p] PROVE q = L + 1 - p
    <3>1. L + 1 - q \in 1 .. L /\ line[L + 1 - q] = line[p]
      BY <1>1, <2>2, <2>4
    <3>2. L + 1 - q = p
      BY <1>0, <3>1 DEF Spans
    <3> QED BY <1>1, <3>2
  <2> QED BY <1>2, <2>1, <2>3, <2>4 DEF PositionOf
<1>4. ASSUME NEW d \in 1 .. NumCycles
      PROVE  to[d] \in 1 .. L /\ from[d] \in Nat /\ L + 1 - to[d] \in w.heads /\ w.last[L + 1 - to[d]] = L - from[d]
  <2>1. d \in 0 .. NumCycles
    BY DEF Spans
  <2>2. from[d] \in Nat /\ to[d] \in Nat /\ to[d] <= L /\ from[d] < to[d]
    BY <1>0, <2>1 DEF Spans
  <2> QED BY <1>0, <1>1, <2>2 DEF Mirrors
<1>5. \A h \in w.heads : \E d \in 1 .. NumCycles : h = L + 1 - to[d]
  BY <1>0 DEF Mirrors
<1>6. ASSUME NEW d \in 1 .. NumCycles, NEW p \in 1 .. L
      PROVE  Round0(from, to, d, p) <=> L + 1 - to[d] # L + 1 - p /\ InCycle(w, L + 1 - to[d], L + 1 - p)
  <2>1. PICK t, f : t = to[d] /\ f = from[d]
    OBVIOUS
  <2>2. t \in 1 .. L /\ f \in Nat /\ w.last[L + 1 - t] = L - f
    BY <1>4, <2>1
  <2>3. Round0(from, to, d, p) <=> f < p /\ p < t
    BY <2>1 DEF Round0
  <2>4. InCycle(w, L + 1 - t, L + 1 - p) <=> L + 1 - t <= L + 1 - p /\ L + 1 - p <= L - f
    BY <2>2 DEF InCycle
  <2>5. (f < p /\ p < t) <=> (L + 1 - t # L + 1 - p /\ L + 1 - t <= L + 1 - p /\ L + 1 - p <= L - f)
    BY <1>1, <2>2
  <2> QED BY <2>1, <2>3, <2>4, <2>5, SMTT(60)
<1>7. MirrorFacts(w, line, from, to, L)
  BY <1>0, <1>1, <1>2, <1>3, <1>4, <1>5, <1>6, SMTT(60) DEF MirrorFacts
<1> QED BY <1>7

LEMMA NestingOfHolds ==
    ASSUME TypeOK, TableInv, ChildCycleAfterParent, visit_stack = <<>>,
           NEW line, NEW from, NEW to, LineInv(line, from, to), Spans(line, from, to),
           NEW w, Mirrors(w, line, from, to), w.nesting = [l \in Labels |-> CollectHeads(l)]
    PROVE  NestingOf(w)
<1>1. PICK L : MirrorFacts(w, line, from, to, L)
  BY Mirrored
<1>2. /\ L = Len(line) /\ L \in Nat /\ Positions(w) = 1 .. L
      /\ \A p \in 1 .. L : L + 1 - p \in 1 .. L /\ w.order[L + 1 - p] = line[p]
                           /\ PositionOf(w.order, line[p]) = L + 1 - p
      /\ \A d \in 1 .. NumCycles : to[d] \in 1 .. L /\ L + 1 - to[d] \in w.heads
      /\ \A h \in w.heads : \E d \in 1 .. NumCycles : h = L + 1 - to[d]
      /\ \A d \in 1 .. NumCycles, p \in 1 .. L :
            Round0(from, to, d, p) <=> L + 1 - to[d] # L + 1 - p /\ InCycle(w, L + 1 - to[d], L + 1 - p)
  BY <1>1 DEF MirrorFacts
<1> SUFFICES ASSUME NEW P \in 1 .. L
             PROVE  /\ ToSet(w.nesting[w.order[P]]) = {w.order[h] : h \in AroundOf(w, P)}
                    /\ \A i, j \in DOMAIN w.nesting[w.order[P]] :
                          i < j => PositionOf(w.order, w.nesting[w.order[P]][i])
                                       > PositionOf(w.order, w.nesting[w.order[P]][j])
  BY <1>2 DEF NestingOf
<1>3. PICK p \in 1 .. L : P = L + 1 - p
  <2>1. L + 1 - P \in 1 .. L /\ P = L + 1 - (L + 1 - P)
    BY <1>2
  <2> QED BY <2>1
<1>4. w.order[P] = line[p] /\ line[p] \in Labels
  BY <1>2, <1>3 DEF Spans
<1>5. PICK h, D : Collected(h, line, from, to, p, D)
  BY <1>2, CollectedHolds
<1>6. PICK s : s = w.nesting[w.order[P]] /\ s = [k \in 1 .. D |-> h[k]]
  BY <1>4, <1>5 DEF Collected
<1>7. /\ \A k \in 1 .. D : \E d \in 1 .. NumCycles : Round0(from, to, d, p) /\ h[k] = line[to[d]]
      /\ \A d \in 1 .. NumCycles : Round0(from, to, d, p) => \E k \in 1 .. D : h[k] = line[to[d]]
      /\ \A i, j \in 1 .. D : i < j => PlaceOf(line, h[i]) < PlaceOf(line, h[j])
  BY <1>5 DEF Collected
<1>8. DOMAIN s = 1 .. D /\ \A k \in 1 .. D : s[k] = h[k]
  BY <1>6
<1>9. ASSUME NEW k \in 1 .. D
      PROVE  \E g \in AroundOf(w, P) : w.order[g] = h[k]
  <2>1. PICK d \in 1 .. NumCycles : Round0(from, to, d, p) /\ h[k] = line[to[d]]
    BY <1>7
  <2>2. L + 1 - to[d] \in AroundOf(w, P) /\ w.order[L + 1 - to[d]] = h[k]
    BY <1>2, <1>3, <2>1, ZenonT(60) DEF AroundOf
  <2> QED BY <2>2
<1>10. ASSUME NEW g \in AroundOf(w, P)
       PROVE  \E k \in 1 .. D : w.order[g] = h[k]
  <2>1. g \in w.heads /\ g # P /\ InCycle(w, g, P)
    BY DEF AroundOf
  <2>2. PICK d \in 1 .. NumCycles : g = L + 1 - to[d]
    BY <1>2, <2>1
  <2>3. Round0(from, to, d, p) /\ w.order[g] = line[to[d]]
    BY <1>2, <1>3, <2>1, <2>2
  <2> QED BY <1>7, <2>3
<1>11. ToSet(s) = {w.order[g] : g \in AroundOf(w, P)}
  <2>1. ToSet(s) = {h[k] : k \in 1 .. D}
    BY <1>8 DEF ToSet
  <2> QED BY <1>9, <1>10, <2>1
<1>12. ASSUME NEW k \in 1 .. D
       PROVE  /\ PlaceOf(line, h[k]) \in 1 .. L
              /\ PositionOf(w.order, h[k]) = L + 1 - PlaceOf(line, h[k])
  <2>1. PICK d \in 1 .. NumCycles : h[k] = line[to[d]]
    BY <1>7
  <2>2. to[d] \in 1 .. Len(line)
    BY <1>2
  <2>3. PlaceOf(line, line[to[d]]) = to[d]
    BY <2>2, PlaceIs
  <2> QED BY <1>2, <2>1, <2>2, <2>3, SMTT(60)
<1>13. ASSUME NEW i \in 1 .. D, NEW j \in 1 .. D, i < j
       PROVE  PositionOf(w.order, s[i]) > PositionOf(w.order, s[j])
  <2>1. PICK a, b : a = PlaceOf(line, h[i]) /\ b = PlaceOf(line, h[j])
    OBVIOUS
  <2>2. a \in 1 .. L /\ b \in 1 .. L /\ a < b
    BY <1>7, <1>12, <1>13, <2>1
  <2>3. PositionOf(w.order, s[i]) = L + 1 - a /\ PositionOf(w.order, s[j]) = L + 1 - b
    BY <1>8, <1>12, <2>1
  <2> QED BY <1>2, <2>2, <2>3
<1> QED BY <1>6, <1>8, <1>11, <1>13

(***************************************************************************)
(* A predecessor in the cycle: its nesting goes on, from the head of the   *)
(* cycle, as the head's.                                                   *)
(***************************************************************************)
EndsAt(h, D) == D \in 0 .. NumCycles /\ \A k \in 0 .. NumCycles + 1 : h[k] # NoLabel <=> k <= D

LEMMA ChainsJoin ==
    ASSUME NumCycles \in Nat, NEW l, NEW m, NEW h, NEW g, Chain(h, l), Chain(g, m),
           NEW D, EndsAt(h, D), NEW E, EndsAt(g, E), NEW k, k \in 1 .. D, h[k] = m
    PROVE  D = k + E /\ \A j \in 0 .. E : h[k + j] = g[j]
<1> USE DEF EndsAt
<1>1. PICK N \in Nat : N = NumCycles + 1
  OBVIOUS
<1> DEFINE T == {j \in 0 .. N - k : h[k + j] = g[j]}
<1>2. \A j \in 0 .. N - k : j \in T
  <2>1. N - k \in Nat
    BY <1>1
  <2>2. 0 \in T
    <3>1. k + 0 = k /\ 0 \in 0 .. N - k
      BY <1>1
    <3> QED BY <3>1 DEF Chain
  <2>3. ASSUME NEW j \in 0 .. (N - k) - 1, j \in T PROVE j + 1 \in T
    <3>1. j \in 0 .. NumCycles /\ k + j \in 0 .. NumCycles /\ (k + j) + 1 = k + (j + 1) /\ j + 1 \in 0 .. N - k
      BY <1>1
    <3>2. h[(k + j) + 1] = NextHead(h[k + j]) /\ g[j + 1] = NextHead(g[j])
      BY <3>1 DEF Chain
    <3>3. h[k + j] = g[j]
      BY <2>3
    <3> QED BY <3>1, <3>2, <3>3
  <2> HIDE DEF T
  <2> QED BY <2>1, <2>2, <2>3, RangeInduction
<1>3. \A j \in 0 .. N - k : h[k + j] = g[j]
  BY <1>2
<1> HIDE DEF T
<1>4. \A j \in 0 .. N - k : k + j <= D <=> j <= E
  <2> SUFFICES ASSUME NEW j \in 0 .. N - k PROVE k + j <= D <=> j <= E
    OBVIOUS
  <2>1. k + j \in 0 .. NumCycles + 1 /\ j \in 0 .. NumCycles + 1
    BY <1>1
  <2> QED BY <1>3, <2>1
<1>5. D - k \in 0 .. N - k /\ D - k + 1 \in 0 .. N - k
  BY <1>1
<1>6. D - k <= E
  <2>1. k + (D - k) <= D
    OBVIOUS
  <2> QED BY <1>4, <1>5, <2>1
<1>7. ~ (D - k + 1 <= E)
  <2>1. ~ (k + (D - k + 1) <= D)
    OBVIOUS
  <2> QED BY <1>4, <1>5, <2>1
<1>8. D = k + E
  BY <1>6, <1>7
<1>9. \A j \in 0 .. E : j \in 0 .. N - k
  BY <1>1, <1>8
<1> QED BY <1>3, <1>8, <1>9

LEMMA InnerPredecessors ==
    ASSUME TypeOK, TableInv, ChildCycleAfterParent, visit_stack = <<>>,
           NEW line, NEW from, NEW to, LineInv(line, from, to), Spans(line, from, to),
           NEW w, Mirrors(w, line, from, to), w.nesting = [l \in Labels |-> CollectHeads(l)],
           NEW H \in w.heads, NEW P \in Positions(w), P # H, InCycle(w, H, P)
    PROVE  IsSupersetOf(w.nesting[w.order[P]], w.nesting[w.order[H]])
<1>1. PICK L : MirrorFacts(w, line, from, to, L)
  BY Mirrored
<1>2. /\ L = Len(line) /\ L \in Nat /\ Positions(w) = 1 .. L
      /\ \A p \in 1 .. L : L + 1 - p \in 1 .. L /\ w.order[L + 1 - p] = line[p]
      /\ \A d \in 1 .. NumCycles : to[d] \in 1 .. L
      /\ \A h \in w.heads : \E d \in 1 .. NumCycles : h = L + 1 - to[d]
      /\ \A d \in 1 .. NumCycles, p \in 1 .. L :
            Round0(from, to, d, p) <=> L + 1 - to[d] # L + 1 - p /\ InCycle(w, L + 1 - to[d], L + 1 - p)
  BY <1>1 DEF MirrorFacts
<1>3. PICK p \in 1 .. L : P = L + 1 - p
  <2>1. L + 1 - P \in 1 .. L /\ P = L + 1 - (L + 1 - P)
    BY <1>2
  <2> QED BY <2>1
<1>4. PICK c \in 1 .. NumCycles : H = L + 1 - to[c]
  BY <1>2
<1>5. PICK q \in 1 .. L : q = to[c]
  BY <1>2
<1>6. /\ w.order[P] = line[p] /\ line[p] \in Labels /\ w.order[H] = line[q] /\ line[q] \in Labels
      /\ Round0(from, to, c, p)
  BY <1>2, <1>3, <1>4, <1>5 DEF Spans
<1>7. PICK h, D : Collected(h, line, from, to, p, D)
  BY <1>2, CollectedHolds
<1>8. PICK g, E : Collected(g, line, from, to, q, E)
  BY <1>2, CollectedHolds
<1>9. PICK k \in 1 .. D : h[k] = line[q]
  BY <1>5, <1>6, <1>7 DEF Collected
<1>10. D = k + E /\ \A j \in 0 .. E : h[k + j] = g[j]
  <2>1. PICK l, m : l = line[p] /\ m = line[q]
    OBVIOUS
  <2>2. NumCycles \in Nat /\ Chain(h, l) /\ Chain(g, m) /\ h[k] = m
    BY <1>7, <1>8, <1>9, <2>1, SMTT(60) DEF Collected, Spans
  <2>3. EndsAt(h, D) /\ EndsAt(g, E)
    BY <1>7, <1>8 DEF Collected, EndsAt
  <2>4. k \in 1 .. D
    OBVIOUS
  <2> QED BY ONLY <2>2, <2>3, <2>4, ChainsJoin
<1>11. D \in Nat /\ E \in Nat
  BY <1>7, <1>8 DEF Collected
<1>12. PICK s, t : s = w.nesting[w.order[P]] /\ t = w.nesting[w.order[H]]
  OBVIOUS
<1>13. s = [i \in 1 .. D |-> h[i]] /\ t = [i \in 1 .. E |-> g[i]]
  BY <1>6, <1>7, <1>8, <1>12 DEF Collected
<1>14. Len(s) = D /\ Len(t) = E
  BY <1>11, <1>13
<1>15. Len(s) > Len(t)
  BY <1>10, <1>11, <1>14
<1>16. ASSUME NEW i \in 0 .. E - 1 PROVE s[D - i] = t[E - i]
  <2>1. D - i \in 1 .. D /\ E - i \in 1 .. E /\ E - i \in 0 .. E /\ D - i = k + (E - i)
    BY <1>10, <1>11, SMTT(60)
  <2>2. s[D - i] = h[D - i] /\ t[E - i] = g[E - i]
    BY <1>13, <2>1
  <2>3. h[k + (E - i)] = g[E - i]
    BY <1>10, <2>1
  <2> QED BY <2>1, <2>2, <2>3
<1> QED BY <1>12, <1>14, <1>15, <1>16 DEF IsSupersetOf
(***************************************************************************)
(* A predecessor outside the cycle that is left out sits in an earlier     *)
(* cycle: the one just inside those around the head.                       *)
(***************************************************************************)
LEMMA NestingShape ==
    ASSUME TypeOK, TableInv, ChildCycleAfterParent, visit_stack = <<>>,
           NEW line, NEW from, NEW to, LineInv(line, from, to), Spans(line, from, to),
           NEW w, Mirrors(w, line, from, to), w.nesting = [l \in Labels |-> CollectHeads(l)],
           NEW P \in Positions(w)
    PROVE  \E D \in Nat : Len(w.nesting[w.order[P]]) = D /\ DOMAIN w.nesting[w.order[P]] = 1 .. D
<1>1. PICK L : MirrorFacts(w, line, from, to, L)
  BY Mirrored
<1>2. PICK p \in 1 .. L : P = L + 1 - p
  <2>1. L + 1 - P \in 1 .. L /\ P = L + 1 - (L + 1 - P)
    BY <1>1 DEF MirrorFacts
  <2> QED BY <2>1
<1>3. w.order[P] = line[p] /\ p \in 1 .. Len(line) /\ line[p] \in Labels
  BY <1>1, <1>2 DEF MirrorFacts, Spans
<1>4. PICK h, D : Collected(h, line, from, to, p, D)
  BY <1>3, CollectedHolds
<1>5. D \in Nat /\ w.nesting[w.order[P]] = [k \in 1 .. D |-> h[k]]
  BY <1>3, <1>4 DEF Collected, Spans
<1> QED BY <1>5

LEMMA OuterPredecessors ==
    ASSUME NEW w, IsWto(w, Entry, Edges, Labels), NestingOf(w),
           \A p \in Positions(w) : \E D \in Nat : Len(w.nesting[w.order[p]]) = D /\ DOMAIN w.nesting[w.order[p]] = 1 .. D,
           NEW H \in w.heads, NEW P \in Positions(w), Edge(w.order[P], w.order[H]),
           IsSupersetOf(w.nesting[w.order[P]], w.nesting[w.order[H]]), ~ InCycle(w, H, P)
    PROVE  \E g \in w.heads : InCycle(w, g, P) /\ w.last[g] < H
<1>1. /\ w.order \in Seq(Labels) /\ w.heads \subseteq Positions(w)
      /\ \A g \in w.heads : g \in Nat /\ w.last[g] \in Nat
      /\ H \in Nat /\ P \in Nat /\ H \in Positions(w)
      /\ DOMAIN w.order = Positions(w)
      /\ \A g \in Positions(w) : g \in Nat /\ w.order[g] \in Labels
  BY SMTT(60) DEF IsWto, WellNested, Positions
<1>2. P < H
  <2>1. <<w.order[P], w.order[H]>> \in Edges
    BY <1>1 DEF Edges
  <2> QED BY <1>1, <2>1 DEF IsWto, BackEdgesReturnToHeads
<1>3. PICK s, t : s = w.nesting[w.order[P]] /\ t = w.nesting[w.order[H]]
  OBVIOUS
<1>4. PICK D \in Nat : Len(s) = D /\ DOMAIN s = 1 .. D
  BY <1>3
<1>5. PICK E \in Nat : Len(t) = E /\ DOMAIN t = 1 .. E
  BY <1>1, <1>3, SMTT(60)
<1>6. D > E /\ \A i \in 0 .. E - 1 : s[D - i] = t[E - i]
  BY <1>3, <1>4, <1>5, SMTT(60) DEF IsSupersetOf
<1>7. /\ ToSet(s) = {w.order[g] : g \in AroundOf(w, P)}
      /\ \A i, j \in DOMAIN s : i < j => PositionOf(w.order, s[i]) > PositionOf(w.order, s[j])
      /\ ToSet(t) = {w.order[g] : g \in AroundOf(w, H)}
  BY <1>1, <1>3 DEF NestingOf
<1>8. D - E \in 1 .. D
  BY <1>6
<1>9. PICK g \in AroundOf(w, P) : w.order[g] = s[D - E]
  <2>1. s[D - E] \in ToSet(s)
    BY <1>4, <1>8 DEF ToSet
  <2> QED BY <1>7, <2>1
<1>10. g \in w.heads /\ g # P /\ InCycle(w, g, P)
  BY DEF AroundOf
<1>11. w.last[g] < H
  <2> SUFFICES ASSUME ~ (w.last[g] < H) PROVE FALSE
    OBVIOUS
  <2>1. g <= P /\ P <= w.last[g] /\ g \in Nat /\ w.last[g] \in Nat
    BY <1>1, <1>10 DEF InCycle
  <2>2. g # H /\ InCycle(w, g, H)
    BY <1>1, <1>2, <2>1, SMTT(60) DEF InCycle
  <2>3. w.order[g] \in ToSet(t)
    BY <1>7, <1>10, <2>2, SMTT(60) DEF AroundOf
  <2>4. PICK j \in 1 .. E : t[j] = w.order[g]
    BY <1>5, <2>3 DEF ToSet
  <2>5. E - j \in 0 .. E - 1 /\ E - (E - j) = j /\ D - (E - j) \in 1 .. D /\ D - E < D - (E - j)
    BY <1>6
  <2>6. s[D - (E - j)] = w.order[g]
    BY <1>6, <2>4, <2>5
  <2>7. PositionOf(w.order, w.order[g]) > PositionOf(w.order, w.order[g])
    BY <1>4, <1>7, <1>8, <1>9, <2>5, <2>6
  <2>8. PositionOf(w.order, w.order[g]) \in Nat
    <3>1. g \in DOMAIN w.order
      BY <1>1, <1>10
    <3>2. PositionOf(w.order, w.order[g]) \in DOMAIN w.order
      BY <3>1 DEF PositionOf
    <3> QED BY <1>1, <3>2, SMTT(60)
  <2> QED BY <2>7, <2>8
<1> QED BY <1>10, <1>11

(***************************************************************************)
(* The nestings, once there is a result.                                   *)
(***************************************************************************)
LEMMA NestingsPrimed ==
    ASSUME NEW w, w = wto'
    PROVE  (NestingOf(wto)' <=> NestingOf(w)) /\ (LeftOutOf(wto)' <=> LeftOutOf(w)')
<1>1. NestingOf(wto)' <=> NestingOf(w)
  BY DEF NestingOf, AroundOf
<1>2. LeftOutOf(wto)' <=> LeftOutOf(w)'
  BY SMTT(60) DEF LeftOutOf
<1> QED BY <1>1, <1>2

LEMMA NestingsFound ==
    ASSUME BuilderState, PlaceFound, TableInv, Finalize
    PROVE  NestingsExact'
<1>1. TypeOK /\ ChildCycleAfterParent /\ visit_stack = <<>>
  BY DEF BuilderState, BuilderInv, Finalize
<1>2. PICK line, from, to : LineInv(line, from, to)
  BY DEF PlaceFound
<1>3. PICK order : order = Walk[0] /\ wto' = WtoOf(order, HeadPositions(order))
  BY DEF Finalize
<1>4. PICK w : w = wto'
  OBVIOUS
<1>5. Mirrors(w, line, from, to) /\ w.nesting = [l \in Labels |-> CollectHeads(l)]
  <2>1. Mirrors(w, line, from, to)
    BY <1>1, <1>2, <1>3, <1>4, WtoMirrors
  <2> QED BY <1>3, <1>4, <2>1 DEF WtoOf
<1>6. Spans(line, from, to)
  BY <1>1, <1>2, SpansHold
<1>7. IsWto(w, Entry, Edges, Labels)
  BY <1>1, <1>2, <1>5, IsWtoHolds
<1>8. NestingOf(w)
  BY <1>1, <1>2, <1>5, <1>6, NestingOfHolds, SMTT(60)
<1>9. \A p \in Positions(w) : \E D \in Nat : Len(w.nesting[w.order[p]]) = D /\ DOMAIN w.nesting[w.order[p]] = 1 .. D
  BY <1>1, <1>2, <1>5, <1>6, NestingShape, SMTT(60)
<1>10. ASSUME NEW H \in w.heads, NEW P \in Positions(w), Edge(w.order[P], w.order[H])
       PROVE  /\ P # H /\ InCycle(w, H, P) => IsSupersetOf(w.nesting[w.order[P]], w.nesting[w.order[H]])
              /\ IsSupersetOf(w.nesting[w.order[P]], w.nesting[w.order[H]]) /\ ~ InCycle(w, H, P) =>
                    \E g \in w.heads : InCycle(w, g, P) /\ w.last[g] < H
  <2>1. P # H /\ InCycle(w, H, P) => IsSupersetOf(w.nesting[w.order[P]], w.nesting[w.order[H]])
    BY <1>1, <1>2, <1>5, <1>6, InnerPredecessors, SMTT(60)
  <2>2. IsSupersetOf(w.nesting[w.order[P]], w.nesting[w.order[H]]) /\ ~ InCycle(w, H, P) =>
            \E g \in w.heads : InCycle(w, g, P) /\ w.last[g] < H
    BY <1>7, <1>8, <1>9, <1>10, OuterPredecessors, SMTT(60)
  <2> QED BY <2>1, <2>2
<1>11. LeftOutOf(w)
  BY <1>10 DEF LeftOutOf
<1>12. \A x, y : Edge(x, y)' <=> Edge(x, y)
  BY DEF Finalize, Edge
<1>13. LeftOutOf(w)'
  BY <1>11, <1>12 DEF LeftOutOf
<1>14. NestingOf(wto)' /\ LeftOutOf(wto)'
  BY <1>4, <1>8, <1>13, NestingsPrimed
<1> QED BY <1>14, NestingsMean DEF NestingsExact, NestingMatchesCycles, LeftOutPredecessors, NestingOf, LeftOutOf, AroundOf

LEMMA NestingsKept ==
    ASSUME BuilderState, PlaceFound, TableInv, NestingsExact, [Next]_vars
    PROVE  NestingsExact'
<1>1. CASE Finalize
  BY <1>1, NestingsFound, SMTT(60)
<1>2. CASE ~ Finalize
  <2>1. children' = children /\ wto' = wto
    BY <1>2 DEF Next, PushSuccessors, StartVisit, ContinueVisit, Terminated, vars
  <2>2. (\A x, y : Edge(x, y)' <=> Edge(x, y)) /\ (Done' <=> Done)
    BY <2>1 DEF Edge, Done
  <2>3. PICK w : w = wto /\ w = wto'
    BY <2>1
  <2>4. Done => NestingOf(w) /\ LeftOutOf(w)
    BY <2>3, NestingsMean
  <2>5. LeftOutOf(w) <=> LeftOutOf(w)'
    BY <2>2 DEF LeftOutOf
  <2>6. Done' => NestingOf(w) /\ LeftOutOf(w)'
    BY <2>2, <2>4, <2>5
  <2>7. Done' => NestingOf(wto)' /\ LeftOutOf(wto)'
    BY <2>3, <2>6, NestingsPrimed
  <2> QED BY <2>7 DEF NestingsExact, NestingMatchesCycles, LeftOutPredecessors, NestingOf, LeftOutOf, AroundOf
<1> QED BY <1>1, <1>2

NestInvAll == num \in Nat /\ (num < DFN_INF => TableInv /\ NestingsExact)

LEMMA NestInit == Init => NestInvAll
<1> SUFFICES ASSUME Init PROVE NestInvAll
  OBVIOUS
<1>1. NumCycles = 0 /\ part[0] = <<>>
  BY DEF Init, NumCycles
<1>2. TableInv
  <2>1. \A x \in Labels : containing[x] = 0
    BY DEF Init
  <2>2. \A c \in 0 .. NumCycles : DOMAIN part[c] = {}
    <3>1. \A c \in 0 .. 0 : c = 0
      OBVIOUS
    <3>2. DOMAIN part[0] = {}
      BY <1>1
    <3> QED BY <1>1, <3>1, <3>2
  <2> QED BY <2>1, <2>2 DEF TableInv
<1>3. NestingsExact
  BY NestingsMean DEF Init, Done
<1> QED BY <1>2, <1>3 DEF NestInvAll, Init

LEMMA NestStep == SoundInv /\ NestInvAll /\ [Next]_vars => NestInvAll'
<1> SUFFICES ASSUME SoundInv, NestInvAll, [Next]_vars PROVE NestInvAll'
  OBVIOUS
<1>1. num' \in Nat /\ num <= num' /\ num \in Nat
  BY NumGrows DEF SoundInv
<1>2. CASE num' < DFN_INF
  <2>1. num < DFN_INF
    BY <1>1, <1>2 DEF DFN_INF
  <2>2. BuilderState /\ PlaceFound /\ TableInv /\ NestingsExact
    BY <1>1, <1>2, <2>1 DEF SoundInv, BuilderState, NestInvAll
  <2>3. TableInv' /\ NestingsExact'
    BY <2>2, TableKept, NestingsKept, SMTT(60)
  <2> QED BY <1>1, <2>3 DEF NestInvAll
<1>3. CASE ~ (num' < DFN_INF)
  BY <1>1, <1>3 DEF NestInvAll
<1> QED BY <1>2, <1>3

(***************************************************************************)
(* The nesting of every label lists, from the inside to the outside, the   *)
(* heads of the cycles around it; and the predecessors that the iterator   *)
(* leaves out when it enters a cycle, by comparing nestings, are the ones  *)
(* inside the cycle and those in an earlier cycle that exits to its head.  *)
(***************************************************************************)
THEOREM NestingsExactUntilOverflow == Spec => [](num < DFN_INF => NestingsExact)
<1>1. NestInvAll => (num < DFN_INF => NestingsExact)
  BY DEF NestInvAll
<1> QED BY <1>1, SoundInit, SoundKept, NestInit, NestStep, PTL DEF Spec

(***************************************************************************)
(* In a graph whose labels are too few for the numbers to overflow, the    *)
(* nestings are right whatever the graph.                                  *)
(***************************************************************************)
THEOREM NestingsExactAlways ==
    ASSUME Size * (Size + 1) < DFN_INF
    PROVE  Spec => []NestingsExact
<1>1. (num < DFN_INF => NestingsExact) /\ num < DFN_INF /\ SoundInv => NestingsExact
  OBVIOUS
<1> QED BY <1>1, SoundAlways, NestingsExactUntilOverflow, PTL

-----------------------------------------------------------------------------
(***************************************************************************)
(* The components in topological order: the worklist lists every component *)
(* once, and none before a predecessor of it.                              *)
(***************************************************************************)
LEMMA SetListed ==
    ASSUME NEW S, IsFiniteSet(S)
    PROVE  Lists(SetToSeq(S), S)
<1> DEFINE N == Cardinality(S)
           q == SetToSeq(S)
<1>1. N \in Nat
  BY FS_CardinalityType
<1>2. IsFiniteSet(1 .. N) /\ Cardinality(1 .. N) = N
  BY <1>1, FS_Interval
<1>3. ExistsBijection(1 .. N, S)
  BY <1>2, FS_SameCardinalityBij
<1>4. PICK f \in Bijection(1 .. N, S) : TRUE
  BY <1>3 DEF ExistsBijection
<1>5. f \in [1 .. N -> S] /\ IsInjective(f)
  BY <1>4 DEF Bijection, Injection
<1>6. q \in [1 .. N -> S] /\ IsInjective(q)
  BY <1>5 DEF SetToSeq
<1> HIDE DEF q, N
<1>7. q \in Injection(1 .. N, S)
  BY <1>6 DEF Injection
<1>8. q \in Surjection(1 .. N, S)
  BY <1>2, <1>7, FS_Injection DEF N
<1>9. q \in Seq(S) /\ Len(q) = N /\ DOMAIN q = 1 .. N
  BY <1>1, <1>6
<1>10. \A x \in S : \E k \in DOMAIN q : q[k] = x
  BY <1>8, <1>9 DEF Surjection
<1>11. \A j, k \in DOMAIN q : q[j] = q[k] => j = k
  BY <1>6, <1>9 DEF IsInjective
<1> QED BY <1>9, <1>10, <1>11 DEF Lists, q, N

Preceded(ids, dag, q, n, s) == \A p \in ids : <<p, s>> \in dag => \E k \in DOMAIN q : k <= n /\ q[k] = p

\* The list when the first n of it have been taken.
Listed(ids, dag, q, n) ==
    /\ q \in Seq(ids)
    /\ \A j, k \in DOMAIN q : q[j] = q[k] => j = k
    /\ \A s \in ids : (\E k \in DOMAIN q : q[k] = s) <=> Preceded(ids, dag, q, n, s)
    /\ \A j, k \in DOMAIN q : <<q[j], q[k]>> \in dag => j < k

Ready(ids, dag, taken) == {s \in ids : \A p \in ids : <<p, s>> \in dag => p \in taken}
Freed(ids, dag, q, n) == {s \in Ready(ids, dag, ToSet(SubSeq(q, 1, n))) : <<q[n], s>> \in dag}

LEMMA TakenAre ==
    ASSUME NEW ids, NEW q \in Seq(ids), NEW n \in 1 .. Len(q)
    PROVE  \A p : p \in ToSet(SubSeq(q, 1, n)) <=> \E k \in DOMAIN q : k <= n /\ q[k] = p
<1>1. Len(q) \in Nat /\ DOMAIN q = 1 .. Len(q)
  OBVIOUS
<1>2. DOMAIN SubSeq(q, 1, n) = 1 .. n /\ \A i \in 1 .. n : SubSeq(q, 1, n)[i] = q[i]
  BY <1>1
<1>3. \A p : p \in ToSet(SubSeq(q, 1, n)) <=> \E k \in 1 .. n : q[k] = p
  BY <1>2, ZenonT(60) DEF ToSet
<1>4. \A k : k \in 1 .. n <=> k \in DOMAIN q /\ k <= n
  BY <1>1
<1> QED BY <1>3, <1>4, ZenonT(60)

LEMMA ListGrows ==
    ASSUME NEW ids, IsFiniteSet(ids), NEW dag, NEW n \in Nat, n # 0,
           NEW q, Listed(ids, dag, q, n - 1), n <= Len(q)
    PROVE  Listed(ids, dag, q \o SetToSeq(Freed(ids, dag, q, n)), n)
<1>1. PICK N \in Nat : N = Len(q) /\ DOMAIN q = 1 .. N /\ q \in Seq(ids)
  BY DEF Listed
<1>2. n \in 1 .. N
  BY <1>1
<1>3. \A p : p \in ToSet(SubSeq(q, 1, n)) <=> \E k \in DOMAIN q : k <= n /\ q[k] = p
  BY <1>1, <1>2, TakenAre
<1>4. PICK freed : freed = Freed(ids, dag, q, n)
  OBVIOUS
<1>5. freed \subseteq ids /\ \A s \in ids : s \in freed <=> <<q[n], s>> \in dag /\ Preceded(ids, dag, q, n, s)
  BY <1>3, <1>4 DEF Freed, Ready, Preceded
<1>6. IsFiniteSet(freed)
  BY <1>5, FS_Subset
<1>7. PICK r : r = SetToSeq(freed) /\ Lists(r, freed)
  BY <1>6, SetListed
<1>8. PICK M \in Nat : M = Len(r) /\ DOMAIN r = 1 .. M /\ r \in Seq(freed)
  BY <1>7 DEF Lists
<1>9. PICK w : w = q \o r
  OBVIOUS
<1>10. r \in Seq(ids)
  <2>1. r \in [1 .. M -> freed]
    BY <1>8
  <2>2. r \in [1 .. M -> ids]
    BY <1>5, <2>1
  <2> QED BY <2>2
<1>11. /\ w \in Seq(ids) /\ DOMAIN w = 1 .. N + M
       /\ \A k \in 1 .. N + M : w[k] = IF k <= N THEN q[k] ELSE r[k - N]
  BY <1>1, <1>8, <1>9, <1>10
<1>12. \A k \in 1 .. N : k \in 1 .. N + M /\ w[k] = q[k]
  BY <1>11
<1>13. \A k \in 1 .. N + M : k > N => k - N \in 1 .. M /\ w[k] = r[k - N] /\ w[k] \in freed
  <2> SUFFICES ASSUME NEW k \in 1 .. N + M, k > N PROVE k - N \in 1 .. M /\ w[k] = r[k - N] /\ w[k] \in freed
    OBVIOUS
  <2>1. k - N \in 1 .. M /\ w[k] = r[k - N]
    BY <1>11
  <2> QED BY <1>8, <2>1
<1>14. ASSUME NEW s \in ids PROVE Preceded(ids, dag, w, n, s) <=> Preceded(ids, dag, q, n, s)
  <2>1. \A p : (\E k \in DOMAIN w : k <= n /\ w[k] = p) <=> (\E k \in DOMAIN q : k <= n /\ q[k] = p)
    BY <1>1, <1>2, <1>11, <1>12, SMTT(60)
  <2> QED BY <2>1 DEF Preceded
\* What is freed is not in the list yet.
<1>15. ASSUME NEW s \in freed, NEW k \in 1 .. N, q[k] = s PROVE FALSE
  <2>1. <<q[n], s>> \in dag /\ q[n] \in ids /\ s \in ids
    BY <1>1, <1>2, <1>5
  <2>2. Preceded(ids, dag, q, n - 1, s)
    BY <1>1, <1>15, <2>1, SMTT(60) DEF Listed
  <2>3. PICK i \in DOMAIN q : i <= n - 1 /\ q[i] = q[n]
    BY <2>1, <2>2 DEF Preceded
  <2>4. i = n
    BY <1>1, <1>2, <2>3 DEF Listed
  <2> QED BY <2>3, <2>4
<1>16. ASSUME NEW j \in 1 .. N + M, NEW k \in 1 .. N + M, w[j] = w[k] PROVE j = k
  <2>1. CASE j <= N /\ k <= N
    BY <1>1, <1>12, <1>16, <2>1, SMTT(60) DEF Listed
  <2>2. CASE j > N /\ k > N
    <3>1. r[j - N] = r[k - N] /\ j - N \in DOMAIN r /\ k - N \in DOMAIN r
      BY <1>8, <1>13, <1>16, <2>2
    <3>2. j - N = k - N
      BY <1>7, <3>1 DEF Lists
    <3> QED BY <3>2
  <2>3. CASE j <= N /\ k > N
    <3>1. j \in 1 .. N /\ q[j] = w[j] /\ w[k] \in freed
      BY <1>12, <1>13, <2>3
    <3> QED BY <1>15, <1>16, <3>1
  <2>4. CASE j > N /\ k <= N
    <3>1. k \in 1 .. N /\ q[k] = w[k] /\ w[j] \in freed
      BY <1>12, <1>13, <2>4
    <3> QED BY <1>15, <1>16, <3>1
  <2> QED BY <2>1, <2>2, <2>3, <2>4
<1>17. ASSUME NEW s \in ids PROVE (\E k \in DOMAIN w : w[k] = s) <=> Preceded(ids, dag, w, n, s)
  <2>1. (\E k \in DOMAIN w : w[k] = s) <=> (\E k \in 1 .. N : q[k] = s) \/ s \in freed
    <3>1. ASSUME NEW k \in DOMAIN w, w[k] = s PROVE (\E i \in 1 .. N : q[i] = s) \/ s \in freed
      <4>1. CASE k <= N
        <5>1. k \in 1 .. N /\ q[k] = s
          BY <1>11, <1>12, <3>1, <4>1
        <5> QED BY <5>1
      <4>2. CASE k > N
        BY <1>11, <1>13, <3>1, <4>2
      <4> QED BY <1>11, <4>1, <4>2
    <3>2. ASSUME NEW k \in 1 .. N, q[k] = s PROVE \E i \in DOMAIN w : w[i] = s
      BY <1>11, <1>12, <3>2, SMTT(60)
    <3>3. ASSUME s \in freed PROVE \E i \in DOMAIN w : w[i] = s
      <4>1. PICK k \in 1 .. M : r[k] = s
        BY <1>7, <1>8, <3>3 DEF Lists
      <4>2. N + k \in 1 .. N + M /\ w[N + k] = r[k]
        BY <1>11, SMTT(60)
      <4> QED BY <1>11, <4>1, <4>2
    <3> QED BY <3>1, <3>2, <3>3
  <2>2. ASSUME NEW k \in 1 .. N, q[k] = s PROVE Preceded(ids, dag, q, n, s)
    <3>1. Preceded(ids, dag, q, n - 1, s)
      BY <1>1, <2>2 DEF Listed
    <3>2. \A i \in DOMAIN q : i <= n - 1 => i <= n
      BY <1>1
    <3> QED BY <3>1, <3>2 DEF Preceded
  <2>3. ASSUME Preceded(ids, dag, q, n, s), <<q[n], s>> \notin dag PROVE \E k \in 1 .. N : q[k] = s
    <3>1. ASSUME NEW p \in ids, <<p, s>> \in dag PROVE \E k \in DOMAIN q : k <= n - 1 /\ q[k] = p
      <4>1. PICK k \in DOMAIN q : k <= n /\ q[k] = p
        BY <2>3, <3>1 DEF Preceded
      <4>2. k # n
        BY <2>3, <3>1, <4>1
      <4>3. k <= n - 1
        BY <1>1, <4>1, <4>2
      <4> QED BY <4>1, <4>3
    <3>2. Preceded(ids, dag, q, n - 1, s)
      BY <3>1 DEF Preceded
    <3> QED BY <1>1, <3>2 DEF Listed
  <2> QED BY <1>5, <1>14, <2>1, <2>2, <2>3
<1>18. ASSUME NEW j \in 1 .. N + M, NEW k \in 1 .. N + M, <<w[j], w[k]>> \in dag PROVE j < k
  <2>1. w[j] \in ids /\ w[k] \in ids
    BY <1>11
  <2>2. Preceded(ids, dag, w, n, w[k])
    BY <1>11, <1>17, <2>1
  <2>3. PICK i \in DOMAIN w : i <= n /\ w[i] = w[j]
    BY <1>18, <2>1, <2>2 DEF Preceded
  <2>4. i = j
    BY <1>11, <1>16, <2>3
  <2>5. j <= n /\ j <= N /\ q[j] = w[j]
    BY <1>2, <1>12, <2>3, <2>4
  <2>6. CASE k > N
    BY <2>5, <2>6
  <2>7. CASE k <= N
    <3>1. j \in DOMAIN q /\ k \in DOMAIN q /\ w[k] = q[k]
      BY <1>1, <1>12, <2>5, <2>7
    <3>2. <<q[j], q[k]>> \in dag
      BY <1>18, <2>5, <3>1
    <3> QED BY <3>1, <3>2 DEF Listed
  <2> QED BY <2>6, <2>7
<1>19. Listed(ids, dag, w, n)
  BY <1>11, <1>16, <1>17, <1>18, SMTT(60) DEF Listed
<1> QED BY <1>4, <1>7, <1>9, <1>19

Topological(q, ids, dag) ==
    Lists(q, ids) /\ \A j, k \in DOMAIN q : <<q[j], q[k]>> \in dag => j < k
RanksUp(ids, dag, rank) ==
    rank \in [ids -> Nat] /\ \A d \in dag : d \in ids \X ids /\ rank[d[1]] < rank[d[2]]

\* Where all of the list has been taken, nothing is missing.
LEMMA ListComplete ==
    ASSUME NEW ids, IsFiniteSet(ids), NEW dag, NEW rank, RanksUp(ids, dag, rank),
           NEW q, Listed(ids, dag, q, Cardinality(ids))
    PROVE  Topological(q, ids, dag)
<1>1. PICK N \in Nat : N = Len(q) /\ DOMAIN q = 1 .. N /\ q \in Seq(ids) /\ q \in [1 .. N -> ids]
  BY DEF Listed
<1>2. PICK C \in Nat : C = Cardinality(ids)
  BY FS_CardinalityType
<1>3. q \in Injection(1 .. N, ids)
  BY <1>1 DEF Listed, Injection, IsInjective
<1>4. IsFiniteSet(1 .. N) /\ Cardinality(1 .. N) = N
  <2>1. N \in Int /\ 1 \in Int /\ (IF 1 > N THEN 0 ELSE N - 1 + 1) = N
    OBVIOUS
  <2> QED BY <2>1, FS_Interval
<1>5. N <= C /\ (N = C <=> q \in Surjection(1 .. N, ids))
  BY <1>2, <1>3, <1>4, FS_Injection
<1>6. \A s \in ids : \E k \in DOMAIN q : q[k] = s
  <2> DEFINE missing == {s \in ids : ~ \E k \in DOMAIN q : q[k] = s}
             T == {rank[s] : s \in missing}
  <2> SUFFICES ASSUME missing # {} PROVE FALSE
    OBVIOUS
  <2>1. T \in SUBSET Nat /\ T # {}
    BY DEF RanksUp
  <2>2. PICK m \in T : \A n \in T : m <= n
    <3> HIDE DEF T
    <3> QED BY <2>1, LeastNat
  <2>3. PICK s \in missing : rank[s] = m
    OBVIOUS
  <2>4. ASSUME NEW p \in ids, <<p, s>> \in dag PROVE \E k \in DOMAIN q : k <= C /\ q[k] = p
    <3>1. rank[p] < rank[s] /\ rank[p] \in Nat /\ rank[s] \in Nat
      BY <2>4 DEF RanksUp
    <3>2. rank[p] \notin T
      BY <2>1, <2>2, <2>3, <3>1, SMTT(60)
    <3>3. PICK k \in DOMAIN q : q[k] = p
      BY <3>2
    <3>4. k <= C
      <4>1. k \in 1 .. N /\ N <= C
        BY <1>1, <1>5, <3>3
      <4> QED BY <4>1
    <3> QED BY <3>3, <3>4
  <2>5. Preceded(ids, dag, q, Cardinality(ids), s)
    BY <1>2, <2>4 DEF Preceded
  <2> QED BY <2>3, <2>5 DEF Listed
<1>7. q \in Surjection(1 .. N, ids)
  BY <1>1, <1>6 DEF Surjection
<1>8. N = C
  BY <1>5, <1>7
<1>9. \A j, k \in DOMAIN q : (q[j] = q[k] => j = k) /\ (<<q[j], q[k]>> \in dag => j < k)
  BY DEF Listed
<1>10. Lists(q, ids)
  BY <1>1, <1>2, <1>6, <1>8, <1>9 DEF Lists
<1> QED BY <1>9, <1>10 DEF Topological

TopoRound(ids, dag, n, before) ==
    IF n > Len(before) THEN before ELSE before \o SetToSeq(Freed(ids, dag, before, n))

LEMMA TopoRoundKeeps ==
    ASSUME NEW ids, IsFiniteSet(ids), NEW dag, NEW n \in Nat, n # 0,
           NEW q, Listed(ids, dag, q, n - 1)
    PROVE  Listed(ids, dag, TopoRound(ids, dag, n, q), n)
<1>1. Len(q) \in Nat /\ DOMAIN q = 1 .. Len(q)
  BY DEF Listed
<1>2. CASE n <= Len(q)
  BY <1>1, <1>2, ListGrows DEF TopoRound
<1>3. CASE n > Len(q)
  <2>1. \A k \in DOMAIN q : k <= n <=> k <= n - 1
    BY <1>1, <1>3
  <2>2. \A s : Preceded(ids, dag, q, n, s) <=> Preceded(ids, dag, q, n - 1, s)
    BY <2>1, ZenonT(60) DEF Preceded
  <2>3. Listed(ids, dag, q, n)
    BY <2>2 DEF Listed
  <2> QED BY <1>3, <2>3 DEF TopoRound
<1> QED BY <1>1, <1>2, <1>3

LEMMA TopoStart ==
    ASSUME NEW ids, IsFiniteSet(ids), NEW dag
    PROVE  Listed(ids, dag, SetToSeq(Ready(ids, dag, {})), 0)
<1> DEFINE first == Ready(ids, dag, {})
<1>1. first \subseteq ids /\ \A s \in ids : s \in first <=> ~ \E p \in ids : <<p, s>> \in dag
  BY DEF Ready
<1> HIDE DEF first
<1>2. IsFiniteSet(first)
  BY <1>1, FS_Subset
<1>3. PICK q : q = SetToSeq(first) /\ Lists(q, first)
  BY <1>2, SetListed
<1>4. PICK M \in Nat : M = Len(q) /\ DOMAIN q = 1 .. M /\ q \in [1 .. M -> first]
  BY <1>3 DEF Lists
<1>5. q \in [1 .. M -> ids]
  BY <1>1, <1>4
<1>6. q \in Seq(ids)
  BY <1>5
<1>7. \A s \in ids : (\E k \in DOMAIN q : q[k] = s) <=> s \in first
  BY <1>3, <1>4 DEF Lists
<1>8. \A s \in ids : Preceded(ids, dag, q, 0, s) <=> s \in first
  <2>1. \A k \in DOMAIN q : ~ (k <= 0)
    BY <1>4
  <2> QED BY <1>1, <2>1 DEF Preceded
<1>9. \A j, k \in DOMAIN q : <<q[j], q[k]>> \notin dag
  <2> SUFFICES ASSUME NEW j \in DOMAIN q, NEW k \in DOMAIN q PROVE <<q[j], q[k]>> \notin dag
    OBVIOUS
  <2>1. q[j] \in ids /\ q[k] \in first /\ q[k] \in ids
    BY <1>4, <1>5
  <2> QED BY <1>1, <2>1
<1>10. \A j, k \in DOMAIN q : q[j] = q[k] => j = k
  BY <1>3 DEF Lists
<1>11. Listed(ids, dag, q, 0)
  BY <1>6, <1>7, <1>8, <1>9, <1>10 DEF Listed
<1> QED BY <1>3, <1>11 DEF first

LEMMA TopoOrderLists ==
    ASSUME NEW ids, IsFiniteSet(ids), NEW dag, NEW rank, RanksUp(ids, dag, rank)
    PROVE  Topological(TopoOrder(ids, dag), ids, dag)
<1> DEFINE N == Cardinality(ids)
           first == SetToSeq(Ready(ids, dag, {}))
           Body(f) == [n \in 0 .. N |-> IF n = 0 THEN first ELSE TopoRound(ids, dag, n, f[n - 1])]
           order == CHOOSE f : f = Body(f)
<1>1. N \in Nat
  BY FS_CardinalityType
<1>2. TopoOrder(ids, dag) = order[N]
  BY ZenonT(60) DEF TopoOrder, TopoRound, Freed, Ready
<1>3. \E f : f = Body(f)
  <2> DEFINE T == {k \in 0 .. N : \E f : f = [n \in 0 .. k |-> IF n = 0 THEN first ELSE TopoRound(ids, dag, n, f[n - 1])]}
  <2> HIDE DEF first
  <2>1. 0 \in T
    <3>1. [n \in 0 .. 0 |-> first]
            = [n \in 0 .. 0 |-> IF n = 0 THEN first ELSE TopoRound(ids, dag, n, [i \in 0 .. 0 |-> first][n - 1])]
      BY SMTT(60)
    <3>2. 0 \in 0 .. N
      BY <1>1
    <3> QED BY <3>1, <3>2
  <2>2. ASSUME NEW k \in 0 .. N - 1, k \in T PROVE k + 1 \in T
    <3>1. PICK f : f = [n \in 0 .. k |-> IF n = 0 THEN first ELSE TopoRound(ids, dag, n, f[n - 1])]
      BY <2>2
    <3> DEFINE g == [n \in 0 .. k + 1 |-> IF n = k + 1 THEN TopoRound(ids, dag, k + 1, f[k]) ELSE f[n]]
               G(n) == IF n = 0 THEN first ELSE TopoRound(ids, dag, n, g[n - 1])
    <3>2. \A n \in 0 .. k : f[n] = IF n = 0 THEN first ELSE TopoRound(ids, dag, n, f[n - 1])
      BY <3>1, ZenonT(60)
    <3>3. \A n \in 0 .. k : g[n] = f[n] /\ n \in 0 .. k + 1
      OBVIOUS
    <3>4. g[k + 1] = TopoRound(ids, dag, k + 1, f[k]) /\ k + 1 \in 0 .. k + 1
      OBVIOUS
    <3>5. \A n \in 0 .. k + 1 : n = k + 1 \/ n \in 0 .. k
      OBVIOUS
    <3>6. \A n \in 0 .. k + 1 : n = 0 \/ n - 1 \in 0 .. k
      OBVIOUS
    <3>7. k + 1 # 0 /\ (k + 1) - 1 = k /\ k \in 0 .. k
      OBVIOUS
    <3>8. DOMAIN g = 0 .. k + 1 /\ g = [n \in 0 .. k + 1 |-> g[n]]
      OBVIOUS
    <3> HIDE DEF g
    <3>9. \A n \in 0 .. k + 1 : g[n] = G(n)
      <4> SUFFICES ASSUME NEW n \in 0 .. k + 1 PROVE g[n] = G(n)
        OBVIOUS
      <4>1. CASE n = k + 1
        <5>1. g[(k + 1) - 1] = f[k]
          BY <3>3, <3>7
        <5> QED BY <3>4, <3>7, <4>1, <5>1
      <4>2. CASE n \in 0 .. k
        <5>1. CASE n = 0
          BY <3>2, <3>3, <4>2, <5>1
        <5>2. CASE n # 0
          <6>1. g[n - 1] = f[n - 1]
            BY <3>3, <3>6, <5>2
          <6> QED BY <3>2, <3>3, <4>2, <5>2, <6>1
        <5> QED BY <5>1, <5>2
      <4> QED BY <3>5, <4>1, <4>2
    <3>10. g = [n \in 0 .. k + 1 |-> G(n)]
      BY <3>8, <3>9, ZenonT(60)
    <3>11. k + 1 \in 0 .. N
      BY <1>1
    <3> QED BY <3>10, <3>11
  <2> HIDE DEF T
  <2>3. \A k \in 0 .. N : k \in T
    BY <1>1, <2>1, <2>2, RangeInduction
  <2>4. N \in T
    BY <1>1, <2>3
  <2> QED BY <2>4 DEF T
<1>4. order = Body(order)
  BY <1>3, ZenonT(60)
<1> HIDE DEF order, first
<1>5. order[0] = first /\ \A n \in 1 .. N : order[n] = TopoRound(ids, dag, n, order[n - 1])
  <2>1. 0 \in 0 .. N /\ \A n \in 1 .. N : n \in 0 .. N /\ n # 0
    BY <1>1
  <2> QED BY <1>4, <2>1, ZenonT(60)
<1> HIDE DEF N
<1> DEFINE T == {n \in 0 .. N : Listed(ids, dag, order[n], n)}
<1>6. 0 \in T
  BY <1>1, <1>5, TopoStart DEF first
<1>7. ASSUME NEW k \in 0 .. N - 1, k \in T PROVE k + 1 \in T
  <2>1. k + 1 \in Nat /\ k + 1 # 0 /\ (k + 1) - 1 = k /\ k + 1 \in 1 .. N /\ k + 1 \in 0 .. N
    BY <1>1
  <2>2. Listed(ids, dag, order[k], (k + 1) - 1)
    BY <1>7, <2>1
  <2>3. Listed(ids, dag, TopoRound(ids, dag, k + 1, order[k]), k + 1)
    BY <2>1, <2>2, TopoRoundKeeps
  <2>4. order[k + 1] = TopoRound(ids, dag, k + 1, order[k])
    BY <1>5, <2>1
  <2> QED BY <2>1, <2>3, <2>4
<1> HIDE DEF T
<1>8. \A k \in 0 .. N : k \in T
  BY <1>1, <1>6, <1>7, RangeInduction
<1>9. Listed(ids, dag, order[N], Cardinality(ids))
  <2>1. N \in T
    BY <1>1, <1>8
  <2> QED BY <2>1 DEF T, N
<1>10. Topological(order[N], ids, dag)
  BY <1>9, ListComplete
<1> QED BY <1>2, <1>10

-----------------------------------------------------------------------------
(***************************************************************************)
(* The most sites on a path of components that ends at each of the order.  *)
(***************************************************************************)
LEMMA GreatestOf ==
    ASSUME NEW n \in Nat, NEW h \in [1 .. n -> Nat], NEW J \in SUBSET (1 .. n)
    PROVE  LET S == {0} \cup {h[j] : j \in J} IN Max(S) \in S /\ \A x \in S : x <= Max(S)
<1> DEFINE S == {0} \cup {h[j] : j \in J}
           T == {m \in 0 .. n : \E B \in Nat : \A j \in 1 .. m : h[j] <= B}
<1>1. 0 \in T
  OBVIOUS
<1>2. ASSUME NEW k \in 0 .. n - 1, k \in T PROVE k + 1 \in T
  <2>1. PICK B \in Nat : \A j \in 1 .. k : h[j] <= B
    BY <1>2
  <2>2. k + 1 \in 1 .. n /\ k + 1 \in 0 .. n /\ h[k + 1] \in Nat
    OBVIOUS
  <2>3. B + h[k + 1] \in Nat /\ \A j \in 1 .. k + 1 : h[j] <= B + h[k + 1]
    <3> SUFFICES ASSUME NEW j \in 1 .. k + 1 PROVE h[j] <= B + h[k + 1]
      BY <2>2
    <3>1. h[j] \in Nat
      BY <2>2
    <3> QED BY <2>1, <2>2, <3>1, SMTT(60)
  <2> QED BY <2>2, <2>3
<1> HIDE DEF T
<1>3. \A k \in 0 .. n : k \in T
  BY <1>1, <1>2, RangeInduction
<1>4. PICK B \in Nat : \A j \in 1 .. n : h[j] <= B
  <2>1. n \in T
    BY <1>3
  <2> QED BY <2>1 DEF T
<1>5. S \in SUBSET (0 .. B) /\ S # {}
  BY <1>4
<1> HIDE DEF S
<1>6. PICK m \in S : \A x \in S : x <= m
  BY <1>5, GreatestNat
<1>7. \A y \in S : m >= y
  BY <1>5, <1>6
<1>8. Max(S) \in S /\ \A y \in S : Max(S) >= y
  BY <1>6, <1>7, ZenonT(60) DEF Max
<1>9. \A x \in S : x <= Max(S)
  BY <1>5, <1>8
<1> QED BY <1>8, <1>9 DEF S

Before(q, dag, n) == {k \in 1 .. n - 1 : <<q[k], q[n]>> \in dag}
DepthRound(q, dag, tails, f, n) == SitesOf(tails, q[n]) + Max({0} \cup {f[j] : j \in Before(q, dag, n)})

Depths(d, q, dag, tails) ==
    /\ d \in [1 .. Len(q) -> Nat]
    /\ \A n \in 1 .. Len(q) :
          /\ SitesOf(tails, q[n]) <= d[n]
          /\ \A j \in Before(q, dag, n) : d[j] + SitesOf(tails, q[n]) <= d[n]
          /\ \/ d[n] = SitesOf(tails, q[n])
             \/ \E j \in Before(q, dag, n) : d[n] = d[j] + SitesOf(tails, q[n])

LEMMA SitesType ==
    ASSUME NEW tails, IsFiniteSet(tails)
    PROVE  \A s : SitesOf(tails, s) \in Nat
<1> SUFFICES ASSUME NEW s PROVE SitesOf(tails, s) \in Nat
  OBVIOUS
<1>1. IsFiniteSet({t \in tails : t[1] = s})
  BY FS_Subset
<1> QED BY <1>1, FS_CardinalityType DEF SitesOf

LEMMA DepthRoundType ==
    ASSUME NEW q, NEW dag, NEW tails, IsFiniteSet(tails), NEW n \in Nat, n # 0,
           NEW f, \A j \in 1 .. n - 1 : f[j] \in Nat
    PROVE  LET d == DepthRound(q, dag, tails, f, n)
               s == SitesOf(tails, q[n])
           IN  /\ d \in Nat /\ s <= d
               /\ \A j \in Before(q, dag, n) : f[j] + s <= d
               /\ d = s \/ \E j \in Before(q, dag, n) : d = f[j] + s
<1> DEFINE h == [j \in 1 .. n - 1 |-> f[j]]
           J == Before(q, dag, n)
           S == {0} \cup {f[j] : j \in J}
           d == DepthRound(q, dag, tails, f, n)
           s == SitesOf(tails, q[n])
<1>1. J \in SUBSET (1 .. n - 1) /\ n - 1 \in Nat /\ h \in [1 .. n - 1 -> Nat]
  BY DEF Before
<1>2. S = {0} \cup {h[j] : j \in J}
  BY <1>1
<1> HIDE DEF h, J
<1>3. LET Z == {0} \cup {h[j] : j \in J} IN Max(Z) \in Z /\ \A x \in Z : x <= Max(Z)
  BY ONLY <1>1, GreatestOf
<1>4. Max(S) \in S /\ \A x \in S : x <= Max(S)
  BY <1>2, <1>3
<1>5. s \in Nat
  BY SitesType
<1>6. \A j \in J : f[j] \in Nat
  BY <1>1
<1>7. d = s + Max(S)
  BY DEF DepthRound, J
<1>8. Max(S) \in Nat
  BY <1>4, <1>6
<1>9. PICK b : b = Max(S)
  OBVIOUS
<1>10. b \in Nat /\ d = s + b /\ (b = 0 \/ \E j \in J : b = f[j]) /\ \A j \in J : f[j] <= b
  BY <1>4, <1>7, <1>8, <1>9
<1> HIDE DEF S, d, s
<1>11. d \in Nat /\ s <= d /\ (\A j \in J : f[j] + s <= d) /\ (d = s \/ \E j \in J : d = f[j] + s)
  BY <1>5, <1>6, <1>10
<1> QED BY <1>11 DEF J, d, s

LEMMA DepthRoundSame ==
    ASSUME NEW q, NEW dag, NEW tails, NEW n, NEW f, NEW g, \A j \in 1 .. n - 1 : f[j] = g[j]
    PROVE  DepthRound(q, dag, tails, f, n) = DepthRound(q, dag, tails, g, n)
<1>1. \A j \in Before(q, dag, n) : f[j] = g[j]
  BY DEF Before
<1>2. {f[j] : j \in Before(q, dag, n)} = {g[j] : j \in Before(q, dag, n)}
  BY <1>1
<1> QED BY <1>2 DEF DepthRound

LEMMA MaxTailDepthIs ==
    ASSUME NEW q, Len(q) \in Nat, NEW dag, NEW tails, IsFiniteSet(tails)
    PROVE  Depths(MaxTailDepth(q, dag, tails), q, dag, tails)
<1> DEFINE N == Len(q)
           Body(f, m) == [n \in 1 .. m |-> DepthRound(q, dag, tails, f, n)]
           depth == CHOOSE f : f = Body(f, N)
           T == {m \in 0 .. N : \E f : f = Body(f, m)}
<1>1. MaxTailDepth(q, dag, tails) = depth
  BY ZenonT(60) DEF MaxTailDepth, DepthRound, Before
<1>2. 0 \in T
  <2>0. 0 \in 0 .. N
    OBVIOUS
  <2>1. [n \in 1 .. 0 |-> 0] = Body([n \in 1 .. 0 |-> 0], 0)
    OBVIOUS
  <2>2. \E f : f = Body(f, 0)
    BY <2>1
  <2> QED BY <2>0, <2>2
<1>3. ASSUME NEW k \in 0 .. N - 1, k \in T PROVE k + 1 \in T
  <2>1. PICK f : f = Body(f, k)
    BY <1>3
  <2> DEFINE g == [n \in 1 .. k + 1 |-> IF n = k + 1 THEN DepthRound(q, dag, tails, f, k + 1) ELSE f[n]]
  <2>2. \A n \in 1 .. k : f[n] = DepthRound(q, dag, tails, f, n)
    BY <2>1, ZenonT(60)
  <2>3. \A n \in 1 .. k : g[n] = f[n]
    OBVIOUS
  <2>4. g[k + 1] = DepthRound(q, dag, tails, f, k + 1)
    OBVIOUS
  <2>5. g = [n \in 1 .. k + 1 |-> g[n]]
    OBVIOUS
  <2> HIDE DEF g
  <2>6. \A n \in 1 .. k + 1 : g[n] = DepthRound(q, dag, tails, g, n)
    <3> SUFFICES ASSUME NEW n \in 1 .. k + 1 PROVE g[n] = DepthRound(q, dag, tails, g, n)
      OBVIOUS
    <3>1. \A j \in 1 .. n - 1 : j \in 1 .. k
      OBVIOUS
    <3>2. \A j \in 1 .. n - 1 : f[j] = g[j]
      BY <2>3, <3>1
    <3>3. DepthRound(q, dag, tails, f, n) = DepthRound(q, dag, tails, g, n)
      BY <3>2, DepthRoundSame
    <3>4. n = k + 1 \/ n \in 1 .. k
      OBVIOUS
    <3> QED BY <2>2, <2>3, <2>4, <3>3, <3>4
  <2>7. g = Body(g, k + 1)
    BY <2>5, <2>6, ZenonT(60)
  <2>8. k + 1 \in 0 .. N
    OBVIOUS
  <2> QED BY <2>7, <2>8
<1> HIDE DEF T
<1>4. \A k \in 0 .. N : k \in T
  BY <1>2, <1>3, RangeInduction
<1>5. N \in T
  BY <1>4
<1>6. \E f : f = Body(f, N)
  BY <1>5 DEF T
<1>7. depth = Body(depth, N)
  BY <1>6, ZenonT(60)
<1> HIDE DEF depth
<1>8. DOMAIN depth = 1 .. N /\ \A n \in 1 .. N : depth[n] = DepthRound(q, dag, tails, depth, n)
  BY <1>7, ZenonT(60)
<1>9. depth = [n \in 1 .. N |-> depth[n]]
  BY <1>7, ZenonT(60)
<1> DEFINE R == {m \in 0 .. N : \A n \in 1 .. m : depth[n] \in Nat}
<1>10. 0 \in R
  OBVIOUS
<1>11. ASSUME NEW k \in 0 .. N - 1, k \in R PROVE k + 1 \in R
  <2>1. k + 1 \in 1 .. N /\ k + 1 \in 0 .. N /\ k + 1 \in Nat /\ k + 1 # 0 /\ (k + 1) - 1 = k
    OBVIOUS
  <2>2. \A j \in 1 .. (k + 1) - 1 : depth[j] \in Nat
    BY <1>11, <2>1
  <2>3. DepthRound(q, dag, tails, depth, k + 1) \in Nat
    BY <2>1, <2>2, DepthRoundType
  <2>4. depth[k + 1] \in Nat
    BY <1>8, <2>1, <2>3
  <2>5. \A n \in 1 .. k + 1 : n = k + 1 \/ n \in 1 .. k
    OBVIOUS
  <2> QED BY <1>11, <2>1, <2>4, <2>5
<1> HIDE DEF R
<1>12. \A k \in 0 .. N : k \in R
  BY <1>10, <1>11, RangeInduction
<1>13. \A n \in 1 .. N : depth[n] \in Nat
  <2>1. N \in R
    BY <1>12
  <2> QED BY <2>1 DEF R
<1> HIDE DEF N
<1>14. depth \in [1 .. N -> Nat]
  BY <1>9, <1>13
<1>15. ASSUME NEW n \in 1 .. N
       PROVE  /\ SitesOf(tails, q[n]) <= depth[n]
              /\ \A j \in Before(q, dag, n) : depth[j] + SitesOf(tails, q[n]) <= depth[n]
              /\ \/ depth[n] = SitesOf(tails, q[n])
                 \/ \E j \in Before(q, dag, n) : depth[n] = depth[j] + SitesOf(tails, q[n])
  <2>1. n \in Nat /\ n # 0 /\ \A j \in 1 .. n - 1 : j \in 1 .. N
    BY DEF N
  <2>2. \A j \in 1 .. n - 1 : depth[j] \in Nat
    BY <1>13, <2>1
  <2>3. LET d == DepthRound(q, dag, tails, depth, n)
            s == SitesOf(tails, q[n])
        IN  /\ d \in Nat /\ s <= d
            /\ \A j \in Before(q, dag, n) : depth[j] + s <= d
            /\ d = s \/ \E j \in Before(q, dag, n) : d = depth[j] + s
    BY <2>1, <2>2, DepthRoundType, ZenonT(60)
  <2> QED BY <1>8, <2>3
<1> QED BY <1>1, <1>14, <1>15 DEF Depths, N

-----------------------------------------------------------------------------
(***************************************************************************)
(* What is found by following every execution: the least set that has the  *)
(* entry's arrival and goes on along every edge.                           *)
(***************************************************************************)
Arrive(sites, l, S) == <<l, S \cup ({l} \cap sites)>>
GoesOn(sites, X) == \A x \in X, l \in Labels : Edge(x[1], l) => Arrive(sites, l, x[2]) \in X

IsArrivals(A, sites) ==
    /\ A \subseteq Labels \X SUBSET Labels
    /\ Arrive(sites, Entry, {}) \in A /\ GoesOn(sites, A)
    /\ \A T \in SUBSET (Labels \X SUBSET Labels) :
          Arrive(sites, Entry, {}) \in T /\ GoesOn(sites, T) => A \subseteq T

LEMMA ArrivalsAre ==
    ASSUME NEW sites \in SUBSET Labels
    PROVE  IsArrivals(Arrivals(sites), sites)
<1> DEFINE U == Labels \X SUBSET Labels
           Step(X) == UNION {{Arrive(sites, l, x[2]) : l \in {m \in Labels : Edge(x[1], m)}} : x \in X}
           F == [X \in SUBSET U |-> X \cup Step(X)]
           c == CHOOSE c : c = [X \in SUBSET (Labels \X SUBSET Labels) |->
                    IF X \cup Step(X) = X THEN X ELSE c[X \cup Step(X)]]
           S0 == {Arrive(sites, Entry, {})}
<1>1. \A l \in Labels, S \in SUBSET Labels : Arrive(sites, l, S) \in U
  BY DEF Arrive
<1>2. ASSUME NEW X \in SUBSET U PROVE Step(X) \in SUBSET U
  <2>1. \A x \in X : x[2] \in SUBSET Labels
    OBVIOUS
  <2> HIDE DEF U
  <2> QED BY <1>1, <2>1
<1>3. F \in [SUBSET U -> SUBSET U]
  <2> HIDE DEF Step, U
  <2> QED BY <1>2
<1>4. PICK h : Iterates(U, F, h)
  <2> HIDE DEF F, U
  <2> QED BY <1>3, GrowthExists
<1>5. h = [X \in SUBSET (Labels \X SUBSET Labels) |->
               IF X \cup Step(X) = X THEN X ELSE h[X \cup Step(X)]]
  <2> HIDE DEF Step
  <2> QED BY <1>4 DEF Iterates
<1>6. c = [X \in SUBSET (Labels \X SUBSET Labels) |->
               IF X \cup Step(X) = X THEN X ELSE c[X \cup Step(X)]]
  <2> HIDE DEF Step
  <2> QED BY <1>5, ZenonT(60)
<1>7. Arrivals(sites) = c[S0]
  BY ZenonT(60) DEF Arrivals, Arrive
<1>8. GrowsIn(U, F, c)
  <2>1. IsFiniteSet(U)
    <3>1. IsFiniteSet(Labels) /\ IsFiniteSet(SUBSET Labels)
      BY LabelsAssumption, FS_SUBSET
    <3> QED BY <3>1, FS_Product
  <2>2. Iterates(U, F, c)
    <3> HIDE DEF c, Step
    <3> QED BY <1>6 DEF Iterates
  <2>3. \A X, Y \in SUBSET U : X \subseteq Y => Step(X) \subseteq Step(Y)
    <3> SUFFICES ASSUME NEW X, NEW Y, X \subseteq Y, NEW y \in Step(X) PROVE y \in Step(Y)
      OBVIOUS
    <3>1. PICK x \in X : y \in {Arrive(sites, l, x[2]) : l \in {m \in Labels : Edge(x[1], m)}}
      OBVIOUS
    <3>2. x \in Y
      OBVIOUS
    <3> QED BY <3>1, <3>2
  <2>4. \A X, Y \in SUBSET U : X \subseteq F[X] /\ (X \subseteq Y => F[X] \subseteq F[Y])
    <3> HIDE DEF U, Step
    <3> QED BY <2>3
  <2> HIDE DEF F, c, U
  <2> QED BY <1>3, <2>1, <2>2, <2>4 DEF GrowsIn
<1> DEFINE A == c[S0]
<1> HIDE DEF c
<1>9. S0 \in SUBSET U
  BY <1>1, LabelsAssumption
<1>10. LeastKept(U, F, S0, A)
  <2> HIDE DEF F, U, S0
  <2> QED BY <1>8, <1>9, GrowthResult
<1>11. \A T \in SUBSET U : F[T] = T <=> GoesOn(sites, T)
  <2> SUFFICES ASSUME NEW T \in SUBSET U PROVE F[T] = T <=> GoesOn(sites, T)
    OBVIOUS
  <2>1. F[T] = T <=> Step(T) \subseteq T
    <3> HIDE DEF Step, U
    <3> QED OBVIOUS
  <2>2. ASSUME Step(T) \subseteq T, NEW x \in T, NEW l \in Labels, Edge(x[1], l)
        PROVE  Arrive(sites, l, x[2]) \in T
    <3>1. Arrive(sites, l, x[2]) \in {Arrive(sites, n, x[2]) : n \in {m \in Labels : Edge(x[1], m)}}
      BY <2>2
    <3>2. Arrive(sites, l, x[2]) \in Step(T)
      BY <3>1
    <3> QED BY <2>2, <3>2
  <2>3. ASSUME GoesOn(sites, T), NEW y \in Step(T) PROVE y \in T
    <3>1. PICK x \in T : y \in {Arrive(sites, l, x[2]) : l \in {m \in Labels : Edge(x[1], m)}}
      OBVIOUS
    <3> HIDE DEF Step, U
    <3> QED BY <2>3, <3>1 DEF GoesOn
  <2>4. Step(T) \subseteq T <=> GoesOn(sites, T)
    <3> HIDE DEF Step, U
    <3> QED BY <2>2, <2>3 DEF GoesOn
  <2> QED BY <2>1, <2>4
<1> HIDE DEF F, A
<1>12. /\ A \in SUBSET U /\ S0 \subseteq A /\ GoesOn(sites, A)
       /\ \A T \in SUBSET U : S0 \subseteq T /\ GoesOn(sites, T) => A \subseteq T
  BY <1>10, <1>11 DEF LeastKept
<1>13. \A T : S0 \subseteq T <=> Arrive(sites, Entry, {}) \in T
  OBVIOUS
<1> HIDE DEF S0
<1>14. IsArrivals(A, sites)
  BY <1>12, <1>13 DEF IsArrivals
<1> QED BY <1>7, <1>14 DEF A

-----------------------------------------------------------------------------
(***************************************************************************)
(* The levels of the reachable labels L: the place of a label's component  *)
(* in the order, and the depth at each place.                              *)
(***************************************************************************)
Follow(S) == \A u \in S, v \in Labels : Edge(u, v) => v \in S
Sites(L, sites, lev, k) == {l \in L \cap sites : lev[l] = k}
Count(L, sites, lev, k) == Cardinality(Sites(L, sites, lev, k))

Levels(L, sites, lev, N, d) ==
    /\ L \subseteq Labels /\ Entry \in L /\ Follow(L)
    /\ N \in Nat /\ lev \in [L -> 1 .. N] /\ d \in [1 .. N -> Nat]
    /\ \A S \in SUBSET L : Entry \in S /\ Follow(S) => S = L
    /\ \A u, v \in L : lev[u] = lev[v] => \A S \in SUBSET L : u \in S /\ Follow(S) => v \in S

DepthAbove(L, sites, lev, N, d) ==
    /\ \A k \in 1 .. N : Count(L, sites, lev, k) <= d[k]
    /\ \A u, v \in L : Edge(u, v) /\ lev[u] # lev[v] =>
          lev[u] < lev[v] /\ d[lev[u]] + Count(L, sites, lev, lev[v]) <= d[lev[v]]

DepthTight(L, sites, lev, N, d) ==
    \A k \in 1 .. N :
        /\ \E l \in L : lev[l] = k
        /\ \/ d[k] = Count(L, sites, lev, k)
           \/ \E u, v \in L : /\ Edge(u, v) /\ lev[v] = k /\ lev[u] < k
                              /\ d[k] = d[lev[u]] + Count(L, sites, lev, k)

LEMMA CountType ==
    ASSUME NEW L \in SUBSET Labels, NEW sites, NEW lev, NEW k
    PROVE  IsFiniteSet(Sites(L, sites, lev, k)) /\ Count(L, sites, lev, k) \in Nat
<1>1. Sites(L, sites, lev, k) \in SUBSET Labels
  BY DEF Sites
<1>2. IsFiniteSet(Sites(L, sites, lev, k))
  BY <1>1, LabelsAssumption, FS_Subset
<1> QED BY <1>2, FS_CardinalityType DEF Count

\* The sites passed on the way to a label, and those of its own component, are
\* no more than the depth at its level.
Within(L, sites, lev, d, x) ==
    /\ x[1] \in L /\ x[2] \subseteq L \cap sites
    /\ x[1] \in sites => x[1] \in x[2]
    /\ \A s \in x[2] : lev[s] <= lev[x[1]]
    /\ Cardinality(x[2] \ Sites(L, sites, lev, lev[x[1]])) + Count(L, sites, lev, lev[x[1]]) <= d[lev[x[1]]]

LEMMA SplitCount ==
    ASSUME NEW P, IsFiniteSet(P), NEW S, IsFiniteSet(S)
    PROVE  /\ Cardinality(P) \in Nat /\ Cardinality(P \ S) \in Nat /\ Cardinality(S) \in Nat
           /\ Cardinality(P) <= Cardinality(P \ S) + Cardinality(S)
           /\ S \subseteq P => Cardinality(P) = Cardinality(P \ S) + Cardinality(S)
<1>1. IsFiniteSet(P \ S) /\ Cardinality(P \ S) = Cardinality(P) - Cardinality(P \cap S)
  BY FS_Difference
<1>2. IsFiniteSet(P \cap S) /\ Cardinality(P \cap S) <= Cardinality(S)
  <2>1. P \cap S \in SUBSET S
    OBVIOUS
  <2> QED BY <2>1, FS_Subset
<1>3. Cardinality(P) \in Nat /\ Cardinality(P \ S) \in Nat /\ Cardinality(S) \in Nat /\ Cardinality(P \cap S) \in Nat
  BY <1>1, <1>2, FS_CardinalityType
<1>4. S \subseteq P => Cardinality(P \cap S) = Cardinality(S)
  <2>1. S \subseteq P => P \cap S = S
    OBVIOUS
  <2> QED BY <2>1
<1>5. PICK a, b, c, e : a = Cardinality(P) /\ b = Cardinality(P \ S) /\ c = Cardinality(S) /\ e = Cardinality(P \cap S)
  OBVIOUS
<1>6. a \in Nat /\ b \in Nat /\ c \in Nat /\ e \in Nat /\ b = a - e /\ e <= c /\ (S \subseteq P => e = c)
  BY <1>1, <1>2, <1>3, <1>4, <1>5
<1>7. a \in Nat /\ b \in Nat /\ c \in Nat /\ a <= b + c /\ (S \subseteq P => a = b + c)
  BY ONLY <1>6
<1> QED BY <1>5, <1>7

LEMMA WithinGoesOn ==
    ASSUME NEW L, NEW sites, NEW lev, NEW N, NEW d, Levels(L, sites, lev, N, d),
           DepthAbove(L, sites, lev, N, d),
           NEW x, Within(L, sites, lev, d, x), NEW v \in Labels, Edge(x[1], v)
    PROVE  Within(L, sites, lev, d, Arrive(sites, v, x[2]))
<1>1. PICK u, P : u = x[1] /\ P = x[2]
  OBVIOUS
<1>2. PICK Q : Q = P \cup ({v} \cap sites)
  OBVIOUS
<1>3. PICK y : y = Arrive(sites, v, x[2]) /\ y[1] = v /\ y[2] = Q
  <2>1. Arrive(sites, v, x[2]) = <<v, Q>>
    BY <1>1, <1>2 DEF Arrive
  <2> QED BY <2>1
<1>4. u \in L /\ v \in L /\ Edge(u, v)
  BY <1>1 DEF Levels, Within, Follow
<1>5. PICK i, j : i = lev[u] /\ j = lev[v]
  OBVIOUS
<1>6. i \in 1 .. N /\ j \in 1 .. N /\ N \in Nat /\ d[i] \in Nat /\ d[j] \in Nat /\ \A l \in L : lev[l] \in 1 .. N
  BY <1>4, <1>5 DEF Levels
<1>7. P \subseteq L \cap sites /\ (\A s \in P : lev[s] <= i)
  BY <1>1, <1>5 DEF Within
<1>8. PICK Si, Sj : Si = Sites(L, sites, lev, i) /\ Sj = Sites(L, sites, lev, j)
  OBVIOUS
<1>9. /\ IsFiniteSet(Si) /\ IsFiniteSet(Sj) /\ Cardinality(Si) \in Nat /\ Cardinality(Sj) \in Nat
      /\ Count(L, sites, lev, i) = Cardinality(Si) /\ Count(L, sites, lev, j) = Cardinality(Sj)
  <2>1. L \in SUBSET Labels
    BY DEF Levels
  <2> QED BY <1>8, <2>1, CountType DEF Count
<1>10. Cardinality(P \ Si) + Cardinality(Si) <= d[i]
  BY <1>1, <1>5, <1>8, <1>9 DEF Within
<1>11. IsFiniteSet(P)
  <2>1. P \in SUBSET Labels
    BY <1>7 DEF Levels
  <2> QED BY <2>1, LabelsAssumption, FS_Subset
<1>12. i <= j
  BY <1>4, <1>5, <1>6 DEF DepthAbove
<1>13. Q \subseteq L \cap sites /\ (v \in sites => v \in Q)
  BY <1>2, <1>4, <1>7
<1>14. \A s \in Q : lev[s] <= j
  <2> SUFFICES ASSUME NEW s \in Q PROVE lev[s] <= j
    OBVIOUS
  <2>1. CASE s \in P
    <3>1. lev[s] <= i /\ lev[s] \in 1 .. N
      BY <1>6, <1>7, <2>1
    <3> QED BY <1>6, <1>12, <3>1
  <2>2. CASE s = v
    BY <1>5, <1>6, <2>2
  <2> QED BY <1>2, <2>1, <2>2
<1>15. Cardinality(Q \ Sj) + Cardinality(Sj) <= d[j]
  <2>1. v \in sites => v \in Sj
    BY <1>4, <1>5, <1>8 DEF Sites
  <2>2. Q \ Sj = P \ Sj
    BY <1>2, <2>1
  <2>3. CASE i = j
    BY <1>8, <1>10, <2>2, <2>3, SMTT(60)
  <2>4. CASE i # j
    <3>1. d[i] + Cardinality(Sj) <= d[j]
      BY <1>4, <1>5, <1>9, <2>4 DEF DepthAbove
    <3>2. /\ Cardinality(P) \in Nat /\ Cardinality(P \ Si) \in Nat
          /\ Cardinality(P) <= Cardinality(P \ Si) + Cardinality(Si)
      BY <1>9, <1>11, SplitCount
    <3>3. P \ Sj \in SUBSET P
      OBVIOUS
    <3>4. Cardinality(P \ Sj) <= Cardinality(P) /\ IsFiniteSet(P \ Sj)
      BY <1>11, <3>3, FS_Subset
    <3>5. Cardinality(P \ Sj) \in Nat
      BY <3>4, FS_CardinalityType
    <3>6. PICK a, b, c, e, f : /\ a = Cardinality(P) /\ b = Cardinality(P \ Si) /\ c = Cardinality(Si)
                               /\ e = Cardinality(Sj) /\ f = Cardinality(P \ Sj)
      OBVIOUS
    <3>7. PICK di, dj : di = d[i] /\ dj = d[j]
      OBVIOUS
    <3>8. /\ a \in Nat /\ b \in Nat /\ c \in Nat /\ e \in Nat /\ f \in Nat /\ di \in Nat /\ dj \in Nat
          /\ di + e <= dj /\ a <= b + c /\ f <= a /\ b + c <= di
      BY <1>6, <1>9, <1>10, <3>1, <3>2, <3>4, <3>5, <3>6, <3>7, SMTT(60)
    <3>9. f + e <= dj
      BY ONLY <3>8
    <3> QED BY <2>2, <3>6, <3>7, <3>9, SMTT(60)
  <2> QED BY <2>3, <2>4
<1> QED BY <1>3, <1>4, <1>5, <1>8, <1>9, <1>13, <1>14, <1>15, SMTT(60) DEF Within

LEMMA ArrivalsWithin ==
    ASSUME NEW L, NEW sites \in SUBSET Labels, NEW lev, NEW N, NEW d, Levels(L, sites, lev, N, d),
           DepthAbove(L, sites, lev, N, d), NEW A, IsArrivals(A, sites)
    PROVE  \A x \in A : Within(L, sites, lev, d, x)
<1> DEFINE T == {x \in Labels \X SUBSET Labels : Within(L, sites, lev, d, x)}
<1>1. Arrive(sites, Entry, {}) \in T
  <2>1. PICK P : P = {Entry} \cap sites
    OBVIOUS
  <2>2. PICK y : y = Arrive(sites, Entry, {}) /\ y[1] = Entry /\ y[2] = P /\ y = <<Entry, P>>
    BY <2>1 DEF Arrive
  <2>3. PICK k : k = lev[Entry]
    OBVIOUS
  <2>4. k \in 1 .. N /\ Entry \in L /\ L \in SUBSET Labels /\ d[k] \in Nat /\ N \in Nat
    BY <2>3 DEF Levels
  <2>5. P \ Sites(L, sites, lev, k) = {}
    BY <2>1, <2>3, <2>4 DEF Sites
  <2>6. Count(L, sites, lev, k) \in Nat /\ Count(L, sites, lev, k) <= d[k]
    BY <2>4, CountType DEF DepthAbove
  <2>7. Cardinality(P \ Sites(L, sites, lev, k)) + Count(L, sites, lev, k) <= d[k]
    <3>1. Cardinality(P \ Sites(L, sites, lev, k)) = 0
      BY <2>5, FS_EmptySet
    <3> QED BY <2>4, <2>6, <3>1
  <2>8. P \subseteq L \cap sites /\ (Entry \in sites => Entry \in P) /\ \A s \in P : lev[s] <= k
    BY <2>1, <2>3, <2>4
  <2>9. Within(L, sites, lev, d, y)
    BY <2>2, <2>3, <2>4, <2>7, <2>8 DEF Within
  <2>10. y \in Labels \X SUBSET Labels
    BY <2>2, <2>4, <2>8
  <2> QED BY <2>2, <2>9, <2>10
<1>2. GoesOn(sites, T)
  <2> SUFFICES ASSUME NEW x \in T, NEW l \in Labels, Edge(x[1], l) PROVE Arrive(sites, l, x[2]) \in T
    BY DEF GoesOn
  <2>1. Arrive(sites, l, x[2]) \in Labels \X SUBSET Labels
    BY DEF Arrive
  <2>2. Within(L, sites, lev, d, Arrive(sites, l, x[2]))
    BY WithinGoesOn
  <2> QED BY <2>1, <2>2
<1>3. A \subseteq T
  <2>1. T \in SUBSET (Labels \X SUBSET Labels)
    OBVIOUS
  <2> HIDE DEF T
  <2> QED BY <1>1, <1>2, <2>1 DEF IsArrivals
<1> QED BY <1>3

LEMMA DepthBounds ==
    ASSUME NEW L, NEW sites \in SUBSET Labels, NEW lev, NEW N, NEW d, Levels(L, sites, lev, N, d),
           DepthAbove(L, sites, lev, N, d), NEW A, IsArrivals(A, sites), NEW x \in A
    PROVE  x[1] \in L /\ Cardinality(x[2]) \in Nat /\ Cardinality(x[2]) <= d[lev[x[1]]]
<1>1. Within(L, sites, lev, d, x)
  BY ArrivalsWithin
<1>2. PICK k : k = lev[x[1]]
  OBVIOUS
<1>3. x[1] \in L /\ L \in SUBSET Labels /\ k \in 1 .. N /\ d[k] \in Nat /\ x[2] \in SUBSET Labels
  BY <1>1, <1>2, SMTT(60) DEF Within, Levels
<1>4. IsFiniteSet(x[2]) /\ IsFiniteSet(Sites(L, sites, lev, k))
  BY <1>3, LabelsAssumption, FS_Subset, CountType
<1>5. Cardinality(x[2] \ Sites(L, sites, lev, k)) + Cardinality(Sites(L, sites, lev, k)) <= d[k]
  BY <1>1, <1>2 DEF Within, Count
<1>6. /\ Cardinality(x[2]) \in Nat /\ Cardinality(x[2] \ Sites(L, sites, lev, k)) \in Nat
      /\ Cardinality(Sites(L, sites, lev, k)) \in Nat
      /\ Cardinality(x[2]) <= Cardinality(x[2] \ Sites(L, sites, lev, k)) + Cardinality(Sites(L, sites, lev, k))
  BY <1>4, SplitCount
<1>7. Cardinality(x[2]) <= d[k]
  BY <1>3, <1>5, <1>6
<1> QED BY <1>2, <1>3, <1>6, <1>7, SMTT(60)

OnTo(A, P, v) == \E Q : <<v, Q>> \in A /\ P \subseteq Q

(***************************************************************************)
(* Some execution passes as many sites as the depth says: it can walk on   *)
(* to any label of a component, past all of the component's sites.         *)
(***************************************************************************)
LEMMA WalksOn ==
    ASSUME NEW L, NEW sites \in SUBSET Labels, NEW lev, NEW N, NEW d, Levels(L, sites, lev, N, d),
           NEW A, IsArrivals(A, sites), NEW u \in L, NEW P, <<u, P>> \in A,
           NEW v \in L, lev[u] = lev[v]
    PROVE  OnTo(A, P, v)
<1> DEFINE S == {m \in L : OnTo(A, P, m)}
<1> USE DEF OnTo
<1>1. u \in S /\ S \in SUBSET L
  OBVIOUS
<1>2. Follow(S)
  <2> SUFFICES ASSUME NEW m \in S, NEW l \in Labels, Edge(m, l) PROVE l \in S
    BY DEF Follow
  <2>1. PICK Q : <<m, Q>> \in A /\ P \subseteq Q
    OBVIOUS
  <2>2. Arrive(sites, l, Q) \in A
    BY <2>1 DEF IsArrivals, GoesOn
  <2>3. l \in L
    BY DEF Levels, Follow
  <2>4. P \subseteq Q \cup ({l} \cap sites)
    BY <2>1
  <2> QED BY <2>2, <2>3, <2>4 DEF Arrive
<1> HIDE DEF S
<1>3. v \in S
  BY <1>1, <1>2 DEF Levels
<1> QED BY <1>3 DEF S

LEMMA AllReached ==
    ASSUME NEW L, NEW sites \in SUBSET Labels, NEW lev, NEW N, NEW d, Levels(L, sites, lev, N, d),
           NEW A, IsArrivals(A, sites)
    PROVE  \A l \in L : \E P : <<l, P>> \in A
<1> DEFINE S == {m \in L : \E P : <<m, P>> \in A}
<1>1. Entry \in S /\ S \in SUBSET L
  BY DEF IsArrivals, Arrive, Levels
<1>2. Follow(S)
  <2> SUFFICES ASSUME NEW m \in S, NEW l \in Labels, Edge(m, l) PROVE l \in S
    BY DEF Follow
  <2>1. PICK P : <<m, P>> \in A
    OBVIOUS
  <2>2. Arrive(sites, l, P) \in A
    BY <2>1 DEF IsArrivals, GoesOn
  <2>3. l \in L
    BY DEF Levels, Follow
  <2> QED BY <2>2, <2>3 DEF Arrive
<1> HIDE DEF S
<1>3. S = L
  BY <1>1, <1>2 DEF Levels
<1> QED BY <1>3 DEF S

Collects(A, P, v, Z) == \E Q : <<v, Q>> \in A /\ P \subseteq Q /\ Z \subseteq Q

LEMMA CollectsAll ==
    ASSUME NEW L, NEW sites \in SUBSET Labels, NEW lev, NEW N, NEW d, Levels(L, sites, lev, N, d),
           DepthAbove(L, sites, lev, N, d), NEW A, IsArrivals(A, sites),
           NEW u \in L, NEW P, <<u, P>> \in A, NEW v \in L, lev[u] = lev[v]
    PROVE  Collects(A, P, v, Sites(L, sites, lev, lev[v]))
<1> DEFINE k == lev[v]
           Z == Sites(L, sites, lev, k)
           C == Cardinality(Z)
           T == {Cardinality(x[2] \cap Z) : x \in {y \in A : P \subseteq y[2] /\ lev[y[1]] = k}}
<1>1. L \in SUBSET Labels /\ \A x \in A : x[1] \in L /\ x \in Labels \X SUBSET Labels
  <2>1. \A x \in A : x[1] \in L
    BY DepthBounds
  <2>2. L \in SUBSET Labels /\ \A x \in A : x \in Labels \X SUBSET Labels
    BY DEF Levels, IsArrivals
  <2> QED BY <2>1, <2>2
<1>2. IsFiniteSet(Z) /\ C \in Nat
  BY <1>1, CountType, FS_CardinalityType
<1>3. ASSUME NEW x \in A
      PROVE  IsFiniteSet(x[2] \cap Z) /\ Cardinality(x[2] \cap Z) \in 0 .. C
  <2>1. x[2] \cap Z \in SUBSET Z
    OBVIOUS
  <2>2. IsFiniteSet(x[2] \cap Z) /\ Cardinality(x[2] \cap Z) <= C
    BY <1>2, <2>1, FS_Subset
  <2>3. Cardinality(x[2] \cap Z) \in Nat
    BY <2>2, FS_CardinalityType
  <2> QED BY <1>2, <2>2, <2>3
<1>4. T \in SUBSET (0 .. C)
  <2> HIDE DEF Z, C
  <2> QED BY <1>3
<1>5. T # {}
  <2>1. <<u, P>> \in {y \in A : P \subseteq y[2] /\ lev[y[1]] = k}
    OBVIOUS
  <2> QED BY <2>1
<1>6. PICK m \in T : \A n \in T : n <= m
  <2> HIDE DEF T, C
  <2> QED BY <1>2, <1>4, <1>5, GreatestNat
<1>7. PICK x \in A : P \subseteq x[2] /\ lev[x[1]] = k /\ m = Cardinality(x[2] \cap Z)
  BY <1>6
<1>8. PICK w, Q : x = <<w, Q>> /\ w \in L
  BY <1>1
<1>9. <<w, Q>> \in A /\ P \subseteq Q /\ lev[w] = k /\ m = Cardinality(Q \cap Z)
  BY <1>7, <1>8
<1>10. Z \subseteq Q
  <2> SUFFICES ASSUME NEW s \in Z, s \notin Q PROVE FALSE
    OBVIOUS
  <2>1. s \in L /\ s \in sites /\ lev[s] = k
    BY DEF Sites
  <2>2. PICK R : <<s, R>> \in A /\ Q \subseteq R
    <3>1. lev[w] = lev[s]
      BY <1>9, <2>1
    <3> HIDE DEF T, Z, k, C
    <3>2. s \in L /\ w \in L /\ <<w, Q>> \in A
      BY <1>8, <1>9, <2>1
    <3>3. OnTo(A, Q, s)
      BY <3>1, <3>2, WalksOn
    <3> QED BY <3>3 DEF OnTo
  <2>3. s \in R
    <3>1. Within(L, sites, lev, d, <<s, R>>)
      BY <2>2, ArrivalsWithin
    <3> QED BY <2>1, <3>1 DEF Within
  <2>4. Q \cap Z \in SUBSET (R \cap Z) /\ Q \cap Z # R \cap Z
    BY <2>2, <2>3
  <2>5. IsFiniteSet(R \cap Z) /\ Cardinality(R \cap Z) \in Nat
    BY <1>3, <2>2
  <2>6. Cardinality(Q \cap Z) < Cardinality(R \cap Z)
    BY <2>4, <2>5, FS_Subset, FS_CardinalityType
  <2>7. Cardinality(R \cap Z) \in T
    <3>1. <<s, R>> \in {y \in A : P \subseteq y[2] /\ lev[y[1]] = k}
      BY <1>9, <2>1, <2>2
    <3> QED BY <3>1
  <2>8. Cardinality(R \cap Z) <= m
    BY <1>6, <2>7
  <2>9. m \in Nat
    <3> HIDE DEF T, C
    <3> QED BY <1>2, <1>4
  <2> QED BY <1>9, <2>5, <2>6, <2>8, <2>9, SMTT(60)
<1>11. PICK R : <<v, R>> \in A /\ Q \subseteq R
  <2>1. lev[w] = lev[v]
    BY <1>9
  <2> HIDE DEF T, Z, k, C
  <2>2. w \in L /\ <<w, Q>> \in A
    BY <1>8, <1>9
  <2>3. OnTo(A, Q, v)
    BY <2>1, <2>2, WalksOn
  <2> QED BY <2>3 DEF OnTo
<1> QED BY <1>9, <1>10, <1>11 DEF Collects

Attained(L, A, lev, d, k) == \A l \in L : lev[l] = k => \E P : <<l, P>> \in A /\ d[k] <= Cardinality(P)

LEMMA DepthAttained ==
    ASSUME NEW L, NEW sites \in SUBSET Labels, NEW lev, NEW N, NEW d, Levels(L, sites, lev, N, d),
           DepthAbove(L, sites, lev, N, d), DepthTight(L, sites, lev, N, d),
           NEW A, IsArrivals(A, sites), NEW k \in 1 .. N,
           \A j \in 1 .. k - 1 : Attained(L, A, lev, d, j)
    PROVE  Attained(L, A, lev, d, k)
<1>1. /\ L \in SUBSET Labels /\ N \in Nat /\ k \in Nat
      /\ \A x \in A : x \in Labels \X SUBSET Labels
      /\ \A l \in L : lev[l] \in 1 .. N
      /\ \A j \in 1 .. N : d[j] \in Nat
  BY DEF Levels, IsArrivals
<1>2. PICK Z : Z = Sites(L, sites, lev, k)
  OBVIOUS
<1>3. IsFiniteSet(Z) /\ Cardinality(Z) \in Nat /\ Count(L, sites, lev, k) = Cardinality(Z)
  BY <1>1, <1>2, CountType DEF Count
<1>4. \A l, P : <<l, P>> \in A => IsFiniteSet(P) /\ Cardinality(P) \in Nat
  <2> SUFFICES ASSUME NEW l, NEW P, <<l, P>> \in A PROVE IsFiniteSet(P) /\ Cardinality(P) \in Nat
    OBVIOUS
  <2>1. P \in SUBSET Labels
    BY <1>1
  <2>2. IsFiniteSet(P)
    BY <2>1, LabelsAssumption, FS_Subset
  <2> QED BY <2>2, FS_CardinalityType
<1>5. \E y \in L : \E P : <<y, P>> \in A /\ lev[y] = k /\ d[k] <= Cardinality(P \ Z) + Cardinality(Z)
  <2>1. CASE d[k] = Count(L, sites, lev, k)
    <3>1. PICK y \in L : lev[y] = k
      BY DEF DepthTight
    <3>2. PICK P : <<y, P>> \in A
      BY AllReached
    <3>3. Cardinality(P \ Z) \in Nat
      BY <1>3, <1>4, <3>2, SplitCount
    <3>4. d[k] <= Cardinality(P \ Z) + Cardinality(Z)
      BY <1>1, <1>3, <2>1, <3>3
    <3> QED BY <3>1, <3>2, <3>4
  <2>2. CASE \E u, v \in L : /\ Edge(u, v) /\ lev[v] = k /\ lev[u] < k
                             /\ d[k] = d[lev[u]] + Count(L, sites, lev, k)
    <3>1. PICK u, v \in L : /\ Edge(u, v) /\ lev[v] = k /\ lev[u] < k
                            /\ d[k] = d[lev[u]] + Count(L, sites, lev, k)
      BY <2>2
    <3>2. PICK i : i = lev[u]
      OBVIOUS
    <3>3. i \in 1 .. k - 1 /\ i \in 1 .. N
      BY <1>1, <3>1, <3>2
    <3>4. PICK P : <<u, P>> \in A /\ d[i] <= Cardinality(P)
      BY <3>2, <3>3 DEF Attained
    <3>5. PICK Q : Q = P \cup ({v} \cap sites)
      OBVIOUS
    <3>6. <<v, Q>> \in A
      <4>1. Arrive(sites, v, P) \in A
        <5>1. GoesOn(sites, A) /\ v \in Labels
          BY <1>1 DEF IsArrivals
        <5>2. Edge(<<u, P>>[1], v) => Arrive(sites, v, <<u, P>>[2]) \in A
          BY <3>4, <5>1 DEF GoesOn
        <5> QED BY <3>1, <5>2
      <4> QED BY <3>5, <4>1 DEF Arrive
    <3>7. P \subseteq Q \ Z
      <4> SUFFICES ASSUME NEW s \in P, s \in Z PROVE FALSE
        BY <3>5
      <4>1. Within(L, sites, lev, d, <<u, P>>)
        BY <3>4, ArrivalsWithin
      <4>2. lev[s] <= i
        BY <3>2, <4>1 DEF Within
      <4>3. lev[s] = k
        BY <1>2 DEF Sites
      <4> QED BY <1>1, <3>3, <4>2, <4>3, SMTT(60)
    <3>8. IsFiniteSet(Q \ Z) /\ Cardinality(Q \ Z) \in Nat
      <4>1. IsFiniteSet(Q) 
        BY <1>4, <3>6
      <4>2. IsFiniteSet(Q \ Z)
        BY <4>1, FS_Difference
      <4> QED BY <4>2, FS_CardinalityType
    <3>9. Cardinality(P) <= Cardinality(Q \ Z) /\ Cardinality(P) \in Nat
      BY <1>4, <3>4, <3>7, <3>8, FS_Subset
    <3>10. PICK a, b, c, e : a = Cardinality(P) /\ b = Cardinality(Q \ Z) /\ c = Cardinality(Z) /\ e = d[i]
      OBVIOUS
    <3>11. a \in Nat /\ b \in Nat /\ c \in Nat /\ e \in Nat /\ e <= a /\ a <= b /\ d[k] = e + c
      BY <1>1, <1>3, <3>1, <3>2, <3>3, <3>4, <3>8, <3>9, <3>10, SMTT(60)
    <3>12. d[k] <= b + c
      BY ONLY <3>11
    <3> QED BY <3>1, <3>6, <3>10, <3>12
  <2> QED BY <2>1, <2>2 DEF DepthTight
<1>6. PICK y, P : y \in L /\ <<y, P>> \in A /\ lev[y] = k /\ d[k] <= Cardinality(P \ Z) + Cardinality(Z)
  BY <1>5
<1> SUFFICES ASSUME NEW l \in L, lev[l] = k PROVE \E Q : <<l, Q>> \in A /\ d[k] <= Cardinality(Q)
  BY DEF Attained
<1>7. PICK Q : <<l, Q>> \in A /\ P \subseteq Q /\ Z \subseteq Q
  <2>1. lev[y] = lev[l] /\ Z = Sites(L, sites, lev, lev[l]) /\ <<y, P>> \in A
    BY <1>2, <1>6
  <2>2. Collects(A, P, l, Sites(L, sites, lev, lev[l]))
    BY <1>6, <2>1, CollectsAll
  <2> QED BY <2>1, <2>2 DEF Collects
<1>8. IsFiniteSet(Q) /\ Cardinality(Q) \in Nat /\ IsFiniteSet(P)
  BY <1>4, <1>6, <1>7
<1>9. Cardinality(Q) = Cardinality(Q \ Z) + Cardinality(Z) /\ Cardinality(Q \ Z) \in Nat
  BY <1>3, <1>7, <1>8, SplitCount, SMTT(60)
<1>10. Cardinality(P \ Z) <= Cardinality(Q \ Z) /\ Cardinality(P \ Z) \in Nat
  <2>1. P \ Z \in SUBSET (Q \ Z)
    BY <1>7
  <2>2. IsFiniteSet(Q \ Z)
    BY <1>8, FS_Difference
  <2>3. Cardinality(P \ Z) \in Nat
    BY <1>3, <1>8, SplitCount
  <2> QED BY <2>1, <2>2, <2>3, FS_Subset
<1>11. PICK a, b, c, e : a = Cardinality(P \ Z) /\ b = Cardinality(Q \ Z) /\ c = Cardinality(Z) /\ e = Cardinality(Q)
  OBVIOUS
<1>12. a \in Nat /\ b \in Nat /\ c \in Nat /\ e \in Nat /\ d[k] \in Nat /\ d[k] <= a + c /\ a <= b /\ e = b + c
  BY <1>1, <1>3, <1>6, <1>8, <1>9, <1>10, <1>11, SMTT(60)
<1>13. d[k] <= e
  BY ONLY <1>12
<1> QED BY <1>7, <1>11, <1>13

Passes(A, limit) == \E x \in A : Cardinality(x[2]) > limit

LEMMA DepthExact ==
    ASSUME NEW L, NEW sites \in SUBSET Labels, NEW lev, NEW N, NEW d, Levels(L, sites, lev, N, d),
           DepthAbove(L, sites, lev, N, d), DepthTight(L, sites, lev, N, d),
           NEW A, IsArrivals(A, sites), NEW limit \in Nat
    PROVE  (\E k \in 1 .. N : d[k] > limit) <=> Passes(A, limit)
<1>1. N \in Nat /\ lev \in [L -> 1 .. N] /\ d \in [1 .. N -> Nat]
  BY DEF Levels
<1>2. ASSUME NEW x \in A, Cardinality(x[2]) > limit PROVE \E k \in 1 .. N : d[k] > limit
  <2>1. PICK k : k = lev[x[1]]
    OBVIOUS
  <2>2. x[1] \in L /\ Cardinality(x[2]) \in Nat /\ Cardinality(x[2]) <= d[k]
    BY <2>1, DepthBounds
  <2>3. k \in 1 .. N /\ d[k] \in Nat
    BY <1>1, <2>1, <2>2
  <2>4. d[k] > limit
    BY <1>2, <2>2, <2>3
  <2> QED BY <2>3, <2>4
<1>3. ASSUME NEW k \in 1 .. N, d[k] > limit PROVE \E x \in A : Cardinality(x[2]) > limit
  <2> DEFINE T == {m \in 0 .. N : \A j \in 1 .. m : Attained(L, A, lev, d, j)}
  <2>1. 0 \in T
    BY <1>1
  <2>2. ASSUME NEW m \in 0 .. N - 1, m \in T PROVE m + 1 \in T
    <3>1. m + 1 \in 1 .. N /\ m + 1 \in 0 .. N /\ (m + 1) - 1 = m
      BY <1>1
    <3>2. \A j \in 1 .. (m + 1) - 1 : Attained(L, A, lev, d, j)
      BY <2>2, <3>1
    <3>3. Attained(L, A, lev, d, m + 1)
      BY <3>1, <3>2, DepthAttained
    <3>4. \A j \in 1 .. m + 1 : j = m + 1 \/ j \in 1 .. m
      OBVIOUS
    <3>5. \A j \in 1 .. m + 1 : Attained(L, A, lev, d, j)
      BY <2>2, <3>3, <3>4
    <3> QED BY <3>1, <3>5
  <2> HIDE DEF T
  <2>3. \A m \in 0 .. N : m \in T
    BY <1>1, <2>1, <2>2, RangeInduction
  <2>4. Attained(L, A, lev, d, k)
    <3>1. N \in T
      BY <1>1, <2>3
    <3> QED BY <3>1 DEF T
  <2>5. PICK l \in L : lev[l] = k
    BY DEF DepthTight
  <2>6. PICK P : <<l, P>> \in A /\ d[k] <= Cardinality(P)
    BY <2>4, <2>5 DEF Attained
  <2>7. Cardinality(P) \in Nat
    <3>1. Cardinality(<<l, P>>[2]) \in Nat
      BY <2>6, DepthBounds
    <3> QED BY <3>1
  <2>8. Cardinality(P) > limit
    BY <1>1, <1>3, <2>6, <2>7
  <2>9. <<l, P>>[2] = P
    OBVIOUS
  <2> QED BY <2>6, <2>8, <2>9, SMTT(60)
<1> QED BY <1>2, <1>3 DEF Passes

-----------------------------------------------------------------------------

(***************************************************************************)
(* The components of the reachable labels L: each is strongly connected,   *)
(* and the edges between them go up.                                       *)
(***************************************************************************)
Components(L, rep) ==
    /\ L \subseteq Labels /\ Entry \in L /\ Follow(L)
    /\ rep \in [L -> Labels]
    /\ \A S \in SUBSET L : Entry \in S /\ Follow(S) => S = L
    /\ \A u, v \in L : rep[u] = rep[v] => \A S \in SUBSET L : u \in S /\ Follow(S) => v \in S
    /\ \E rank \in [{rep[l] : l \in L} -> Nat] : \A u, v \in L :
          Edge(u, v) /\ rep[u] # rep[v] => rank[rep[u]] < rank[rep[v]]

LEMMA DagIs ==
    ASSUME NEW L \in SUBSET Labels, NEW rep
    PROVE  \A d : d \in DagSuccessors(L, Edges, rep) <=>
              \E u, v \in L : Edge(u, v) /\ rep[u] # rep[v] /\ d = <<rep[u], rep[v]>>
<1> DEFINE inner == {x \in Edges : x[1] \in L /\ x[2] \in L}
<1>1. \A x : x \in inner <=> x \in Labels \X Labels /\ Edge(x[1], x[2]) /\ x[1] \in L /\ x[2] \in L
  BY DEF Edges
<1>2. \A u, v \in L : Edge(u, v) => <<u, v>> \in inner
  BY <1>1
<1> HIDE DEF inner
<1>3. \A d : d \in DagSuccessors(L, Edges, rep) <=>
          d[1] # d[2] /\ \E x \in inner : d = <<rep[x[1]], rep[x[2]]>>
  BY DEF DagSuccessors, inner
<1>4. ASSUME NEW d, NEW x \in inner, d = <<rep[x[1]], rep[x[2]]>>, d[1] # d[2]
      PROVE  \E u, v \in L : Edge(u, v) /\ rep[u] # rep[v] /\ d = <<rep[u], rep[v]>>
  <2>1. x[1] \in L /\ x[2] \in L /\ Edge(x[1], x[2])
    BY <1>1
  <2>2. rep[x[1]] # rep[x[2]]
    BY <1>4
  <2> QED BY <1>4, <2>1, <2>2
<1>5. ASSUME NEW u \in L, NEW v \in L, Edge(u, v), rep[u] # rep[v], NEW d, d = <<rep[u], rep[v]>>
      PROVE  d[1] # d[2] /\ \E x \in inner : d = <<rep[x[1]], rep[x[2]]>>
  <2>1. <<u, v>> \in inner
    BY <1>2, <1>5
  <2>2. d = <<rep[<<u, v>>[1]], rep[<<u, v>>[2]]>>
    BY <1>5
  <2> QED BY <1>5, <2>1, <2>2
<1> QED BY <1>3, <1>4, <1>5

LEMMA SitesCounted ==
    ASSUME NEW L \in SUBSET Labels, NEW sites, NEW rep, NEW lev, NEW k, NEW c,
           \A l \in L : lev[l] = k <=> rep[l] = c
    PROVE  /\ IsFiniteSet(TailSites(L, rep, sites))
           /\ SitesOf(TailSites(L, rep, sites), c) = Count(L, sites, lev, k)
<1> DEFINE Z == Sites(L, sites, lev, k)
           tails == TailSites(L, rep, sites)
           T == {t \in tails : t[1] = c}
           f == [l \in Z |-> <<c, l>>]
           g == [l \in L \cap sites |-> <<rep[l], l>>]
<1>1. IsFiniteSet(Z) /\ IsFiniteSet(L \cap sites)
  <2>1. L \cap sites \in SUBSET Labels
    OBVIOUS
  <2> QED BY <2>1, CountType, LabelsAssumption, FS_Subset
<1>2. IsFiniteSet(tails)
  <2>1. IsFiniteSet({g[l] : l \in L \cap sites})
    <3>1. DOMAIN g = L \cap sites
      OBVIOUS
    <3> HIDE DEF g
    <3> QED BY <1>1, <3>1, ImageFinite
  <2>2. {g[l] : l \in L \cap sites} = tails
    BY DEF TailSites
  <2> QED BY <2>1, <2>2
<1>3. \A l \in Z : <<c, l>> \in T
  <2> SUFFICES ASSUME NEW l \in Z PROVE <<c, l>> \in T
    OBVIOUS
  <2>1. l \in L \cap sites /\ rep[l] = c
    BY DEF Sites
  <2>2. <<rep[l], l>> \in tails
    BY <2>1 DEF TailSites
  <2> QED BY <2>1, <2>2
<1>4. \A t \in T : \E l \in Z : t = <<c, l>>
  <2> SUFFICES ASSUME NEW t \in T PROVE \E l \in Z : t = <<c, l>>
    OBVIOUS
  <2>1. PICK l \in L \cap sites : t = <<rep[l], l>>
    BY DEF TailSites
  <2>2. rep[l] = c
    BY <2>1
  <2>3. l \in Z
    BY <2>2 DEF Sites
  <2> QED BY <2>1, <2>2, <2>3
<1> HIDE DEF Z, T
<1>5. f \in [Z -> T] /\ \A l \in Z : f[l] = <<c, l>>
  BY <1>3
<1> HIDE DEF f
<1>6. f \in Bijection(Z, T)
  <2>1. \A a, b \in Z : f[a] = f[b] => a = b
    BY <1>5
  <2>2. \A t \in T : \E l \in Z : f[l] = t
    BY <1>4, <1>5
  <2> QED BY <1>5, <2>1, <2>2 DEF Bijection, Injection, Surjection, IsInjective
<1>7. Cardinality(T) = Cardinality(Z)
  BY <1>1, <1>6, FS_Bijection DEF ExistsBijection
<1> QED BY <1>2, <1>7 DEF T, Z, SitesOf, Count

LEMMA VerdictExact ==
    ASSUME NEW L, NEW rep, Components(L, rep), NEW sites \in SUBSET Labels, NEW limit \in Nat
    PROVE  TailCallVerdict(L, Edges, rep, sites, limit) =
               IF \E x \in Arrivals(sites) : Cardinality(x[2]) > limit THEN "too deep" ELSE "ok"
<1>1. PICK ids : ids = MaximalSccIds(L, rep) /\ ids = {rep[l] : l \in L}
  BY DEF MaximalSccIds
<1>2. PICK dag : dag = DagSuccessors(L, Edges, rep)
  OBVIOUS
<1>3. PICK q : q = TopoOrder(ids, dag)
  OBVIOUS
<1>4. PICK tails : tails = TailSites(L, rep, sites)
  OBVIOUS
<1>5. PICK d : d = MaxTailDepth(q, dag, tails)
  OBVIOUS
<1>6. L \in SUBSET Labels /\ rep \in [L -> Labels] /\ IsFiniteSet(L) /\ IsFiniteSet(ids)
  <2>1. L \in SUBSET Labels /\ rep \in [L -> Labels]
    BY DEF Components
  <2>2. IsFiniteSet(L)
    BY <2>1, LabelsAssumption, FS_Subset
  <2>3. DOMAIN rep = L
    BY <2>1
  <2>4. IsFiniteSet({rep[l] : l \in L})
    BY <2>2, <2>3, ImageFinite
  <2> QED BY <1>1, <2>1, <2>2, <2>4
<1>7. \A x : x \in dag <=> \E u, v \in L : Edge(u, v) /\ rep[u] # rep[v] /\ x = <<rep[u], rep[v]>>
  BY <1>2, <1>6, DagIs
<1>8. PICK rank : RanksUp(ids, dag, rank)
  <2>1. PICK rank \in [ids -> Nat] : \A u, v \in L :
            Edge(u, v) /\ rep[u] # rep[v] => rank[rep[u]] < rank[rep[v]]
    BY <1>1 DEF Components
  <2>2. ASSUME NEW x \in dag PROVE x \in ids \X ids /\ rank[x[1]] < rank[x[2]]
    <3>1. PICK u, v \in L : Edge(u, v) /\ rep[u] # rep[v] /\ x = <<rep[u], rep[v]>>
      BY <1>7
    <3>2. rep[u] \in ids /\ rep[v] \in ids /\ x[1] = rep[u] /\ x[2] = rep[v]
      BY <1>1, <3>1
    <3> QED BY <2>1, <3>1, <3>2
  <2> QED BY <2>1, <2>2 DEF RanksUp
<1>9. Topological(q, ids, dag)
  BY <1>3, <1>6, <1>8, TopoOrderLists
<1>10. PICK N \in Nat : N = Len(q) /\ N = Cardinality(ids) /\ DOMAIN q = 1 .. N /\ q \in [1 .. N -> ids]
  BY <1>9 DEF Topological, Lists
<1>11. /\ \A a \in ids : \E k \in 1 .. N : q[k] = a
       /\ \A j, k \in 1 .. N : (q[j] = q[k] => j = k) /\ (<<q[j], q[k]>> \in dag => j < k)
  BY <1>9, <1>10 DEF Topological, Lists
<1> DEFINE lev == [l \in L |-> CHOOSE k \in 1 .. N : q[k] = rep[l]]
<1>12. lev \in [L -> 1 .. N] /\ \A l \in L : q[lev[l]] = rep[l]
  <2>1. \A l \in L : lev[l] \in 1 .. N /\ q[lev[l]] = rep[l]
    BY <1>1, <1>11
  <2> QED BY <2>1
<1> HIDE DEF lev
<1>13. \A l \in L, k \in 1 .. N : lev[l] = k <=> rep[l] = q[k]
  BY <1>11, <1>12, ZenonT(60)
<1>14. \A k \in 1 .. N : SitesOf(tails, q[k]) = Count(L, sites, lev, k)
  BY <1>4, <1>6, <1>13, SitesCounted
<1>15. IsFiniteSet(tails)
  <2>1. \A l \in L : rep[l] = rep[Entry] <=> rep[l] = rep[Entry]
    OBVIOUS
  <2> QED BY <1>4, <1>6, <2>1, SitesCounted, SMTT(60)
<1>16. d \in [1 .. N -> Nat] /\ \A n \in 1 .. N :
          /\ SitesOf(tails, q[n]) <= d[n]
          /\ \A j \in Before(q, dag, n) : d[j] + SitesOf(tails, q[n]) <= d[n]
          /\ \/ d[n] = SitesOf(tails, q[n])
             \/ \E j \in Before(q, dag, n) : d[n] = d[j] + SitesOf(tails, q[n])
  <2>1. Len(q) \in Nat
    BY <1>10
  <2>2. Depths(d, q, dag, tails)
    BY <1>5, <1>15, <2>1, MaxTailDepthIs
  <2> QED BY <1>10, <2>2 DEF Depths
<1>17. Levels(L, sites, lev, N, d)
  <2>1. \A u, v \in L : lev[u] = lev[v] => rep[u] = rep[v]
    BY <1>12
  <2>2. /\ L \subseteq Labels /\ Entry \in L /\ Follow(L)
        /\ \A S \in SUBSET L : Entry \in S /\ Follow(S) => S = L
    BY DEF Components
  <2>3. \A u, v \in L : rep[u] = rep[v] => \A S \in SUBSET L : u \in S /\ Follow(S) => v \in S
    BY DEF Components
  <2>4. \A u, v \in L : lev[u] = lev[v] => \A S \in SUBSET L : u \in S /\ Follow(S) => v \in S
    BY <2>1, <2>3, ZenonT(60)
  <2> QED BY <1>10, <1>12, <1>16, <2>2, <2>4, SMTT(60) DEF Levels
<1>18. ASSUME NEW u \in L, NEW v \in L, Edge(u, v), lev[u] # lev[v]
       PROVE  lev[u] < lev[v] /\ lev[u] \in Before(q, dag, lev[v])
  <2>1. PICK i, j : i = lev[u] /\ j = lev[v]
    OBVIOUS
  <2>2. i \in 1 .. N /\ j \in 1 .. N /\ q[i] = rep[u] /\ q[j] = rep[v]
    BY <1>12, <2>1
  <2>3. rep[u] # rep[v]
    BY <1>13, <1>18, <2>1, <2>2
  <2>4. <<q[i], q[j]>> \in dag
    BY <1>7, <1>18, <2>2, <2>3
  <2>5. i < j
    BY <1>11, <2>2, <2>4
  <2>6. i \in 1 .. j - 1
    BY <2>2, <2>5
  <2> QED BY <2>1, <2>4, <2>5, <2>6 DEF Before
<1>19. DepthAbove(L, sites, lev, N, d)
  <2>1. \A k \in 1 .. N : Count(L, sites, lev, k) <= d[k]
    BY <1>14, <1>16
  <2>2. ASSUME NEW u \in L, NEW v \in L, Edge(u, v), lev[u] # lev[v]
        PROVE  lev[u] < lev[v] /\ d[lev[u]] + Count(L, sites, lev, lev[v]) <= d[lev[v]]
    <3>1. lev[v] \in 1 .. N
      BY <1>12
    <3> QED BY <1>14, <1>16, <1>18, <2>2, <3>1
  <2> QED BY <2>1, <2>2 DEF DepthAbove
<1>20. DepthTight(L, sites, lev, N, d)
  <2> SUFFICES ASSUME NEW k \in 1 .. N
               PROVE  /\ \E l \in L : lev[l] = k
                      /\ \/ d[k] = Count(L, sites, lev, k)
                         \/ \E u, v \in L : /\ Edge(u, v) /\ lev[v] = k /\ lev[u] < k
                                            /\ d[k] = d[lev[u]] + Count(L, sites, lev, k)
    BY DEF DepthTight
  <2>1. \E l \in L : lev[l] = k
    <3>1. q[k] \in ids
      BY <1>10
    <3>2. PICK l \in L : q[k] = rep[l]
      BY <1>1, <3>1
    <3> QED BY <1>13, <3>2
  <2>2. CASE d[k] = SitesOf(tails, q[k])
    BY <1>14, <2>1, <2>2
  <2>3. CASE \E j \in Before(q, dag, k) : d[k] = d[j] + SitesOf(tails, q[k])
    <3>1. PICK j \in Before(q, dag, k) : d[k] = d[j] + SitesOf(tails, q[k])
      BY <2>3
    <3>2. j \in 1 .. k - 1 /\ <<q[j], q[k]>> \in dag
      BY <3>1 DEF Before
    <3>3. j \in 1 .. N /\ j < k
      BY <3>2
    <3>4. PICK u, v \in L : Edge(u, v) /\ rep[u] # rep[v] /\ <<q[j], q[k]>> = <<rep[u], rep[v]>>
      BY <1>7, <3>2
    <3>5. rep[u] = q[j] /\ rep[v] = q[k]
      BY <3>4
    <3>6. lev[u] = j /\ lev[v] = k
      BY <1>13, <3>3, <3>5
    <3>7. d[k] = d[lev[u]] + Count(L, sites, lev, k)
      BY <1>14, <3>1, <3>6
    <3> QED BY <2>1, <3>3, <3>4, <3>6, <3>7, SMTT(60)
  <2> QED BY <1>16, <2>2, <2>3
<1>21. PICK A : A = Arrivals(sites) /\ IsArrivals(A, sites)
  BY ArrivalsAre
<1>22. (\E k \in 1 .. N : d[k] > limit) <=> Passes(A, limit)
  BY ONLY <1>17, <1>19, <1>20, <1>21, DepthExact, sites \in SUBSET Labels, limit \in Nat, SMTT(60)
<1>23. DOMAIN d = 1 .. N
  BY <1>16
<1>24. TailCallVerdict(L, Edges, rep, sites, limit) =
           IF Len(q) # Cardinality(ids) THEN "not acyclic"
           ELSE IF \E n \in DOMAIN d : d[n] > limit THEN "too deep" ELSE "ok"
  BY <1>1, <1>2, <1>3, <1>4, <1>5, ZenonT(60) DEF TailCallVerdict
<1>25. Len(q) = Cardinality(ids)
  BY <1>10
<1> QED BY <1>21, <1>22, <1>23, <1>24, <1>25, ZenonT(60) DEF Passes

-----------------------------------------------------------------------------

(***************************************************************************)
(* The outermost cycle around position p opens at t, or p is in none.      *)
(***************************************************************************)
TopOf(w, p, t) ==
    /\ t \in Positions(w) /\ t <= p
    /\ t = p \/ (t \in w.heads /\ InCycle(w, t, p))
    /\ \A g \in w.heads : InCycle(w, g, p) => t <= g

NestingSeqs(w) == \A p \in Positions(w) : w.nesting[w.order[p]] \in Seq(Labels)
Outermost(w) ==
    [l \in ToSet(w.order) |-> IF w.nesting[l] = <<>> THEN l ELSE w.nesting[l][Len(w.nesting[l])]]

LEMMA PositionsAre ==
    ASSUME NEW w, IsWto(w, Entry, Edges, Labels)
    PROVE  \E N \in Nat : /\ Positions(w) = 1 .. N /\ DOMAIN w.order = 1 .. N /\ N > 0
                          /\ \A p \in 1 .. N : w.order[p] \in Labels /\ PositionOf(w.order, w.order[p]) = p
                          /\ ToSet(w.order) = {w.order[p] : p \in 1 .. N}
<1>1. PICK N \in Nat : N = Len(w.order)
  BY DEF IsWto
<1>2. Positions(w) = 1 .. N /\ DOMAIN w.order = 1 .. N /\ N > 0
  BY <1>1 DEF IsWto, Positions, CoversReachable
<1>3. \A p \in 1 .. N : w.order[p] \in Labels
  BY <1>1 DEF IsWto
<1>4. \A p, q \in 1 .. N : w.order[p] = w.order[q] => p = q
  BY <1>2 DEF IsWto, OncePerLabel
<1>5. \A p \in 1 .. N : PositionOf(w.order, w.order[p]) = p
  BY <1>2, <1>4 DEF PositionOf
<1>6. ToSet(w.order) = {w.order[p] : p \in 1 .. N}
  BY <1>2 DEF ToSet
<1> QED BY <1>2, <1>3, <1>5, <1>6, SMTT(60)

LEMMA TopFound ==
    ASSUME NEW w, IsWto(w, Entry, Edges, Labels), NestingOf(w), NestingSeqs(w), NEW p \in Positions(w)
    PROVE  \E t \in Positions(w) : TopOf(w, p, t) /\ Outermost(w)[w.order[p]] = w.order[t]
<1>1. PICK N \in Nat : /\ Positions(w) = 1 .. N /\ DOMAIN w.order = 1 .. N
                       /\ \A q \in 1 .. N : w.order[q] \in Labels /\ PositionOf(w.order, w.order[q]) = q
                       /\ ToSet(w.order) = {w.order[q] : q \in 1 .. N}
  BY PositionsAre
<1>2. PICK s \in Seq(Labels) : s = w.nesting[w.order[p]]
  BY DEF NestingSeqs
<1>3. /\ ToSet(s) = {w.order[h] : h \in AroundOf(w, p)}
      /\ \A i, j \in DOMAIN s : i < j => PositionOf(w.order, s[i]) > PositionOf(w.order, s[j])
  BY <1>2 DEF NestingOf
<1>4. Outermost(w)[w.order[p]] = IF s = <<>> THEN w.order[p] ELSE s[Len(s)]
  BY <1>1, <1>2, SMTT(60) DEF Outermost
<1>5. w.heads \subseteq 1 .. N /\ \A h \in w.heads : InCycle(w, h, p) => h <= p
  BY <1>1 DEF IsWto, WellNested, InCycle
<1>6. PICK D \in Nat : D = Len(s) /\ DOMAIN s = 1 .. D /\ ToSet(s) = {s[i] : i \in 1 .. D}
  BY DEF ToSet
<1>7. CASE D = 0
  <2>1. s = <<>> /\ ToSet(s) = {}
    BY <1>6, <1>7
  <2>2. \A g \in w.heads : InCycle(w, g, p) => g = p
    BY <1>3, <2>1 DEF AroundOf
  <2>3. TopOf(w, p, p)
    BY <1>1, <1>5, <2>2 DEF TopOf
  <2> QED BY <1>4, <2>1, <2>3
<1>8. CASE D # 0
  <2>1. s # <<>> /\ D \in 1 .. D
    BY <1>6, <1>8
  <2>2. PICK h \in AroundOf(w, p) : s[D] = w.order[h]
    BY <1>3, <1>6, <2>1
  <2>3. h \in w.heads /\ h # p /\ InCycle(w, h, p) /\ h \in 1 .. N /\ h <= p
    BY <1>5 DEF AroundOf
  <2>4. ASSUME NEW g \in w.heads, InCycle(w, g, p), g # p PROVE h <= g
    <3>1. w.order[g] \in ToSet(s) /\ g \in 1 .. N
      BY <1>3, <1>5, <2>4 DEF AroundOf
    <3>2. PICK i \in 1 .. D : s[i] = w.order[g]
      BY <1>6, <3>1
    <3>3. PositionOf(w.order, s[i]) = g /\ PositionOf(w.order, s[D]) = h
      BY <1>1, <2>2, <2>3, <3>1, <3>2
    <3>4. CASE i = D
      BY <3>1, <3>3, <3>4
    <3>5. CASE i # D
      <4>1. i < D
        BY <3>5
      <4> QED BY <1>3, <1>6, <2>1, <2>3, <3>1, <3>3, <4>1, SMTT(60)
    <3> QED BY <3>4, <3>5
  <2>5. TopOf(w, p, h)
    BY <1>1, <2>3, <2>4 DEF TopOf
  <2> QED BY <1>1, <1>4, <1>6, <2>1, <2>2, <2>3, <2>5, SMTT(60)
<1> QED BY <1>7, <1>8

\* An edge does not lead to a component that opens earlier.
LEMMA TopsUp ==
    ASSUME NEW w, IsWto(w, Entry, Edges, Labels), NEW p \in Positions(w), NEW q \in Positions(w),
           <<w.order[p], w.order[q]>> \in Edges, NEW s, TopOf(w, p, s), NEW t, TopOf(w, q, t)
    PROVE  s <= t
<1>1. PICK N \in Nat : Positions(w) = 1 .. N
  BY PositionsAre
<1>2. s \in 1 .. N /\ t \in 1 .. N /\ s <= p /\ t <= q /\ p \in 1 .. N /\ q \in 1 .. N
  BY <1>1 DEF TopOf
<1>3. \A h \in w.heads : h \in 1 .. N /\ w.last[h] \in 1 .. N
  BY <1>1 DEF IsWto, WellNested
<1>4. CASE p < q
  <2>1. CASE t <= p /\ t # q
    <3>1. t \in w.heads /\ InCycle(w, t, q)
      BY <2>1 DEF TopOf
    <3>2. InCycle(w, t, p)
      BY <1>2, <1>3, <1>4, <2>1, <3>1 DEF InCycle
    <3> QED BY <3>1, <3>2 DEF TopOf
  <2>2. CASE t > p \/ t = q
    BY <1>2, <1>4, <2>2
  <2> QED BY <1>2, <2>1, <2>2
<1>5. CASE q \in w.heads /\ InCycle(w, q, p)
  <2>1. ASSUME NEW g \in w.heads, InCycle(w, g, q) PROVE InCycle(w, g, p)
    <3>1. w.last[q] <= w.last[g]
      BY <2>1 DEF IsWto, WellNested
    <3> QED BY <1>2, <1>3, <1>5, <2>1, <3>1 DEF InCycle
  <2>2. InCycle(w, q, q)
    BY <1>2, <1>3, <1>5 DEF InCycle
  <2>3. t \in w.heads /\ InCycle(w, t, q)
    BY <1>5, <2>2 DEF TopOf
  <2> QED BY <2>1, <2>3 DEF TopOf
<1> QED BY <1>4, <1>5 DEF IsWto, BackEdgesReturnToHeads

(***************************************************************************)
(* The head of a cycle leads to all of it.                                 *)
(***************************************************************************)
LeadsOn(w, h) ==
    \A X \in SUBSET (h .. w.last[h]) :
        h \in X /\ (\A q \in h .. w.last[h] : (\E p \in X : Edge(w.order[p], w.order[q])) => q \in X)
            => X = h .. w.last[h]

LEMMA TopsConnected ==
    ASSUME NEW w, IsWto(w, Entry, Edges, Labels),
           \A h \in w.heads : LeadsBackTo(w, h) /\ LeadsOn(w, h) /\ h .. w.last[h] \subseteq 1 .. Len(w.order),
           NEW p \in Positions(w), NEW q \in Positions(w),
           NEW t, TopOf(w, p, t), TopOf(w, q, t),
           NEW S, \A u \in S, v \in Labels : Edge(u, v) => v \in S, w.order[p] \in S
    PROVE  w.order[q] \in S
<1>1. PICK N \in Nat : Positions(w) = 1 .. N /\ \A r \in 1 .. N : w.order[r] \in Labels
  BY PositionsAre
<1>2. Len(w.order) = N
  <2>1. Len(w.order) \in Nat /\ Positions(w) = 1 .. Len(w.order)
    BY DEF IsWto, Positions
  <2> QED BY <1>1, <2>1
<1>3. t \in 1 .. N /\ p \in 1 .. N /\ q \in 1 .. N
  BY <1>1 DEF TopOf
<1>4. w.order[t] \in S
  <2>1. CASE t = p
    BY <2>1
  <2>2. CASE t # p
    <3>1. t \in w.heads /\ InCycle(w, t, p)
      BY <2>2 DEF TopOf
    <3>2. PICK inside : inside = t .. w.last[t]
      OBVIOUS
    <3>3. inside \subseteq 1 .. N /\ p \in inside
      <4>1. inside \subseteq 1 .. N
        BY <1>2, <3>1, <3>2
      <4>2. w.last[t] \in 1 .. N
        BY <1>1, <1>3 DEF IsWto, WellNested
      <4> QED BY <1>3, <3>1, <3>2, <4>1, <4>2, SMTT(60) DEF InCycle
    <3>4. PICK X : X = {r \in inside : w.order[r] \in S => w.order[t] \in S}
      OBVIOUS
    <3>5. Sources(w, t, {t}) \subseteq X
      BY <1>1, <1>3, <3>2, <3>4 DEF Sources
    <3>6. Sources(w, t, X) \subseteq X
      BY <1>1, <3>2, <3>3, <3>4, SMTT(60) DEF Sources
    <3>7. X = inside
      <4>1. LeadsBackTo(w, t) /\ X \in SUBSET (t .. w.last[t])
        BY <3>1, <3>2, <3>4
      <4> QED BY <3>2, <3>5, <3>6, <4>1 DEF LeadsBackTo
    <3> QED BY <3>3, <3>4, <3>7
  <2> QED BY <2>1, <2>2
<1>5. CASE t = q
  BY <1>4, <1>5
<1>6. CASE t # q
  <2>1. t \in w.heads /\ InCycle(w, t, q)
    BY <1>6 DEF TopOf
  <2>2. PICK inside : inside = t .. w.last[t]
    OBVIOUS
  <2>3. inside \subseteq 1 .. N /\ q \in inside /\ t \in inside
    <3>1. inside \subseteq 1 .. N
      BY <1>2, <2>1, <2>2, SMTT(60)
    <3>2. w.last[t] \in 1 .. N
      BY <1>1, <1>3 DEF IsWto, WellNested
    <3> QED BY <1>3, <2>1, <2>2, <3>1, <3>2 DEF InCycle
  <2>4. PICK X : X = {r \in inside : w.order[r] \in S}
    OBVIOUS
  <2>5. \A r \in inside : (\E x \in X : Edge(w.order[x], w.order[r])) => r \in X
    BY <1>1, <2>3, <2>4
  <2>6. X = inside
    <3>1. LeadsOn(w, t) /\ X \in SUBSET (t .. w.last[t]) /\ t \in X
      BY <1>4, <2>1, <2>2, <2>3, <2>4
    <3> QED BY <2>2, <2>5, <3>1 DEF LeadsOn
  <2> QED BY <2>3, <2>4, <2>6
<1> QED BY <1>5, <1>6

(***************************************************************************)
(* Every label of the order is one that the entry reaches.                 *)
(***************************************************************************)
FromEntry(S) == Entry \in S /\ \A u \in S, v \in Labels : Edge(u, v) => v \in S
OnlyReached(w) == \A S \in SUBSET Labels : FromEntry(S) => \A p \in Positions(w) : w.order[p] \in S

LEMMA ComponentsHold ==
    ASSUME NEW w, IsWto(w, Entry, Edges, Labels), NestingOf(w), NestingSeqs(w), OnlyReached(w),
           \A h \in w.heads : LeadsBackTo(w, h) /\ LeadsOn(w, h) /\ h .. w.last[h] \subseteq 1 .. Len(w.order)
    PROVE  Components(ToSet(w.order), Outermost(w))
<1>1. PICK N \in Nat : /\ Positions(w) = 1 .. N /\ DOMAIN w.order = 1 .. N /\ N > 0
                       /\ \A q \in 1 .. N : w.order[q] \in Labels /\ PositionOf(w.order, w.order[q]) = q
                       /\ ToSet(w.order) = {w.order[q] : q \in 1 .. N}
  BY PositionsAre
<1>2. PICK L : L = ToSet(w.order)
  OBVIOUS
<1>3. PICK rep : rep = Outermost(w)
  OBVIOUS
<1>4. \A l \in L : \E p \in 1 .. N : l = w.order[p]
  BY <1>1, <1>2
<1>5. \A p \in 1 .. N : w.order[p] \in L
  BY <1>1, <1>2
<1>6. \A p \in 1 .. N : \E t \in 1 .. N : TopOf(w, p, t) /\ rep[w.order[p]] = w.order[t]
  BY <1>1, <1>3, TopFound, SMTT(60)
<1>7. L \subseteq Labels /\ Entry \in L
  <2>1. w.order[1] = Entry /\ 1 \in 1 .. N
    BY <1>1 DEF IsWto, CoversReachable
  <2> QED BY <1>1, <1>2, <2>1
<1>8. Follow(L)
  <2> SUFFICES ASSUME NEW u \in L, NEW v \in Labels, Edge(u, v) PROVE v \in L
    BY DEF Follow
  <2>1. PICK p \in 1 .. N : u = w.order[p]
    BY <1>4
  <2>2. <<u, v>> \in Edges
    BY <1>7 DEF Edges
  <2>3. \E q \in 1 .. N : w.order[q] = v
    BY <1>1, <2>1, <2>2, SMTT(60) DEF IsWto, CoversReachable
  <2> QED BY <1>5, <2>3
<1>9. rep \in [L -> Labels]
  <2>1. \A l \in L : rep[l] \in Labels
    BY <1>1, <1>4, <1>6, SMTT(60)
  <2>2. rep = [l \in L |-> rep[l]]
    BY <1>2, <1>3 DEF Outermost
  <2> QED BY <2>1, <2>2
<1>10. ASSUME NEW S \in SUBSET L, Entry \in S, Follow(S)
       PROVE  S = L
  <2>1. FromEntry(S) /\ S \in SUBSET Labels
    BY <1>7, <1>10 DEF FromEntry, Follow
  <2>2. \A p \in 1 .. N : w.order[p] \in S
    BY <1>1, <2>1 DEF OnlyReached
  <2> QED BY <1>4, <2>2
<1>11. ASSUME NEW u \in L, NEW v \in L, rep[u] = rep[v], NEW S \in SUBSET L, u \in S, Follow(S)
       PROVE  v \in S
  <2>1. PICK p \in 1 .. N, q \in 1 .. N : u = w.order[p] /\ v = w.order[q]
    BY <1>4
  <2>2. PICK s \in 1 .. N : TopOf(w, p, s) /\ rep[u] = w.order[s]
    BY <1>6, <2>1
  <2>3. PICK t \in 1 .. N : TopOf(w, q, t) /\ rep[v] = w.order[t]
    BY <1>6, <2>1
  <2>4. s = t
    <3>1. PositionOf(w.order, w.order[s]) = s /\ PositionOf(w.order, w.order[t]) = t
      BY <1>1
    <3>2. w.order[s] = w.order[t]
      BY <1>11, <2>2, <2>3
    <3> QED BY <3>1, <3>2
  <2>5. \A x \in S, y \in Labels : Edge(x, y) => y \in S
    BY <1>11 DEF Follow
  <2> QED BY <1>1, <1>11, <2>1, <2>2, <2>3, <2>4, <2>5, TopsConnected, SMTT(60)
<1>12. \E rank \in [{rep[l] : l \in L} -> Nat] : \A u, v \in L :
           Edge(u, v) /\ rep[u] # rep[v] => rank[rep[u]] < rank[rep[v]]
  <2>1. PICK rank : rank = [c \in {rep[l] : l \in L} |-> PositionOf(w.order, c)]
    OBVIOUS
  <2>2. \A p \in 1 .. N : \E t \in 1 .. N : TopOf(w, p, t) /\ rep[w.order[p]] = w.order[t]
                                           /\ rank[rep[w.order[p]]] = t
    BY <1>1, <1>5, <1>6, <2>1, ZenonT(60)
  <2>3. rank \in [{rep[l] : l \in L} -> Nat]
    <3>1. \A l \in L : rank[rep[l]] \in Nat
      <4> SUFFICES ASSUME NEW l \in L PROVE rank[rep[l]] \in Nat
        OBVIOUS
      <4>1. PICK p \in 1 .. N : l = w.order[p]
        BY <1>4
      <4>2. PICK t \in 1 .. N : rank[rep[w.order[p]]] = t
        BY ONLY <2>2, p \in 1 .. N, ZenonT(60)
      <4>3. t \in Nat
        BY ONLY t \in 1 .. N, N \in Nat, SMTT(30)
      <4> QED BY <4>1, <4>2, <4>3, ZenonT(60)
    <3> QED BY <2>1, <3>1
  <2>4. ASSUME NEW u \in L, NEW v \in L, Edge(u, v), rep[u] # rep[v]
        PROVE  rank[rep[u]] < rank[rep[v]]
    <3>1. PICK p \in 1 .. N, q \in 1 .. N : u = w.order[p] /\ v = w.order[q]
      BY <1>4
    <3>2. PICK s \in 1 .. N : TopOf(w, p, s) /\ rep[u] = w.order[s] /\ rank[rep[u]] = s
      BY <2>2, <3>1
    <3>3. PICK t \in 1 .. N : TopOf(w, q, t) /\ rep[v] = w.order[t] /\ rank[rep[v]] = t
      BY <2>2, <3>1
    <3>4. <<w.order[p], w.order[q]>> \in Edges
      BY <1>7, <2>4, <3>1 DEF Edges
    <3>5. s <= t
      BY <1>1, <3>2, <3>3, <3>4, TopsUp, SMTT(60)
    <3>6. s # t
      BY <2>4, <3>2, <3>3
    <3> QED BY <3>2, <3>3, <3>5, <3>6
  <2> QED BY <2>3, <2>4
<1>13. \A S \in SUBSET L : Entry \in S /\ Follow(S) => S = L
  BY <1>10
<1>14. \A u, v \in L : rep[u] = rep[v] => \A S \in SUBSET L : u \in S /\ Follow(S) => v \in S
  BY <1>11
<1>15. Components(L, rep)
  BY <1>7, <1>8, <1>9, <1>12, <1>13, <1>14, ZenonT(60) DEF Components
<1> QED BY <1>2, <1>3, <1>15

-----------------------------------------------------------------------------

(***************************************************************************)
(* The walk stays where the entry leads.                                   *)
(***************************************************************************)
WalkInv ==
    \A S \in SUBSET Labels : FromEntry(S) =>
        (\A i \in Tasks : Vertex(i) \in S) /\ \A x \in Labels : ~ White(x) => x \in S

LEMMA WalkInit ==
    ASSUME Init
    PROVE  WalkInv
<1>1. \A x \in Labels : White(x)
  BY DEF Init, White
<1>2. Tasks = {1} /\ Vertex(1) = Entry
  <2>1. visit_stack = <<VisitTask("PushSuccessors", Entry, 0, 0)>>
    BY DEF Init
  <2>2. DOMAIN visit_stack = {1} /\ visit_stack[1] = VisitTask("PushSuccessors", Entry, 0, 0)
    BY <2>1
  <2> QED BY <2>2 DEF Tasks, VisitTask, Vertex
<1> QED BY <1>1, <1>2 DEF WalkInv, FromEntry

LEMMA WalkMoves ==
    ASSUME NEW n, NEW v, Moves(n, v), WalkInv
    PROVE  WalkInv'
<1>1. children' = children
  BY DEF Moves, Drops, Numbers, Leaves, IsAlone, Opens, Closes, SameGraph
<1>2. \A S : FromEntry(S)' <=> FromEntry(S)
  BY <1>1 DEF FromEntry, Edge
<1> SUFFICES ASSUME NEW S \in SUBSET Labels, FromEntry(S)
             PROVE  (\A i \in Tasks' : Vertex(i)' \in S) /\ \A x \in Labels : ~ White(x)' => x \in S
  BY <1>2 DEF WalkInv
<1>3. (\A i \in Tasks : Vertex(i) \in S) /\ \A x \in Labels : ~ White(x) => x \in S
  BY DEF WalkInv
<1>4. ASSUME Pops(n, v), \A x \in Labels : White(x)' <=> White(x)
      PROVE  (\A i \in Tasks' : Vertex(i)' \in S) /\ \A x \in Labels : ~ White(x)' => x \in S
  <2>1. Tasks' = 1 .. n - 1 /\ \A i \in 1 .. n - 1 : i \in Tasks /\ Vertex(i)' = Vertex(i)
    BY <1>4 DEF Pops, Below
  <2> QED BY <1>3, <1>4, <2>1
<1>5. ASSUME NEW type, NEW t, NEW c, Pushes(n, v, type, t, c), \A x \in Labels : ~ White(x)' => ~ White(x) \/ x = v
      PROVE  (\A i \in Tasks' : Vertex(i)' \in S) /\ \A x \in Labels : ~ White(x)' => x \in S
  <2>1. /\ n \in Nat \ {0} /\ Tasks = 1 .. n /\ Len(visit_stack') \in Nat /\ Tasks' = 1 .. Len(visit_stack')
        /\ Vertex(n) = v /\ Vertex(n)' = v
        /\ \A i \in 1 .. n - 1 : i \in Tasks /\ Vertex(i)' = Vertex(i)
        /\ \A i \in Tasks' : i > n => Vertex(i)' \in Labels /\ Edge(v, Vertex(i)')
    BY <1>5 DEF Pushes, Below
  <2>2. v \in S
    BY <1>3, <2>1
  <2>3. ASSUME NEW i \in Tasks' PROVE Vertex(i)' \in S
    <3>1. i \in 1 .. n - 1 \/ i = n \/ i > n
      BY <2>1
    <3>2. CASE i > n
      BY <2>1, <2>2, <3>2 DEF FromEntry
    <3> QED BY <1>3, <2>1, <2>2, <3>1, <3>2, SMTT(60)
  <2> QED BY <1>3, <1>5, <2>2, <2>3, SMTT(60)
<1>6. CASE Drops(n, v) \/ Leaves(n, v) \/ Closes(n, v)
  <2>1. Pops(n, v) /\ \A x \in Labels : White(x)' <=> White(x)
    BY <1>6 DEF Drops, Leaves, Closes, White
  <2> QED BY <1>4, <2>1
<1>7. CASE IsAlone(n, v)
  BY <1>4, <1>7 DEF IsAlone
<1>8. CASE Numbers(n, v)
  <2>1. Pushes(n, v, "StartVisit", Cycle(n), Cycle(n)) /\ \A x \in Labels : ~ White(x)' => ~ White(x) \/ x = v
    BY <1>8 DEF Numbers
  <2> QED BY <1>5, <2>1
<1>9. CASE Opens(n, v)
  <2>1. Pushes(n, v, "ContinueVisit", Cycle(n), NumCycles + 1)
        /\ \A x \in Labels : ~ White(x)' => ~ White(x) \/ x = v
    BY <1>9 DEF Opens, White
  <2> QED BY <1>5, <2>1
<1> QED BY <1>6, <1>7, <1>8, <1>9, SMTT(60) DEF Moves

LEMMA WalkKept ==
    ASSUME BuilderState, WalkInv, num' < DFN_INF, [Next]_vars
    PROVE  WalkInv'
<1>1. CASE Idles
  <2>1. /\ Tasks' = Tasks /\ \A i : Vertex(i)' = Vertex(i)
        /\ \A x : White(x)' <=> White(x)
        /\ \A S : FromEntry(S)' <=> FromEntry(S)
    BY <1>1 DEF Idles, Tasks, Vertex, White, FromEntry, Edge
  <2> QED BY <2>1 DEF WalkInv
<1>2. PICK n, v : n = Len(visit_stack) /\ v = Vertex(Len(visit_stack))
  OBVIOUS
<1>3. CASE Moves(n, v)
  BY <1>3, WalkMoves
<1> QED BY <1>1, <1>2, <1>3, Steps

(***************************************************************************)
(* The result, once more: what it says of paths.                           *)
(***************************************************************************)
LEMMA OnlyReachedHolds ==
    ASSUME WalkInv, NEW line, NEW from, NEW to, LineInv(line, from, to), NEW w, Mirrors(w, line, from, to)
    PROVE  OnlyReached(w)
<1> SUFFICES ASSUME NEW S \in SUBSET Labels, FromEntry(S), NEW p \in Positions(w)
             PROVE  w.order[p] \in S
  BY DEF OnlyReached
<1>1. line \in Seq(Labels)
  BY DEF LineInv, PlaceInv
<1>2. PICK N \in Nat : N = Len(line) /\ DOMAIN line = 1 .. N
  BY <1>1
<1>3. p \in 1 .. N /\ N + 1 - p \in 1 .. N /\ w.order[p] = line[N + 1 - p]
  BY <1>2 DEF Positions, Mirrors
<1>4. line[N + 1 - p] \in Labels
  BY <1>1, <1>2, <1>3
<1>5. dfn[line[N + 1 - p]] = DFN_INF
  BY <1>2, <1>3, <1>4 DEF LineInv, ListInv
<1>6. ~ White(line[N + 1 - p])
  BY <1>5 DEF White, DFN_INF
<1> QED BY <1>3, <1>4, <1>6 DEF WalkInv

LEMMA LeadsOnHolds ==
    ASSUME TypeOK, visit_stack = <<>>, NEW line, NEW from, NEW to, LineInv(line, from, to),
           NEW w, Mirrors(w, line, from, to), NEW h \in w.heads
    PROVE  LeadsOn(w, h)
<1>1. line \in Seq(Labels) /\ \A c \in 1 .. NumCycles : Closed(c)
  BY AllClosed DEF LineInv, PlaceInv
<1>2. PICK N \in Nat : N = Len(line) /\ DOMAIN line = 1 .. N
  BY <1>1
<1>3. PICK c \in 1 .. NumCycles : h = N + 1 - to[c] /\ w.last[h] = N - from[c]
  BY <1>2, SMTT(60) DEF Mirrors
<1>4. \A p \in 1 .. N : w.order[p] = line[N + 1 - p]
  BY <1>2 DEF Mirrors
<1>5. PICK a, b : a = from[c] /\ b = to[c]
  OBVIOUS
<1>6. a \in Nat /\ b \in 1 .. N /\ a < b /\ h = N + 1 - b /\ h .. w.last[h] = N + 1 - b .. N - a
  <2>1. c \in 0 .. NumCycles
    BY PartType
  <2>2. a \in Nat /\ b \in Nat /\ b <= N
    BY <1>2, <1>5, <2>1, SMTT(60) DEF LineInv, PlaceInv
  <2>3. a < b
    BY <1>1, <1>5 DEF LineInv, LaminarInv
  <2> QED BY <1>3, <1>5, <2>2, <2>3, SMTT(60)
<1>7. \A p, q \in 1 .. N : line[p] = line[q] => p = q
  BY <1>2 DEF LineInv, ListInv
<1>8. PICK S, v : S = {line[p] : p \in a + 1 .. b} /\ v = line[b]
  OBVIOUS
<1>9. LeadOn(S, v)
  <2>1. LeadOn(Segment(c, line, from, to), line[to[c]])
    BY <1>1 DEF LineInv, ConnInv, BothWays
  <2> QED BY <1>5, <1>8, <2>1 DEF Segment
<1>10. \A p \in h .. w.last[h] : N + 1 - p \in a + 1 .. b /\ p \in 1 .. N /\ N + 1 - p \in 1 .. N
  <2>1. \A p \in N + 1 - b .. N - a : N + 1 - p \in a + 1 .. b /\ p \in 1 .. N /\ N + 1 - p \in 1 .. N
    BY <1>6
  <2> QED BY <1>6, <2>1
<1>11. \A i \in a + 1 .. b : N + 1 - i \in h .. w.last[h] /\ N + 1 - (N + 1 - i) = i /\ N + 1 - i \in 1 .. N
  <2>1. \A i \in a + 1 .. b : /\ N + 1 - i \in N + 1 - b .. N - a
                              /\ N + 1 - (N + 1 - i) = i /\ N + 1 - i \in 1 .. N
    BY <1>6
  <2> QED BY <1>6, <2>1
<1> SUFFICES ASSUME NEW X \in SUBSET (h .. w.last[h]), h \in X,
                    \A q \in h .. w.last[h] : (\E p \in X : Edge(w.order[p], w.order[q])) => q \in X
             PROVE  X = h .. w.last[h]
  BY DEF LeadsOn
<1>12. PICK Y : Y = {line[N + 1 - p] : p \in X}
  OBVIOUS
<1>13. Y \in SUBSET S /\ v \in Y
  <2>1. N + 1 - h = b
    BY <1>6
  <2> QED BY <1>8, <1>10, <1>12, <2>1
<1>14. ASSUME NEW s \in S, NEW x \in Y, Edge(x, s)
       PROVE  s \in Y
  <2>1. PICK i \in a + 1 .. b : s = line[i]
    BY <1>8
  <2>2. PICK q : q = N + 1 - i
    OBVIOUS
  <2>3. q \in h .. w.last[h] /\ q \in 1 .. N /\ N + 1 - q = i
    BY <1>11, <2>2
  <2>4. w.order[q] = s
    BY <1>4, <2>1, <2>3
  <2>5. PICK p \in X : x = line[N + 1 - p]
    BY <1>12
  <2>6. w.order[p] = x
    BY <1>4, <1>10, <2>5
  <2>7. q \in X
    BY <1>14, <2>3, <2>4, <2>6
  <2> QED BY <1>12, <2>1, <2>3, <2>7, SMTT(60)
<1>15. Y = S
  BY <1>9, <1>13, <1>14 DEF LeadOn
<1>16. ASSUME NEW p \in h .. w.last[h] PROVE p \in X
  <2>1. line[N + 1 - p] \in Y
    BY <1>8, <1>10, <1>15
  <2>2. PICK q \in X : line[N + 1 - p] = line[N + 1 - q]
    BY <1>12, <2>1
  <2>3. N + 1 - p = N + 1 - q
    BY <1>7, <1>10, <2>2
  <2>4. p \in 1 .. N /\ q \in 1 .. N
    BY <1>10
  <2>5. p = q
    BY <2>3, <2>4
  <2> QED BY <2>5
<1> QED BY <1>16

LEMMA NestingSeqsHold ==
    ASSUME TypeOK, TableInv, ChildCycleAfterParent, visit_stack = <<>>,
           NEW line, NEW from, NEW to, LineInv(line, from, to), Spans(line, from, to),
           NEW w, Mirrors(w, line, from, to), IsWto(w, Entry, Edges, Labels), NestingOf(w),
           w.nesting = [l \in Labels |-> CollectHeads(l)]
    PROVE  NestingSeqs(w)
<1> SUFFICES ASSUME NEW P \in Positions(w) PROVE w.nesting[w.order[P]] \in Seq(Labels)
  BY DEF NestingSeqs
<1>1. PICK L : MirrorFacts(w, line, from, to, L)
  BY Mirrored
<1>2. PICK p \in 1 .. L : P = L + 1 - p
  <2>1. L + 1 - P \in 1 .. L /\ P = L + 1 - (L + 1 - P)
    BY <1>1 DEF MirrorFacts
  <2> QED BY <2>1
<1>3. w.order[P] = line[p] /\ p \in 1 .. Len(line) /\ line[p] \in Labels
  BY <1>1, <1>2 DEF MirrorFacts, Spans
<1>4. PICK h, D : Collected(h, line, from, to, p, D)
  BY <1>3, CollectedHolds
<1>5. PICK s : s = w.nesting[w.order[P]]
  OBVIOUS
<1>6. s = [k \in 1 .. D |-> h[k]] /\ D \in Nat
  <2>1. CollectHeads(line[p]) = [k \in 1 .. D |-> h[k]] /\ D \in 0 .. NumCycles
    BY <1>4 DEF Collected
  <2>2. NumCycles \in Nat
    BY DEF Spans
  <2> QED BY <1>3, <1>5, <2>1, <2>2
<1>7. \A g \in w.heads : w.order[g] \in Labels
  <2>1. w.heads \subseteq Positions(w)
    BY DEF IsWto, WellNested
  <2> QED BY <2>1, PositionsAre
<1>8. ToSet(s) \subseteq Labels
  <2>1. ToSet(s) = {w.order[g] : g \in AroundOf(w, P)}
    BY <1>5 DEF NestingOf
  <2> QED BY <1>7, <2>1 DEF AroundOf
<1>9. \A k \in 1 .. D : h[k] \in Labels
  BY <1>6, <1>8 DEF ToSet
<1>10. s \in Seq(Labels)
  BY <1>6, <1>9
<1> QED BY <1>5, <1>10

Paths ==
    Done => /\ OnlyReached(wto) /\ NestingSeqs(wto)
            /\ \A h \in wto.heads : LeadsOn(wto, h)

LEMMA PathsPrimed ==
    ASSUME children' = children, NEW w, w = wto', NEW u, u = w,
           OnlyReached(u), NestingSeqs(u), \A h \in u.heads : LeadsOn(u, h)
    PROVE  Paths'
<1>1. \A x, y : Edge(x, y)' <=> Edge(x, y)
  BY DEF Edge
<1>2. \A S : FromEntry(S)' <=> FromEntry(S)
  BY <1>1 DEF FromEntry
<1>3. OnlyReached(wto)'
  BY <1>2 DEF OnlyReached
<1>4. NestingSeqs(wto)'
  BY DEF NestingSeqs
<1>5. ASSUME NEW h \in wto'.heads PROVE LeadsOn(wto, h)'
  <2>1. LeadsOn(w, h)
    BY <1>5
  <2>2. LeadsOn(w, h)'
    BY <1>1, <2>1 DEF LeadsOn
  <2> QED BY <2>2 DEF LeadsOn
<1> QED BY <1>3, <1>4, <1>5 DEF Paths

LEMMA PathsFound ==
    ASSUME BuilderState, PlaceFound, TableInv, WalkInv, Finalize
    PROVE  Paths'
<1>1. TypeOK /\ ChildCycleAfterParent /\ visit_stack = <<>>
  BY DEF BuilderState, BuilderInv, Finalize
<1>2. PICK line, from, to : LineInv(line, from, to)
  BY DEF PlaceFound
<1>3. PICK order : order = Walk[0] /\ wto' = WtoOf(order, HeadPositions(order))
  BY DEF Finalize
<1>4. PICK w : w = wto'
  OBVIOUS
<1>5. Mirrors(w, line, from, to) /\ w.nesting = [l \in Labels |-> CollectHeads(l)]
  <2>1. Mirrors(w, line, from, to)
    BY <1>1, <1>2, <1>3, <1>4, WtoMirrors
  <2> QED BY <1>3, <1>4, <2>1 DEF WtoOf
<1>6. Spans(line, from, to)
  BY <1>1, <1>2, SpansHold
<1>7. IsWto(w, Entry, Edges, Labels)
  BY <1>1, <1>2, <1>5, IsWtoHolds
<1>8. NestingOf(w)
  BY <1>1, <1>2, <1>5, <1>6, NestingOfHolds, SMTT(60)
<1>9. OnlyReached(w)
  BY <1>2, <1>5, OnlyReachedHolds
<1>10. NestingSeqs(w)
  BY <1>1, <1>2, <1>5, <1>6, <1>7, <1>8, NestingSeqsHold, SMTT(60)
<1>11. \A h \in w.heads : LeadsOn(w, h)
  BY <1>1, <1>2, <1>5, LeadsOnHolds
<1>12. children' = children
  BY DEF Finalize
<1> QED BY <1>4, <1>9, <1>10, <1>11, <1>12, PathsPrimed, SMTT(60)

LEMMA PathsKept ==
    ASSUME BuilderState, PlaceFound, TableInv, WalkInv, Paths, [Next]_vars
    PROVE  Paths'
<1>1. CASE Finalize
  BY <1>1, PathsFound, SMTT(60)
<1>2. CASE ~ Finalize
  <2>1. children' = children /\ wto' = wto
    BY <1>2 DEF Next, PushSuccessors, StartVisit, ContinueVisit, Terminated, vars
  <2>2. PICK w : w = wto'
    OBVIOUS
  <2>3. PICK u : u = wto
    OBVIOUS
  <2>4. CASE Done
    <3>1. OnlyReached(u) /\ NestingSeqs(u) /\ \A h \in u.heads : LeadsOn(u, h)
      BY <2>3, <2>4 DEF Paths
    <3> QED BY <2>1, <2>2, <2>3, <3>1, PathsPrimed, SMTT(60)
  <2>5. CASE ~ Done
    BY <2>1, <2>5 DEF Paths, Done
  <2> QED BY <2>4, <2>5
<1> QED BY <1>1, <1>2

LEMMA ChainBound ==
    ASSUME Result, NestingsExact, Paths
    PROVE  ChainBoundExact
<1> SUFFICES ASSUME Done, NEW sites \in TailCalls, NEW limit \in ChainLimits
             PROVE  TailCallVerdict(Reachable, Edges, Representative, sites, limit) =
                        IF \E x \in Arrivals(sites) : Cardinality(x[2]) > limit THEN "too deep" ELSE "ok"
  BY DEF ChainBoundExact
<1>1. PICK w : w = wto
  OBVIOUS
<1>2. /\ IsWto(w, Entry, Edges, Labels)
      /\ \A h \in w.heads : LeadsBackTo(w, h) /\ h .. w.last[h] \subseteq 1 .. Len(w.order)
  BY <1>1 DEF Result
<1>3. OnlyReached(w) /\ NestingSeqs(w) /\ \A h \in w.heads : LeadsOn(w, h)
  BY <1>1 DEF Paths
<1>4. NestingOf(w)
  BY <1>1, NestingsMean
<1>5. Components(ToSet(w.order), Outermost(w))
  BY <1>2, <1>3, <1>4, ComponentsHold
<1>6. Reachable = ToSet(w.order) /\ Representative = Outermost(w)
  BY <1>1 DEF Reachable, Representative, Outermost
<1>7. sites \in SUBSET Labels /\ limit \in Nat
  BY TailCallsAssumption
<1>8. PICK L, rep : L = Reachable /\ rep = Representative
  OBVIOUS
<1>9. Components(L, rep)
  BY <1>5, <1>6, <1>8
<1> QED BY <1>7, <1>8, <1>9, VerdictExact, ZenonT(60)

ChainInv == num \in Nat /\ (num < DFN_INF => WalkInv /\ Paths)

LEMMA ChainInit == Init => ChainInv
<1> SUFFICES ASSUME Init PROVE ChainInv
  OBVIOUS
<1>1. WalkInv
  BY WalkInit
<1>2. Paths /\ num \in Nat
  BY DEF Init, Paths, Done
<1> QED BY <1>1, <1>2 DEF ChainInv

LEMMA ChainStep == SoundInv /\ NestInvAll /\ ChainInv /\ [Next]_vars => ChainInv'
<1> SUFFICES ASSUME SoundInv, NestInvAll, ChainInv, [Next]_vars PROVE ChainInv'
  OBVIOUS
<1>1. num' \in Nat /\ num <= num' /\ num \in Nat
  BY NumGrows DEF SoundInv
<1>2. CASE num' < DFN_INF
  <2>1. num < DFN_INF
    BY <1>1, <1>2 DEF DFN_INF
  <2>2. BuilderState /\ PlaceFound /\ TableInv /\ WalkInv /\ Paths
    BY <2>1 DEF SoundInv, BuilderState, NestInvAll, ChainInv
  <2>3. WalkInv' /\ Paths'
    BY <1>2, <2>2, WalkKept, PathsKept
  <2> QED BY <1>1, <2>3 DEF ChainInv
<1>3. CASE ~ (num' < DFN_INF)
  BY <1>1, <1>3 DEF ChainInv
<1> QED BY <1>2, <1>3

(***************************************************************************)
(* validate_tail_call_chain_depth rejects a program exactly when some      *)
(* execution passes more different tail-call sites than the limit, on      *)
(* every graph, for every set of sites and every limit: the components it  *)
(* reads off the order are the strongly connected ones, its list of them   *)
(* is complete, and its depths are what executions attain.                 *)
(***************************************************************************)
THEOREM ChainBoundUntilOverflow == Spec => [](num < DFN_INF => ChainBoundExact)
<1>1. SoundInv /\ NestInvAll /\ ChainInv => (num < DFN_INF => ChainBoundExact)
  BY ChainBound DEF SoundInv, NestInvAll, ChainInv
<1> QED BY <1>1, SoundInit, SoundKept, NestInit, NestStep, ChainInit, ChainStep, PTL DEF Spec

(***************************************************************************)
(* In a graph whose labels are too few for the numbers to overflow, the    *)
(* bound on tail-call chains is exact whatever the graph.                  *)
(***************************************************************************)
THEOREM ChainBoundAlways ==
    ASSUME Size * (Size + 1) < DFN_INF
    PROVE  Spec => []ChainBoundExact
<1>1. (num < DFN_INF => ChainBoundExact) /\ num < DFN_INF /\ SoundInv => ChainBoundExact
  OBVIOUS
<1> QED BY <1>1, SoundAlways, ChainBoundUntilOverflow, PTL
=============================================================================
