--------------------------- MODULE CfgBuilderProofs ---------------------------
(***************************************************************************)
(* Proofs about CfgBuilder, for every instruction sequence.  Inlining is   *)
(* followed call by call: what add_cfg_nodes clones, where its walk ends,  *)
(* and in which order the calls are inlined.                               *)
(***************************************************************************)
EXTENDS CfgBuilder, FiniteOrders

-----------------------------------------------------------------------------
(***************************************************************************)
(* The order on labels is total.                                           *)
(***************************************************************************)
LEMMA SeqLessTotal ==
    ASSUME NEW s \in Seq(Int), NEW t \in Seq(Int), s # t
    PROVE  SeqLess(s, t) \/ SeqLess(t, s)
<1> DEFINE D == {i \in Nat : i \in 1 .. Len(s) /\ i \in 1 .. Len(t) /\ s[i] # t[i]}
<1>1. Len(s) \in Nat /\ Len(t) \in Nat
  OBVIOUS
<1>2. CASE D = {}
  <2>1. \A i \in 1 .. Len(s) : i \in 1 .. Len(t) => s[i] = t[i]
    BY <1>1, <1>2, SMTT(60)
  <2>2. Len(s) # Len(t)
    BY <2>1, SMTT(60)
  <2>3. Len(s) < Len(t) \/ Len(t) < Len(s)
    BY <1>1, <2>2
  <2> QED BY <1>1, <2>1, <2>3 DEF SeqLess
<1>3. CASE D # {}
  <2>1. PICK i \in D : \A j \in D : i <= j
    <3>1. D \in SUBSET Nat
      OBVIOUS
    <3> HIDE DEF D
    <3> QED BY <1>3, <3>1, LeastNat
  <2>2. i \in Nat /\ i \in 1 .. Len(s) /\ i \in 1 .. Len(t) /\ s[i] # t[i]
    BY <2>1
  <2>3. \A j \in 1 .. i - 1 : s[j] = t[j]
    BY <1>1, <2>1, <2>2, SMTT(60)
  <2>4. s[i] \in Int /\ t[i] \in Int
    BY <2>2
  <2>5. s[i] < t[i] \/ t[i] < s[i]
    BY <2>2, <2>4
  <2>6. i <= Len(s) /\ i <= Len(t)
    BY <2>2
  <2> HIDE DEF D
  <2> QED BY <2>2, <2>3, <2>5, <2>6, SMTT(60) DEF SeqLess
<1> QED BY <1>2, <1>3

LEMMA SeqLessStrict ==
    ASSUME NEW s \in Seq(Int)
    PROVE  ~ SeqLess(s, s)
BY DEF SeqLess

LEMMA SeqLessTrans ==
    ASSUME NEW s \in Seq(Int), NEW t \in Seq(Int), NEW u \in Seq(Int),
           SeqLess(s, t), SeqLess(t, u)
    PROVE  SeqLess(s, u)
<1>1. Len(s) \in Nat /\ Len(t) \in Nat /\ Len(u) \in Nat
  OBVIOUS
<1>2. CASE Len(s) < Len(t) /\ \A i \in 1 .. Len(s) : s[i] = t[i]
  <2>1. CASE Len(t) < Len(u) /\ \A i \in 1 .. Len(t) : t[i] = u[i]
    BY <1>1, <1>2, <2>1, SMTT(60) DEF SeqLess
  <2>2. ASSUME NEW j \in 1 .. Len(t), j <= Len(u), t[j] < u[j], \A k \in 1 .. j - 1 : t[k] = u[k]
        PROVE  SeqLess(s, u)
    <3>1. CASE j <= Len(s)
      BY <1>1, <1>2, <2>2, <3>1, SMTT(60) DEF SeqLess
    <3>2. CASE ~ (j <= Len(s))
      <4>1. Len(s) < Len(u) /\ \A i \in 1 .. Len(s) : s[i] = u[i]
        BY <1>1, <1>2, <2>2, <3>2, SMTT(60)
      <4> QED BY <4>1 DEF SeqLess
    <3> QED BY <3>1, <3>2
  <2> QED BY <2>1, <2>2 DEF SeqLess
<1>3. ASSUME NEW i \in 1 .. Len(s), i <= Len(t), s[i] < t[i], \A k \in 1 .. i - 1 : s[k] = t[k]
      PROVE  SeqLess(s, u)
  <2>0. s[i] \in Int /\ t[i] \in Int /\ i \in 1 .. Len(t)
    BY <1>1, <1>3, SMTT(60)
  <2>1. CASE Len(t) < Len(u) /\ \A k \in 1 .. Len(t) : t[k] = u[k]
    <3>1. i <= Len(u) /\ s[i] < u[i]
      BY <1>1, <1>3, <2>0, <2>1
    <3>2. \A k \in 1 .. i - 1 : s[k] = u[k]
      <4>1. \A k \in 1 .. i - 1 : k \in 1 .. Len(t)
        BY <1>1, <1>3, <2>0
      <4> QED BY <1>3, <2>1, <4>1
    <3> QED BY <3>1, <3>2 DEF SeqLess
  <2>2. ASSUME NEW j \in 1 .. Len(t), j <= Len(u), t[j] < u[j], \A k \in 1 .. j - 1 : t[k] = u[k]
        PROVE  SeqLess(s, u)
    <3>0. t[j] \in Int /\ u[j] \in Int
      BY <1>1, <2>2, SMTT(60)
    <3>1. CASE i < j
      <4>1. s[i] < u[i] /\ \A k \in 1 .. i - 1 : s[k] = u[k]
        BY <1>1, <1>3, <2>0, <2>2, <3>1
      <4>2. i <= Len(u)
        BY <1>1, <2>2, <3>1
      <4> QED BY <4>1, <4>2 DEF SeqLess
    <3>2. CASE i = j
      <4>1. u[i] \in Int
        BY <3>0, <3>2
      <4>2. s[i] < u[i] /\ \A k \in 1 .. i - 1 : s[k] = u[k]
        BY <1>3, <2>0, <2>2, <3>2, <4>1, SMTT(60)
      <4> QED BY <2>2, <3>2, <4>2 DEF SeqLess
    <3>3. CASE j < i
      <4>1. s[j] < u[j] /\ \A k \in 1 .. j - 1 : s[k] = u[k]
        BY <1>1, <1>3, <2>2, <3>3
      <4>2. j \in 1 .. Len(s)
        BY <1>1, <3>3
      <4> QED BY <2>2, <4>1, <4>2 DEF SeqLess
    <3> QED BY <1>1, <3>1, <3>2, <3>3
  <2> QED BY <2>1, <2>2 DEF SeqLess
<1> QED BY <1>2, <1>3 DEF SeqLess

(***************************************************************************)
(* The labels of the graph.  Only those of counters are special.           *)
(***************************************************************************)
PlainLabels == [prefix : Seq(Int), from : Int, to : Int, special : {""}]

LEMMA LabelIs ==
    ASSUME NEW x \in PlainLabels
    PROVE  x = LabelFull(x.from, x.to, x.prefix)
<1>1. x = [prefix |-> x.prefix, from |-> x.from, to |-> x.to, special |-> x.special]
  BY DEF PlainLabels
<1>2. x.special = ""
  BY DEF PlainLabels
<1> QED BY <1>1, <1>2 DEF LabelFull

LEMMA TwoLong ==
    ASSUME NEW x \in PlainLabels
    PROVE  /\ x.prefix \in Seq(Int) /\ <<x.from, x.to>> \in Seq(Int)
           /\ <<x.from, x.to>>[1] = x.from /\ <<x.from, x.to>>[2] = x.to
<1>1. x.prefix \in Seq(Int) /\ x.from \in Int /\ x.to \in Int
  BY DEF PlainLabels
<1> QED BY <1>1

LEMMA LabelLessTotal ==
    ASSUME NEW l \in PlainLabels, NEW m \in PlainLabels
    PROVE  /\ l # m => LabelLess(l, m) \/ LabelLess(m, l)
           /\ ~ LabelLess(l, l)
           /\ \A n \in PlainLabels : LabelLess(l, m) /\ LabelLess(m, n) => LabelLess(l, n)
<1> DEFINE key(x) == <<x.from, x.to>>
<1>1. \A x \in PlainLabels : x.prefix \in Seq(Int) /\ key(x) \in Seq(Int)
  BY TwoLong
<1>2. ASSUME l.prefix = m.prefix, key(l) = key(m) PROVE l = m
  <2>1. l.from = m.from /\ l.to = m.to
    BY <1>2, TwoLong
  <2> HIDE DEF key
  <2> QED BY <1>2, <2>1, LabelIs
<1>3. \A x, y \in PlainLabels :
          LabelLess(x, y) = (SeqLess(x.prefix, y.prefix) \/ (x.prefix = y.prefix /\ SeqLess(key(x), key(y))))
  BY DEF LabelLess
<1> HIDE DEF key
<1>4. ASSUME l # m PROVE LabelLess(l, m) \/ LabelLess(m, l)
  <2>1. CASE l.prefix = m.prefix
    <3>1. SeqLess(key(l), key(m)) \/ SeqLess(key(m), key(l))
      BY <1>1, <1>2, <1>4, <2>1, SeqLessTotal
    <3> QED BY <1>3, <2>1, <3>1
  <2>2. CASE l.prefix # m.prefix
    <3>1. SeqLess(l.prefix, m.prefix) \/ SeqLess(m.prefix, l.prefix)
      BY <1>1, <2>2, SeqLessTotal
    <3> QED BY <1>3, <3>1
  <2> QED BY <2>1, <2>2
<1>5. ~ LabelLess(l, l)
  BY <1>1, <1>3, SeqLessStrict
<1>6. ASSUME NEW n \in PlainLabels, LabelLess(l, m), LabelLess(m, n) PROVE LabelLess(l, n)
  <2>1. /\ SeqLess(l.prefix, m.prefix) \/ (l.prefix = m.prefix /\ SeqLess(key(l), key(m)))
        /\ SeqLess(m.prefix, n.prefix) \/ (m.prefix = n.prefix /\ SeqLess(key(m), key(n)))
    BY <1>3, <1>6
  <2>2. CASE SeqLess(l.prefix, m.prefix) /\ SeqLess(m.prefix, n.prefix)
    <3>1. SeqLess(l.prefix, n.prefix)
      BY <1>1, <2>2, SeqLessTrans
    <3> QED BY <1>3, <3>1
  <2>3. CASE l.prefix = m.prefix /\ SeqLess(key(l), key(m)) /\ m.prefix = n.prefix /\ SeqLess(key(m), key(n))
    <3>1. SeqLess(key(l), key(n))
      BY <1>1, <2>3, SeqLessTrans
    <3> QED BY <1>3, <2>3, <3>1
  <2>4. CASE SeqLess(l.prefix, m.prefix) /\ m.prefix = n.prefix
    BY <1>3, <2>4
  <2>5. CASE l.prefix = m.prefix /\ SeqLess(m.prefix, n.prefix)
    BY <1>3, <2>5
  <2> QED BY <2>1, <2>2, <2>3, <2>4, <2>5
<1> QED BY <1>4, <1>5, <1>6

(***************************************************************************)
(* InOrder lists every member once, the smaller ones first.                *)
(***************************************************************************)
LEMMA InOrderLists ==
    ASSUME NEW L \in SUBSET PlainLabels, IsFiniteSet(L)
    PROVE  LET q == InOrder(L, LabelLess)
           IN  /\ q \in Seq(L) /\ Len(q) = Cardinality(L)
               /\ \A l \in L : \E k \in DOMAIN q : q[k] = l
               /\ \A j, k \in DOMAIN q : q[j] = q[k] => j = k
               /\ \A j, k \in DOMAIN q : j < k => LabelLess(q[j], q[k])
<1> DEFINE Upto(l) == {m \in L : m = l \/ LabelLess(m, l)}
           upto == [l \in L |-> Upto(l)]
           q == InOrder(L, LabelLess)
           N == Cardinality(L)
<1>1. ASSUME NEW m \in L, NEW n \in L, LabelLess(m, n)
      PROVE  upto[m] \subseteq upto[n] /\ n \notin upto[m]
  <2>1. ASSUME NEW x \in L, LabelLess(x, m) PROVE LabelLess(x, n)
    BY <1>1, <2>1, LabelLessTotal
  <2>2. ~ LabelLess(n, m) /\ n # m
    BY <1>1, LabelLessTotal
  <2> QED BY <1>1, <2>1, <2>2
<1>2. \A m, n \in L : m # n => \/ upto[m] \subseteq upto[n] /\ n \notin upto[m]
                               \/ upto[n] \subseteq upto[m] /\ m \notin upto[n]
  <2>1. \A m, n \in L : m # n => LabelLess(m, n) \/ LabelLess(n, m)
    BY LabelLessTotal
  <2> HIDE DEF upto
  <2> QED BY <1>1, <2>1
<1>3. upto \in [L -> SUBSET L] /\ \A m \in L : m \in upto[m]
  OBVIOUS
<1>4. /\ N \in Nat
      /\ \A m \in L : Cardinality(upto[m]) \in 1 .. N
      /\ \A m, n \in L : Cardinality(upto[m]) = Cardinality(upto[n]) => m = n
      /\ \A p \in 1 .. N : \E m \in L : Cardinality(upto[m]) = p
  <2> HIDE DEF upto
  <2> QED BY <1>2, <1>3, CountedOff
<1>5. q = [k \in 1 .. N |-> CHOOSE l \in L : Cardinality(Upto(l)) = k]
  BY DEF InOrder
<1>6. \A k \in 1 .. N : q[k] \in L /\ Cardinality(upto[q[k]]) = k
  <2>1. \A k \in 1 .. N : \E l \in L : Cardinality(Upto(l)) = k
    BY <1>4
  <2>2. \A k \in 1 .. N : q[k] \in L /\ Cardinality(Upto(q[k])) = k
    <3> HIDE DEF Upto, N, upto
    <3> QED BY <1>5, <2>1
  <2> HIDE DEF Upto, q
  <2> QED BY <2>2
<1>7. q \in Seq(L) /\ Len(q) = N /\ DOMAIN q = 1 .. N
  <2> HIDE DEF N, upto
  <2>1. q \in [1 .. N -> L]
    BY <1>5, <1>6
  <2> HIDE DEF q
  <2> QED BY <1>4, <2>1
<1> HIDE DEF q, N
<1>8. ASSUME NEW l \in L PROVE \E k \in DOMAIN q : q[k] = l
  <2>1. Cardinality(upto[l]) \in 1 .. N
    BY <1>4
  <2> HIDE DEF upto
  <2> QED BY <1>4, <1>6, <1>7, <2>1
<1>9. ASSUME NEW j \in DOMAIN q, NEW k \in DOMAIN q, j < k PROVE LabelLess(q[j], q[k])
  <2>1. q[j] \in L /\ q[k] \in L /\ Cardinality(upto[q[j]]) = j /\ Cardinality(upto[q[k]]) = k
    BY <1>6, <1>7
  <2>2. q[j] # q[k]
    <3> HIDE DEF upto
    <3> QED BY <1>4, <1>7, <1>9, <2>1
  <2>3. CASE LabelLess(q[k], q[j])
    <3>1. upto[q[k]] \subseteq upto[q[j]] /\ IsFiniteSet(upto[q[j]])
      <4>1. IsFiniteSet(upto[q[j]])
        BY <2>1, FS_Subset
      <4> QED BY <1>1, <2>1, <2>3, <4>1
    <3>2. Cardinality(upto[q[k]]) <= Cardinality(upto[q[j]])
      BY <3>1, FS_Subset
    <3> QED BY <1>4, <1>7, <1>9, <2>1, <3>2
  <2> QED BY <2>1, <2>2, <2>3, LabelLessTotal
<1>10. \A j, k \in DOMAIN q : q[j] = q[k] => j = k
  <2> HIDE DEF upto
  <2> QED BY <1>6, <1>7
<1> QED BY <1>7, <1>8, <1>9, <1>10 DEF q, N

-----------------------------------------------------------------------------
(***************************************************************************)
(* The walk over a callee.  If it succeeds, it has seen the callee's entry *)
(* and all that follows an instruction it has seen, and nothing else; and  *)
(* no two of the labels would be cloned to the same one.                   *)
(***************************************************************************)
GraphType ==
    /\ IsFiniteSet(DOMAIN nodes)
    /\ DOMAIN nodes \subseteq PlainLabels
    /\ edges \subseteq (DOMAIN nodes) \X (DOMAIN nodes)

LEMMA SmallestIs ==
    ASSUME NEW L \in SUBSET PlainLabels, IsFiniteSet(L), L # {}
    PROVE  SmallestOf(L) \in L
<1> DEFINE q == InOrder(L, LabelLess)
<1>1. /\ q \in Seq(L) /\ Len(q) = Cardinality(L)
      /\ \A l \in L : \E k \in DOMAIN q : q[k] = l
      /\ \A j, k \in DOMAIN q : j < k => LabelLess(q[j], q[k])
  BY InOrderLists
<1> HIDE DEF q
<1>2. Cardinality(L) \in Nat /\ Cardinality(L) # 0
  BY FS_CardinalityType, FS_EmptySet
<1>3. 1 \in DOMAIN q /\ q[1] \in L
  BY <1>1, <1>2
<1>4. \A m \in L \ {q[1]} : LabelLess(q[1], m)
  BY <1>1, <1>3
<1>5. \E l \in L : \A m \in L \ {l} : LabelLess(l, m)
  BY <1>3, <1>4
<1> QED BY <1>5 DEF SmallestOf

Succ(caller, first, m) ==
    {x \in (DOMAIN nodes \cup {first}) \ {ExitLabel} : <<m, x>> \in edges \/ (m = caller /\ x = first)}

Walked(caller, entry, frame, R) ==
    /\ R \in SUBSET (DOMAIN nodes) /\ entry \in R
    /\ \A m \in R : m.prefix # frame /\ Clone(m, frame) \notin DOMAIN nodes
    /\ \A m, n \in R : Clone(m, frame) = Clone(n, frame) => m = n
    /\ \A m \in R, x \in DOMAIN nodes \ {ExitLabel} : <<m, x>> \in edges => x \in R
    /\ \A T \in SUBSET (DOMAIN nodes) :
          /\ entry \in T /\ caller \notin T
          /\ \A m \in T, x \in DOMAIN nodes \ {ExitLabel} : <<m, x>> \in edges => x \in T
          => R \subseteq T

KeepsWalk(caller, entry, T) ==
    /\ entry \in T /\ caller \notin T
    /\ \A m \in T, x \in DOMAIN nodes \ {ExitLabel} : <<m, x>> \in edges => x \in T

Clonable(frame, T) ==
    \A m \in T : /\ Clone(m, frame) \notin DOMAIN nodes
                  /\ \A n \in T : Clone(m, frame) = Clone(n, frame) => m = n

LEMMA WalkResult ==
    ASSUME GraphType, NEW caller \in DOMAIN nodes, NEW entry \in DOMAIN nodes,
           FrameOf(caller) \in Seq(Int)
    PROVE  /\ CloneWalk(caller, entry).status \in {"ok", "rejected", "panicked"}
           /\ CloneWalk(caller, entry).status = "ok" =>
                 Walked(caller, entry, FrameOf(caller), CloneWalk(caller, entry).seen)
           /\ CloneWalk(caller, entry).status = "panicked" =>
                 \A T \in SUBSET (DOMAIN nodes) :
                     KeepsWalk(caller, entry, T) => ~ Clonable(FrameOf(caller), T)
<1> DEFINE frame == FrameOf(caller)
           first == Clone(entry, frame)
           labels == DOMAIN nodes \cup {first}
           succ(m) == Succ(caller, first, m)
           exists(m, cloned) == \/ Clone(m, frame) \in DOMAIN nodes
                                \/ \E x \in cloned : Clone(x, frame) = Clone(m, frame)
           X == (SUBSET labels) \X (SUBSET labels)
           ends(w) == \/ w[1] = {}
                      \/ SmallestOf(w[1]).prefix = frame
                      \/ exists(SmallestOf(w[1]), w[2] \ w[1])
           result(w) == IF w[1] = {} THEN [status |-> "ok", seen |-> w[2]]
                        ELSE IF SmallestOf(w[1]).prefix = frame THEN RecursionFound
                        ELSE [status |-> "panicked"]
           step(w) == <<(w[1] \ {SmallestOf(w[1])}) \cup (succ(SmallestOf(w[1])) \ w[2]),
                        w[2] \cup succ(SmallestOf(w[1]))>>
           done == {w \in X : ends(w)}
           out == [w \in X |-> result(w)]
           St == [w \in X |-> step(w)]
           V == {result(w) : w \in X}
           walk == CHOOSE walk : walk = [w \in (SUBSET labels) \X (SUBSET labels) |->
            LET todo == w[1]
                seen == w[2]
                m == SmallestOf(todo)
            IN  IF todo = {} THEN [status |-> "ok", seen |-> seen]
                ELSE IF m.prefix = frame THEN RecursionFound
                ELSE IF exists(m, seen \ todo) THEN [status |-> "panicked"]
                ELSE walk[<<(todo \ {m}) \cup (succ(m) \ seen), seen \cup succ(m)>>]]
<1>1. /\ done \in SUBSET X /\ out \in [X -> V]
      /\ St \in [X -> X]
  <2>1. \A m : succ(m) \in SUBSET labels
    BY DEF Succ
  <2>2. \A w \in X : step(w) \in X
    BY <2>1
  <2> HIDE DEF X, step, result, ends
  <2> QED BY <2>2
<1>2. PICK h : h = [x \in X |-> IF x \in done THEN out[x] ELSE h[St[x]]]
  <2> HIDE DEF X, V, done, out, St
  <2>1. \E h : Loops(X, done, St, out, h)
    BY <1>1, LoopExists
  <2> QED BY <2>1 DEF Loops
<1>3. \A w \in X : (IF w \in done THEN out[w] ELSE h[St[w]])
                      = IF w[1] = {} THEN [status |-> "ok", seen |-> w[2]]
                        ELSE IF SmallestOf(w[1]).prefix = frame THEN RecursionFound
                        ELSE IF exists(SmallestOf(w[1]), w[2] \ w[1]) THEN [status |-> "panicked"]
                        ELSE h[step(w)]
  <2> HIDE DEF X, exists, step
  <2> QED OBVIOUS
<1>4. h = [w \in (SUBSET labels) \X (SUBSET labels) |->
            LET todo == w[1]
                seen == w[2]
                m == SmallestOf(todo)
            IN  IF todo = {} THEN [status |-> "ok", seen |-> seen]
                ELSE IF m.prefix = frame THEN RecursionFound
                ELSE IF exists(m, seen \ todo) THEN [status |-> "panicked"]
                ELSE h[<<(todo \ {m}) \cup (succ(m) \ seen), seen \cup succ(m)>>]]
  <2> HIDE DEF exists, done, out, St, succ
  <2> QED BY <1>2, <1>3, ZenonT(60)
<1>5. walk = [w \in (SUBSET labels) \X (SUBSET labels) |->
            LET todo == w[1]
                seen == w[2]
                m == SmallestOf(todo)
            IN  IF todo = {} THEN [status |-> "ok", seen |-> seen]
                ELSE IF m.prefix = frame THEN RecursionFound
                ELSE IF exists(m, seen \ todo) THEN [status |-> "panicked"]
                ELSE walk[<<(todo \ {m}) \cup (succ(m) \ seen), seen \cup succ(m)>>]]
  <2> HIDE DEF exists, succ, labels, frame
  <2> QED BY <1>4, Zenon
<1>6. CloneWalk(caller, entry) = walk[<<{entry}, {entry}>>]
  BY DEF CloneWalk, Succ
<1> DEFINE closedT(T) == /\ entry \in T /\ caller \notin T
                         /\ \A m \in T, x \in DOMAIN nodes \ {ExitLabel} : <<m, x>> \in edges => x \in T
           taken(w) == w[2] \ w[1]
           I == {w \in X : /\ w[1] \subseteq w[2] /\ entry \in w[2]
                           /\ \A m \in taken(w) : /\ m \in DOMAIN nodes
                                                  /\ m.prefix # frame /\ Clone(m, frame) \notin DOMAIN nodes
                                                  /\ succ(m) \subseteq w[2]
                           /\ \A m, n \in taken(w) : Clone(m, frame) = Clone(n, frame) => m = n
                           /\ \A T \in SUBSET (DOMAIN nodes) : closedT(T) => w[2] \subseteq T}
           mu == [w \in I |-> Cardinality(labels \ taken(w))]
<1>7. first \in PlainLabels /\ first.prefix = frame /\ IsFiniteSet(labels) /\ labels \subseteq PlainLabels
  <2>1. first \in PlainLabels /\ first.prefix = frame
    BY ZenonT(60) DEF GraphType, PlainLabels, Clone, LabelFull
  <2> QED BY <2>1, FS_AddElement DEF GraphType
<1>8. ASSUME NEW w \in I, w \notin done
      PROVE  step(w) \in I /\ Cardinality(labels \ taken(step(w))) < Cardinality(labels \ taken(w))
                /\ Cardinality(labels \ taken(step(w))) \in Nat
  <2> DEFINE m == SmallestOf(w[1])
             v == step(w)
  <2>1. w \in X /\ w[1] \in SUBSET labels /\ w[2] \in SUBSET labels /\ w[1] \subseteq w[2]
    OBVIOUS
  <2>2. w[1] # {} /\ m.prefix # frame /\ ~ exists(m, taken(w))
    BY <1>8
  <2>3. m \in w[1]
    <3>1. w[1] \in SUBSET PlainLabels /\ IsFiniteSet(w[1])
      BY <1>7, <2>1, FS_Subset
    <3> QED BY <2>2, <3>1, SmallestIs
  <2>4. m \in DOMAIN nodes
    BY <1>7, <2>1, <2>2, <2>3
  <2>5. Clone(m, frame) \notin DOMAIN nodes /\ \A x \in taken(w) : Clone(x, frame) # Clone(m, frame)
    BY <2>2
  <2>6. v \in X /\ v[1] = (w[1] \ {m}) \cup (succ(m) \ w[2]) /\ v[2] = w[2] \cup succ(m)
    BY <2>1 DEF Succ
  <2>7. taken(v) = taken(w) \cup {m} /\ m \notin taken(w) /\ m \in labels
    <3> HIDE DEF m, v, succ
    <3> QED BY <2>1, <2>3, <2>6
  <2>8. v \in I
    <3>1. v[1] \subseteq v[2] /\ entry \in v[2] /\ w[2] \subseteq v[2]
      BY <2>1, <2>6
    <3>2. ASSUME NEW x \in taken(v)
          PROVE  x \in DOMAIN nodes /\ x.prefix # frame /\ Clone(x, frame) \notin DOMAIN nodes
                    /\ succ(x) \subseteq v[2]
      BY <2>2, <2>4, <2>5, <2>6, <2>7
    <3>3. \A x, y \in taken(v) : Clone(x, frame) = Clone(y, frame) => x = y
      BY <2>5, <2>7
    <3>4. ASSUME NEW T \in SUBSET (DOMAIN nodes), closedT(T)
          PROVE  v[2] \subseteq T
      <4>1. w[2] \subseteq T /\ m \in T /\ m # caller
        BY <2>1, <2>3, <3>4, SMTT(60)
      <4>2. succ(m) \subseteq T
        BY <3>4, <4>1 DEF GraphType, Succ
      <4> QED BY <2>6, <4>1, <4>2
    <3> HIDE DEF v, succ, closedT
    <3> QED BY <2>6, <3>1, <3>2, <3>3, <3>4
  <2>9. /\ Cardinality(labels \ taken(v)) < Cardinality(labels \ taken(w))
        /\ Cardinality(labels \ taken(v)) \in Nat
    <3> DEFINE A == labels \ taken(w)
               B == labels \ taken(v)
    <3>1. IsFiniteSet(A) /\ B \in SUBSET A /\ A # B
      <4>1. IsFiniteSet(A)
        BY <1>7, FS_Subset
      <4> HIDE DEF m, v, succ, labels
      <4> QED BY <2>7, <4>1
    <3> HIDE DEF A, B
    <3>2. Cardinality(B) < Cardinality(A) /\ Cardinality(B) \in Nat
      BY <3>1, FS_Subset, FS_CardinalityType
    <3> QED BY <3>2 DEF A, B
  <2> QED BY <2>8, <2>9
<1>9. ComesDown(I, done, St, out, walk, mu)
  <2>1. mu \in [I -> Nat]
    <3>1. \A w \in I : IsFiniteSet(labels \ taken(w))
      BY <1>7, FS_Subset
    <3>2. \A w \in I : Cardinality(labels \ taken(w)) \in Nat
      <4> HIDE DEF I, labels, taken
      <4> QED BY <3>1, FS_CardinalityType
    <3> QED BY <3>2
  <2>2. \A w \in I : walk[w] = IF w \in done THEN out[w] ELSE walk[St[w]]
    <3>1. \A w \in X : walk[w] = IF w[1] = {} THEN [status |-> "ok", seen |-> w[2]]
                        ELSE IF SmallestOf(w[1]).prefix = frame THEN RecursionFound
                        ELSE IF exists(SmallestOf(w[1]), w[2] \ w[1]) THEN [status |-> "panicked"]
                        ELSE walk[step(w)]
      <4> HIDE DEF exists, succ, labels, frame, walk
      <4> QED BY <1>5
    <3>2. \A w \in X : (IF w \in done THEN out[w] ELSE walk[St[w]])
                      = IF w[1] = {} THEN [status |-> "ok", seen |-> w[2]]
                        ELSE IF SmallestOf(w[1]).prefix = frame THEN RecursionFound
                        ELSE IF exists(SmallestOf(w[1]), w[2] \ w[1]) THEN [status |-> "panicked"]
                        ELSE walk[step(w)]
      <4> HIDE DEF X, exists, step, walk
      <4> QED OBVIOUS
    <3> HIDE DEF walk, exists, step, done, out, St
    <3> QED BY <3>1, <3>2, ZenonT(60)
  <2>3. \A w \in I : w \in done \/ (St[w] \in I /\ mu[St[w]] < mu[w])
    <3>1. \A w \in I : w \in X /\ St[w] = step(w)
      OBVIOUS
    <3>2. \A w \in I : mu[w] = Cardinality(labels \ taken(w))
      OBVIOUS
    <3> HIDE DEF I, done, St, mu, step, taken
    <3> QED BY <1>8, <3>1, <3>2, ZenonT(60)
  <2> HIDE DEF walk, I, done, out, St, mu
  <2> QED BY <2>1, <2>2, <2>3 DEF ComesDown
<1>10. <<{entry}, {entry}>> \in I
  <2>1. <<{entry}, {entry}>> \in X
    OBVIOUS
  <2> QED BY <2>1
<1>11. PICK y \in I : y \in done /\ walk[<<{entry}, {entry}>>] = out[y]
  <2> DEFINE a == <<{entry}, {entry}>>
  <2>1. \A x \in I : \E y \in I : y \in done /\ walk[x] = out[y]
    <3> HIDE DEF walk, I, done, out, St, mu
    <3> QED BY ONLY <1>9, LoopResult
  <2> HIDE DEF walk, I, done, out, St, mu
  <2> QED BY <1>10, <2>1
<1>12. y \in X /\ CloneWalk(caller, entry) = result(y)
  <2> HIDE DEF walk, result
  <2> QED BY <1>6, <1>11
<1>13. CloneWalk(caller, entry).status \in {"ok", "rejected", "panicked"}
  <2> HIDE DEF X
  <2> QED BY <1>12 DEF RecursionFound
<1>13a. ASSUME CloneWalk(caller, entry).status = "panicked", NEW T \in SUBSET (DOMAIN nodes),
              KeepsWalk(caller, entry, T), Clonable(FrameOf(caller), T)
       PROVE  FALSE
  <2> DEFINE m == SmallestOf(y[1])
  <2>1. y[1] # {} /\ m.prefix # frame
    <3> HIDE DEF X
    <3> QED BY <1>12, <1>13a DEF RecursionFound
  <2>2. exists(m, taken(y))
    BY <1>11, <2>1
  <2>3. y[1] \subseteq y[2] /\ y[2] \subseteq T
    BY <1>13a DEF KeepsWalk
  <2>4. m \in y[1]
    <3>1. y[1] \in SUBSET PlainLabels /\ IsFiniteSet(y[1])
      BY <1>7, <1>12, FS_Subset
    <3> QED BY <2>1, <3>1, SmallestIs
  <2>5. m \in T /\ \A x \in taken(y) : x \in T /\ x # m
    BY <2>3, <2>4
  <2> HIDE DEF m, X, I
  <2> QED BY <1>13a, <2>2, <2>5 DEF Clonable
<1>14. SUFFICES ASSUME CloneWalk(caller, entry).status = "ok"
               PROVE  Walked(caller, entry, FrameOf(caller), CloneWalk(caller, entry).seen)
  <2> HIDE DEF frame
  <2> QED BY <1>13, <1>13a
<1>15. y[1] = {} /\ CloneWalk(caller, entry).seen = y[2]
  <2> HIDE DEF X
  <2> QED BY <1>12, <1>14 DEF RecursionFound
<1>16. y[2] = taken(y)
  BY <1>15
<1>17. Walked(caller, entry, frame, y[2])
  <2>1. y[2] \in SUBSET (DOMAIN nodes)
    BY <1>16
  <2>2. \A m \in y[2], x \in DOMAIN nodes \ {ExitLabel} : <<m, x>> \in edges => x \in y[2]
    <3>1. \A m \in y[2] : succ(m) \subseteq y[2]
      BY <1>16
    <3> QED BY <3>1 DEF Succ
  <2>3. \A T \in SUBSET (DOMAIN nodes) : closedT(T) => y[2] \subseteq T
    OBVIOUS
  <2>4. entry \in y[2] /\ \A m \in y[2] : m.prefix # frame /\ Clone(m, frame) \notin DOMAIN nodes
    BY <1>16
  <2>5. \A m, n \in y[2] : Clone(m, frame) = Clone(n, frame) => m = n
    BY <1>16
  <2> HIDE DEF I, frame
  <2> QED BY <2>1, <2>2, <2>3, <2>4, <2>5, SMTT(60) DEF Walked
<1> QED BY <1>15, <1>17

-----------------------------------------------------------------------------
(***************************************************************************)
(* Instructions and their labels.                                          *)
(***************************************************************************)
InputOK ==
    /\ IsFiniteSet(Indexes)
    /\ \A i \in Indexes : i \in Nat /\ i # MAX /\ seq[i].op \in Op /\ seq[i].target \in Nat
    /\ input.max_call_stack_frames \in Nat \ {0}

LEMMA InputsAreOK == input \in Inputs => InputOK
<1>1. MAX \in Nat
  BY DEF MAX
<1> QED BY <1>1, InputsAssumption DEF InputOK, seq, Indexes

LEMMA LabelsApart ==
    /\ \A i \in Int : /\ NewLabel(i) \in PlainLabels
                      /\ NewLabel(i).prefix = <<>> /\ NewLabel(i).from = i /\ NewLabel(i).to = -1
    /\ EntryLabel \in PlainLabels /\ EntryLabel.prefix = <<>> /\ EntryLabel.from = -1 /\ EntryLabel.to = -1
    /\ ExitLabel \in PlainLabels /\ ExitLabel.prefix = <<>> /\ ExitLabel.from = MAX /\ ExitLabel.to = MAX
    /\ MAX \in Nat
<1>1. MAX \in Nat
  BY DEF MAX
<1>2. <<>> \in Seq(Int)
  OBVIOUS
<1> QED BY <1>1, <1>2 DEF NewLabel, EntryLabel, ExitLabel, LabelFull, PlainLabels

LEMMA NewLabelApart ==
    ASSUME InputOK, NEW i \in Indexes
    PROVE  /\ NewLabel(i) # EntryLabel /\ NewLabel(i) # ExitLabel
           /\ \A j \in Int : NewLabel(i) = NewLabel(j) => i = j
<1>1. i \in Nat
  BY DEF InputOK
<1>2. MAX \in Nat
  BY LabelsApart
<1>3. NewLabel(i).from = i /\ NewLabel(i).to = -1 /\ EntryLabel.from = -1 /\ ExitLabel.to = MAX
      /\ \A j \in Int : NewLabel(j).from = j
  BY <1>1, LabelsApart
<1> QED BY <1>1, <1>2, <1>3

\* Without a next instruction control falls through to the exit.
LEMMA FallthroughIs ==
    ASSUME InputOK, NEW i \in Indexes
    PROVE  /\ IsLast(i) => Fallthrough(i) = ExitLabel
           /\ ~ IsLast(i) => \E j \in Indexes : Fallthrough(i) = NewLabel(j)
<1>1. SUFFICES ASSUME ~ IsLast(i) PROVE \E j \in Indexes : Fallthrough(i) = NewLabel(j)
  BY DEF Fallthrough
<1> DEFINE T == {j \in Indexes : j > i}
<1>2. T \in SUBSET Nat /\ T # {}
  BY <1>1 DEF InputOK, IsLast
<1>3. \E j \in T : \A k \in T : j <= k
  <2> HIDE DEF T
  <2> QED BY <1>2, LeastNat
<1>4. \E j \in Indexes : j > i /\ \A k \in Indexes : k > i => j <= k
  BY <1>3
<1> QED BY <1>1, <1>4 DEF Fallthrough

LEMMA BranchLabels ==
    ASSUME InputOK, NEW i \in Indexes, Splits(i), seq[i].target \in Indexes
    PROVE  /\ Taken(i) = LabelFull(i, seq[i].target, <<>>)
           /\ NotTaken(i) = LabelFull(i, Fallthrough(i).from, <<>>)
           /\ Taken(i) \in PlainLabels /\ NotTaken(i) \in PlainLabels
           /\ Taken(i).from = i /\ Taken(i).to # -1 /\ Taken(i).prefix = <<>>
           /\ NotTaken(i).from = i /\ NotTaken(i).to # -1 /\ NotTaken(i).prefix = <<>>
           /\ Taken(i) # ExitLabel /\ NotTaken(i) # ExitLabel
           /\ IsJump(Taken(i)) /\ IsJump(NotTaken(i))
           /\ \A j \in Indexes : Splits(j) => Taken(i) # NotTaken(j)
<1>1. \A j \in Indexes : j \in Nat /\ j # MAX /\ seq[j].target \in Nat
  BY DEF InputOK
<1>2. \A j \in Indexes :
         /\ Fallthrough(j).prefix = <<>> /\ Fallthrough(j).from \in Nat
         /\ Fallthrough(j) = ExitLabel \/ Fallthrough(j) = NewLabel(Fallthrough(j).from)
  <2> SUFFICES ASSUME NEW j \in Indexes
               PROVE /\ Fallthrough(j).prefix = <<>> /\ Fallthrough(j).from \in Nat
                     /\ Fallthrough(j) = ExitLabel \/ Fallthrough(j) = NewLabel(Fallthrough(j).from)
    OBVIOUS
  <2>1. CASE IsLast(j)
    BY <2>1, FallthroughIs, LabelsApart
  <2>2. CASE ~ IsLast(j)
    <3>1. PICK k \in Indexes : Fallthrough(j) = NewLabel(k)
      BY <2>2, FallthroughIs
    <3>2. k \in Nat
      BY <1>1
    <3> QED BY <3>1, <3>2, LabelsApart
  <2> QED BY <2>1, <2>2
<1>3. \A j \in Indexes : /\ Taken(j) = LabelFull(j, seq[j].target, <<>>)
                         /\ NotTaken(j) = LabelFull(j, Fallthrough(j).from, <<>>)
  BY <1>1, <1>2, LabelsApart, SMTT(60) DEF Taken, NotTaken, MakeJump
<1>4. \A f, t \in Nat : /\ LabelFull(f, t, <<>>) \in PlainLabels
                        /\ LabelFull(f, t, <<>>).from = f /\ LabelFull(f, t, <<>>).to = t
                        /\ LabelFull(f, t, <<>>).prefix = <<>>
  <2>1. <<>> \in Seq(Int)
    OBVIOUS
  <2> QED BY <2>1 DEF LabelFull, PlainLabels
<1>5. ASSUME NEW j \in Indexes, Splits(j) PROVE Taken(i) # NotTaken(j)
  <2>1. CASE i = j
    <3>1. NewLabel(seq[i].target) # Fallthrough(i)
      BY DEF Splits
    <3>2. seq[i].target # Fallthrough(i).from
      <4>1. CASE Fallthrough(i) = ExitLabel
        <5>1. Fallthrough(i).from = MAX
          BY <4>1, LabelsApart
        <5> QED BY <1>1, <5>1
      <4>2. CASE Fallthrough(i) = NewLabel(Fallthrough(i).from)
        BY <3>1, <4>2
      <4> QED BY <1>2, <4>1, <4>2
    <3> QED BY <1>1, <1>2, <1>3, <1>4, <2>1, <3>2, SMTT(60)
  <2>2. CASE i # j
    BY <1>1, <1>2, <1>3, <1>4, <2>2, SMTT(60)
  <2> QED BY <2>1, <2>2
<1> QED BY <1>1, <1>2, <1>3, <1>4, <1>5, LabelsApart, SMTT(60) DEF IsJump

-----------------------------------------------------------------------------
(***************************************************************************)
(* The graph while local calls are inlined.                                *)
(***************************************************************************)
NodeOps == Op \cup {"undefined", "assume", "assume_not", "counter"}

NodeRecs == [op : NodeOps, target : Nat, stack_frame_prefix : Seq(Int)]

OpAt(i) == IF seq[i].op = "kfunc" THEN "helper" ELSE seq[i].op

InstructionAt(i) ==
    /\ NewLabel(i) \in DOMAIN nodes
    /\ nodes[NewLabel(i)].op = OpAt(i) /\ nodes[NewLabel(i)].target = seq[i].target

BranchAt(i) ==
    Splits(i) => /\ Taken(i) \in DOMAIN nodes /\ nodes[Taken(i)].op = "assume"
                 /\ NotTaken(i) \in DOMAIN nodes /\ nodes[NotTaken(i)].op = "assume_not"

TargetsIn == \A i \in Indexes : seq[i].op \in {"jump", "branch", "call"} => seq[i].target \in Indexes

CallNodes ==
    \A l \in DOMAIN nodes :
        /\ nodes[l].op = "call" => l.to = -1 /\ nodes[l].target \in Indexes
        /\ nodes[l].op # "counter"

PendingCalls == pending \in Seq({l \in DOMAIN nodes : nodes[l].op = "call"})

GraphInv ==
    /\ GraphType
    /\ nodes \in [DOMAIN nodes -> NodeRecs]
    /\ TargetsIn /\ Indexes # {}
    /\ EntryLabel \in DOMAIN nodes /\ ExitLabel \in DOMAIN nodes
    /\ \A i \in Indexes : InstructionAt(i) /\ BranchAt(i)
    /\ CallNodes
    /\ PendingCalls

(***************************************************************************)
(* Inlining one call: what is cloned, and what becomes of the graph.       *)
(***************************************************************************)
InlineStep(caller, exit_to, R) ==
    /\ pending # <<>> /\ caller = Head(pending)
    /\ caller \in DOMAIN nodes /\ nodes[caller].op = "call"
    /\ ~ TooManyFrames(caller)
    /\ Children(caller) = {exit_to}
    /\ Walked(caller, NewLabel(nodes[caller].target), FrameOf(caller), R)
    /\ Inlined(caller, FrameOf(caller), exit_to, R)
    /\ pass' = "InlineLocalCalls"
    /\ UNCHANGED <<input, callbacks, asserted, machine>>

LEMMA AddCfgNodesIs ==
    ASSUME InputOK, GraphInv, AddCfgNodes
    PROVE  \/ pass' \in {"rejected", "panicked"} /\ UNCHANGED <<input, machine>>
           \/ \E exit_to \in DOMAIN nodes, R \in SUBSET (DOMAIN nodes) :
                 InlineStep(Head(pending), exit_to, R)
<1> DEFINE caller == Head(pending)
           entry == NewLabel(nodes[caller].target)
<1>1. pass = "InlineLocalCalls" /\ pending # <<>> /\ UNCHANGED <<input, callbacks, asserted, machine>>
  BY DEF AddCfgNodes
<1>2. caller \in DOMAIN nodes /\ nodes[caller].op = "call"
  BY <1>1 DEF GraphInv, PendingCalls
<1>3. entry \in DOMAIN nodes
  BY <1>2 DEF GraphInv, CallNodes, InstructionAt
<1>4. FrameOf(caller) \in Seq(Int)
  <2>1. caller.prefix \in Seq(Int) /\ caller.from \in Int
    BY <1>2 DEF GraphInv, GraphType, PlainLabels
  <2> QED BY <2>1 DEF FrameOf
<1>5. CASE pass' = "rejected" \/ pass' = "panicked"
  BY <1>1, <1>5
<1>6. CASE ~ (pass' = "rejected" \/ pass' = "panicked")
  <2> HIDE DEF caller, entry
  <2>1. ~ (TooManyFrames(caller) \/ Cardinality(Children(caller)) # 1)
    BY <1>6, SMTT(60) DEF AddCfgNodes, Rejected, caller
  <2>2. PICK exit_to \in Children(caller), walk \in {CloneWalk(caller, entry)} :
              \/ walk.status = "ok" /\ Inlined(caller, FrameOf(caller), exit_to, walk.seen)
              \/ walk.status # "ok" /\ pass' = walk.status
    BY <2>1 DEF AddCfgNodes, caller, entry
  <2>3. walk = CloneWalk(caller, entry)
    BY <2>2
  <2>4. GraphType
    BY DEF GraphInv
  <2>5. walk.status = "ok" /\ Inlined(caller, FrameOf(caller), exit_to, walk.seen)
        /\ Walked(caller, entry, FrameOf(caller), walk.seen)
    BY <1>2, <1>3, <1>4, <1>6, <2>2, <2>3, <2>4, WalkResult
  <2>6. Children(caller) = {exit_to} /\ exit_to \in DOMAIN nodes
    <3>1. Children(caller) \subseteq DOMAIN nodes
      BY <2>4 DEF GraphType, Children
    <3>2. IsFiniteSet(Children(caller)) /\ Cardinality(Children(caller)) = 1
      BY <2>1, <2>4, <3>1, FS_Subset DEF GraphType
    <3>3. \E x : Children(caller) = {x}
      BY <3>2, FS_Singleton, SMTT(60)
    <3> QED BY <2>2, <3>1, <3>3
  <2>7. pass' = "InlineLocalCalls"
    BY <1>1, <2>5 DEF Inlined
  <2>8. walk.seen \in SUBSET (DOMAIN nodes)
    BY <2>5 DEF Walked
  <2>9. InlineStep(caller, exit_to, walk.seen)
    BY <1>1, <1>2, <2>1, <2>5, <2>6, <2>7, SMTT(60) DEF InlineStep, caller, entry
  <2> QED BY <2>6, <2>8, <2>9, SMTT(60) DEF caller
<1> QED BY <1>5, <1>6

\* The clones a call puts in front of the calls that are pending.
ClonedCalls(R, frame, cl) ==
    /\ cl \in Seq({Clone(m, frame) : m \in {x \in R : nodes[x].op = "call"}})
    /\ \A m \in R : nodes[m].op = "call" => \E k \in DOMAIN cl : cl[k] = Clone(m, frame)
    /\ \A j, k \in DOMAIN cl : cl[j] = cl[k] => j = k
    /\ pending' = cl \o Tail(pending)

LEMMA InlinedNodes ==
    ASSUME GraphInv, NEW caller, NEW exit_to \in DOMAIN nodes, NEW R \in SUBSET (DOMAIN nodes),
           InlineStep(caller, exit_to, R)
    PROVE  LET frame == FrameOf(caller)
           IN  /\ DOMAIN nodes' = DOMAIN nodes \cup {Clone(m, frame) : m \in R}
               /\ \A l \in DOMAIN nodes : l # caller => nodes'[l] = nodes[l]
               /\ nodes'[caller] = [nodes[caller] EXCEPT !.stack_frame_prefix = frame]
               /\ \A m \in R : /\ Clone(m, frame) \notin DOMAIN nodes
                               /\ nodes'[Clone(m, frame)] = CloneNode(nodes[m], frame)
               /\ \E cl : ClonedCalls(R, frame, cl)
<1> DEFINE frame == FrameOf(caller)
           D == DOMAIN nodes \cup {Clone(m, frame) : m \in R}
<1>1. /\ caller \in DOMAIN nodes
      /\ Walked(caller, NewLabel(nodes[caller].target), frame, R)
      /\ Inlined(caller, frame, exit_to, R)
  BY SMTT(60) DEF InlineStep
<1>2. nodes' = [l \in D |->
                    IF l = caller THEN [nodes[l] EXCEPT !.stack_frame_prefix = frame]
                    ELSE IF l \in DOMAIN nodes THEN nodes[l]
                    ELSE CloneNode(nodes[CHOOSE m \in R : Clone(m, frame) = l], frame)]
  <2> HIDE DEF frame
  <2> QED BY <1>1 DEF Inlined
<1>3. ASSUME NEW m \in R
      PROVE  /\ Clone(m, frame) \notin DOMAIN nodes
             /\ nodes'[Clone(m, frame)] = CloneNode(nodes[m], frame)
  <2>1. Clone(m, frame) \notin DOMAIN nodes
    BY <1>1 DEF Walked
  <2>2. (CHOOSE x \in R : Clone(x, frame) = Clone(m, frame)) = m
    <3>1. \A x \in R : Clone(x, frame) = Clone(m, frame) => x = m
      BY <1>1 DEF Walked
    <3> HIDE DEF frame
    <3> QED BY <3>1
  <2>3. Clone(m, frame) \in D /\ Clone(m, frame) # caller
    BY <1>1, <2>1
  <2> HIDE DEF D, frame
  <2> QED BY <1>2, <2>1, <2>2, <2>3
<1>4. /\ DOMAIN nodes' = D
      /\ \A l \in DOMAIN nodes : l # caller => nodes'[l] = nodes[l]
      /\ nodes'[caller] = [nodes[caller] EXCEPT !.stack_frame_prefix = frame]
  <2>1. DOMAIN nodes' = D
    <3> HIDE DEF D
    <3> QED BY <1>2
  <2>2. DOMAIN nodes \subseteq D /\ caller \in D
    BY <1>1
  <2> HIDE DEF D, frame
  <2> QED BY <1>2, <2>1, <2>2
<1>5. \E cl : ClonedCalls(R, frame, cl)
  <2> DEFINE L == {m \in R : nodes[m].op = "call"}
             calls == InOrder(L, LabelLess)
             cl == [k \in DOMAIN calls |-> Clone(calls[k], frame)]
  <2>1. /\ calls \in Seq(L)
        /\ \A l \in L : \E k \in DOMAIN calls : calls[k] = l
        /\ \A j, k \in DOMAIN calls : calls[j] = calls[k] => j = k
    <3>1. L \in SUBSET PlainLabels /\ IsFiniteSet(L)
      BY FS_Subset DEF GraphInv, GraphType
    <3> HIDE DEF L
    <3> QED BY <3>1, InOrderLists
  <2>2. pending' = cl \o Tail(pending)
    BY <1>1 DEF Inlined
  <2> HIDE DEF calls
  <2>3. DOMAIN calls = 1 .. Len(calls) /\ Len(calls) \in Nat /\ \A k \in DOMAIN calls : calls[k] \in L
    <3> HIDE DEF L
    <3> QED BY <2>1
  <2>4. cl \in Seq({Clone(m, frame) : m \in L})
    <3>1. cl \in [1 .. Len(calls) -> {Clone(m, frame) : m \in L}]
      BY <2>3
    <3> HIDE DEF cl
    <3> QED BY <2>3, <3>1, SMTT(60)
  <2>5. \A j, k \in DOMAIN cl : cl[j] = cl[k] => j = k
    <3>1. \A m, n \in R : Clone(m, frame) = Clone(n, frame) => m = n
      BY <1>1 DEF Walked
    <3> QED BY <2>1, <2>3, <3>1
  <2>6. \A m \in R : nodes[m].op = "call" => \E k \in DOMAIN cl : cl[k] = Clone(m, frame)
    BY <2>1
  <2> HIDE DEF cl, frame
  <2> QED BY <2>2, <2>4, <2>5, <2>6 DEF ClonedCalls
<1> QED BY <1>3, <1>4, <1>5

LEMMA CloneIs ==
    ASSUME NEW m \in PlainLabels, NEW frame \in Seq(Int)
    PROVE  /\ Clone(m, frame) \in PlainLabels
           /\ Clone(m, frame).prefix = frame /\ Clone(m, frame).from = m.from
           /\ Clone(m, frame).to = m.to
BY DEF Clone, LabelFull, PlainLabels

LEMMA CloneNodeIs ==
    ASSUME NEW n \in NodeRecs, NEW frame \in Seq(Int)
    PROVE  /\ CloneNode(n, frame) \in NodeRecs
           /\ CloneNode(n, frame).op = n.op /\ CloneNode(n, frame).target = n.target
           /\ n.op \in {"exit", "helper", "tail_call"} => CloneNode(n, frame).stack_frame_prefix = frame
BY DEF CloneNode, NodeRecs

LEMMA FrameIs ==
    ASSUME NEW l \in PlainLabels
    PROVE  FrameOf(l) \in Seq(Int) /\ Len(FrameOf(l)) = Len(l.prefix) + 1 /\ FrameOf(l) # <<>>
<1>1. l.prefix \in Seq(Int) /\ l.from \in Int
  BY DEF PlainLabels
<1> QED BY <1>1, SMTT(60) DEF FrameOf

LEMMA InlineKeepsGraph ==
    ASSUME InputOK, GraphInv, NEW caller, NEW exit_to \in DOMAIN nodes,
           NEW R \in SUBSET (DOMAIN nodes), InlineStep(caller, exit_to, R)
    PROVE  GraphInv'
<1> DEFINE frame == FrameOf(caller)
<1>1. /\ caller \in DOMAIN nodes /\ nodes[caller].op = "call" /\ pending # <<>>
      /\ Walked(caller, NewLabel(nodes[caller].target), frame, R)
      /\ Inlined(caller, frame, exit_to, R)
      /\ Children(caller) = {exit_to}
      /\ UNCHANGED input
  BY DEF InlineStep
<1>2. /\ DOMAIN nodes' = DOMAIN nodes \cup {Clone(m, frame) : m \in R}
      /\ \A l \in DOMAIN nodes : l # caller => nodes'[l] = nodes[l]
      /\ nodes'[caller] = [nodes[caller] EXCEPT !.stack_frame_prefix = frame]
      /\ \A m \in R : nodes'[Clone(m, frame)] = CloneNode(nodes[m], frame)
  BY InlinedNodes, ZenonT(60)
<1>3. PICK cl : ClonedCalls(R, frame, cl)
  BY InlinedNodes
<1>4. DOMAIN nodes \subseteq PlainLabels /\ frame \in Seq(Int)
  BY <1>1, FrameIs DEF GraphInv, GraphType
<1> HIDE DEF frame
<1>5. \A m \in R : Clone(m, frame) \in PlainLabels /\ Clone(m, frame).to = m.to
  BY <1>4, CloneIs
<1>6. \A l \in DOMAIN nodes : nodes[l] \in NodeRecs
  BY DEF GraphInv
<1>7. \A l \in DOMAIN nodes : nodes'[l] \in NodeRecs /\ nodes'[l].op = nodes[l].op
                                 /\ nodes'[l].target = nodes[l].target
  <2>1. [nodes[caller] EXCEPT !.stack_frame_prefix = frame] \in NodeRecs
        /\ [nodes[caller] EXCEPT !.stack_frame_prefix = frame].op = nodes[caller].op
        /\ [nodes[caller] EXCEPT !.stack_frame_prefix = frame].target = nodes[caller].target
    BY <1>1, <1>4, <1>6 DEF NodeRecs
  <2> QED BY <1>2, <1>6, <2>1
<1>8. \A m \in R : /\ nodes'[Clone(m, frame)] \in NodeRecs
                   /\ nodes'[Clone(m, frame)].op = nodes[m].op
                   /\ nodes'[Clone(m, frame)].target = nodes[m].target
  BY <1>2, <1>4, <1>6, CloneNodeIs, SMTT(60)
<1>9. GraphType'
  <2>1. IsFiniteSet(DOMAIN nodes')
    <3>1. IsFiniteSet(R) /\ IsFiniteSet(DOMAIN nodes)
      BY FS_Subset DEF GraphInv, GraphType
    <3>2. IsFiniteSet({Clone(m, frame) : m \in R})
      <4> DEFINE f == [m \in R |-> Clone(m, frame)]
      <4>1. IsFiniteSet({f[m] : m \in R})
        <5>1. DOMAIN f = R
          OBVIOUS
        <5> HIDE DEF f
        <5> QED BY <3>1, <5>1, ImageFinite
      <4> QED BY <4>1
    <3> DEFINE A == DOMAIN nodes
               B == {Clone(m, frame) : m \in R}
    <3>3. DOMAIN nodes' = A \cup B
      BY <1>2
    <3>4. IsFiniteSet(A) /\ IsFiniteSet(B)
      BY <3>1, <3>2
    <3> HIDE DEF A, B
    <3>5. IsFiniteSet(A \cup B)
      BY <3>4, FS_Union
    <3> QED BY <3>3, <3>5
  <2>2. DOMAIN nodes' \subseteq PlainLabels
    BY <1>2, <1>4, <1>5
  <2>3. edges' \subseteq (DOMAIN nodes') \X (DOMAIN nodes')
    <3>1. edges \subseteq (DOMAIN nodes) \X (DOMAIN nodes)
      BY DEF GraphInv, GraphType
    <3>2. NewLabel(nodes[caller].target) \in R
      BY <1>1 DEF Walked
    <3>3. ASSUME NEW m \in R, NEW x \in Children(m)
          PROVE  <<Clone(m, frame), IF x = ExitLabel THEN exit_to ELSE Clone(x, frame)>>
                     \in (DOMAIN nodes') \X (DOMAIN nodes')
      <4>1. x = ExitLabel \/ x \in R
        BY <1>1, <3>1 DEF Walked, Children
      <4> QED BY <1>2, <4>1
    <3>4. CloneEdges(R, frame, exit_to) \subseteq (DOMAIN nodes') \X (DOMAIN nodes')
      BY <3>3 DEF CloneEdges
    <3>5. edges' = (edges \ {<<caller, exit_to>>})
                \cup {<<caller, Clone(NewLabel(nodes[caller].target), frame)>>}
                \cup CloneEdges(R, frame, exit_to)
      BY <1>1 DEF Inlined
    <3>6. \A d \in edges : d \in (DOMAIN nodes') \X (DOMAIN nodes')
      BY <1>2, <3>1
    <3>7. <<caller, Clone(NewLabel(nodes[caller].target), frame)>> \in (DOMAIN nodes') \X (DOMAIN nodes')
      BY <1>1, <1>2, <3>2
    <3> QED BY <3>4, <3>5, <3>6, <3>7
  <2> QED BY <2>1, <2>2, <2>3 DEF GraphType
<1>10. nodes' \in [DOMAIN nodes' -> NodeRecs]
  <2>1. \A l \in DOMAIN nodes' : nodes'[l] \in NodeRecs
    BY <1>2, <1>7, <1>8
  <2>2. nodes' = [l \in DOMAIN nodes' |-> nodes'[l]]
    BY <1>1 DEF Inlined
  <2> QED BY <2>1, <2>2
<1>11. TargetsIn' /\ (Indexes # {})' /\ (EntryLabel \in DOMAIN nodes)' /\ (ExitLabel \in DOMAIN nodes)'
  BY <1>1, <1>2 DEF GraphInv, TargetsIn, Indexes, seq
<1>12. (\A i \in Indexes : InstructionAt(i) /\ BranchAt(i))'
  BY <1>1, <1>2, <1>7, SMTT(60) DEF GraphInv, InstructionAt, BranchAt, Indexes, seq, OpAt, Splits, Taken,
                          NotTaken, Fallthrough, IsLast
<1>13. CallNodes'
  <2>1. ASSUME NEW l \in DOMAIN nodes'
        PROVE  /\ nodes'[l].op = "call" => l.to = -1 /\ nodes'[l].target \in Indexes'
               /\ nodes'[l].op # "counter"
    <3>1. Indexes' = Indexes
      BY <1>1 DEF Indexes, seq
    <3>2. CASE l \in DOMAIN nodes
      BY <1>7, <3>1, <3>2 DEF GraphInv, CallNodes
    <3>3. ASSUME NEW m \in R, l = Clone(m, frame)
          PROVE  /\ nodes'[l].op = "call" => l.to = -1 /\ nodes'[l].target \in Indexes'
                 /\ nodes'[l].op # "counter"
      BY <1>5, <1>8, <3>1, <3>3 DEF GraphInv, CallNodes
    <3> QED BY <1>2, <3>2, <3>3
  <2> QED BY <2>1 DEF CallNodes
<1>14. PendingCalls'
  <2> DEFINE P == {l \in DOMAIN nodes' : nodes'[l].op = "call"}
             Q == {l \in DOMAIN nodes : nodes[l].op = "call"}
  <2>1. Q \subseteq P
    BY <1>2, <1>7
  <2>2. {Clone(m, frame) : m \in {x \in R : nodes[x].op = "call"}} \subseteq P
    BY <1>2, <1>8
  <2>3. cl \in Seq(P)
    <3>1. cl \in Seq({Clone(m, frame) : m \in {x \in R : nodes[x].op = "call"}})
      BY <1>3 DEF ClonedCalls
    <3> HIDE DEF P
    <3> QED BY <2>2, <3>1
  <2>4. Tail(pending) \in Seq(P)
    <3>1. pending \in Seq(Q) /\ pending # <<>>
      BY <1>1 DEF GraphInv, PendingCalls
    <3> HIDE DEF P, Q
    <3> QED BY <2>1, <3>1
  <2>5. pending' = cl \o Tail(pending)
    BY <1>3 DEF ClonedCalls
  <2> HIDE DEF P
  <2>6. pending' \in Seq(P)
    BY <2>3, <2>4, <2>5
  <2> QED BY <2>6 DEF PendingCalls, P
<1> QED BY <1>9, <1>10, <1>11, <1>12, <1>13, <1>14 DEF GraphInv

-----------------------------------------------------------------------------
(***************************************************************************)
(* The graph of the main program and its subprograms, before inlining.     *)
(***************************************************************************)
Fresh == nodes = [l \in {EntryLabel, ExitLabel} |-> Node("undefined", 0, <<>>)]

Populated ==
    /\ DOMAIN nodes = {EntryLabel, ExitLabel} \cup {NewLabel(i) : i \in Indexes}
    /\ nodes \in [DOMAIN nodes -> NodeRecs]
    /\ \A i \in Indexes : InstructionAt(i)
    /\ nodes[EntryLabel].op = "undefined" /\ nodes[ExitLabel].op = "undefined"

FirstIndex == CHOOSE i \in Indexes : \A j \in Indexes : i <= j

Branches == {i \in Indexes : Splits(i)}

TopLabels ==
    {EntryLabel, ExitLabel} \cup {NewLabel(i) : i \in Indexes}
        \cup {Taken(i) : i \in Branches} \cup {NotTaken(i) : i \in Branches}

TopEdges == {<<EntryLabel, NewLabel(FirstIndex)>>} \cup UNION {EdgesFrom(i) : i \in Indexes}

LEMMA FirstIndexIs ==
    ASSUME InputOK, Indexes # {}
    PROVE  FirstIndex \in Indexes /\ \A j \in Indexes : FirstIndex <= j
<1>1. Indexes \in SUBSET Nat
  BY DEF InputOK
<1>2. \E i \in Indexes : \A j \in Indexes : i <= j
  <2> HIDE DEF Indexes
  <2> QED BY <1>1, LeastNat
<1> QED BY <1>2 DEF FirstIndex

LEMMA TopLabelsType ==
    ASSUME InputOK, TargetsIn
    PROVE  /\ TopLabels \subseteq PlainLabels /\ IsFiniteSet(TopLabels)
           /\ \A l \in TopLabels : l.prefix = <<>>
           /\ \A i \in Branches : seq[i].op = "branch" /\ seq[i].target \in Indexes
<1>1. \A i \in Indexes : i \in Nat
  BY DEF InputOK
<1>2. \A i \in Branches : i \in Indexes /\ Splits(i) /\ seq[i].op = "branch" /\ seq[i].target \in Indexes
  BY DEF Branches, Splits, TargetsIn
<1>3. \A i \in Branches : /\ Taken(i) \in PlainLabels /\ NotTaken(i) \in PlainLabels
                          /\ Taken(i).prefix = <<>> /\ NotTaken(i).prefix = <<>>
  BY <1>2, BranchLabels
<1>4. TopLabels \subseteq PlainLabels /\ \A l \in TopLabels : l.prefix = <<>>
  BY <1>1, <1>3, LabelsApart DEF TopLabels
<1>5. IsFiniteSet(Indexes) /\ IsFiniteSet(Branches)
  <2>1. IsFiniteSet(Indexes)
    BY DEF InputOK
  <2> QED BY <2>1, FS_Subset DEF Branches
<1>6. IsFiniteSet(TopLabels)
  <2> DEFINE A == {NewLabel(i) : i \in Indexes}
             B == {Taken(i) : i \in Branches}
             C == {NotTaken(i) : i \in Branches}
             E == {EntryLabel, ExitLabel}
  <2>1. IsFiniteSet(A)
    <3> DEFINE f == [i \in Indexes |-> NewLabel(i)]
    <3>1. IsFiniteSet({f[i] : i \in Indexes})
      <4>1. DOMAIN f = Indexes
        OBVIOUS
      <4> HIDE DEF f
      <4> QED BY <1>5, <4>1, ImageFinite
    <3> QED BY <3>1
  <2>2. IsFiniteSet(B)
    <3> DEFINE f == [i \in Branches |-> Taken(i)]
    <3>1. IsFiniteSet({f[i] : i \in Branches})
      <4>1. DOMAIN f = Branches
        OBVIOUS
      <4> HIDE DEF f
      <4> QED BY <1>5, <4>1, ImageFinite
    <3> QED BY <3>1
  <2>3. IsFiniteSet(C)
    <3> DEFINE f == [i \in Branches |-> NotTaken(i)]
    <3>1. IsFiniteSet({f[i] : i \in Branches})
      <4>1. DOMAIN f = Branches
        OBVIOUS
      <4> HIDE DEF f
      <4> QED BY <1>5, <4>1, ImageFinite
    <3> QED BY <3>1
  <2>4. IsFiniteSet(E)
    <3>1. IsFiniteSet({EntryLabel} \cup {ExitLabel})
      BY FS_Singleton, FS_Union
    <3>2. E = {EntryLabel} \cup {ExitLabel}
      OBVIOUS
    <3> QED BY <3>1, <3>2
  <2>5. TopLabels = ((E \cup A) \cup B) \cup C
    BY DEF TopLabels
  <2> HIDE DEF A, B, C, E
  <2> QED BY <2>1, <2>2, <2>3, <2>4, <2>5, FS_Union
<1> QED BY <1>2, <1>4, <1>6

LEMMA FallsIn ==
    ASSUME InputOK, NEW i \in Indexes
    PROVE  Fallthrough(i) \in TopLabels
<1>1. CASE IsLast(i)
  BY <1>1, FallthroughIs DEF TopLabels
<1>2. CASE ~ IsLast(i)
  BY <1>2, FallthroughIs DEF TopLabels
<1> QED BY <1>1, <1>2

LEMMA TopEdgesType ==
    ASSUME InputOK, TargetsIn, Indexes # {}
    PROVE  TopEdges \subseteq TopLabels \X TopLabels
<1>1. ASSUME NEW i \in Indexes PROVE EdgesFrom(i) \subseteq TopLabels \X TopLabels
  <2>1. NewLabel(i) \in TopLabels /\ Fallthrough(i) \in TopLabels /\ ExitLabel \in TopLabels
    BY FallsIn DEF TopLabels
  <2>2. CASE seq[i].op = "exit"
    <3>1. EdgesFrom(i) = {<<NewLabel(i), ExitLabel>>}
      <4>1. seq[i].op # "jump" /\ ~ Splits(i)
        BY <2>2 DEF Splits
      <4> QED BY ONLY <2>2, <4>1 DEF EdgesFrom
    <3> QED BY <2>1, <3>1
  <2>3. CASE seq[i].op = "jump"
    <3>1. NewLabel(seq[i].target) \in TopLabels
      BY <2>3 DEF TargetsIn, TopLabels
    <3>2. EdgesFrom(i) = {<<NewLabel(i), NewLabel(seq[i].target)>>}
      <4>1. seq[i].op # "exit" /\ ~ Splits(i)
        BY <2>3 DEF Splits
      <4> QED BY ONLY <2>3, <4>1 DEF EdgesFrom
    <3> QED BY <2>1, <3>1, <3>2
  <2>4. CASE Splits(i)
    <3>1. i \in Branches /\ seq[i].op = "branch" /\ NewLabel(seq[i].target) \in TopLabels
      BY <2>4 DEF TargetsIn, TopLabels, Branches, Splits
    <3>2. Taken(i) \in TopLabels /\ NotTaken(i) \in TopLabels
      BY <3>1 DEF TopLabels
    <3>3. EdgesFrom(i) = {<<NewLabel(i), Taken(i)>>, <<Taken(i), NewLabel(seq[i].target)>>,
                          <<NewLabel(i), NotTaken(i)>>, <<NotTaken(i), Fallthrough(i)>>}
      <4>1. seq[i].op # "exit" /\ seq[i].op # "jump"
        BY <3>1
      <4> QED BY ONLY <2>4, <4>1 DEF EdgesFrom
    <3> QED BY <2>1, <3>1, <3>2, <3>3
  <2>5. CASE seq[i].op # "exit" /\ seq[i].op # "jump" /\ ~ Splits(i)
    <3>1. EdgesFrom(i) = {<<NewLabel(i), Fallthrough(i)>>}
      BY ONLY <2>5 DEF EdgesFrom
    <3> QED BY <2>1, <3>1
  <2> QED BY <2>2, <2>3, <2>4, <2>5
<1>2. <<EntryLabel, NewLabel(FirstIndex)>> \in TopLabels \X TopLabels
  BY FirstIndexIs DEF TopLabels
<1> QED BY <1>1, <1>2 DEF TopEdges

LEMMA ConnectEdgesIs ==
    ASSUME InputOK, TargetsIn, Populated, ConnectEdges
    PROVE  \/ pass' = "rejected" /\ UNCHANGED <<input, machine>>
           \/ /\ pass' = "InlineLocalCalls" /\ Indexes # {}
              /\ UNCHANGED <<input, callbacks, asserted, machine>>
              /\ DOMAIN nodes' = TopLabels
              /\ nodes' = [l \in DOMAIN nodes' |-> nodes'[l]]
              /\ \A i \in Branches : /\ nodes'[Taken(i)] = Node("assume", 0, <<>>)
                                     /\ nodes'[NotTaken(i)] = Node("assume_not", 0, <<>>)
              /\ \A l \in DOMAIN nodes : nodes'[l] = nodes[l]
              /\ edges' = TopEdges
              /\ pending' = InOrder(LocalCalls, LabelLess)
<1>1. CASE pass' = "rejected"
  BY <1>1 DEF ConnectEdges
<1>2. CASE pass' # "rejected"
  <2> DEFINE taken == {Taken(i) : i \in Branches}
             not_taken == {NotTaken(i) : i \in Branches}
  <2>1. /\ pass' = "InlineLocalCalls" /\ Indexes # {}
        /\ UNCHANGED <<input, callbacks, asserted, machine>>
        /\ nodes' = [l \in DOMAIN nodes \cup taken \cup not_taken |->
                                 CASE l \in taken -> Node("assume", 0, <<>>)
                                   [] l \in not_taken -> Node("assume_not", 0, <<>>)
                                   [] OTHER -> nodes[l]]
        /\ edges' = TopEdges
        /\ pending' = InOrder(LocalCalls, LabelLess)
    BY <1>2, SMTT(60) DEF ConnectEdges, Rejected, Go, TopEdges, FirstIndex, Branches, CallsInOrder
  <2>2. DOMAIN nodes \cup taken \cup not_taken = TopLabels
    BY DEF Populated, TopLabels
  <2>3. \A i \in Branches : /\ Taken(i) \notin DOMAIN nodes /\ NotTaken(i) \notin DOMAIN nodes
                            /\ NotTaken(i) \notin taken
    <3>1. \A i \in Branches : i \in Indexes /\ Splits(i) /\ seq[i].target \in Indexes
      BY DEF Branches, Splits, TargetsIn
    <3>2. \A l \in DOMAIN nodes : l = ExitLabel \/ l.to = -1
      BY LabelsApart DEF Populated, InputOK
    <3> QED BY <3>1, <3>2, BranchLabels
  <2>4. DOMAIN nodes' = TopLabels
    BY <2>1, <2>2
  <2>5. \A i \in Branches : Taken(i) \in taken /\ NotTaken(i) \in not_taken
    OBVIOUS
  <2>6. \A l \in DOMAIN nodes : l \notin taken /\ l \notin not_taken
    BY <2>3
  <2> DEFINE N == DOMAIN nodes \cup taken \cup not_taken
             at(l) == CASE l \in taken -> Node("assume", 0, <<>>)
                        [] l \in not_taken -> Node("assume_not", 0, <<>>)
                        [] OTHER -> nodes[l]
  <2>7. nodes' = [l \in N |-> at(l)]
    BY <2>1
  <2> HIDE DEF taken, not_taken
  <2>8. \A l : /\ l \in taken /\ l \notin not_taken => at(l) = Node("assume", 0, <<>>)
               /\ l \in not_taken /\ l \notin taken => at(l) = Node("assume_not", 0, <<>>)
               /\ l \notin taken /\ l \notin not_taken => at(l) = nodes[l]
    OBVIOUS
  <2> HIDE DEF at
  <2>9. \A i \in Branches : Taken(i) \notin not_taken /\ NotTaken(i) \notin taken
    <3>1. \A i \in Branches : i \in Indexes /\ Splits(i) /\ seq[i].target \in Indexes
      BY DEF Branches, Splits, TargetsIn
    <3> QED BY <2>3, <3>1, BranchLabels DEF not_taken
  <2>10. \A i \in Branches : /\ nodes'[Taken(i)] = Node("assume", 0, <<>>)
                             /\ nodes'[NotTaken(i)] = Node("assume_not", 0, <<>>)
    BY <2>5, <2>7, <2>8, <2>9
  <2>11. \A l \in DOMAIN nodes : nodes'[l] = nodes[l]
    BY <2>6, <2>7, <2>8
  <2>12. nodes' = [l \in DOMAIN nodes' |-> nodes'[l]]
    BY <2>7
  <2> QED BY <2>1, <2>4, <2>10, <2>11, <2>12
<1> QED BY <1>1, <1>2

LEMMA ConnectOpensGraph ==
    ASSUME InputOK, TargetsIn, Populated, ConnectEdges, pass' # "rejected"
    PROVE  GraphInv'
<1>1. /\ Indexes # {} /\ UNCHANGED input
      /\ DOMAIN nodes' = TopLabels
      /\ nodes' = [l \in DOMAIN nodes' |-> nodes'[l]]
      /\ \A i \in Branches : /\ nodes'[Taken(i)] = Node("assume", 0, <<>>)
                             /\ nodes'[NotTaken(i)] = Node("assume_not", 0, <<>>)
      /\ \A l \in DOMAIN nodes : nodes'[l] = nodes[l]
      /\ edges' = TopEdges
      /\ pending' = InOrder(LocalCalls, LabelLess)
  BY ConnectEdgesIs
<1>2. GraphType'
  BY <1>1, TopLabelsType, TopEdgesType DEF GraphType
<1>3. /\ \A i \in Indexes : i \in Int /\ NewLabel(i).to = -1 /\ NewLabel(i).from = i
      /\ DOMAIN nodes = {EntryLabel, ExitLabel} \cup {NewLabel(i) : i \in Indexes}
      /\ \A i \in Indexes : nodes[NewLabel(i)].op = OpAt(i) /\ nodes[NewLabel(i)].target = seq[i].target
      /\ nodes[EntryLabel].op = "undefined" /\ nodes[ExitLabel].op = "undefined"
      /\ \A l \in DOMAIN nodes : nodes[l] \in NodeRecs
  BY LabelsApart, SMTT(60) DEF Populated, InstructionAt, InputOK
<1>4. \A l \in TopLabels : \/ l \in DOMAIN nodes
                           \/ \E i \in Branches : l = Taken(i) \/ l = NotTaken(i)
  BY <1>3 DEF TopLabels
<1>5. Node("assume", 0, <<>>) \in NodeRecs /\ Node("assume_not", 0, <<>>) \in NodeRecs
      /\ Node("assume", 0, <<>>).op = "assume" /\ Node("assume_not", 0, <<>>).op = "assume_not"
  <2>1. <<>> \in Seq(Int) /\ 0 \in Nat
    OBVIOUS
  <2>3. "assume" \in NodeOps /\ "assume_not" \in NodeOps
    BY DEF NodeOps
  <2>2. \A op \in NodeOps : Node(op, 0, <<>>) \in NodeRecs /\ Node(op, 0, <<>>).op = op
    BY <2>1, Zenon DEF Node, NodeRecs
  <2> QED BY <2>2, <2>3
<1>6. nodes' \in [DOMAIN nodes' -> NodeRecs]
  <2>1. \A l \in DOMAIN nodes' : nodes'[l] \in NodeRecs
    BY <1>1, <1>3, <1>4, <1>5
  <2> QED BY <1>1, <2>1
<1>7. UNCHANGED seq /\ UNCHANGED Indexes
  BY <1>1 DEF seq, Indexes
<1>8. TargetsIn' /\ (Indexes # {})' /\ (EntryLabel \in DOMAIN nodes)' /\ (ExitLabel \in DOMAIN nodes)'
  BY <1>1, <1>7 DEF TargetsIn, TopLabels
<1>9. (\A i \in Indexes : InstructionAt(i) /\ BranchAt(i))'
  <2>1. \A i \in Indexes : /\ NewLabel(i) \in DOMAIN nodes /\ NewLabel(i) \in TopLabels
                           /\ Splits(i) => /\ i \in Branches /\ Taken(i) \in TopLabels
                                           /\ NotTaken(i) \in TopLabels
    BY <1>3 DEF TopLabels, Branches
  <2>2. \A i \in Indexes : /\ OpAt(i)' = OpAt(i) /\ Splits(i)' = Splits(i)
                           /\ Taken(i)' = Taken(i) /\ NotTaken(i)' = NotTaken(i)
    BY <1>7 DEF OpAt, Splits, Taken, NotTaken, Fallthrough, IsLast
  <2>3. ASSUME NEW i \in Indexes PROVE InstructionAt(i)' /\ BranchAt(i)'
    BY <1>1, <1>3, <1>5, <1>7, <2>1, <2>2, SMTT(60) DEF InstructionAt, BranchAt
  <2> QED BY <1>7, <2>3
<1>10. CallNodes'
  <2>1. ASSUME NEW l \in TopLabels
        PROVE  /\ nodes'[l].op = "call" => l.to = -1 /\ nodes'[l].target \in Indexes'
               /\ nodes'[l].op # "counter"
    <3>1. CASE \E i \in Branches : l = Taken(i) \/ l = NotTaken(i)
      BY <1>1, <1>5, <3>1
    <3>2. CASE l = EntryLabel \/ l = ExitLabel
      BY <1>1, <1>3, <3>2
    <3>3. ASSUME NEW i \in Indexes, l = NewLabel(i)
          PROVE  /\ nodes'[l].op = "call" => l.to = -1 /\ nodes'[l].target \in Indexes'
                 /\ nodes'[l].op # "counter"
      <4>1. seq[i].op \in Op /\ nodes'[l].op = OpAt(i) /\ nodes'[l].target = seq[i].target /\ l.to = -1
        BY <1>1, <1>3, <3>3, SMTT(60) DEF InputOK
      <4> QED BY <1>7, <4>1 DEF OpAt, Op, TargetsIn
    <3> QED BY <3>1, <3>2, <3>3 DEF TopLabels
  <2> QED BY <1>1, <2>1 DEF CallNodes
<1>11. PendingCalls'
  <2>1. LocalCalls \in SUBSET PlainLabels /\ IsFiniteSet(LocalCalls)
    <3>1. LocalCalls \subseteq TopLabels
      BY DEF LocalCalls, TopLabels
    <3> QED BY <3>1, TopLabelsType, FS_Subset
  <2>2. pending' \in Seq(LocalCalls)
    BY <1>1, <2>1, InOrderLists
  <2>3. LocalCalls \subseteq {l \in DOMAIN nodes' : nodes'[l].op = "call"}
    <3>1. \A i \in Indexes : seq[i].op = "call" => /\ NewLabel(i) \in TopLabels
                                                   /\ nodes'[NewLabel(i)].op = "call"
      BY <1>1, <1>3 DEF TopLabels, OpAt
    <3> QED BY <1>1, <3>1 DEF LocalCalls
  <2> HIDE DEF LocalCalls
  <2> QED BY <2>2, <2>3 DEF PendingCalls
<1> QED BY <1>2, <1>6, <1>8, <1>9, <1>10, <1>11 DEF GraphInv

-----------------------------------------------------------------------------
(***************************************************************************)
(* Reachability and loops.  A set of labels is free of loops when no part  *)
(* of it keeps a child of each of its labels.                              *)
(***************************************************************************)
EdgesIn == IsFiniteSet(DOMAIN nodes) /\ edges \subseteq (DOMAIN nodes) \X (DOMAIN nodes)

Closed(T) == \A e \in edges : e[1] \in T => e[2] \in T

LEMMA ReachedIs ==
    ASSUME EdgesIn, NEW l \in DOMAIN nodes
    PROVE  /\ l \in ReachedFrom(l) /\ ReachedFrom(l) \in SUBSET (DOMAIN nodes)
           /\ Closed(ReachedFrom(l))
           /\ \A T \in SUBSET (DOMAIN nodes) : l \in T /\ Closed(T) => ReachedFrom(l) \subseteq T
<1> DEFINE U == DOMAIN nodes
           F == [S \in SUBSET U |-> S \cup {e[2] : e \in {x \in edges : x[1] \in S}}]
           c == CHOOSE c : c = [S \in SUBSET DOMAIN nodes |->
                    LET T == S \cup {e[2] : e \in {x \in edges : x[1] \in S}}
                    IN  IF T = S THEN S ELSE c[T]]
<1>1. F \in [SUBSET U -> SUBSET U]
  <2>1. \A e \in edges : e \in U \X U
    BY DEF EdgesIn
  <2>2. \A e \in edges : e[2] \in U
    BY <2>1
  <2>3. \A S \in SUBSET U : S \cup {e[2] : e \in {x \in edges : x[1] \in S}} \in SUBSET U
    BY <2>2
  <2> QED BY <2>3
<1>2. PICK h : Iterates(U, F, h)
  <2> HIDE DEF F, U
  <2> QED BY <1>1, GrowthExists
<1>3. h = [S \in SUBSET DOMAIN nodes |->
             LET T == S \cup {e[2] : e \in {x \in edges : x[1] \in S}}
             IN  IF T = S THEN S ELSE h[T]]
  BY <1>2 DEF Iterates
<1>4. c = [S \in SUBSET DOMAIN nodes |->
             LET T == S \cup {e[2] : e \in {x \in edges : x[1] \in S}}
             IN  IF T = S THEN S ELSE c[T]]
  BY <1>3, Zenon
<1>5. ReachedFrom(l) = c[{l}]
  BY DEF ReachedFrom
<1>6. GrowsIn(U, F, c)
  <2> HIDE DEF c
  <2> QED BY <1>1, <1>4, ZenonT(60) DEF GrowsIn, Iterates, EdgesIn
<1> HIDE DEF c
<1>7. LeastKept(U, F, {l}, c[{l}])
  <2>1. {l} \in SUBSET U
    OBVIOUS
  <2> HIDE DEF F, U
  <2> QED BY <2>1, <1>6, GrowthResult
<1>8. \A T \in SUBSET U : F[T] = T <=> Closed(T)
  BY DEF Closed
<1> HIDE DEF F
<1>9. /\ ReachedFrom(l) \in SUBSET U /\ {l} \subseteq ReachedFrom(l) /\ F[ReachedFrom(l)] = ReachedFrom(l)
      /\ \A T \in SUBSET U : {l} \subseteq T /\ F[T] = T => ReachedFrom(l) \subseteq T
  BY <1>5, <1>7 DEF LeastKept
<1>10. ASSUME NEW T \in SUBSET U, l \in T, Closed(T) PROVE ReachedFrom(l) \subseteq T
  BY <1>8, <1>9, <1>10
<1> HIDE DEF Closed
<1> QED BY <1>8, <1>9, <1>10

LoopFree(L) ==
    \A T \in SUBSET L : (\A l \in T : \E m \in T : <<l, m>> \in edges) => T = {}

LEMMA AcyclicIs ==
    ASSUME NEW L, IsFiniteSet(L)
    PROVE  Acyclic(L) <=> LoopFree(L)
<1> DEFINE F == [S \in SUBSET L |-> {l \in S : \E m \in S : <<l, m>> \in edges}]
           c == CHOOSE c : c = [S \in SUBSET L |->
                    LET T == {l \in S : \E m \in S : <<l, m>> \in edges}
                    IN  IF T = S THEN S ELSE c[T]]
<1>1. F \in [SUBSET L -> SUBSET L]
  OBVIOUS
<1>2. PICK h : Iterates(L, F, h)
  <2> HIDE DEF F
  <2> QED BY <1>1, GrowthExists
<1>3. h = [S \in SUBSET L |-> LET T == {l \in S : \E m \in S : <<l, m>> \in edges}
                              IN  IF T = S THEN S ELSE h[T]]
  BY <1>2 DEF Iterates
<1>4. c = [S \in SUBSET L |-> LET T == {l \in S : \E m \in S : <<l, m>> \in edges}
                              IN  IF T = S THEN S ELSE c[T]]
  BY <1>3, Zenon
<1>5. Acyclic(L) <=> c[L] = {}
  BY DEF Acyclic
<1>6. Shrinks(L, F, c)
  <2> HIDE DEF c
  <2> QED BY <1>1, <1>4 DEF Shrinks, Iterates
<1> HIDE DEF c
<1>7. GreatestKept(L, F, L, c[L])
  <2>1. L \in SUBSET L
    OBVIOUS
  <2> HIDE DEF F
  <2> QED BY <2>1, <1>6, PeelResult
<1>8. \A T \in SUBSET L : F[T] = T <=> \A l \in T : \E m \in T : <<l, m>> \in edges
  OBVIOUS
<1> HIDE DEF F
<1> QED BY <1>5, <1>7, <1>8 DEF GreatestKept, LoopFree

-----------------------------------------------------------------------------
(***************************************************************************)
(* Termination counters.  A loop in the graph with counters is one in the  *)
(* graph without that avoids the heads, and there is none.                 *)
(***************************************************************************)
FromEntry == ReachedFrom(EntryLabel)

Uncounted == {l \in FromEntry : nodes[l].op # "counter"}

Counted == Acyclic(Uncounted)

FromEntryLeast ==
    \A T \in SUBSET (DOMAIN nodes) :
        EntryLabel \in T /\ (\A e \in edges : e[1] \in T => e[2] \in T) => FromEntry \subseteq T

UncountedLoopFree == LoopFree(Uncounted)

LEMMA FromEntryNext == (EdgesIn /\ EntryLabel \in DOMAIN nodes => FromEntryLeast)'
<1>1. EdgesIn /\ EntryLabel \in DOMAIN nodes => FromEntryLeast
  BY ReachedIs DEF FromEntry, FromEntryLeast, Closed
<1> QED BY <1>1, PTL

LEMMA CountedNext == (IsFiniteSet(Uncounted) /\ UncountedLoopFree => Counted)'
<1>1. IsFiniteSet(Uncounted) /\ UncountedLoopFree => Counted
  BY AcyclicIs DEF Counted, UncountedLoopFree
<1> QED BY <1>1, PTL

LEMMA CountersApart ==
    ASSUME NEW l \in PlainLabels
    PROVE  /\ MakeIncrementCounter(l) \notin PlainLabels
           /\ \A m \in PlainLabels : MakeIncrementCounter(l) = MakeIncrementCounter(m) => l = m
<1> DEFINE C(x) == LabelFull(x.from, x.to, x.prefix)
<1>1. \A x \in PlainLabels : /\ x = C(x) /\ MakeIncrementCounter(x).special = "counter"
                             /\ MakeIncrementCounter(x).from = x.from
                             /\ MakeIncrementCounter(x).to = x.to
                             /\ MakeIncrementCounter(x).prefix = x.prefix
  BY LabelIs DEF MakeIncrementCounter, PlainLabels
<1>2. \A x \in PlainLabels : x.special = ""
  BY DEF PlainLabels
<1>3. MakeIncrementCounter(l) \notin PlainLabels
  BY <1>1, <1>2
<1>4. ASSUME NEW m \in PlainLabels, MakeIncrementCounter(l) = MakeIncrementCounter(m) PROVE l = m
  <2>1. l.from = m.from /\ l.to = m.to /\ l.prefix = m.prefix
    BY <1>1, <1>4
  <2> QED BY <1>1, <2>1
<1> QED BY <1>3, <1>4

LEMMA CountersBreakLoops ==
    ASSUME GraphInv, InsertTerminationCounters, input.check_for_termination
    PROVE  Counted'
<1>1. PICK H \in LoopHeads :
          /\ nodes' = [l \in DOMAIN nodes \cup {MakeIncrementCounter(h) : h \in H} |->
                          IF l \in DOMAIN nodes THEN nodes[l] ELSE Node("counter", 0, <<>>)]
          /\ edges' = InsertAfter(H)
  BY DEF InsertTerminationCounters
<1> DEFINE R == ReachedFrom(EntryLabel)
           C == {MakeIncrementCounter(h) : h \in H}
           K == R \cup C
<1>2. EdgesIn /\ EntryLabel \in DOMAIN nodes /\ DOMAIN nodes \subseteq PlainLabels
      /\ IsFiniteSet(DOMAIN nodes)
  BY DEF GraphInv, GraphType, EdgesIn
<1>3. EntryLabel \in R /\ R \in SUBSET (DOMAIN nodes) /\ Closed(R)
  BY <1>2, ReachedIs
<1>4. H \in SUBSET R /\ LoopFree(R \ H)
  <2>1. H \in SUBSET R /\ Acyclic(R \ H)
    <3> HIDE DEF R
    <3> QED BY <1>1 DEF LoopHeads, R
  <2>2. IsFiniteSet(R \ H)
    BY <1>2, <1>3, FS_Subset
  <2> HIDE DEF R
  <2> QED BY <2>1, <2>2, AcyclicIs
<1> HIDE DEF R
<1>5. \A h \in H : MakeIncrementCounter(h) \notin DOMAIN nodes
  BY <1>2, <1>3, <1>4, CountersApart
<1>6. DOMAIN nodes' = DOMAIN nodes \cup C
  BY <1>1
<1>7. \A c \in C : c \in DOMAIN nodes' /\ nodes'[c].op = "counter"
  <2>1. Node("counter", 0, <<>>).op = "counter"
    BY DEF Node
  <2> QED BY <1>1, <1>5, <2>1
<1>8. \A e \in edges' : \/ e \in edges /\ e[1] \notin H
                        \/ e[1] \in H /\ e[2] \in C
                        \/ e[1] \in C /\ \E x \in edges : x[1] \in H /\ e[2] = x[2]
  BY <1>1 DEF InsertAfter
<1>9. \A e \in edges : e \in (DOMAIN nodes) \X (DOMAIN nodes)
  BY <1>2 DEF EdgesIn
<1>10. EdgesIn'
  <2>1. IsFiniteSet(C)
    <3> DEFINE f == [h \in H |-> MakeIncrementCounter(h)]
    <3>1. IsFiniteSet(H) /\ DOMAIN f = H
      BY <1>2, <1>3, <1>4, FS_Subset
    <3>2. IsFiniteSet({f[h] : h \in H})
      <4> HIDE DEF f
      <4> QED BY <3>1, ImageFinite
    <3> QED BY <3>2
  <2>2. IsFiniteSet(DOMAIN nodes')
    <3> HIDE DEF C
    <3> QED BY <1>2, <1>6, <2>1, FS_Union
  <2>3. \A e \in edges' : e \in (DOMAIN nodes') \X (DOMAIN nodes')
    <3>1. \A h \in H : h \in DOMAIN nodes
      BY <1>3, <1>4
    <3>2. \A e \in edges' : \E a, b : e = <<a, b>>
      BY <1>1, <1>9 DEF InsertAfter
    <3>3. \A e \in edges' : e[1] \in DOMAIN nodes' /\ e[2] \in DOMAIN nodes'
      <4> HIDE DEF C
      <4> QED BY <1>6, <1>8, <1>9, <3>1
    <3> QED BY <3>2, <3>3
  <2> QED BY <2>2, <2>3 DEF EdgesIn
<1> HIDE DEF C
<1>11. K \in SUBSET (DOMAIN nodes') /\ EntryLabel \in K
       /\ \A e \in edges' : e[1] \in K => e[2] \in K
  <2>1. K \in SUBSET (DOMAIN nodes') /\ EntryLabel \in K
    BY <1>3, <1>6
  <2>2. ASSUME NEW e \in edges', e[1] \in K PROVE e[2] \in K
    <3>1. CASE e \in edges /\ e[1] \notin H
      <4>1. e[1] \in DOMAIN nodes /\ e[1] \in R
        <5>1. \A c \in C : c \notin DOMAIN nodes
          BY <1>5 DEF C
        <5> QED BY <1>9, <2>2, <3>1, <5>1
      <4> QED BY <1>3, <3>1, <4>1 DEF Closed
    <3>2. CASE e[1] \in H /\ e[2] \in C
      BY <3>2
    <3>3. CASE e[1] \in C /\ \E x \in edges : x[1] \in H /\ e[2] = x[2]
      BY <1>3, <1>4, <3>3 DEF Closed
    <3> QED BY <1>8, <3>1, <3>2, <3>3
  <2> QED BY <2>1, <2>2
<1>12. FromEntry' \subseteq K
  <2>1. (EntryLabel \in DOMAIN nodes)'
    BY <1>2, <1>6
  <2>2. FromEntryLeast'
    BY <1>10, <2>1, FromEntryNext
  <2> HIDE DEF K
  <2> QED BY <1>11, <2>2 DEF FromEntryLeast
<1> DEFINE L == Uncounted'
<1>13. L \subseteq R
  BY <1>7, <1>12 DEF Uncounted
<1>14. UncountedLoopFree'
  <2>1. ASSUME NEW T \in SUBSET L, \A l \in T : \E m \in T : <<l, m>> \in edges'
        PROVE  T = {}
    <3>1. \A l \in T, m \in T : <<l, m>> \in edges' => <<l, m>> \in edges /\ l \notin H
      <4>1. \A l \in T : l \notin C
        BY <1>7 DEF Uncounted
      <4> HIDE DEF L
      <4> QED BY <1>8, <4>1
    <3>2. T \in SUBSET (R \ H)
      BY <1>13, <2>1, <3>1
    <3> QED BY <1>4, <2>1, <3>1, <3>2, SMTT(60) DEF LoopFree
  <2> QED BY <2>1 DEF LoopFree, UncountedLoopFree
<1>15. IsFiniteSet(Uncounted)'
  BY <1>2, <1>3, <1>13, FS_Subset
<1> QED BY <1>14, <1>15, CountedNext

-----------------------------------------------------------------------------
(***************************************************************************)
(* What construction has made of the graph, pass by pass.                  *)
(***************************************************************************)
Unpopulated == {"ValidateInstructionSupport", "ResolveKfuncCalls", "LowerPseudoLoads", "PopulateNodes"}
Inlining == {"InlineLocalCalls", "ValidateTailCallDepth", "ComputeCallbackMetadata",
             "InsertTerminationCounters"}

StageInv ==
    /\ InputOK
    /\ pass \in Unpopulated => Fresh
    /\ pass \in {"ValidateControlFlowTargets", "ConnectEdges"} => Populated
    /\ pass = "ConnectEdges" => TargetsIn
    /\ pass \in Inlining => GraphInv
    /\ pass \in {"ExtractAssertions", "built"} /\ input.check_for_termination => Counted

LEMMA PopulateIs ==
    ASSUME InputOK, Fresh, PopulateNodes
    PROVE  Populated'
<1>1. /\ DOMAIN nodes = {EntryLabel, ExitLabel}
      /\ \A l \in DOMAIN nodes : nodes[l] = Node("undefined", 0, <<>>)
      /\ nodes' = [l \in DOMAIN nodes \cup {NewLabel(i) : i \in Indexes} |->
                    IF l \in DOMAIN nodes THEN nodes[l]
                    ELSE Node(OpAt(l.from), seq[l.from].target, <<>>)]
      /\ UNCHANGED <<seq, Indexes>>
  BY DEF Fresh, PopulateNodes, OpAt, seq, Indexes
<1>2. \A i \in Indexes : /\ i \in Int /\ NewLabel(i).from = i /\ NewLabel(i) \notin {EntryLabel, ExitLabel}
                         /\ seq[i].target \in Nat /\ OpAt(i) \in NodeOps
  <2>1. \A i \in Indexes : i \in Int /\ seq[i].target \in Nat /\ seq[i].op \in Op
    BY DEF InputOK
  <2>2. \A i \in Indexes : OpAt(i) \in NodeOps
    BY <2>1 DEF OpAt, NodeOps, Op
  <2> QED BY <2>1, <2>2, LabelsApart, NewLabelApart
<1>3. \A op \in NodeOps, t \in Nat : /\ Node(op, t, <<>>) \in NodeRecs
                                     /\ Node(op, t, <<>>).op = op /\ Node(op, t, <<>>).target = t
  <2>1. <<>> \in Seq(Int)
    OBVIOUS
  <2> QED BY <2>1, Zenon DEF Node, NodeRecs
<1>4. \A i \in Indexes : /\ NewLabel(i) \in DOMAIN nodes'
                         /\ nodes'[NewLabel(i)] = Node(OpAt(i), seq[i].target, <<>>)
  BY <1>1, <1>2
<1>5. DOMAIN nodes' = {EntryLabel, ExitLabel} \cup {NewLabel(i) : i \in Indexes}
  BY <1>1
<1>6. nodes'[EntryLabel] = Node("undefined", 0, <<>>) /\ nodes'[ExitLabel] = Node("undefined", 0, <<>>)
  BY <1>1
<1>7. "undefined" \in NodeOps /\ 0 \in Nat
  BY DEF NodeOps
<1>8. \A l \in DOMAIN nodes' : nodes'[l] \in NodeRecs
  BY <1>2, <1>3, <1>4, <1>5, <1>6, <1>7, SMTT(60)
<1>9. nodes' = [l \in DOMAIN nodes' |-> nodes'[l]]
  BY <1>1
<1>10. nodes' \in [DOMAIN nodes' -> NodeRecs]
  BY <1>8, <1>9
<1>11. (\A i \in Indexes : InstructionAt(i))'
  <2>1. \A i \in Indexes : OpAt(i)' = OpAt(i)
    BY <1>1 DEF OpAt
  <2>2. \A i \in Indexes : nodes'[NewLabel(i)].op = OpAt(i) /\ nodes'[NewLabel(i)].target = seq[i].target
    BY <1>2, <1>3, <1>4
  <2> QED BY <1>1, <1>4, <2>1, <2>2, SMTT(60) DEF InstructionAt
<1>12. nodes'[EntryLabel].op = "undefined" /\ nodes'[ExitLabel].op = "undefined"
  BY <1>3, <1>6, <1>7
<1> QED BY <1>1, <1>5, <1>10, <1>11, <1>12 DEF Populated

LEMMA TargetsAreIn ==
    ASSUME InputOK, Populated, ValidateControlFlowTargets, pass' = "ConnectEdges"
    PROVE  TargetsIn
<1>1. \A i \in Indexes : seq[i].op \in {"jump", "branch", "call"} => NewLabel(seq[i].target) \in DOMAIN nodes
  BY DEF ValidateControlFlowTargets, IsTarget, Rejected
<1>2. ASSUME NEW i \in Indexes, seq[i].op \in {"jump", "branch", "call"} PROVE seq[i].target \in Indexes
  <2>1. seq[i].target \in Nat /\ \A j \in Indexes : j \in Int
    BY DEF InputOK
  <2>2. \/ NewLabel(seq[i].target) \in {EntryLabel, ExitLabel}
        \/ \E j \in Indexes : NewLabel(seq[i].target) = NewLabel(j)
    BY <1>1, <1>2 DEF Populated
  <2>3. NewLabel(seq[i].target).from = seq[i].target /\ NewLabel(seq[i].target).to = -1
    BY <2>1, LabelsApart, SMTT(60)
  <2>4. NewLabel(seq[i].target) \notin {EntryLabel, ExitLabel}
    BY <2>1, <2>3, LabelsApart
  <2> QED BY <2>1, <2>2, <2>3, <2>4, LabelsApart
<1> QED BY <1>2 DEF TargetsIn

LEMMA StageInit == Init => StageInv
<1> SUFFICES ASSUME Init PROVE StageInv
  OBVIOUS
<1>1. pass = "ValidateInstructionSupport" /\ InputOK /\ Fresh
  BY InputsAreOK DEF Init, Fresh
<1> QED BY <1>1 DEF StageInv, Inlining

Peeled == CHOOSE peel : peel = [S \in SUBSET Uncounted |->
              LET T == {l \in S : \E m \in S : <<l, m>> \in edges}
              IN  IF T = S THEN S ELSE peel[T]]

\* What the invariant of a stage speaks of.
StageVars == <<input, nodes, edges, pending>>

LEMMA StageKept ==
    ASSUME UNCHANGED StageVars
    PROVE  /\ Fresh => Fresh'
           /\ TargetsIn => TargetsIn'
           /\ Populated => Populated'
           /\ GraphInv => GraphInv'
           /\ Counted => Counted'
<1>1. UNCHANGED <<input, nodes, edges, pending, seq, Indexes>>
  BY DEF StageVars, seq, Indexes
<1>2. (Fresh => Fresh') /\ (TargetsIn => TargetsIn')
  BY <1>1 DEF Fresh, TargetsIn
<1>3. Populated => Populated'
  BY <1>1 DEF Populated, InstructionAt, OpAt
<1>4. \A i : BranchAt(i)' = BranchAt(i) /\ InstructionAt(i)' = InstructionAt(i)
  BY <1>1 DEF BranchAt, InstructionAt, OpAt, Splits, Taken, NotTaken, Fallthrough, IsLast
<1>5. GraphInv => GraphInv'
  BY <1>1, <1>4 DEF GraphInv, GraphType, TargetsIn, CallNodes, PendingCalls
<1>6. FromEntry' = FromEntry
  BY <1>1 DEF FromEntry, ReachedFrom
<1>7. Counted => Counted'
  <2>1. Uncounted' = Uncounted /\ edges' = edges
    BY <1>1, <1>6 DEF Uncounted
  <2>2. (Counted <=> Peeled[Uncounted] = {}) /\ (Counted' <=> Peeled'[Uncounted'] = {})
    BY DEF Counted, Acyclic, Peeled
  <2>3. Peeled' = Peeled
    BY ONLY <2>1, SMTT(60) DEF Peeled
  <2> QED BY <2>1, <2>2, <2>3
<1> QED BY <1>2, <1>3, <1>5, <1>7

LEMMA InputFixed == [Next]_vars => UNCHANGED input
BY SMTT(60) DEF Next, Build, Start, Execute, Stopped, ValidateInstructionSupport, ResolveKfuncCalls,
    LowerPseudoLoads, PopulateNodes, ValidateControlFlowTargets, ConnectEdges, AddCfgNodes, InlineLocalCalls,
    ValidateTailCallDepth, ComputeCallbackMetadata, InsertTerminationCounters, ExtractAssertions, Vetted, vars

LEMMA StageStep ==
    ASSUME StageInv, [Next]_vars
    PROVE  StageInv'
<1>1. InputOK /\ InputOK'
  <2>1. InputOK
    BY DEF StageInv
  <2>2. UNCHANGED input
    BY InputFixed
  <2> QED BY <2>1, <2>2 DEF InputOK, seq, Indexes
<1>2. ASSUME UNCHANGED vars PROVE StageInv'
  BY <1>1, <1>2, StageKept DEF StageInv, StageVars, vars
<1>3. ASSUME Start \/ Execute \/ Stopped PROVE StageInv'
  <2>1. UNCHANGED pass /\ UNCHANGED StageVars
    BY <1>3 DEF Start, Execute, Stopped, StageVars, vars
  <2>2. UNCHANGED input
    BY <2>1 DEF StageVars
  <2> QED BY <1>1, <2>1, <2>2, StageKept DEF StageInv
<1>4. ASSUME ValidateInstructionSupport \/ ResolveKfuncCalls \/ LowerPseudoLoads PROVE StageInv'
  <2>1. UNCHANGED StageVars /\ UNCHANGED input /\ pass \in Unpopulated
        /\ pass' \in Unpopulated \cup {"rejected"}
    BY <1>4 DEF ValidateInstructionSupport, ResolveKfuncCalls, LowerPseudoLoads, Vetted, StageVars,
                Rejected, Go, Unpopulated
  <2> QED BY <1>1, <2>1, StageKept DEF StageInv, Unpopulated, Inlining
<1>5. ASSUME PopulateNodes PROVE StageInv'
  <2>1. Fresh /\ pass' = "ValidateControlFlowTargets" /\ UNCHANGED input
    BY <1>5 DEF StageInv, PopulateNodes, Go, Unpopulated
  <2>2. Populated'
    BY <1>1, <1>5, <2>1, PopulateIs
  <2> QED BY <1>1, <2>1, <2>2 DEF StageInv, Unpopulated, Inlining
<1>6. ASSUME ValidateControlFlowTargets PROVE StageInv'
  <2>1. Populated /\ UNCHANGED StageVars /\ UNCHANGED input /\ pass' \in {"ConnectEdges", "rejected"}
    BY <1>6 DEF StageInv, ValidateControlFlowTargets, Vetted, StageVars, Rejected, Go
  <2>2. Populated' /\ (pass' = "ConnectEdges" => TargetsIn')
    BY <1>1, <1>6, <2>1, TargetsAreIn, StageKept
  <2> QED BY <1>1, <2>1, <2>2 DEF StageInv, Unpopulated, Inlining
<1>7. ASSUME ConnectEdges PROVE StageInv'
  <2>1. Populated /\ TargetsIn /\ UNCHANGED input
    BY <1>7 DEF StageInv, ConnectEdges
  <2>2. pass' = "rejected" \/ (pass' = "InlineLocalCalls" /\ GraphInv')
    BY <1>1, <1>7, <2>1, ConnectOpensGraph, ConnectEdgesIs
  <2> QED BY <1>1, <2>1, <2>2 DEF StageInv, Unpopulated, Inlining
<1>8. ASSUME AddCfgNodes PROVE StageInv'
  <2>1. GraphInv /\ UNCHANGED input
    BY <1>8 DEF StageInv, AddCfgNodes, Inlining
  <2>2. CASE pass' \in {"rejected", "panicked"}
    BY <1>1, <2>1, <2>2 DEF StageInv, Unpopulated, Inlining
  <2>3. CASE pass' \notin {"rejected", "panicked"}
    <3>1. PICK exit_to \in DOMAIN nodes, R \in SUBSET (DOMAIN nodes) : InlineStep(Head(pending), exit_to, R)
      BY <1>1, <1>8, <2>1, <2>3, AddCfgNodesIs, SMTT(60)
    <3>2. GraphInv' /\ pass' = "InlineLocalCalls"
      BY <1>1, <2>1, <3>1, InlineKeepsGraph DEF InlineStep
    <3> QED BY <1>1, <2>1, <3>2 DEF StageInv, Unpopulated, Inlining
  <2> QED BY <2>2, <2>3, SMTT(60)
<1>9. ASSUME InlineLocalCalls \/ ValidateTailCallDepth PROVE StageInv'
  <2>1. UNCHANGED StageVars /\ UNCHANGED input /\ pass \in Inlining
        /\ pass' \in Inlining \cup {"rejected"}
    BY <1>9 DEF InlineLocalCalls, ValidateTailCallDepth, Vetted, StageVars, Rejected, Go, Inlining
  <2>2. GraphInv'
    BY <2>1, StageKept DEF StageInv
  <2> QED BY <1>1, <2>1, <2>2 DEF StageInv, Unpopulated, Inlining
<1>10. ASSUME ComputeCallbackMetadata PROVE StageInv'
  <2>1. UNCHANGED StageVars /\ UNCHANGED input /\ pass \in Inlining
        /\ pass' = "InsertTerminationCounters"
    BY <1>10 DEF ComputeCallbackMetadata, StageVars, Go, Inlining
  <2>2. GraphInv'
    BY <2>1, StageKept DEF StageInv
  <2> QED BY <1>1, <2>1, <2>2 DEF StageInv, Unpopulated, Inlining
<1>11. ASSUME InsertTerminationCounters PROVE StageInv'
  <2>1. GraphInv /\ UNCHANGED input /\ pass' = "ExtractAssertions"
    BY <1>11 DEF StageInv, InsertTerminationCounters, Go, Inlining
  <2>2. input.check_for_termination => Counted'
    BY <1>11, <2>1, CountersBreakLoops
  <2> QED BY <1>1, <2>1, <2>2 DEF StageInv, Unpopulated, Inlining
<1>12. ASSUME ExtractAssertions PROVE StageInv'
  <2>1. UNCHANGED StageVars /\ UNCHANGED input /\ pass = "ExtractAssertions" /\ pass' = "built"
    BY <1>12 DEF ExtractAssertions, StageVars, Go
  <2> QED BY <1>1, <2>1, StageKept DEF StageInv, Unpopulated, Inlining
<1> QED BY <1>2, <1>3, <1>4, <1>5, <1>6, <1>7, <1>8, <1>9, <1>10, <1>11, <1>12 DEF Next, Build

LEMMA StageAlways == Spec => []StageInv
<1>1. StageInv /\ [Next]_vars => StageInv'
  BY StageStep
<1> QED BY <1>1, StageInit, PTL DEF Spec

(***************************************************************************)
(* With termination checking, every cycle of a graph that was built passes *)
(* a counter: the cycles of inlined subprograms too, which                 *)
(* pass_insert_termination_counters sees as they are in the graph and not  *)
(* in the sequence.                                                        *)
(***************************************************************************)
THEOREM EveryLoopCountedAlways == Spec => []EveryLoopCounted
<1>1. StageInv => EveryLoopCounted
  BY DEF StageInv, EveryLoopCounted, Counted, Uncounted, FromEntry
<1> QED BY <1>1, StageAlways, PTL

-----------------------------------------------------------------------------
(***************************************************************************)
(* The graph follows every execution of the machine.  What has to be shown *)
(* is that inlining is modular: whenever a call is inlined, the callee's   *)
(* region is still the one that was built from the sequence, because no    *)
(* call in it has been inlined before.                                     *)
(***************************************************************************)

(***************************************************************************)
(* A zone: the instructions control reaches from one, following local      *)
(* calls into the callees or stepping over them.                           *)
(***************************************************************************)
Flow(k, across) ==
    CASE seq[k].op = "exit" -> {}
      [] seq[k].op = "jump" -> {seq[k].target}
      [] OTHER -> (IF IsLast(k) THEN {} ELSE {Fallthrough(k).from})
                      \cup (IF seq[k].op = "branch" \/ (across /\ seq[k].op = "call")
                            THEN {seq[k].target} ELSE {})

LocalCallsIn(Z) == {k \in Z : seq[k].op = "call"}

IsZone(i, across, Z) ==
    /\ i \in Z /\ Z \in SUBSET Indexes
    /\ \A k \in Z : Flow(k, across) \subseteq Z
    /\ Leads(i, across) = LocalCallsIn(Z)
    /\ \A S \in SUBSET Indexes : i \in S /\ (\A k \in S : Flow(k, across) \subseteq S) => Z \subseteq S

LEMMA FallsTo ==
    ASSUME InputOK, NEW i \in Indexes, ~ IsLast(i)
    PROVE  /\ Fallthrough(i).from \in Indexes
           /\ Fallthrough(i) = NewLabel(Fallthrough(i).from) /\ Fallthrough(i) # ExitLabel
<1>1. PICK j \in Indexes : Fallthrough(i) = NewLabel(j)
  BY FallthroughIs
<1>2. j \in Int
  BY DEF InputOK
<1> QED BY <1>1, <1>2, LabelsApart, NewLabelApart

LEMMA FlowIs ==
    ASSUME InputOK, TargetsIn, NEW k \in Indexes, NEW across
    PROVE  /\ Flow(k, across) \in SUBSET Indexes
           /\ seq[k].op = "jump" => seq[k].target \in Flow(k, across)
           /\ seq[k].op \notin {"exit", "jump"} /\ ~ IsLast(k) => Fallthrough(k).from \in Flow(k, across)
           /\ seq[k].op = "branch" \/ (across /\ seq[k].op = "call") => seq[k].target \in Flow(k, across)
<1>1. CASE seq[k].op = "exit"
  BY <1>1 DEF Flow
<1>2. CASE seq[k].op = "jump"
  <2>1. Flow(k, across) = {seq[k].target}
    BY <1>2 DEF Flow
  <2> QED BY <1>2, <2>1 DEF TargetsIn
<1>3. CASE seq[k].op \notin {"exit", "jump"}
  <2> DEFINE falls == IF IsLast(k) THEN {} ELSE {Fallthrough(k).from}
             jumps == IF seq[k].op = "branch" \/ (across /\ seq[k].op = "call") THEN {seq[k].target} ELSE {}
  <2>1. Flow(k, across) = falls \cup jumps
    BY <1>3 DEF Flow
  <2>2. falls \in SUBSET Indexes /\ (~ IsLast(k) => Fallthrough(k).from \in falls)
    BY FallsTo
  <2>3. jumps \in SUBSET Indexes
        /\ (seq[k].op = "branch" \/ (across /\ seq[k].op = "call") => seq[k].target \in jumps)
    BY DEF TargetsIn
  <2> HIDE DEF falls, jumps
  <2> QED BY <1>3, <2>1, <2>2, <2>3
<1> QED BY <1>1, <1>2, <1>3

LEMMA ZoneExists ==
    ASSUME InputOK, TargetsIn, NEW i \in Indexes, NEW across
    PROVE  \E Z : IsZone(i, across, Z)
<1> DEFINE U == Indexes
           flow(k) == CASE seq[k].op = "exit" -> {}
                        [] seq[k].op = "jump" -> {seq[k].target}
                        [] OTHER -> (IF IsLast(k) THEN {} ELSE {Fallthrough(k).from})
                                        \cup (IF seq[k].op = "branch" \/ (across /\ seq[k].op = "call")
                                              THEN {seq[k].target} ELSE {})
           F == [S \in SUBSET U |-> S \cup UNION {flow(k) : k \in S}]
           led == CHOOSE led : led = [S \in SUBSET Indexes |->
                      LET T == S \cup UNION {flow(k) : k \in S} IN IF T = S THEN S ELSE led[T]]
<1>0. \A k \in U : flow(k) = Flow(k, across) /\ flow(k) \in SUBSET U
  <2>1. \A k \in U : Flow(k, across) \in SUBSET U
    BY FlowIs
  <2>2. \A k \in U : flow(k) = Flow(k, across)
    BY DEF Flow
  <2> HIDE DEF flow, U
  <2> QED BY <2>1, <2>2
<1> HIDE DEF flow
<1>1. F \in [SUBSET U -> SUBSET U]
  <2> HIDE DEF U
  <2> QED BY <1>0
<1>2. PICK h : Iterates(U, F, h)
  <2> HIDE DEF F, U
  <2> QED BY <1>1, GrowthExists
<1>3. h = [S \in SUBSET Indexes |->
             LET T == S \cup UNION {flow(k) : k \in S} IN IF T = S THEN S ELSE h[T]]
  BY <1>2 DEF Iterates
<1>4. led = [S \in SUBSET Indexes |->
             LET T == S \cup UNION {flow(k) : k \in S} IN IF T = S THEN S ELSE led[T]]
  BY <1>3, Zenon
<1>5. Leads(i, across) = {k \in led[{i}] : seq[k].op = "call"}
  BY DEF Leads, flow
<1>6. GrowsIn(U, F, led)
  <2>1. IsFiniteSet(U)
    BY DEF InputOK
  <2>2. Iterates(U, F, led)
    <3> HIDE DEF led
    <3> QED BY <1>4 DEF Iterates
  <2>3. \A S, T \in SUBSET U : S \subseteq F[S] /\ (S \subseteq T => F[S] \subseteq F[T])
    <3> HIDE DEF U
    <3> QED OBVIOUS
  <2> HIDE DEF F, led, U
  <2> QED BY <1>1, <2>1, <2>2, <2>3 DEF GrowsIn
<1> DEFINE Z == led[{i}]
<1> HIDE DEF led
<1>7. LeastKept(U, F, {i}, Z)
  <2>1. {i} \in SUBSET U
    OBVIOUS
  <2> HIDE DEF F, U
  <2> QED BY <1>6, <2>1, GrowthResult
<1>8. Z \in SUBSET U /\ {i} \subseteq Z /\ F[Z] = Z
  BY <1>7 DEF LeastKept
<1> HIDE DEF Z, U
<1>9. \A k \in Z : flow(k) \subseteq Z
  BY <1>8
<1>10. i \in Z /\ Z \in SUBSET Indexes /\ \A k \in Z : Flow(k, across) \subseteq Z
  BY <1>0, <1>8, <1>9 DEF U
<1>11. Leads(i, across) = LocalCallsIn(Z)
  BY <1>5 DEF Z, LocalCallsIn
<1>12. ASSUME NEW S \in SUBSET U, i \in S, \A k \in S : Flow(k, across) \subseteq S PROVE Z \subseteq S
  <2>1. F[S] = S
    BY <1>0, <1>12
  <2> QED BY <1>7, <1>12, <2>1 DEF LeastKept
<1> QED BY <1>10, <1>11, <1>12 DEF IsZone, U

Zone(i, across) == CHOOSE Z : IsZone(i, across, Z)

\* The main program, its calls, and what is executed under one of them.
Main == Zone(FirstIndex, FALSE)

MainCalls == LocalCallsIn(Main)

Span(c) == Zone(seq[c].target, TRUE)

LEMMA MainIs ==
    ASSUME InputOK, TargetsIn, Indexes # {}
    PROVE  /\ FirstIndex \in Main /\ Main \in SUBSET Indexes
           /\ \A k \in Main : Flow(k, FALSE) \subseteq Main
           /\ MainCalls \in SUBSET Main /\ \A c \in MainCalls : seq[c].op = "call"
           /\ \A c \in Main : seq[c].op = "call" => c \in MainCalls
<1>1. FirstIndex \in Indexes
  BY FirstIndexIs
<1>2. IsZone(FirstIndex, FALSE, Main)
  BY <1>1, ZoneExists DEF Main, Zone
<1> QED BY <1>2 DEF IsZone, MainCalls, LocalCallsIn

LEMMA SpanIs ==
    ASSUME InputOK, TargetsIn, NEW c \in Indexes, seq[c].op = "call"
    PROVE  /\ seq[c].target \in Span(c) /\ Span(c) \in SUBSET Indexes
           /\ \A k \in Span(c) : Flow(k, TRUE) \subseteq Span(c)
<1>1. seq[c].target \in Indexes
  BY DEF TargetsIn
<1>2. IsZone(seq[c].target, TRUE, Span(c))
  BY <1>1, ZoneExists DEF Span, Zone
<1> QED BY <1>2 DEF IsZone

LEMMA CallsBehind ==
    ASSUME InputOK, TargetsIn, Indexes # {}, MainFirst, NEW c \in MainCalls, NEW d \in Span(c),
           seq[d].op = "call"
    PROVE  d > c
<1>1. FirstIndex \in {i \in Indexes : \A j \in Indexes : i <= j}
  BY FirstIndexIs
<1>2. IsZone(FirstIndex, FALSE, Main)
  BY <1>1, ZoneExists DEF Main, Zone
<1>3. c \in Leads(FirstIndex, FALSE) /\ c \in Indexes /\ seq[c].op = "call"
  BY <1>2 DEF IsZone, MainCalls, LocalCallsIn
<1>4. seq[c].target \in Indexes
  BY <1>3 DEF TargetsIn
<1>5. IsZone(seq[c].target, TRUE, Span(c))
  BY <1>4, ZoneExists DEF Span, Zone
<1>6. d \in Leads(seq[c].target, TRUE)
  BY <1>5 DEF IsZone, LocalCallsIn
<1> QED BY <1>1, <1>3, <1>6 DEF MainFirst

-----------------------------------------------------------------------------
(***************************************************************************)
(* The labels of one instruction and the edges from them.                  *)
(***************************************************************************)
TopAt(i) == {NewLabel(i)} \cup (IF Splits(i) THEN {Taken(i), NotTaken(i)} ELSE {})

LEMMA EdgesFromIs ==
    ASSUME InputOK, NEW i \in Indexes
    PROVE  /\ seq[i].op = "exit" => EdgesFrom(i) = {<<NewLabel(i), ExitLabel>>}
           /\ seq[i].op = "jump" => EdgesFrom(i) = {<<NewLabel(i), NewLabel(seq[i].target)>>}
           /\ Splits(i) => EdgesFrom(i) = {<<NewLabel(i), Taken(i)>>, <<Taken(i), NewLabel(seq[i].target)>>,
                                           <<NewLabel(i), NotTaken(i)>>, <<NotTaken(i), Fallthrough(i)>>}
           /\ seq[i].op \notin {"exit", "jump"} /\ ~ Splits(i) =>
                  EdgesFrom(i) = {<<NewLabel(i), Fallthrough(i)>>}
<1>1. CASE seq[i].op = "exit"
  <2>1. seq[i].op # "jump" /\ ~ Splits(i)
    BY <1>1 DEF Splits
  <2> QED BY ONLY <1>1, <2>1 DEF EdgesFrom
<1>2. CASE seq[i].op = "jump"
  <2>1. seq[i].op # "exit" /\ ~ Splits(i)
    BY <1>2 DEF Splits
  <2> QED BY ONLY <1>2, <2>1 DEF EdgesFrom
<1>3. CASE Splits(i)
  <2>1. seq[i].op # "exit" /\ seq[i].op # "jump"
    BY <1>3 DEF Splits
  <2> QED BY ONLY <1>3, <2>1 DEF EdgesFrom
<1>4. CASE seq[i].op # "exit" /\ seq[i].op # "jump" /\ ~ Splits(i)
  BY ONLY <1>4 DEF EdgesFrom
<1> QED BY <1>1, <1>2, <1>3, <1>4

LEMMA TopAtIs ==
    ASSUME InputOK, TargetsIn, NEW i \in Indexes
    PROVE  /\ \A m \in TopAt(i) : /\ m \in PlainLabels /\ m.prefix = <<>> /\ m.from = i /\ m # ExitLabel
                                  /\ m.to = -1 => m = NewLabel(i)
                                  /\ m \in TopLabels
           /\ NewLabel(i) \in TopAt(i)
<1>1. i \in Nat /\ i # MAX
  BY DEF InputOK
<1>2. CASE Splits(i)
  <2>1. seq[i].target \in Indexes /\ i \in Branches
    BY <1>2 DEF Splits, TargetsIn, Branches
  <2>2. \A m \in {Taken(i), NotTaken(i)} :
           /\ m \in PlainLabels /\ m.prefix = <<>> /\ m.from = i /\ m # ExitLabel /\ m.to # -1
           /\ m \in TopLabels
    BY <1>2, <2>1, BranchLabels DEF TopLabels
  <2> QED BY <1>1, <1>2, <2>2, LabelsApart, NewLabelApart DEF TopAt, TopLabels
<1>3. CASE ~ Splits(i)
  BY <1>1, <1>3, LabelsApart, NewLabelApart DEF TopAt, TopLabels
<1> QED BY <1>2, <1>3

\* In a zone that follows calls, every edge stays in the zone or leads to the exit.
LEMMA EdgesStay ==
    ASSUME InputOK, TargetsIn, NEW Z \in SUBSET Indexes, \A k \in Z : Flow(k, TRUE) \subseteq Z,
           NEW i \in Z, NEW e \in EdgesFrom(i)
    PROVE  /\ e[1] \in TopAt(i) /\ e = <<e[1], e[2]>>
           /\ e[2] = ExitLabel \/ \E j \in Z : e[2] \in TopAt(j)
<1>1. \A j \in Z : NewLabel(j) \in TopAt(j)
  BY DEF TopAt
<1>2. seq[i].op \notin {"exit", "jump"} => Fallthrough(i) = ExitLabel \/ \E j \in Z : Fallthrough(i) \in TopAt(j)
  <2>1. SUFFICES ASSUME seq[i].op \notin {"exit", "jump"}, ~ IsLast(i)
                 PROVE \E j \in Z : Fallthrough(i) \in TopAt(j)
    BY FallthroughIs
  <2>2. Fallthrough(i).from \in Z /\ Fallthrough(i) = NewLabel(Fallthrough(i).from)
    BY <2>1, FlowIs, FallsTo
  <2> QED BY <1>1, <2>2
<1>3. seq[i].op \in {"jump", "branch"} => \E j \in Z : NewLabel(seq[i].target) \in TopAt(j)
  <2>1. seq[i].op \in {"jump", "branch"} => seq[i].target \in Z
    BY FlowIs
  <2> QED BY <1>1, <2>1
<1>4. CASE seq[i].op = "exit"
  BY <1>1, <1>4, EdgesFromIs
<1>5. CASE seq[i].op = "jump"
  BY <1>1, <1>3, <1>5, EdgesFromIs
<1>6. CASE Splits(i)
  <2>1. seq[i].op = "branch" /\ TopAt(i) = {NewLabel(i), Taken(i), NotTaken(i)}
    BY <1>6 DEF Splits, TopAt
  <2>2. e \in {<<NewLabel(i), Taken(i)>>, <<Taken(i), NewLabel(seq[i].target)>>,
               <<NewLabel(i), NotTaken(i)>>, <<NotTaken(i), Fallthrough(i)>>}
    BY <1>6, EdgesFromIs
  <2> QED BY <1>2, <1>3, <2>1, <2>2, SMTT(60)
<1>7. CASE seq[i].op \notin {"exit", "jump"} /\ ~ Splits(i)
  BY <1>1, <1>2, <1>7, EdgesFromIs
<1> QED BY <1>4, <1>5, <1>6, <1>7

-----------------------------------------------------------------------------
(***************************************************************************)
(* The calls still to be inlined.  They come in the order of the top-level *)
(* calls they are under, their roots, and a call that is not pending any   *)
(* more is behind none of the roots.                                       *)
(***************************************************************************)
PendingSet == {pending[k] : k \in DOMAIN pending}

Root(l) == IF l.prefix = <<>> THEN l.from ELSE l.prefix[1]

PendingInv ==
    /\ \A j, k \in DOMAIN pending : pending[j] = pending[k] => j = k
    /\ \A j, k \in DOMAIN pending : j < k => Root(pending[j]) <= Root(pending[k])
    /\ \A k \in DOMAIN pending : pending[k].prefix = <<>> => pending[k] \in LocalCalls
    /\ \A d \in Indexes : seq[d].op = "call" =>
          NewLabel(d) \in PendingSet \/ \A k \in DOMAIN pending : d <= Root(pending[k])

\* As long as a call is pending, the edges of its label are those of the sequence.
Pristine(i) ==
    /\ \A e \in edges : e[1] \in TopAt(i) => e \in EdgesFrom(i)
    /\ EdgesFrom(i) \subseteq edges

PristineInv ==
    \A i \in Indexes : (seq[i].op = "call" => NewLabel(i) \in PendingSet) => Pristine(i)

(***************************************************************************)
(* What is inlined under a call of the main program is in its span.        *)
(***************************************************************************)
SpanInv ==
    \A l \in DOMAIN nodes :
        l.prefix # <<>> /\ l.prefix[1] \in MainCalls =>
            \E i \in Span(l.prefix[1]) : \E m \in TopAt(i) : l = Clone(m, l.prefix)

Place(p, i) == Clone(NewLabel(i), p)

\* Instruction i, under the calls p, is in the graph and the main program gets to it.
Good(p, i) ==
    /\ Place(p, i) \in DOMAIN nodes
    /\ IF p = <<>> THEN i \in Main ELSE p[1] \in MainCalls /\ i \in Span(p[1])

(***************************************************************************)
(* Each step the machine can take from there is in E, a set of edges.      *)
(***************************************************************************)
ExitAt(p, i, E) ==
    seq[i].op = "exit" =>
        /\ p = <<>> => <<Place(p, i), ExitLabel>> \in E
        /\ p # <<>> => /\ nodes[Place(p, i)].stack_frame_prefix = p
                       /\ \/ IsLast(p[Len(p)])
                          \/ <<Place(p, i), Clone(Fallthrough(p[Len(p)]), SubSeq(p, 1, Len(p) - 1))>> \in E

JumpAt(p, i, E) == seq[i].op = "jump" => <<Place(p, i), Place(p, seq[i].target)>> \in E

BranchIn(p, i, E) ==
    Splits(i) =>
        LET taken == Clone(Taken(i), p)
            not_taken == Clone(NotTaken(i), p)
        IN  /\ taken \in DOMAIN nodes /\ nodes[taken].op = "assume"
            /\ not_taken \in DOMAIN nodes /\ nodes[not_taken].op = "assume_not"
            /\ <<Place(p, i), taken>> \in E /\ <<taken, Place(p, seq[i].target)>> \in E
            /\ <<Place(p, i), not_taken>> \in E
            /\ IsLast(i) \/ <<not_taken, Clone(Fallthrough(i), p)>> \in E

FallAt(p, i, E) ==
    seq[i].op \notin {"exit", "jump"} /\ ~ Splits(i) =>
        IsLast(i) \/ <<Place(p, i), Clone(Fallthrough(i), p)>> \in E

InlinedAt(p, i, E) ==
    /\ <<Place(p, i), Place(Append(p, i), seq[i].target)>> \in E
    /\ nodes[Place(p, i)].stack_frame_prefix = Append(p, i)
    /\ Len(p) + 2 <= input.max_call_stack_frames

StepsAt(p, i, E) ==
    /\ nodes[Place(p, i)].op = OpAt(i) /\ nodes[Place(p, i)].target = seq[i].target
    /\ ExitAt(p, i, E) /\ JumpAt(p, i, E) /\ BranchIn(p, i, E)
    /\ IF seq[i].op = "call" /\ Place(p, i) \notin PendingSet THEN InlinedAt(p, i, E) ELSE FallAt(p, i, E)

Faithful(E) == \A p \in Seq(Int), i \in Indexes : Good(p, i) => StepsAt(p, i, E)

InlineInv ==
    /\ PendingInv /\ PristineInv
    /\ MainFirst => SpanInv /\ Faithful(edges)

-----------------------------------------------------------------------------
(***************************************************************************)
(* The call that is inlined next, when the main program gets to it.        *)
(***************************************************************************)
LEMMA PlaceIs ==
    ASSUME NEW p \in Seq(Int), NEW i \in Int
    PROVE  /\ Place(p, i) = LabelFull(i, -1, p) /\ Place(p, i) \in PlainLabels
           /\ Place(p, i).prefix = p /\ Place(p, i).from = i /\ Place(p, i).to = -1
           /\ Place(<<>>, i) = NewLabel(i)
           /\ Place(p, i) # ExitLabel
<1>1. NewLabel(i).from = i /\ NewLabel(i).to = -1 /\ NewLabel(i) \in PlainLabels
  BY LabelsApart
<1>2. Place(p, i) = LabelFull(i, -1, p) /\ Place(<<>>, i) = NewLabel(i)
  BY <1>1 DEF Place, Clone, NewLabel
<1>3. Place(p, i) \in PlainLabels /\ Place(p, i).prefix = p /\ Place(p, i).from = i /\ Place(p, i).to = -1
  BY <1>1, CloneIs DEF Place
<1>4. Place(p, i) # ExitLabel
  BY <1>3, LabelsApart
<1> QED BY <1>2, <1>3, <1>4

LEMMA FirstOfFrame ==
    ASSUME NEW h \in PlainLabels
    PROVE  /\ Root(h) \in Int /\ FrameOf(h)[1] = Root(h)
           /\ FrameOf(h) = Append(h.prefix, h.from)
           /\ FrameOf(h)[Len(FrameOf(h))] = h.from
           /\ SubSeq(FrameOf(h), 1, Len(FrameOf(h)) - 1) = h.prefix
<1> DEFINE q == h.prefix
           f == FrameOf(h)
<1>1. q \in Seq(Int) /\ h.from \in Int /\ f = Append(q, h.from)
  BY DEF PlainLabels, FrameOf
<1>2. Len(q) \in Nat /\ Len(f) = Len(q) + 1 /\ f[Len(q) + 1] = h.from
      /\ \A k \in 1 .. Len(q) : f[k] = q[k]
  BY <1>1
<1>3. CASE q = <<>>
  BY <1>1, <1>2, <1>3, SMTT(60) DEF Root
<1>4. CASE q # <<>>
  <2>1. 1 \in 1 .. Len(q)
    BY <1>1, <1>4
  <2>2. q[1] \in Int
    BY <1>1, <2>1
  <2>3. SubSeq(f, 1, Len(f) - 1) = q
    <3>1. f \in Seq(Int) /\ Len(f) - 1 = Len(q)
      BY <1>1, <1>2
    <3>2. SubSeq(f, 1, Len(q)) \in Seq(Int) /\ Len(SubSeq(f, 1, Len(q))) = Len(q)
          /\ \A k \in 1 .. Len(q) : SubSeq(f, 1, Len(q))[k] = f[k]
      BY <1>2, <3>1, SMTT(60)
    <3>3. \A k \in 1 .. Len(q) : SubSeq(f, 1, Len(q))[k] = q[k]
      BY <1>2, <3>2
    <3> HIDE DEF q, f
    <3> QED BY <1>1, <3>1, <3>2, <3>3, SeqEqual, SMTT(60)
  <2> QED BY <1>1, <1>2, <1>4, <2>1, <2>2, <2>3, SMTT(60) DEF Root
<1> QED BY <1>3, <1>4

HeadFacts(h) ==
    LET c == h.from
    IN  /\ h \in DOMAIN nodes /\ h.prefix \in Seq(Int) /\ c \in Indexes /\ seq[c].op = "call"
        /\ h = Place(h.prefix, c) /\ Good(h.prefix, c) /\ nodes[h].target = seq[c].target
        /\ Root(h) \in Indexes /\ seq[Root(h)].op = "call"
        /\ seq[c].target \in Span(Root(h))
        /\ h.prefix = <<>> => c = Root(h)

LEMMA HeadIs ==
    ASSUME InputOK, GraphInv, InlineInv, MainFirst, pending # <<>>, Root(Head(pending)) \in MainCalls
    PROVE  HeadFacts(Head(pending))
<1> DEFINE h == Head(pending)
           q == h.prefix
           r == Root(h)
<1>1. 1 \in DOMAIN pending /\ h = pending[1] /\ h \in DOMAIN nodes /\ nodes[h].op = "call"
  <2>1. pending \in Seq({l \in DOMAIN nodes : nodes[l].op = "call"})
    BY DEF GraphInv, PendingCalls
  <2> QED BY <2>1
<1> HIDE DEF h
<1>2. h \in PlainLabels /\ q \in Seq(Int) /\ h.to = -1 /\ TargetsIn /\ Indexes # {}
  BY <1>1 DEF GraphInv, GraphType, PlainLabels, CallNodes
<1>3. \A i \in Indexes : i \in Int
  BY DEF InputOK
<1>4. r \in MainCalls /\ r \in Main /\ r \in Indexes /\ seq[r].op = "call"
  BY <1>2, MainIs DEF h
<1>5. CASE q = <<>>
  <2>1. PICK i \in Indexes : h = NewLabel(i) /\ seq[i].op = "call"
    BY <1>1, <1>5 DEF InlineInv, PendingInv, LocalCalls
  <2>2. h.from = i /\ r = i
    BY <1>3, <1>5, <2>1, LabelsApart DEF Root
  <2>3. h = Place(q, i)
    BY <1>2, <1>3, <1>5, <2>1, PlaceIs
  <2>4. nodes[h].target = seq[i].target
    BY <2>1 DEF GraphInv, InstructionAt
  <2>5. Good(q, i)
    BY <1>1, <1>4, <1>5, <2>2, <2>3 DEF Good
  <2>6. seq[i].target \in Span(r)
    BY <1>2, <1>4, <2>2, SpanIs
  <2> QED BY <1>1, <1>2, <1>4, <2>1, <2>2, <2>3, <2>4, <2>5, <2>6, SMTT(60) DEF HeadFacts, h
<1>6. CASE q # <<>>
  <2>1. r = q[1]
    BY <1>6 DEF Root
  <2>2. PICK i \in Span(r) : \E m \in TopAt(i) : h = Clone(m, q)
    BY <1>1, <1>4, <1>6, <2>1 DEF InlineInv, SpanInv
  <2>3. PICK m \in TopAt(i) : h = Clone(m, q)
    BY <2>2
  <2>4. i \in Indexes /\ \A k \in Span(r) : Flow(k, TRUE) \subseteq Span(r)
    BY <1>2, <1>4, <2>2, SpanIs
  <2>5. m \in PlainLabels /\ (m.to = -1 => m = NewLabel(i))
    BY <1>2, <2>3, <2>4, TopAtIs
  <2>6. m = NewLabel(i)
    BY <1>2, <2>3, <2>5, CloneIs
  <2>7. h = Place(q, i) /\ h.from = i
    BY <1>2, <1>3, <2>3, <2>4, <2>6, PlaceIs DEF Place
  <2>8. Good(q, i)
    BY <1>1, <1>4, <1>6, <2>1, <2>2, <2>7 DEF Good
  <2>9. nodes[h].op = OpAt(i) /\ nodes[h].target = seq[i].target
    BY <1>2, <2>4, <2>7, <2>8 DEF InlineInv, Faithful, StepsAt
  <2>10. seq[i].op = "call"
    BY <1>1, <2>9 DEF OpAt
  <2>11. seq[i].target \in Span(r)
    BY <1>2, <2>2, <2>4, <2>10, FlowIs
  <2> QED BY <1>1, <1>2, <1>4, <1>6, <2>4, <2>7, <2>8, <2>9, <2>10, <2>11 DEF HeadFacts, h
<1> QED BY <1>5, <1>6

\* No call in the callee's zone has been inlined, so the walk sees the callee as it
\* is in the sequence.
LEMMA RegionIs ==
    ASSUME InputOK, GraphInv, InlineInv, MainFirst, NEW exit_to, NEW R \in SUBSET (DOMAIN nodes),
           InlineStep(Head(pending), exit_to, R), Root(Head(pending)) \in MainCalls
    PROVE  \A m \in R : \E i \in Span(Root(Head(pending))) : m \in TopAt(i) /\ Pristine(i)
<1> DEFINE h == Head(pending)
           r == Root(h)
           Z == Span(r)
           T == UNION {TopAt(i) : i \in Z}
           entry == NewLabel(nodes[h].target)
<1>1. pending # <<>> /\ Walked(h, entry, FrameOf(h), R)
  BY DEF InlineStep
<1>2. HeadFacts(h) /\ r \in MainCalls
  BY <1>1, HeadIs
<1>3. 1 \in DOMAIN pending /\ h = pending[1]
  BY <1>1 DEF GraphInv, PendingCalls
<1> HIDE DEF h
<1>4. r \in Indexes /\ seq[r].op = "call" /\ TargetsIn /\ Indexes # {}
  BY <1>2 DEF HeadFacts, GraphInv
<1>5. Z \in SUBSET Indexes /\ \A k \in Z : Flow(k, TRUE) \subseteq Z
  BY <1>4, SpanIs
<1>6. \A i \in Z : i \in Int /\ (seq[i].op = "call" => i > r)
  <2>1. \A i \in Z : i \in Int
    BY <1>5 DEF InputOK
  <2>2. ASSUME NEW i \in Z, seq[i].op = "call" PROVE i > r
    BY <1>2, <1>4, <2>2, CallsBehind
  <2> QED BY <2>1, <2>2
<1>7. ASSUME NEW i \in Z PROVE Pristine(i)
  <2>1. ASSUME seq[i].op = "call" PROVE NewLabel(i) \in PendingSet
    <3>1. i > r /\ i \in Int /\ r \in Int
      BY <1>4, <1>6, <2>1 DEF InputOK
    <3>2. ~ (i <= Root(pending[1]))
      BY <1>3, <3>1
    <3> QED BY <1>3, <1>5, <2>1, <3>2 DEF InlineInv, PendingInv
  <2> QED BY <1>5, <2>1 DEF InlineInv, PristineInv
<1>8. entry \in T
  BY <1>2, <1>5, TopAtIs, <1>4 DEF HeadFacts
<1>9. h \notin T
  <2>1. ASSUME NEW i \in Z, h \in TopAt(i) PROVE FALSE
    <3>1. h.prefix = <<>> /\ h.from = i
      BY <1>4, <1>5, <2>1, TopAtIs
    <3>2. i = r /\ i \in Int
      BY <1>2, <1>6, <3>1 DEF HeadFacts
    <3> QED BY <1>4, <1>6, <3>2
  <2> QED BY <2>1
<1>10. T \in SUBSET (DOMAIN nodes)
  <2>1. \A i \in Z : TopAt(i) \in SUBSET (DOMAIN nodes)
    BY <1>5 DEF GraphInv, InstructionAt, BranchAt, TopAt
  <2> QED BY <2>1
<1>11. ASSUME NEW m \in T, NEW x \in DOMAIN nodes \ {ExitLabel}, <<m, x>> \in edges
       PROVE  x \in T
  <2>1. PICK i \in Z : m \in TopAt(i)
    OBVIOUS
  <2>2. <<m, x>> \in EdgesFrom(i)
    <3>1. \A e \in edges : e[1] \in TopAt(i) => e \in EdgesFrom(i)
      BY <1>7 DEF Pristine
    <3> QED BY <1>11, <2>1, <3>1
  <2>3. x = ExitLabel \/ \E j \in Z : x \in TopAt(j)
    BY <1>4, <1>5, <2>2, EdgesStay, ZenonT(60)
  <2> QED BY <2>3
<1>12. R \subseteq T
  <2> HIDE DEF T, entry
  <2> QED BY <1>1, <1>8, <1>9, <1>10, <1>11 DEF Walked
<1>13. ASSUME NEW m \in R PROVE \E i \in Z : m \in TopAt(i) /\ Pristine(i)
  <2>1. PICK i \in Z : m \in TopAt(i)
    BY <1>12
  <2> QED BY <1>7, <2>1
<1> QED BY <1>13 DEF h

-----------------------------------------------------------------------------
(***************************************************************************)
(* What inlining a call does to the graph, and to what is pending.         *)
(***************************************************************************)
GraphStep(h, exit_to, R) ==
    LET f == FrameOf(h)
    IN  /\ h \in DOMAIN nodes
        /\ DOMAIN nodes' = DOMAIN nodes \cup {Clone(m, f) : m \in R}
        /\ \A l \in DOMAIN nodes : /\ l # h => nodes'[l] = nodes[l]
                                   /\ nodes'[l].op = nodes[l].op
                                   /\ nodes'[l].target = nodes[l].target
        /\ nodes'[h].stack_frame_prefix = f
        /\ \A m \in R : /\ Clone(m, f) \notin DOMAIN nodes
                        /\ nodes'[Clone(m, f)].op = nodes[m].op
                        /\ nodes'[Clone(m, f)].target = nodes[m].target
                        /\ nodes[m].op = "exit" => nodes'[Clone(m, f)].stack_frame_prefix = f
        /\ Len(h.prefix) + 2 <= input.max_call_stack_frames
        /\ input' = input /\ seq' = seq /\ Indexes' = Indexes

EdgeStep(h, exit_to, R) ==
    LET f == FrameOf(h)
    IN  /\ \A e \in edges : e[1] # h => e \in edges'
        /\ \A e \in edges' : e[1] \in DOMAIN nodes /\ e[1] # h => e \in edges
        /\ <<h, Clone(NewLabel(nodes[h].target), f)>> \in edges'
        /\ \A x : <<h, x>> \in edges => x = exit_to
        /\ \A m \in R, x \in DOMAIN nodes : <<m, x>> \in edges =>
              /\ <<Clone(m, f), IF x = ExitLabel THEN exit_to ELSE Clone(x, f)>> \in edges'
              /\ x # ExitLabel => x \in R
        /\ NewLabel(nodes[h].target) \in R

LEMMA StepIs ==
    ASSUME InputOK, GraphInv, NEW h, NEW exit_to \in DOMAIN nodes, NEW R \in SUBSET (DOMAIN nodes),
           InlineStep(h, exit_to, R)
    PROVE  GraphStep(h, exit_to, R) /\ EdgeStep(h, exit_to, R)
<1> DEFINE f == FrameOf(h)
<1>1. /\ h \in DOMAIN nodes
      /\ Walked(h, NewLabel(nodes[h].target), f, R)
      /\ Inlined(h, f, exit_to, R)
      /\ Children(h) = {exit_to} /\ ~ TooManyFrames(h)
      /\ UNCHANGED input
  BY DEF InlineStep
<1>2. /\ DOMAIN nodes' = DOMAIN nodes \cup {Clone(m, f) : m \in R}
      /\ \A l \in DOMAIN nodes : l # h => nodes'[l] = nodes[l]
      /\ nodes'[h] = [nodes[h] EXCEPT !.stack_frame_prefix = f]
      /\ \A m \in R : /\ Clone(m, f) \notin DOMAIN nodes
                      /\ nodes'[Clone(m, f)] = CloneNode(nodes[m], f)
  BY InlinedNodes, ZenonT(60)
<1>3. DOMAIN nodes \subseteq PlainLabels /\ f \in Seq(Int) /\ \A l \in DOMAIN nodes : nodes[l] \in NodeRecs
  BY <1>1, FrameIs, SMTT(60) DEF GraphInv, GraphType
<1>4. edges' = (edges \ {<<h, exit_to>>}) \cup {<<h, Clone(NewLabel(nodes[h].target), f)>>}
                \cup CloneEdges(R, f, exit_to)
  BY <1>1 DEF Inlined
<1>5. edges \subseteq (DOMAIN nodes) \X (DOMAIN nodes)
  BY DEF GraphInv, GraphType
<1> HIDE DEF f
<1>6. GraphStep(h, exit_to, R)
  <2>1. nodes'[h].stack_frame_prefix = f /\ nodes'[h].op = nodes[h].op /\ nodes'[h].target = nodes[h].target
    BY <1>1, <1>2, <1>3 DEF NodeRecs
  <2>2. \A l \in DOMAIN nodes : nodes'[l].op = nodes[l].op /\ nodes'[l].target = nodes[l].target
    BY <1>2, <2>1
  <2>3. \A m \in R : /\ nodes'[Clone(m, f)].op = nodes[m].op /\ nodes'[Clone(m, f)].target = nodes[m].target
                     /\ nodes[m].op = "exit" => nodes'[Clone(m, f)].stack_frame_prefix = f
    BY <1>2, <1>3, CloneNodeIs
  <2>4. Len(h.prefix) + 2 <= input.max_call_stack_frames
    <3>1. Len(h.prefix) \in Nat
      <4>1. h.prefix \in Seq(Int)
        BY <1>1, <1>3 DEF PlainLabels
      <4> QED BY <4>1
    <3> QED BY <1>1, <3>1 DEF TooManyFrames, InputOK
  <2>5. input' = input /\ seq' = seq /\ Indexes' = Indexes
    BY <1>1 DEF seq, Indexes
  <2> QED BY <1>1, <1>2, <2>1, <2>2, <2>3, <2>4, <2>5 DEF GraphStep, f
<1>7. EdgeStep(h, exit_to, R)
  <2>1. \A e \in edges : e[1] # h => e \in edges'
    BY <1>4
  <2>2. \A e \in edges' : e[1] \in DOMAIN nodes /\ e[1] # h => e \in edges
    <3>1. \A e \in CloneEdges(R, f, exit_to) : e[1] \notin DOMAIN nodes
      BY <1>2 DEF CloneEdges
    <3> QED BY <1>4, <3>1
  <2>3. <<h, Clone(NewLabel(nodes[h].target), f)>> \in edges'
    BY <1>4
  <2>4. \A x : <<h, x>> \in edges => x = exit_to
    <3>1. \A x : <<h, x>> \in edges => x \in Children(h)
      BY DEF Children
    <3> QED BY <1>1, <3>1
  <2>5. ASSUME NEW m \in R, NEW x \in DOMAIN nodes, <<m, x>> \in edges
        PROVE  /\ <<Clone(m, f), IF x = ExitLabel THEN exit_to ELSE Clone(x, f)>> \in edges'
               /\ x # ExitLabel => x \in R
    <3>1. x \in Children(m)
      BY <2>5 DEF Children
    <3>2. <<Clone(m, f), IF x = ExitLabel THEN exit_to ELSE Clone(x, f)>> \in CloneEdges(R, f, exit_to)
      BY <3>1 DEF CloneEdges
    <3>3. x # ExitLabel => x \in R
      BY <1>1, <2>5 DEF Walked, f
    <3> QED BY <1>4, <3>2, <3>3
  <2>6. NewLabel(nodes[h].target) \in R
    BY <1>1 DEF Walked
  <2> QED BY <2>1, <2>2, <2>3, <2>4, <2>5, <2>6 DEF EdgeStep, f
<1> QED BY <1>6, <1>7

NewCalls(h, R) == {Clone(m, FrameOf(h)) : m \in {x \in R : nodes[x].op = "call"}}

LEMMA PendingKept ==
    ASSUME InputOK, GraphInv, PendingInv, NEW exit_to \in DOMAIN nodes, NEW R \in SUBSET (DOMAIN nodes),
           InlineStep(Head(pending), exit_to, R)
    PROVE  /\ PendingSet' = (PendingSet \ {Head(pending)}) \cup NewCalls(Head(pending), R)
           /\ PendingInv'
<1> DEFINE h == Head(pending)
           f == FrameOf(h)
           n == Len(pending)
<1>1. GraphStep(h, exit_to, R) /\ pending # <<>>
  BY StepIs DEF InlineStep
<1>2. PICK cl : ClonedCalls(R, f, cl)
  BY InlinedNodes
<1>3. /\ cl \in Seq(NewCalls(h, R)) /\ pending' = cl \o Tail(pending)
      /\ \A x \in NewCalls(h, R) : \E k \in DOMAIN cl : cl[k] = x
      /\ \A j, k \in DOMAIN cl : cl[j] = cl[k] => j = k
  BY <1>2 DEF ClonedCalls, NewCalls
<1>4. /\ n \in Nat /\ DOMAIN pending = 1 .. n /\ 1 \in 1 .. n
      /\ \A k \in 1 .. n : pending[k] \in DOMAIN nodes
      /\ Tail(pending) \in Seq(DOMAIN nodes) /\ Len(Tail(pending)) = n - 1
      /\ \A k \in 1 .. n - 1 : Tail(pending)[k] = pending[k + 1]
      /\ h = pending[1]
  <2> DEFINE Q == {l \in DOMAIN nodes : nodes[l].op = "call"}
  <2>1. pending \in Seq(Q) /\ Q \subseteq DOMAIN nodes
    BY DEF GraphInv, PendingCalls
  <2> HIDE DEF Q
  <2>2. pending \in Seq(DOMAIN nodes)
    BY <2>1
  <2> QED BY <1>1, <2>2
<1>5. \A x \in NewCalls(h, R) : x \notin DOMAIN nodes /\ Root(x) = Root(h) /\ x.prefix # <<>>
  <2>1. h \in PlainLabels /\ f \in Seq(Int) /\ f # <<>> /\ R \subseteq PlainLabels
    BY <1>1, FrameIs, SMTT(60) DEF GraphInv, GraphType, GraphStep
  <2>2. f[1] = Root(h)
    BY <2>1, FirstOfFrame
  <2>3. ASSUME NEW m \in R PROVE Clone(m, f) \notin DOMAIN nodes /\ Root(Clone(m, f)) = Root(h)
                                     /\ Clone(m, f).prefix # <<>>
    <3>1. Clone(m, f) \notin DOMAIN nodes
      BY <1>1 DEF GraphStep
    <3>2. Clone(m, f).prefix = f
      <4> HIDE DEF f
      <4> QED BY <2>1, CloneIs
    <3> HIDE DEF f
    <3> QED BY <2>1, <2>2, <3>1, <3>2 DEF Root
  <2> HIDE DEF h
  <2> QED BY <2>3 DEF NewCalls
<1>6. h \in PlainLabels /\ \A k \in 1 .. n : Root(pending[k]) \in Int
  <2>1. \A k \in 1 .. n : pending[k] \in PlainLabels
    BY <1>4 DEF GraphInv, GraphType
  <2> HIDE DEF h, n
  <2> QED BY <1>4, <2>1, FirstOfFrame
<1>7. /\ \A j, k \in 1 .. n : pending[j] = pending[k] => j = k
      /\ \A j, k \in 1 .. n : j < k => Root(pending[j]) <= Root(pending[k])
      /\ \A k \in 1 .. n : pending[k].prefix = <<>> => pending[k] \in LocalCalls
      /\ \A d \in Indexes : seq[d].op = "call" =>
            NewLabel(d) \in PendingSet \/ \A k \in 1 .. n : d <= Root(pending[k])
  BY <1>4, SMTT(60) DEF PendingInv
<1> DEFINE a == Len(cl)
           q == pending'
<1>8. /\ a \in Nat /\ DOMAIN cl = 1 .. a /\ \A k \in 1 .. a : cl[k] \in NewCalls(h, R)
  BY <1>3
<1> HIDE DEF h, f, n
<1>9. /\ DOMAIN q = 1 .. (a + n - 1)
      /\ \A k \in 1 .. a : q[k] = cl[k]
      /\ \A k \in (a + 1) .. (a + n - 1) : q[k] = pending[k - a + 1]
  <2>1. /\ Len(cl \o Tail(pending)) = a + (n - 1)
        /\ \A k \in 1 .. a : (cl \o Tail(pending))[k] = cl[k]
        /\ \A k \in (a + 1) .. (a + (n - 1)) : (cl \o Tail(pending))[k] = Tail(pending)[k - a]
        /\ DOMAIN (cl \o Tail(pending)) = 1 .. Len(cl \o Tail(pending))
    <3> DEFINE S == NewCalls(h, R) \cup DOMAIN nodes
               t == Tail(pending)
    <3>1. cl \in Seq(S) /\ t \in Seq(S)
      BY <1>3, <1>4
    <3>2. Len(t) = n - 1 /\ Len(cl) = a
      BY <1>4 DEF a
    <3> HIDE DEF S, t
    <3>3. /\ Len(cl \o t) = Len(cl) + Len(t)
          /\ \A k \in 1 .. Len(cl) : (cl \o t)[k] = cl[k]
          /\ \A k \in (Len(cl) + 1) .. (Len(cl) + Len(t)) : (cl \o t)[k] = t[k - Len(cl)]
          /\ cl \o t \in Seq(S)
      BY <3>1
    <3>4. DOMAIN (cl \o t) = 1 .. Len(cl \o t)
      BY <3>3
    <3> QED BY <3>2, <3>3, <3>4 DEF t
  <2>2. \A k \in (a + 1) .. (a + (n - 1)) : k - a \in 1 .. n - 1
    BY <1>4, <1>8
  <2>3. \A k \in (a + 1) .. (a + (n - 1)) : Tail(pending)[k - a] = pending[(k - a) + 1]
    BY <1>4, <2>2
  <2>4. a + (n - 1) = a + n - 1 /\ \A k \in (a + 1) .. (a + (n - 1)) : (k - a) + 1 = k - a + 1
    BY <1>4, <1>8
  <2> QED BY <1>3, <2>1, <2>3, <2>4
<1> HIDE DEF a, q
<1>10. \A k \in (a + 1) .. (a + n - 1) : k - a + 1 \in 2 .. n
  BY <1>4, <1>8
<1>11. \A k \in 1 .. (a + n - 1) : k \in 1 .. a \/ k \in (a + 1) .. (a + n - 1)
  BY <1>4, <1>8
<1>12. \A k \in 2 .. n : k \in 1 .. n /\ pending[k] # h /\ pending[k] \in DOMAIN nodes
                          /\ Root(h) <= Root(pending[k])
  BY <1>4, <1>7
<1>13. PendingSet' = (PendingSet \ {h}) \cup NewCalls(h, R)
  <2>1. PendingSet' = {q[k] : k \in 1 .. (a + n - 1)}
    BY <1>9 DEF PendingSet, q
  <2>2. \A k \in 1 .. (a + n - 1) : q[k] \in (PendingSet \ {h}) \cup NewCalls(h, R)
    BY <1>4, <1>8, <1>9, <1>10, <1>11, <1>12, SMTT(60) DEF PendingSet
  <2>3. ASSUME NEW x \in PendingSet \ {h} PROVE \E k \in 1 .. (a + n - 1) : q[k] = x
    <3>1. PICK k \in 2 .. n : x = pending[k]
      <4>1. PICK k \in 1 .. n : x = pending[k]
        BY <1>4 DEF PendingSet
      <4>2. k # 1
        BY <1>4, <4>1
      <4> QED BY <1>4, <4>1, <4>2
    <3>2. k + a - 1 \in (a + 1) .. (a + n - 1) /\ (k + a - 1) - a + 1 = k
          /\ k + a - 1 \in 1 .. (a + n - 1)
      BY <1>4, <1>8, SMTT(60)
    <3> QED BY <1>9, <3>1, <3>2
  <2>4. ASSUME NEW x \in NewCalls(h, R) PROVE \E k \in 1 .. (a + n - 1) : q[k] = x
    <3>1. PICK k \in 1 .. a : cl[k] = x
      BY <1>3, <1>8
    <3>2. k \in 1 .. (a + n - 1)
      BY <1>4, <1>8
    <3> QED BY <1>9, <3>1, <3>2
  <2> QED BY <2>1, <2>2, <2>3, <2>4
<1>14. \A k \in 1 .. (a + n - 1) : /\ Root(q[k]) \in Int /\ Root(h) <= Root(q[k])
                                   /\ k \in 1 .. a => Root(q[k]) = Root(h)
  <2>1. Root(h) \in Int
    BY <1>4, <1>6
  <2>2. \A k \in 1 .. a : Root(q[k]) = Root(h)
    BY <1>5, <1>8, <1>9
  <2>3. \A k \in (a + 1) .. (a + n - 1) : Root(q[k]) \in Int /\ Root(h) <= Root(q[k]) /\ k \notin 1 .. a
    BY <1>6, <1>8, <1>9, <1>10, <1>12
  <2> QED BY <1>11, <2>1, <2>2, <2>3
<1>15. \A j, k \in DOMAIN q : q[j] = q[k] => j = k
  <2>1. ASSUME NEW j \in 1 .. (a + n - 1), NEW k \in 1 .. (a + n - 1), q[j] = q[k] PROVE j = k
    <3>1. CASE j \in 1 .. a /\ k \in 1 .. a
      BY <1>3, <1>8, <1>9, <2>1, <3>1, SMTT(60)
    <3>2. CASE j \in (a + 1) .. (a + n - 1) /\ k \in (a + 1) .. (a + n - 1)
      <4>1. j - a + 1 = k - a + 1
        BY <1>7, <1>9, <1>10, <1>12, <2>1, <3>2
      <4> QED BY <1>8, <3>2, <4>1
    <3>3. \A x \in 1 .. a, y \in (a + 1) .. (a + n - 1) : q[x] # q[y]
      BY <1>5, <1>8, <1>9, <1>10, <1>12, SMTT(60)
    <3> QED BY <1>11, <2>1, <3>1, <3>2, <3>3
  <2> QED BY <1>9, <2>1
<1>16. \A j, k \in DOMAIN q : j < k => Root(q[j]) <= Root(q[k])
  <2>1. ASSUME NEW j \in 1 .. (a + n - 1), NEW k \in 1 .. (a + n - 1), j < k
        PROVE  Root(q[j]) <= Root(q[k])
    <3>1. CASE j \in 1 .. a
      BY <1>14, <3>1
    <3>2. CASE j \in (a + 1) .. (a + n - 1)
      <4>1. k \in (a + 1) .. (a + n - 1) /\ j - a + 1 < k - a + 1
        BY <1>8, <1>11, <2>1, <3>2
      <4>2. Root(pending[j - a + 1]) <= Root(pending[k - a + 1])
        BY <1>7, <1>10, <1>12, <3>2, <4>1
      <4> QED BY <1>9, <3>2, <4>1, <4>2
    <3> QED BY <1>11, <3>1, <3>2
  <2> QED BY <1>9, <2>1
<1>17. \A k \in DOMAIN q : q[k].prefix = <<>> => q[k] \in LocalCalls
  BY <1>5, <1>7, <1>8, <1>9, <1>10, <1>11, <1>12
<1>18. ASSUME NEW d \in Indexes, seq[d].op = "call"
       PROVE  NewLabel(d) \in PendingSet' \/ \A k \in DOMAIN q : d <= Root(q[k])
  <2>1. d \in Int /\ Root(h) \in Int
    BY <1>4, <1>6 DEF InputOK
  <2>2. NewLabel(d) \notin PendingSet' => d <= Root(h)
    <3>1. CASE NewLabel(d) = h
      BY <2>1, <3>1, LabelsApart, SMTT(60) DEF Root
    <3>2. CASE NewLabel(d) # h
      BY <1>4, <1>7, <1>13, <1>18, <3>2, SMTT(60)
    <3> QED BY <3>1, <3>2
  <2>3. d <= Root(h) => \A k \in 1 .. (a + n - 1) : d <= Root(q[k])
    BY <1>14, <2>1
  <2> QED BY <1>9, <2>2, <2>3, SMTT(60)
<1>19. LocalCalls' = LocalCalls /\ Indexes' = Indexes /\ seq' = seq
  BY <1>1 DEF GraphStep, LocalCalls
<1>20. PendingInv'
  BY <1>15, <1>16, <1>17, <1>18, <1>19, SMTT(60) DEF PendingInv, q
<1> QED BY <1>13, <1>20 DEF h

-----------------------------------------------------------------------------
(***************************************************************************)
(* What only depends on the sequence.                                      *)
(***************************************************************************)
LEMMA SequenceParts ==
    ASSUME UNCHANGED input
    PROVE  /\ seq' = seq /\ Indexes' = Indexes
           /\ \A i : /\ IsLast(i)' = IsLast(i) /\ Fallthrough(i)' = Fallthrough(i)
                     /\ Splits(i)' = Splits(i) /\ Taken(i)' = Taken(i) /\ NotTaken(i)' = NotTaken(i)
                     /\ TopAt(i)' = TopAt(i) /\ EdgesFrom(i)' = EdgesFrom(i) /\ OpAt(i)' = OpAt(i)
<1>1. seq' = seq /\ Indexes' = Indexes
  BY DEF seq, Indexes
<1>2. \A i : IsLast(i)' = IsLast(i)
  BY <1>1 DEF IsLast
<1>3. \A i : Fallthrough(i)' = Fallthrough(i)
  BY <1>1 DEF IsLast, Fallthrough
<1>4. \A i : Splits(i)' = Splits(i) /\ Taken(i)' = Taken(i) /\ NotTaken(i)' = NotTaken(i)
  BY <1>1, <1>3 DEF Splits, Taken, NotTaken
<1>5. \A i : TopAt(i)' = TopAt(i)
  BY <1>4 DEF TopAt
<1>6. \A i : EdgesFrom(i)' = EdgesFrom(i)
  BY <1>1, <1>3, <1>4 DEF EdgesFrom
<1>7. \A i : OpAt(i)' = OpAt(i)
  BY <1>1 DEF OpAt
<1> QED BY <1>1, <1>2, <1>3, <1>4, <1>5, <1>6, <1>7, SMTT(60)

LEMMA ZoneParts ==
    ASSUME UNCHANGED input
    PROVE  /\ Main' = Main /\ MainCalls' = MainCalls /\ \A c : Span(c)' = Span(c)
           /\ MainFirst' = MainFirst
<1>1. seq' = seq /\ Indexes' = Indexes
  BY DEF seq, Indexes
<1>2. \A i, across : Leads(i, across)' = Leads(i, across)
  BY <1>1 DEF Leads, Fallthrough, IsLast
<1>3. \A k, across : Flow(k, across)' = Flow(k, across)
  BY <1>1 DEF Flow, Fallthrough, IsLast
<1>4. \A i, across, Z : IsZone(i, across, Z)' = IsZone(i, across, Z)
  BY <1>1, <1>2, <1>3 DEF IsZone, LocalCallsIn
<1>5. \A i, across : Zone(i, across)' = Zone(i, across)
  BY <1>4 DEF Zone
<1>6. Main' = Main /\ MainCalls' = MainCalls /\ \A c : Span(c)' = Span(c)
  BY <1>1, <1>5 DEF Main, MainCalls, Span, LocalCallsIn, FirstIndex
<1>7. MainFirst' = MainFirst
  BY <1>1, <1>2 DEF MainFirst
<1> QED BY <1>6, <1>7

-----------------------------------------------------------------------------
(***************************************************************************)
(* Inlining a call keeps the rest of the sequence's graph, and clones      *)
(* within the span.                                                        *)
(***************************************************************************)
LEMMA PristineKept ==
    ASSUME InputOK, GraphInv, PendingInv, PristineInv, NEW exit_to \in DOMAIN nodes,
           NEW R \in SUBSET (DOMAIN nodes), InlineStep(Head(pending), exit_to, R)
    PROVE  PristineInv'
<1> DEFINE h == Head(pending)
<1>1. GraphStep(h, exit_to, R) /\ EdgeStep(h, exit_to, R) /\ nodes[h].op = "call"
  BY StepIs DEF InlineStep
<1>2. PendingSet' = (PendingSet \ {h}) \cup NewCalls(h, R)
  BY PendingKept
<1> HIDE DEF h
<1>3. \A x \in NewCalls(h, R) : x \notin DOMAIN nodes
  BY <1>1 DEF NewCalls, GraphStep
<1>4. UNCHANGED input /\ seq' = seq /\ Indexes' = Indexes
  BY <1>1 DEF GraphStep
<1>5. ASSUME NEW i \in Indexes, seq[i].op = "call" => NewLabel(i) \in PendingSet'
      PROVE  Pristine(i)'
  <2>1. NewLabel(i) \in DOMAIN nodes /\ nodes[NewLabel(i)].op = OpAt(i)
        /\ (Splits(i) => /\ Taken(i) \in DOMAIN nodes /\ nodes[Taken(i)].op = "assume"
                         /\ NotTaken(i) \in DOMAIN nodes /\ nodes[NotTaken(i)].op = "assume_not")
    BY DEF GraphInv, InstructionAt, BranchAt
  <2>2. seq[i].op = "call" => NewLabel(i) \in PendingSet /\ NewLabel(i) # h /\ ~ Splits(i)
    BY <1>2, <1>3, <1>5, <2>1, SMTT(60) DEF Splits
  <2>3. seq[i].op # "call" => nodes[NewLabel(i)].op # "call"
    BY <2>1 DEF OpAt
  <2>4. h \notin TopAt(i) /\ TopAt(i) \subseteq DOMAIN nodes
    BY <1>1, <2>1, <2>2, <2>3 DEF TopAt
  <2>5. Pristine(i)
    BY <2>2 DEF PristineInv
  <2>6. \A e \in EdgesFrom(i) : e[1] \in TopAt(i)
    <3>1. TargetsIn /\ i \in Indexes
      BY DEF GraphInv
    <3>2. \A k \in Indexes : Flow(k, TRUE) \subseteq Indexes
      BY <3>1, FlowIs
    <3> HIDE DEF Indexes
    <3> QED BY <3>1, <3>2, EdgesStay
  <2>7. (\A e \in edges' : e[1] \in TopAt(i) => e \in EdgesFrom(i)) /\ EdgesFrom(i) \subseteq edges'
    BY <1>1, <2>4, <2>5, <2>6 DEF Pristine, EdgeStep
  <2> QED BY <1>4, <2>7, SequenceParts DEF Pristine
<1> QED BY <1>4, <1>5, SequenceParts DEF PristineInv

LEMMA SpanKept ==
    ASSUME InputOK, GraphInv, InlineInv, MainFirst, NEW exit_to \in DOMAIN nodes,
           NEW R \in SUBSET (DOMAIN nodes), InlineStep(Head(pending), exit_to, R)
    PROVE  SpanInv'
<1> DEFINE h == Head(pending)
           f == FrameOf(h)
<1>1. GraphStep(h, exit_to, R)
  BY StepIs
<1>2. h \in PlainLabels /\ R \subseteq PlainLabels
  BY <1>1 DEF GraphStep, GraphInv, GraphType
<1>3. f \in Seq(Int) /\ f[1] = Root(h)
  BY <1>2, FrameIs, FirstOfFrame
<1>4. Root(h) \in MainCalls => \A m \in R : \E i \in Span(Root(h)) : m \in TopAt(i)
  BY RegionIs
<1> HIDE DEF h, f
<1>5. UNCHANGED input /\ DOMAIN nodes' = DOMAIN nodes \cup {Clone(m, f) : m \in R}
  BY <1>1 DEF GraphStep, f
<1>6. ASSUME NEW l \in DOMAIN nodes', l.prefix # <<>>, l.prefix[1] \in MainCalls
      PROVE  \E i \in Span(l.prefix[1]) : \E m \in TopAt(i) : l = Clone(m, l.prefix)
  <2>1. CASE l \in DOMAIN nodes
    BY <1>6, <2>1 DEF InlineInv, SpanInv
  <2>2. ASSUME NEW m \in R, l = Clone(m, f)
        PROVE \E i \in Span(l.prefix[1]) : \E x \in TopAt(i) : l = Clone(x, l.prefix)
    <3>1. l.prefix = f
      BY <1>2, <1>3, <2>2, CloneIs
    <3> QED BY <1>3, <1>4, <1>6, <2>2, <3>1, SMTT(60)
  <2> QED BY <1>5, <2>1, <2>2
<1> QED BY <1>5, <1>6, SequenceParts, ZoneParts DEF SpanInv

(***************************************************************************)
(* The instructions that were in the graph before keep their steps; the    *)
(* call that is inlined gets its step into the callee.                     *)
(***************************************************************************)
LEMMA OldStepsKept ==
    ASSUME InputOK, GraphInv, InlineInv, MainFirst, NEW exit_to \in DOMAIN nodes,
           NEW R \in SUBSET (DOMAIN nodes), InlineStep(Head(pending), exit_to, R),
           NEW p \in Seq(Int), NEW i \in Indexes, Good(p, i)
    PROVE  StepsAt(p, i, edges)'
<1> DEFINE h == Head(pending)
           L == Place(p, i)
<1>1. GraphStep(h, exit_to, R) /\ EdgeStep(h, exit_to, R) /\ nodes[h].op = "call"
  BY StepIs DEF InlineStep
<1>2. PendingSet' = (PendingSet \ {h}) \cup NewCalls(h, R)
  BY PendingKept DEF InlineInv
<1> HIDE DEF h
<1>3. \A x \in NewCalls(h, R) : x \notin DOMAIN nodes
  BY <1>1 DEF NewCalls, GraphStep
<1>4. UNCHANGED input /\ seq' = seq /\ Indexes' = Indexes
  BY <1>1 DEF GraphStep
<1>5. StepsAt(p, i, edges)
  BY DEF InlineInv, Faithful
<1>6. L \in DOMAIN nodes /\ nodes[L].op = OpAt(i) /\ nodes[L].target = seq[i].target
  BY <1>5 DEF StepsAt, Good
<1>7. L = h <=> L = h /\ seq[i].op = "call"
  BY <1>1, <1>6 DEF OpAt
<1>8. L # h => nodes'[L] = nodes[L] /\ \A x : <<L, x>> \in edges => <<L, x>> \in edges'
  BY <1>1, <1>6 DEF GraphStep, EdgeStep
<1>9. nodes'[L].op = OpAt(i) /\ nodes'[L].target = seq[i].target
  BY <1>1, <1>6 DEF GraphStep
<1>10. ExitAt(p, i, edges)'
  <2>1. seq[i].op = "exit" => L # h
    BY <1>7
  <2> QED BY <1>4, <1>5, <1>8, <2>1, SequenceParts DEF StepsAt, ExitAt, Place
<1>11. JumpAt(p, i, edges)'
  <2>1. seq[i].op = "jump" => L # h
    BY <1>7
  <2> QED BY <1>4, <1>5, <1>8, <2>1 DEF StepsAt, JumpAt, Place
<1>12. BranchIn(p, i, edges)'
  <2>1. Splits(i) => L # h
    BY <1>7 DEF Splits
  <2>2. Splits(i) => \A x \in {Clone(Taken(i), p), Clone(NotTaken(i), p)} :
                        /\ x \in DOMAIN nodes' /\ nodes'[x].op = nodes[x].op
                        /\ \A y : <<x, y>> \in edges => <<x, y>> \in edges'
    <3> SUFFICES ASSUME Splits(i), NEW x \in {Clone(Taken(i), p), Clone(NotTaken(i), p)}
                 PROVE /\ x \in DOMAIN nodes' /\ nodes'[x].op = nodes[x].op
                       /\ \A y : <<x, y>> \in edges => <<x, y>> \in edges'
      OBVIOUS
    <3>1. x \in DOMAIN nodes /\ nodes[x].op \in {"assume", "assume_not"}
      BY <1>5 DEF StepsAt, BranchIn
    <3>2. x # h
      BY <1>1, <3>1
    <3> QED BY <1>1, <3>1, <3>2 DEF GraphStep, EdgeStep
  <2> QED BY <1>4, <1>5, <1>8, <2>1, <2>2, SequenceParts DEF StepsAt, BranchIn, Place
<1>13. CASE L = h
  <2>1. seq[i].op = "call" /\ L \notin PendingSet'
    BY <1>2, <1>3, <1>6, <1>7, <1>13
  <2>2. h \in PlainLabels /\ i \in Int
    BY <1>6, <1>13 DEF GraphInv, GraphType, InputOK
  <2>3. h.prefix = p /\ h.from = i
    BY <1>13, <2>2, PlaceIs
  <2>4. FrameOf(h) = Append(p, i)
    BY <2>2, <2>3, FirstOfFrame
  <2>5. InlinedAt(p, i, edges)'
    BY <1>1, <1>4, <1>6, <1>13, <2>3, <2>4 DEF InlinedAt, Place, GraphStep, EdgeStep
  <2> QED BY <1>4, <1>9, <1>10, <1>11, <1>12, <2>1, <2>5, SequenceParts, SMTT(60) DEF StepsAt, Place
<1>14. CASE L # h
  <2>1. L \in PendingSet' <=> L \in PendingSet
    BY <1>2, <1>3, <1>6, <1>14
  <2>2. InlinedAt(p, i, edges) => InlinedAt(p, i, edges)'
    BY <1>4, <1>8, <1>14 DEF InlinedAt, Place
  <2>3. FallAt(p, i, edges) => FallAt(p, i, edges)'
    BY <1>4, <1>8, <1>14, SequenceParts DEF FallAt, Place
  <2> QED BY <1>4, <1>5, <1>9, <1>10, <1>11, <1>12, <2>1, <2>2, <2>3, SequenceParts, SMTT(60) DEF StepsAt, Place
<1> QED BY <1>13, <1>14

(***************************************************************************)
(* The clones have the steps of what they are cloned from, and their exits *)
(* return behind the call.                                                 *)
(***************************************************************************)
LEMMA NewSteps ==
    ASSUME InputOK, GraphInv, InlineInv, MainFirst, NEW exit_to \in DOMAIN nodes,
           NEW R \in SUBSET (DOMAIN nodes), InlineStep(Head(pending), exit_to, R),
           NEW p \in Seq(Int), NEW i \in Indexes, Good(p, i)', Place(p, i) \notin DOMAIN nodes
    PROVE  StepsAt(p, i, edges)'
<1> DEFINE h == Head(pending)
           f == FrameOf(h)
           L == Place(p, i)
           N == NewLabel(i)
<1>1. /\ GraphStep(h, exit_to, R) /\ EdgeStep(h, exit_to, R) /\ nodes[h].op = "call"
      /\ pending # <<>>
  BY StepIs DEF InlineStep
<1>2. PendingSet' = (PendingSet \ {h}) \cup NewCalls(h, R) /\ h \in PendingSet
  <2>1. 1 \in DOMAIN pending /\ h = pending[1]
    BY <1>1 DEF GraphInv, PendingCalls
  <2> QED BY <2>1, PendingKept DEF InlineInv, PendingSet
<1>3. h \in PlainLabels /\ R \subseteq PlainLabels
  BY <1>1 DEF GraphStep, GraphInv, GraphType
<1>4. f \in Seq(Int) /\ f[1] = Root(h) /\ f # <<>> /\ f[Len(f)] = h.from
      /\ SubSeq(f, 1, Len(f) - 1) = h.prefix
  <2> HIDE DEF h
  <2> QED BY <1>3, FrameIs, FirstOfFrame
<1>5. TargetsIn /\ Indexes # {} /\ i \in Int
  BY DEF GraphInv, InputOK
<1>6. UNCHANGED input /\ seq' = seq /\ Indexes' = Indexes
  BY <1>1 DEF GraphStep
<1>7. PICK m \in R : L = Clone(m, f)
  <2>1. L \in DOMAIN nodes'
    BY DEF Good, Place, Clone, NewLabel, LabelFull
  <2> QED BY <1>1, <2>1 DEF GraphStep
<1>8. p = f /\ m.from = i /\ m.to = -1
  <2>1. L.prefix = p /\ L.from = i /\ L.to = -1
    BY <1>5, PlaceIs
  <2>2. L.prefix = f /\ L.from = m.from /\ L.to = m.to
    <3> HIDE DEF f, L
    <3> QED BY <1>3, <1>4, <1>7, CloneIs, SMTT(60)
  <2> QED BY <2>1, <2>2
<1>9. Root(h) \in MainCalls
  BY <1>4, <1>6, <1>8, ZoneParts DEF Good
<1>10. HeadFacts(h)
  BY <1>1, <1>9, HeadIs
<1>11. PICK j \in Span(Root(h)) : m \in TopAt(j) /\ Pristine(j)
  BY <1>9, RegionIs
<1>12. m = N /\ j = i
  <2>1. j \in Indexes
    BY <1>5, <1>10, <1>11, SpanIs DEF HeadFacts
  <2>2. m.from = j /\ (m.to = -1 => m = NewLabel(j))
    BY <1>5, <1>11, <2>1, TopAtIs
  <2> QED BY <1>8, <2>2
<1>13. EdgesFrom(i) \subseteq edges /\ N \in R /\ L = Clone(N, f)
  BY <1>7, <1>11, <1>12 DEF Pristine
<1>14. N \in DOMAIN nodes /\ nodes[N].op = OpAt(i) /\ nodes[N].target = seq[i].target
  BY DEF GraphInv, InstructionAt
<1> HIDE DEF h, f, N, L
\* Where the call's own continuation is.
<1>15. IsLast(h.from) \/ exit_to = Clone(Fallthrough(h.from), h.prefix)
  <2>1. StepsAt(h.prefix, h.from, edges)
    BY <1>10 DEF HeadFacts, InlineInv, Faithful
  <2>2. FallAt(h.prefix, h.from, edges)
    BY <1>2, <1>10, <2>1 DEF StepsAt, HeadFacts
  <2>3. seq[h.from].op \notin {"exit", "jump"} /\ ~ Splits(h.from)
    BY <1>10 DEF HeadFacts, Splits
  <2>4. IsLast(h.from) \/ <<h, Clone(Fallthrough(h.from), h.prefix)>> \in edges
    BY <1>10, <2>2, <2>3, SMTT(60) DEF FallAt, HeadFacts
  <2> QED BY <1>1, <2>4 DEF EdgeStep
<1>16. \A a, x \in DOMAIN nodes : a \in R /\ <<a, x>> \in EdgesFrom(i) =>
          /\ x = ExitLabel => <<Clone(a, f), exit_to>> \in edges'
          /\ x # ExitLabel => <<Clone(a, f), Clone(x, f)>> \in edges' /\ x \in R
  BY <1>1, <1>13 DEF EdgeStep, f
<1>17. nodes'[L].op = OpAt(i) /\ nodes'[L].target = seq[i].target
       /\ (nodes[N].op = "exit" => nodes'[L].stack_frame_prefix = f)
  BY <1>1, <1>13, <1>14, SMTT(60) DEF GraphStep, f
<1>18. \A k \in Indexes : NewLabel(k) \in DOMAIN nodes /\ NewLabel(k) # ExitLabel
  BY NewLabelApart DEF GraphInv, InstructionAt
<1>19. ExitLabel \in DOMAIN nodes /\ (IsLast(i) \/ (Fallthrough(i) \in DOMAIN nodes /\ Fallthrough(i) # ExitLabel))
  <2>1. ExitLabel \in DOMAIN nodes
    BY DEF GraphInv
  <2>2. ~ IsLast(i) => Fallthrough(i) \in DOMAIN nodes /\ Fallthrough(i) # ExitLabel
    BY <1>18, FallsTo
  <2> QED BY <2>1, <2>2
<1>20. ExitAt(p, i, edges)'
  <2>1. SUFFICES ASSUME seq[i].op = "exit"
                 PROVE /\ nodes'[L].stack_frame_prefix = f
                       /\ IsLast(f[Len(f)])
                          \/ <<L, Clone(Fallthrough(f[Len(f)]), SubSeq(f, 1, Len(f) - 1))>> \in edges'
    BY <1>4, <1>6, <1>8, SequenceParts DEF ExitAt, L, Place
  <2>2. nodes[N].op = "exit"
    BY <1>14, <2>1 DEF OpAt
  <2>3. <<N, ExitLabel>> \in EdgesFrom(i)
    BY <2>1, EdgesFromIs DEF N
  <2>4. <<L, exit_to>> \in edges'
    BY <1>13, <1>14, <1>16, <1>19, <2>3
  <2> QED BY <1>4, <1>15, <1>17, <2>2, <2>4
<1>21. JumpAt(p, i, edges)'
  <2>1. SUFFICES ASSUME seq[i].op = "jump" PROVE <<L, Place(f, seq[i].target)>> \in edges'
    BY <1>6, <1>8 DEF JumpAt, L, Place
  <2>2. <<N, NewLabel(seq[i].target)>> \in EdgesFrom(i) /\ seq[i].target \in Indexes
    BY <1>5, <2>1, EdgesFromIs DEF N, TargetsIn
  <2> QED BY <1>13, <1>14, <1>16, <1>18, <2>2 DEF Place
<1>22. BranchIn(p, i, edges)'
  <2> DEFINE T == Taken(i)
             F == NotTaken(i)
  <2>1. SUFFICES ASSUME Splits(i)
                 PROVE /\ Clone(T, f) \in DOMAIN nodes' /\ nodes'[Clone(T, f)].op = "assume"
                       /\ Clone(F, f) \in DOMAIN nodes' /\ nodes'[Clone(F, f)].op = "assume_not"
                       /\ <<L, Clone(T, f)>> \in edges' /\ <<Clone(T, f), Place(f, seq[i].target)>> \in edges'
                       /\ <<L, Clone(F, f)>> \in edges'
                       /\ IsLast(i) \/ <<Clone(F, f), Clone(Fallthrough(i), f)>> \in edges'
    BY <1>6, <1>8, SequenceParts, SMTT(60) DEF BranchIn, L, Place
  <2>2. seq[i].target \in Indexes
    BY <1>5, <2>1 DEF Splits, TargetsIn
  <2>3. T # ExitLabel /\ F # ExitLabel
    BY <2>1, <2>2, BranchLabels
  <2>4. T \in DOMAIN nodes /\ nodes[T].op = "assume" /\ F \in DOMAIN nodes /\ nodes[F].op = "assume_not"
    BY <2>1 DEF GraphInv, BranchAt
  <2>5. /\ <<N, T>> \in EdgesFrom(i) /\ <<T, NewLabel(seq[i].target)>> \in EdgesFrom(i)
        /\ <<N, F>> \in EdgesFrom(i) /\ <<F, Fallthrough(i)>> \in EdgesFrom(i)
    BY <2>1, EdgesFromIs DEF N
  <2> HIDE DEF T, F
  <2>6. T \in R /\ F \in R /\ <<L, Clone(T, f)>> \in edges' /\ <<L, Clone(F, f)>> \in edges'
    BY <1>13, <1>14, <1>16, <2>3, <2>4, <2>5
  <2>7. <<Clone(T, f), Place(f, seq[i].target)>> \in edges'
    BY <1>16, <1>18, <2>2, <2>4, <2>5, <2>6 DEF Place
  <2>8. IsLast(i) \/ <<Clone(F, f), Clone(Fallthrough(i), f)>> \in edges'
    BY <1>16, <1>19, <2>4, <2>5, <2>6
  <2>9. \A m1 \in R : Clone(m1, f) \in DOMAIN nodes' /\ nodes'[Clone(m1, f)].op = nodes[m1].op
    BY <1>1 DEF GraphStep, f
  <2> QED BY <2>4, <2>6, <2>7, <2>8, <2>9
<1>23. FallAt(p, i, edges)'
  <2>1. SUFFICES ASSUME seq[i].op \notin {"exit", "jump"}, ~ Splits(i), ~ IsLast(i)
                 PROVE <<L, Clone(Fallthrough(i), f)>> \in edges'
    BY <1>6, <1>8, SequenceParts DEF FallAt, L, Place
  <2>2. <<N, Fallthrough(i)>> \in EdgesFrom(i)
    BY <2>1, EdgesFromIs DEF N
  <2> QED BY <1>13, <1>14, <1>16, <1>19, <2>1, <2>2
<1>24. seq[i].op = "call" => L \in PendingSet'
  <2>1. seq[i].op = "call" => nodes[N].op = "call"
    BY <1>14 DEF OpAt
  <2>2. nodes[N].op = "call" => L \in NewCalls(h, R)
    BY <1>13 DEF NewCalls, f
  <2> QED BY <1>2, <2>1, <2>2
<1> QED BY <1>6, <1>17, <1>20, <1>21, <1>22, <1>23, <1>24, SequenceParts, SMTT(60) DEF StepsAt, L, Place

LEMMA InlineKept ==
    ASSUME InputOK, GraphInv, InlineInv, NEW exit_to \in DOMAIN nodes,
           NEW R \in SUBSET (DOMAIN nodes), InlineStep(Head(pending), exit_to, R)
    PROVE  InlineInv'
<1>1. PendingInv' /\ PristineInv'
  BY PendingKept, PristineKept DEF InlineInv
<1>2. UNCHANGED input /\ Indexes' = Indexes
  BY DEF InlineStep, Indexes, seq
<1>3. MainFirst' = MainFirst
  BY <1>2, ZoneParts
<1>4. ASSUME MainFirst PROVE SpanInv' /\ Faithful(edges)'
  <2>1. SpanInv'
    BY <1>4, SpanKept
  <2>2. ASSUME NEW p \in Seq(Int), NEW i \in Indexes, Good(p, i)' PROVE StepsAt(p, i, edges)'
    <3>1. CASE Place(p, i) \notin DOMAIN nodes
      BY <1>4, <2>2, <3>1, NewSteps
    <3>2. CASE Place(p, i) \in DOMAIN nodes
      <4>1. Good(p, i)
        BY <1>2, <2>2, <3>2, ZoneParts DEF Good
      <4> QED BY <1>4, <4>1, OldStepsKept
    <3> QED BY <3>1, <3>2
  <2> QED BY <1>2, <2>1, <2>2 DEF Faithful
<1> QED BY <1>1, <1>3, <1>4 DEF InlineInv

-----------------------------------------------------------------------------
(***************************************************************************)
(* The graph of the sequence, before the first call is inlined.            *)
(***************************************************************************)
LEMMA CloneSame ==
    ASSUME NEW m \in PlainLabels
    PROVE  Clone(m, m.prefix) = m
BY LabelIs DEF Clone

LEMMA LaterIndex ==
    ASSUME NEW a \in Int, NEW b \in Int, LabelLess(NewLabel(a), NewLabel(b))
    PROVE  a <= b
<1> DEFINE s == <<a, -1>>
           t == <<b, -1>>
<1>1. NewLabel(a).prefix = <<>> /\ NewLabel(a).from = a /\ NewLabel(a).to = -1
      /\ NewLabel(b).prefix = <<>> /\ NewLabel(b).from = b /\ NewLabel(b).to = -1
  BY LabelsApart
<1>2. SeqLess(s, t)
  <2>1. ~ SeqLess(<<>>, <<>>)
    <3>1. <<>> \in Seq(Int)
      OBVIOUS
    <3> QED BY <3>1, SeqLessStrict
  <2> QED BY <1>1, <2>1 DEF LabelLess
<1>4. Len(s) = 2 /\ Len(t) = 2 /\ s[1] = a /\ t[1] = b /\ s[2] = -1 /\ t[2] = -1
  OBVIOUS
<1> HIDE DEF s, t
<1>5. PICK i \in 1 .. 2 : s[i] < t[i] /\ \A j \in 1 .. i - 1 : s[j] = t[j]
  BY <1>2, <1>4 DEF SeqLess
<1>6. i = 1 \/ i = 2
  BY <1>5
<1> QED BY <1>4, <1>5, <1>6

LEMMA TopPristine ==
    ASSUME InputOK, TargetsIn, Indexes # {}, NEW i \in Indexes
    PROVE  /\ \A e \in TopEdges : e[1] \in TopAt(i) => e \in EdgesFrom(i)
           /\ EdgesFrom(i) \subseteq TopEdges
<1>1. \A j \in Indexes : j \in Int /\ Flow(j, TRUE) \subseteq Indexes
  <2>1. \A j \in Indexes : Flow(j, TRUE) \in SUBSET Indexes
    BY FlowIs
  <2>2. \A j \in Indexes : j \in Int
    BY DEF InputOK
  <2> QED BY <2>1, <2>2
<1>2. \A j \in Indexes : \A e : e \in EdgesFrom(j) => e[1] \in TopAt(j)
  <2> HIDE DEF Indexes
  <2> QED BY <1>1, EdgesStay
<1>3. ASSUME NEW e \in TopEdges, e[1] \in TopAt(i) PROVE e \in EdgesFrom(i)
  <2>1. e # <<EntryLabel, NewLabel(FirstIndex)>>
    <3>1. e[1].from = i
      BY <1>3, TopAtIs
    <3>2. i \in Nat /\ EntryLabel.from = -1
      BY LabelsApart DEF InputOK
    <3> QED BY <3>1, <3>2
  <2>2. PICK j \in Indexes : e \in EdgesFrom(j)
    BY <2>1 DEF TopEdges
  <2>3. e[1].from = i /\ e[1].from = j
    BY <1>2, <1>3, <2>2, TopAtIs
  <2> QED BY <2>2, <2>3
<1> QED BY <1>3 DEF TopEdges

CallsListed(q) ==
    /\ q \in Seq(LocalCalls)
    /\ \A l \in LocalCalls : \E k \in DOMAIN q : q[k] = l
    /\ \A j, k \in DOMAIN q : q[j] = q[k] => j = k
    /\ \A j, k \in DOMAIN q : j < k => LabelLess(q[j], q[k])

LEMMA CallsAreListed ==
    ASSUME InputOK, TargetsIn
    PROVE  CallsListed(InOrder(LocalCalls, LabelLess))
<1>1. LocalCalls \in SUBSET PlainLabels /\ IsFiniteSet(LocalCalls)
  <2>1. LocalCalls \subseteq TopLabels
    BY DEF LocalCalls, TopLabels
  <2> QED BY <2>1, TopLabelsType, FS_Subset
<1> DEFINE C == LocalCalls
           q == InOrder(C, LabelLess)
<1> HIDE DEF C
<1>2. /\ q \in Seq(C)
      /\ \A l \in C : \E k \in DOMAIN q : q[k] = l
      /\ \A j, k \in DOMAIN q : q[j] = q[k] => j = k
      /\ \A j, k \in DOMAIN q : j < k => LabelLess(q[j], q[k])
  BY <1>1, InOrderLists DEF C
<1> HIDE DEF q
<1>3. CallsListed(q)
  BY <1>2 DEF CallsListed, C
<1> QED BY <1>3 DEF q, C

LEMMA TopSteps ==
    ASSUME InputOK, TargetsIn, Populated, ConnectEdges, pass' # "rejected", NEW i \in Indexes
    PROVE  StepsAt(<<>>, i, edges)'
<1>1. /\ Indexes # {} /\ UNCHANGED input
      /\ DOMAIN nodes' = TopLabels
      /\ \A b \in Branches : /\ nodes'[Taken(b)] = Node("assume", 0, <<>>)
                             /\ nodes'[NotTaken(b)] = Node("assume_not", 0, <<>>)
      /\ \A l \in DOMAIN nodes : nodes'[l] = nodes[l]
      /\ edges' = TopEdges
      /\ pending' = InOrder(LocalCalls, LabelLess)
  BY ConnectEdgesIs
<1>2. seq' = seq /\ Indexes' = Indexes
  BY <1>1 DEF seq, Indexes
<1>3. i \in Int /\ <<>> \in Seq(Int)
  BY DEF InputOK
<1>4. \A k \in Int : Place(<<>>, k) = NewLabel(k)
  BY PlaceIs, <1>3
<1>5. EdgesFrom(i) \subseteq edges'
  BY <1>1, TopPristine
<1>6. nodes'[NewLabel(i)].op = OpAt(i) /\ nodes'[NewLabel(i)].target = seq[i].target
  BY <1>1 DEF Populated, InstructionAt
<1>7. ExitAt(<<>>, i, edges)'
  <2>1. seq[i].op = "exit" => <<NewLabel(i), ExitLabel>> \in edges'
    BY <1>5, EdgesFromIs
  <2> QED BY <1>2, <1>3, <1>4, <2>1 DEF ExitAt
<1>8. JumpAt(<<>>, i, edges)'
  <2>1. seq[i].op = "jump" => <<NewLabel(i), NewLabel(seq[i].target)>> \in edges' /\ seq[i].target \in Int
    BY <1>5, EdgesFromIs DEF InputOK
  <2> QED BY <1>2, <1>3, <1>4, <2>1, SMTT(60) DEF JumpAt
<1>9. IsLast(i) \/ Clone(Fallthrough(i), <<>>) = Fallthrough(i)
  <2>1. SUFFICES ASSUME ~ IsLast(i) PROVE Clone(Fallthrough(i), <<>>) = Fallthrough(i)
    OBVIOUS
  <2>2. Fallthrough(i) = NewLabel(Fallthrough(i).from) /\ Fallthrough(i).from \in Int
    BY <2>1, FallsTo DEF InputOK
  <2>3. NewLabel(Fallthrough(i).from) \in PlainLabels /\ NewLabel(Fallthrough(i).from).prefix = <<>>
    BY <2>2, LabelsApart, SMTT(60)
  <2> QED BY <2>2, <2>3, CloneSame
<1>10. BranchIn(<<>>, i, edges)'
  <2>1. SUFFICES ASSUME Splits(i)
                 PROVE /\ Clone(Taken(i), <<>>) = Taken(i) /\ Clone(NotTaken(i), <<>>) = NotTaken(i)
                       /\ Taken(i) \in TopLabels /\ nodes'[Taken(i)].op = "assume"
                       /\ NotTaken(i) \in TopLabels /\ nodes'[NotTaken(i)].op = "assume_not"
                       /\ <<NewLabel(i), Taken(i)>> \in edges'
                       /\ <<Taken(i), NewLabel(seq[i].target)>> \in edges' /\ seq[i].target \in Int
                       /\ <<NewLabel(i), NotTaken(i)>> \in edges' /\ <<NotTaken(i), Fallthrough(i)>> \in edges'
    BY <1>1, <1>2, <1>3, <1>4, <1>9, SequenceParts, SMTT(60) DEF BranchIn
  <2>2. i \in Branches /\ seq[i].target \in Indexes
    BY <2>1 DEF Splits, TargetsIn, Branches
  <2>3. /\ Taken(i) \in PlainLabels /\ NotTaken(i) \in PlainLabels
        /\ Taken(i).prefix = <<>> /\ NotTaken(i).prefix = <<>>
    BY <2>1, <2>2, BranchLabels
  <2>4. Clone(Taken(i), <<>>) = Taken(i) /\ Clone(NotTaken(i), <<>>) = NotTaken(i)
    BY <2>3, CloneSame
  <2>5. Node("assume", 0, <<>>).op = "assume" /\ Node("assume_not", 0, <<>>).op = "assume_not"
    BY DEF Node
  <2>6. seq[i].target \in Int
    BY <2>2 DEF InputOK
  <2> QED BY <1>1, <1>5, <2>1, <2>2, <2>4, <2>5, <2>6, EdgesFromIs, SMTT(60) DEF TopLabels
<1>11. FallAt(<<>>, i, edges)'
  <2>1. seq[i].op \notin {"exit", "jump"} /\ ~ Splits(i) => <<NewLabel(i), Fallthrough(i)>> \in edges'
    BY <1>5, EdgesFromIs
  <2> QED BY <1>1, <1>2, <1>3, <1>4, <1>9, <2>1, SequenceParts DEF FallAt
<1>12. seq[i].op = "call" => NewLabel(i) \in PendingSet'
  <2>2. \A l \in LocalCalls : \E k \in DOMAIN pending' : pending'[k] = l
    BY <1>1, CallsAreListed DEF CallsListed
  <2>3. seq[i].op = "call" => NewLabel(i) \in LocalCalls
    BY DEF LocalCalls
  <2> HIDE DEF LocalCalls
  <2> QED BY <2>2, <2>3 DEF PendingSet
<1>13. Place(<<>>, i)' = NewLabel(i)
  BY <1>3, <1>4
<1> QED BY <1>1, <1>2, <1>6, <1>7, <1>8, <1>10, <1>11, <1>12, <1>13, SequenceParts DEF StepsAt

LEMMA ConnectInlines ==
    ASSUME InputOK, TargetsIn, Populated, ConnectEdges, pass' # "rejected"
    PROVE  InlineInv'
<1>1. /\ Indexes # {} /\ UNCHANGED input
      /\ DOMAIN nodes' = TopLabels /\ edges' = TopEdges
      /\ pending' = InOrder(LocalCalls, LabelLess)
  BY ConnectEdgesIs
<1>2. seq' = seq /\ Indexes' = Indexes /\ LocalCalls' = LocalCalls
  BY <1>1 DEF seq, Indexes, LocalCalls
<1>3. \A l \in TopLabels : l \in PlainLabels /\ l.prefix = <<>>
  BY TopLabelsType
<1>4. /\ \A k \in DOMAIN pending' : pending'[k] \in LocalCalls
      /\ \A l \in LocalCalls : \E k \in DOMAIN pending' : pending'[k] = l
      /\ \A j, k \in DOMAIN pending' : pending'[j] = pending'[k] => j = k
      /\ \A j, k \in DOMAIN pending' : j < k => LabelLess(pending'[j], pending'[k])
  <2> HIDE DEF LocalCalls
  <2>1. CallsListed(pending')
    BY <1>1, CallsAreListed
  <2>2. \A k \in DOMAIN pending' : pending'[k] \in LocalCalls
    <3>1. pending' \in Seq(LocalCalls)
      BY <2>1 DEF CallsListed
    <3> QED BY <3>1
  <2> QED BY <2>1, <2>2 DEF CallsListed
<1>5. \A l \in LocalCalls : \E i \in Indexes : l = NewLabel(i) /\ i \in Int /\ Root(l) = i
  <2>1. \A i \in Indexes : i \in Int /\ Root(NewLabel(i)) = i
    BY LabelsApart DEF InputOK, Root
  <2> QED BY <2>1 DEF LocalCalls
<1>6. \A l, m \in LocalCalls : LabelLess(l, m) => Root(l) <= Root(m)
  BY <1>5, LaterIndex
<1>7. PendingInv'
  <2>1. \A d \in Indexes : seq[d].op = "call" => NewLabel(d) \in PendingSet'
    <3>1. \A d \in Indexes : seq[d].op = "call" => NewLabel(d) \in LocalCalls
      BY DEF LocalCalls
    <3> HIDE DEF LocalCalls
    <3> QED BY <1>4, <3>1 DEF PendingSet
  <2>2. \A j, k \in DOMAIN pending' : j < k => Root(pending'[j]) <= Root(pending'[k])
    <3> HIDE DEF LocalCalls
    <3> QED BY <1>4, <1>6
  <2> HIDE DEF LocalCalls
  <2> QED BY <1>2, <1>4, <2>1, <2>2 DEF PendingInv
<1>8. PristineInv'
  <2>1. ASSUME NEW i \in Indexes PROVE Pristine(i)'
    <3>1. (\A e \in TopEdges : e[1] \in TopAt(i) => e \in EdgesFrom(i)) /\ EdgesFrom(i) \subseteq TopEdges
      BY <1>1, TopPristine
    <3> QED BY <1>1, <3>1, SequenceParts DEF Pristine
  <2> QED BY <1>2, <2>1 DEF PristineInv
<1>9. SpanInv'
  BY <1>1, <1>3 DEF SpanInv
<1>10. Faithful(edges)'
  <2>1. ASSUME NEW p \in Seq(Int), NEW i \in Indexes, Good(p, i)' PROVE StepsAt(p, i, edges)'
    <3>1. i \in Int
      BY DEF InputOK
    <3>2. Place(p, i) \in TopLabels
      BY <1>1, <2>1 DEF Good, Place, Clone, NewLabel, LabelFull
    <3>3. p = <<>>
      BY <1>3, <3>1, <3>2, PlaceIs
    <3>4. StepsAt(<<>>, i, edges)'
      BY TopSteps
    <3> QED BY <3>3, <3>4
  <2> QED BY <1>2, <2>1 DEF Faithful
<1> QED BY <1>7, <1>8, <1>9, <1>10 DEF InlineInv

-----------------------------------------------------------------------------
(***************************************************************************)
(* The counters: an edge that gets one leads to the same label behind it.  *)
(***************************************************************************)
Through == {x \in (DOMAIN nodes) \X (DOMAIN nodes) : x[2] \in Behind(x[1])}

LEMMA BehindIs ==
    ASSUME NEW l, NEW m, <<l, m>> \in edges
    PROVE  /\ nodes[m].op # "counter" => m \in Behind(l)
           /\ nodes[m].op = "counter" => \A n : <<m, n>> \in edges => n \in Behind(l)
<1>1. \A a, b : <<a, b>> \in edges => b \in Children(a)
  BY DEF Children
<1>2. m \in Children(l) /\ \A n : <<m, n>> \in edges => n \in Children(m)
  BY <1>1
<1> QED BY <1>2 DEF Behind

BehindKnown ==
    \A l, m : <<l, m>> \in edges =>
        /\ nodes[m].op # "counter" => m \in Behind(l)
        /\ nodes[m].op = "counter" => \A n : <<m, n>> \in edges => n \in Behind(l)

LEMMA BehindNext == BehindKnown'
<1>1. BehindKnown
  BY BehindIs DEF BehindKnown
<1> QED BY <1>1, PTL

LEMMA CountersKeepEdges ==
    ASSUME GraphInv, InsertTerminationCounters
    PROVE  /\ UNCHANGED <<input, pending>>
           /\ \A l \in DOMAIN nodes : l \in DOMAIN nodes' /\ nodes'[l] = nodes[l]
           /\ \A l \in DOMAIN nodes' : l \in PlainLabels => l \in DOMAIN nodes
           /\ edges \subseteq Through'
<1>0. UNCHANGED <<input, pending>>
  BY DEF InsertTerminationCounters
<1>1. PICK H \in (IF input.check_for_termination THEN LoopHeads ELSE {{}}) :
          /\ nodes' = [l \in DOMAIN nodes \cup {MakeIncrementCounter(h) : h \in H} |->
                          IF l \in DOMAIN nodes THEN nodes[l] ELSE Node("counter", 0, <<>>)]
          /\ edges' = InsertAfter(H)
  BY DEF InsertTerminationCounters
<1>2. EdgesIn /\ EntryLabel \in DOMAIN nodes /\ DOMAIN nodes \subseteq PlainLabels /\ CallNodes
  BY DEF GraphInv, GraphType, EdgesIn
<1>3. H \in SUBSET (DOMAIN nodes)
  <2>1. ReachedFrom(EntryLabel) \in SUBSET (DOMAIN nodes)
    BY <1>2, ReachedIs
  <2>2. \A J \in LoopHeads : J \in SUBSET ReachedFrom(EntryLabel)
    BY DEF LoopHeads
  <2> QED BY <1>1, <2>1, <2>2
<1>4. \A h \in H : MakeIncrementCounter(h) \notin PlainLabels
  BY <1>2, <1>3, CountersApart
<1>5. \A l \in DOMAIN nodes : l \in DOMAIN nodes' /\ nodes'[l] = nodes[l]
  BY <1>1
<1>6. \A l \in DOMAIN nodes' : l \in PlainLabels => l \in DOMAIN nodes
  BY <1>1, <1>4
<1>7. \A h \in H : MakeIncrementCounter(h) \in DOMAIN nodes'
                   /\ nodes'[MakeIncrementCounter(h)].op = "counter"
  <2>1. Node("counter", 0, <<>>).op = "counter"
    BY DEF Node
  <2> QED BY <1>1, <1>2, <1>4, <2>1
<1>8. ASSUME NEW e \in edges PROVE e \in Through'
  <2>1. e \in (DOMAIN nodes) \X (DOMAIN nodes) /\ e[1] \in DOMAIN nodes /\ e[2] \in DOMAIN nodes
        /\ e = <<e[1], e[2]>>
    BY <1>2 DEF EdgesIn
  <2>2. nodes'[e[2]].op # "counter"
    BY <1>2, <1>5, <2>1 DEF CallNodes
  <2>3. CASE e[1] \notin H
    <3>1. e \in edges'
      BY <1>1, <2>3 DEF InsertAfter
    <3>2. <<e[1], e[2]>> \in edges'
      BY <2>1, <3>1
    <3>3. e[2] \in Behind(e[1])'
      BY <2>2, <3>2, BehindNext DEF BehindKnown
    <3> QED BY <1>5, <2>1, <3>3 DEF Through
  <2>4. CASE e[1] \in H
    <3> DEFINE c == MakeIncrementCounter(e[1])
    <3>1. <<e[1], c>> \in edges' /\ <<c, e[2]>> \in edges'
      BY <1>1, <2>4 DEF InsertAfter
    <3>2. nodes'[c].op = "counter"
      BY <1>7, <2>4
    <3> HIDE DEF c
    <3>3. e[2] \in Behind(e[1])'
      BY <3>1, <3>2, BehindNext DEF BehindKnown
    <3> QED BY <1>5, <2>1, <3>3 DEF Through
  <2> QED BY <2>3, <2>4
<1> QED BY <1>0, <1>5, <1>6, <1>8

\* More edges take no step away.
LEMMA CountersKeepSteps ==
    ASSUME InputOK, GraphInv, InsertTerminationCounters, NEW p \in Seq(Int), NEW i \in Indexes,
           Good(p, i), StepsAt(p, i, edges)
    PROVE  StepsAt(p, i, Through)'
<1> DEFINE E == edges
           T == Through'
           L == Place(p, i)
<1>1. /\ UNCHANGED <<input, pending>>
      /\ \A l \in DOMAIN nodes : l \in DOMAIN nodes' /\ nodes'[l] = nodes[l]
      /\ E \subseteq T
  BY CountersKeepEdges
<1>2. PendingSet' = PendingSet /\ input' = input
  BY <1>1 DEF PendingSet
<1>3. seq' = seq
  BY <1>2 DEF seq
<1>4. L \in DOMAIN nodes /\ nodes'[L] = nodes[L]
  BY <1>1 DEF Good
<1> HIDE DEF T
<1>5. ExitAt(p, i, Through)'
  <2>1. ExitAt(p, i, edges)
    BY DEF StepsAt
  <2> QED BY <1>1, <1>2, <1>4, <2>1, SequenceParts DEF ExitAt, T, Place
<1>6. JumpAt(p, i, Through)'
  <2>1. JumpAt(p, i, edges)
    BY DEF StepsAt
  <2> QED BY <1>1, <1>2, <2>1, SequenceParts DEF JumpAt, T, Place
<1>7. BranchIn(p, i, Through)'
  <2>1. BranchIn(p, i, edges)
    BY DEF StepsAt
  <2> QED BY <1>1, <1>2, <2>1, SequenceParts, SMTT(60) DEF BranchIn, T, Place
<1>8. FallAt(p, i, edges) => FallAt(p, i, Through)'
  BY <1>1, <1>2, SequenceParts DEF FallAt, T, Place
<1>9. InlinedAt(p, i, edges) => InlinedAt(p, i, Through)'
  BY <1>1, <1>2, <1>3, <1>4 DEF InlinedAt, T, Place
<1> QED BY <1>2, <1>3, <1>4, <1>5, <1>6, <1>7, <1>8, <1>9, SequenceParts DEF StepsAt, Place

LEMMA CountersFollow ==
    ASSUME InputOK, GraphInv, InsertTerminationCounters, MainFirst, Faithful(edges)
    PROVE  Faithful(Through)'
<1>1. /\ UNCHANGED <<input, pending>>
      /\ \A l \in DOMAIN nodes' : l \in PlainLabels => l \in DOMAIN nodes
  BY CountersKeepEdges
<1>2. seq' = seq /\ Indexes' = Indexes /\ input' = input
  BY <1>1 DEF seq, Indexes
<1>3. ASSUME NEW p \in Seq(Int), NEW i \in Indexes, Good(p, i)' PROVE StepsAt(p, i, Through)'
  <2>1. Place(p, i) \in PlainLabels
    BY PlaceIs DEF InputOK
  <2>2. Good(p, i)
    BY <1>1, <1>2, <1>3, <2>1, ZoneParts DEF Good
  <2>3. StepsAt(p, i, edges)
    BY <2>2 DEF Faithful
  <2> QED BY <1>3, <2>2, <2>3, CountersKeepSteps, SMTT(60)
<1> QED BY <1>2, <1>3 DEF Faithful

-----------------------------------------------------------------------------
(***************************************************************************)
(* What the graph is, pass by pass, for the machine that will run on it.   *)
(***************************************************************************)
FollowInv ==
    /\ pending = <<>> /\ TargetsIn /\ Indexes # {}
    /\ \A i \in Indexes : NewLabel(i) \in DOMAIN nodes
    /\ MainFirst => Faithful(Through)

FlowInv ==
    /\ pass \in Inlining => InlineInv
    /\ pass \in Inlining \ {"InlineLocalCalls"} => pending = <<>>
    /\ pass \in {"ExtractAssertions", "built"} => FollowInv
    /\ pass = "built" => asserted = DOMAIN nodes

\* The machine is at a place of the graph, and so is each call on its stack.
Running(s, i) ==
    /\ s \in Seq(Int) /\ i \in Indexes /\ Good(s, i)
    /\ \A k \in 1 .. Len(s) :
          s[k] \in Indexes /\ seq[s[k]].op = "call" /\ Good(SubSeq(s, 1, k - 1), s[k])

MachineInv ==
    /\ machine.mode # "not started" => pass = "built"
    /\ machine.mode = "running" /\ MainFirst =>
          machine = At(machine.stack, machine.pc) /\ Running(machine.stack, machine.pc)

LEMMA GraphSame ==
    ASSUME UNCHANGED StageVars
    PROVE  /\ InlineInv => InlineInv'
           /\ FollowInv => FollowInv'
           /\ MainFirst' = MainFirst
           /\ \A s, i : Running(s, i)' = Running(s, i)
<1>1. UNCHANGED input /\ input' = input /\ nodes' = nodes /\ edges' = edges /\ pending' = pending
  BY DEF StageVars
<1>2. seq' = seq /\ Indexes' = Indexes
  BY <1>1 DEF seq, Indexes
<1>3. MainFirst' = MainFirst /\ Main' = Main /\ MainCalls' = MainCalls /\ \A c : Span(c)' = Span(c)
  BY <1>1, ZoneParts
<1>4. PendingSet' = PendingSet
  BY <1>1 DEF PendingSet
<1>5. PendingInv => PendingInv'
  BY <1>1, <1>2, <1>4 DEF PendingInv, LocalCalls
<1>6. PristineInv => PristineInv'
  <2>1. \A i : Pristine(i)' = Pristine(i)
    BY <1>1, SequenceParts DEF Pristine
  <2> QED BY <1>2, <1>4, <2>1 DEF PristineInv
<1>7. SpanInv => SpanInv'
  BY <1>1, <1>3, SequenceParts DEF SpanInv
<1>8. \A p, i : Good(p, i)' = Good(p, i)
  BY <1>1, <1>3 DEF Good, Place
<1>9. \A p, i, E : StepsAt(p, i, E)' = StepsAt(p, i, E)
  <2>1. \A p, i, E : ExitAt(p, i, E)' = ExitAt(p, i, E)
    BY <1>1, <1>2, SequenceParts DEF ExitAt, Place
  <2>2. \A p, i, E : JumpAt(p, i, E)' = JumpAt(p, i, E)
    BY <1>2 DEF JumpAt, Place
  <2>3. \A p, i, E : BranchIn(p, i, E)' = BranchIn(p, i, E)
    BY <1>1, <1>2, SequenceParts DEF BranchIn, Place
  <2>4. \A p, i, E : FallAt(p, i, E)' = FallAt(p, i, E)
    BY <1>1, <1>2, SequenceParts DEF FallAt, Place
  <2>5. \A p, i, E : InlinedAt(p, i, E)' = InlinedAt(p, i, E)
    BY <1>1, <1>2 DEF InlinedAt, Place
  <2> QED BY <1>1, <1>2, <1>4, <2>1, <2>2, <2>3, <2>4, <2>5, SequenceParts, SMTT(60) DEF StepsAt, Place
<1>10. Through' = Through
  <2>1. \A l : Children(l)' = Children(l)
    BY <1>1 DEF Children
  <2>2. \A l : Behind(l)' = Behind(l)
    BY <1>1, <2>1 DEF Behind
  <2> QED BY <1>1, <2>2 DEF Through
<1>11. (Faithful(edges) => Faithful(edges)') /\ (Faithful(Through) => Faithful(Through)')
  BY <1>1, <1>2, <1>8, <1>9, <1>10 DEF Faithful
<1>12. InlineInv => InlineInv'
  BY <1>3, <1>5, <1>6, <1>7, <1>11, SMTT(60) DEF InlineInv
<1>13. FollowInv => FollowInv'
  BY <1>1, <1>2, <1>3, <1>11, StageKept, SMTT(60) DEF FollowInv
<1>14. \A s, i : Running(s, i)' = Running(s, i)
  BY <1>2, <1>8 DEF Running
<1> QED BY <1>3, <1>12, <1>13, <1>14

LEMMA FlowInit == Init => FlowInv /\ MachineInv
<1> SUFFICES ASSUME Init PROVE FlowInv /\ MachineInv
  OBVIOUS
<1>1. pass = "ValidateInstructionSupport" /\ machine.mode = "not started"
  BY DEF Init, NotStarted
<1> QED BY <1>1 DEF FlowInv, MachineInv, Inlining

LEMMA FlowStep ==
    ASSUME StageInv, FlowInv, [Next]_vars
    PROVE  FlowInv'
<1>1. InputOK
  BY DEF StageInv
<1>2. ASSUME UNCHANGED vars \/ Start \/ Execute \/ Stopped PROVE FlowInv'
  <2>1. UNCHANGED <<pass, nodes, asserted, pending>> /\ UNCHANGED StageVars
    BY <1>2 DEF Start, Execute, Stopped, StageVars, vars
  <2> QED BY <2>1, GraphSame DEF FlowInv
<1>3. ASSUME ValidateInstructionSupport \/ ResolveKfuncCalls \/ LowerPseudoLoads
             \/ PopulateNodes \/ ValidateControlFlowTargets
      PROVE FlowInv'
  <2>1. pass' \in Unpopulated \cup {"ValidateControlFlowTargets", "ConnectEdges", "rejected"}
    BY <1>3 DEF ValidateInstructionSupport, ResolveKfuncCalls, LowerPseudoLoads, PopulateNodes,
                ValidateControlFlowTargets, Rejected, Go, Unpopulated
  <2> QED BY <2>1 DEF FlowInv, Unpopulated, Inlining
<1>4. ASSUME ConnectEdges PROVE FlowInv'
  <2>1. Populated /\ TargetsIn
    BY <1>4 DEF StageInv, ConnectEdges
  <2>2. pass' = "rejected" \/ (pass' = "InlineLocalCalls" /\ InlineInv')
    BY <1>1, <1>4, <2>1, ConnectInlines, ConnectEdgesIs
  <2> QED BY <2>2 DEF FlowInv, Inlining
<1>5. ASSUME AddCfgNodes PROVE FlowInv'
  <2>1. GraphInv /\ InlineInv
    BY <1>5 DEF StageInv, FlowInv, AddCfgNodes, Inlining
  <2>2. CASE pass' \in {"rejected", "panicked"}
    BY <2>2 DEF FlowInv, Inlining
  <2>3. CASE pass' \notin {"rejected", "panicked"}
    <3>1. PICK exit_to \in DOMAIN nodes, R \in SUBSET (DOMAIN nodes) : InlineStep(Head(pending), exit_to, R)
      BY <1>1, <1>5, <2>1, <2>3, AddCfgNodesIs
    <3>2. InlineInv' /\ pass' = "InlineLocalCalls"
      BY <1>1, <2>1, <3>1, InlineKept DEF InlineStep
    <3> QED BY <3>2 DEF FlowInv, Inlining
  <2> QED BY <2>2, <2>3, SMTT(60)
<1>6. ASSUME InlineLocalCalls \/ ValidateTailCallDepth \/ ComputeCallbackMetadata PROVE FlowInv'
  <2>1. /\ UNCHANGED StageVars /\ pass \in Inlining /\ pending' = <<>>
        /\ pass' \in Inlining \cup {"rejected"}
    BY <1>6 DEF InlineLocalCalls, ValidateTailCallDepth, ComputeCallbackMetadata, Vetted, StageVars,
                Rejected, Go, Inlining, FlowInv
  <2>2. InlineInv'
    BY <2>1, GraphSame DEF FlowInv
  <2> QED BY <2>1, <2>2 DEF FlowInv, Inlining
<1>7. ASSUME InsertTerminationCounters PROVE FlowInv'
  <2>1. GraphInv /\ InlineInv /\ pending = <<>> /\ pass' = "ExtractAssertions"
    BY <1>7 DEF StageInv, FlowInv, InsertTerminationCounters, Go, Inlining
  <2>2. UNCHANGED input /\ pending' = <<>> /\ \A l \in DOMAIN nodes : l \in DOMAIN nodes'
    BY <1>7, <2>1, CountersKeepEdges
  <2>3. seq' = seq /\ Indexes' = Indexes /\ MainFirst' = MainFirst
    BY <2>2, ZoneParts DEF seq, Indexes
  <2>4. TargetsIn' /\ Indexes' # {} /\ \A i \in Indexes' : NewLabel(i) \in DOMAIN nodes'
    BY <2>1, <2>2, <2>3 DEF GraphInv, TargetsIn, InstructionAt
  <2>5. MainFirst' => Faithful(Through)'
    BY <1>1, <1>7, <2>1, <2>3, CountersFollow DEF InlineInv
  <2>6. FollowInv'
    BY <2>2, <2>4, <2>5 DEF FollowInv
  <2> QED BY <2>1, <2>6 DEF FlowInv, Inlining
<1>8. ASSUME ExtractAssertions PROVE FlowInv'
  <2>1. /\ UNCHANGED StageVars /\ FollowInv /\ pass' = "built"
        /\ asserted' = DOMAIN nodes /\ nodes' = nodes
    BY <1>8 DEF FlowInv, ExtractAssertions, StageVars, Go
  <2> QED BY <2>1, GraphSame DEF FlowInv, Inlining
<1> QED BY <1>2, <1>3, <1>4, <1>5, <1>6, <1>7, <1>8 DEF Next, Build

-----------------------------------------------------------------------------
(***************************************************************************)
(* One step of the machine.                                                *)
(***************************************************************************)
Within(p, i) == IF p = <<>> THEN i \in Main ELSE p[1] \in MainCalls /\ i \in Span(p[1])

LEMMA StaysWithin ==
    ASSUME InputOK, TargetsIn, Indexes # {}, NEW p \in Seq(Int), NEW i \in Indexes, Within(p, i)
    PROVE  /\ seq[i].op \in {"jump", "branch"} => Within(p, seq[i].target)
           /\ seq[i].op \notin {"exit", "jump"} /\ ~ IsLast(i) => Within(p, Fallthrough(i).from)
           /\ seq[i].op = "call" => Within(Append(p, i), seq[i].target)
<1>1. CASE p = <<>>
  <2>1. Flow(i, FALSE) \subseteq Main /\ (seq[i].op = "call" => i \in MainCalls)
    BY <1>1, MainIs DEF Within
  <2>2. seq[i].op = "call" => seq[i].target \in Span(i)
    BY SpanIs
  <2>3. Append(p, i) = <<i>>
    BY <1>1
  <2>4. /\ seq[i].op \in {"jump", "branch"} => seq[i].target \in Flow(i, FALSE)
        /\ seq[i].op \notin {"exit", "jump"} /\ ~ IsLast(i) => Fallthrough(i).from \in Flow(i, FALSE)
    BY FlowIs
  <2>5. <<i>> # <<>> /\ <<i>>[1] = i
    OBVIOUS
  <2> QED BY <1>1, <2>1, <2>2, <2>3, <2>4, <2>5 DEF Within
<1>2. CASE p # <<>>
  <2>1. p[1] \in MainCalls /\ i \in Span(p[1])
    BY <1>2 DEF Within
  <2>2. p[1] \in Indexes /\ seq[p[1]].op = "call"
    BY <2>1, MainIs
  <2>3. Flow(i, TRUE) \subseteq Span(p[1])
    BY <2>1, <2>2, SpanIs
  <2>4. Append(p, i) # <<>> /\ Append(p, i)[1] = p[1]
    <3>1. 1 \in 1 .. Len(p) /\ i \in Int
      BY <1>2 DEF InputOK
    <3> QED BY <3>1
  <2>5. /\ seq[i].op \in {"jump", "branch", "call"} => seq[i].target \in Flow(i, TRUE)
        /\ seq[i].op \notin {"exit", "jump"} /\ ~ IsLast(i) => Fallthrough(i).from \in Flow(i, TRUE)
    BY FlowIs
  <2> QED BY <1>2, <2>1, <2>3, <2>4, <2>5 DEF Within
<1> QED BY <1>1, <1>2

LEMMA Appended ==
    ASSUME NEW s \in Seq(Int), NEW i \in Int
    PROVE  /\ Append(s, i) \in Seq(Int) /\ Len(Append(s, i)) = Len(s) + 1
           /\ Append(s, i)[Len(s) + 1] = i /\ SubSeq(Append(s, i), 1, Len(s)) = s
           /\ \A k \in 1 .. Len(s) : /\ Append(s, i)[k] = s[k]
                                     /\ SubSeq(Append(s, i), 1, k - 1) = SubSeq(s, 1, k - 1)
<1> DEFINE t == Append(s, i)
<1>1. t \in Seq(Int) /\ Len(t) = Len(s) + 1 /\ Len(s) \in Nat /\ t[Len(s) + 1] = i
      /\ \A k \in 1 .. Len(s) : t[k] = s[k]
  OBVIOUS
<1>2. ASSUME NEW n \in Nat, n <= Len(s)
      PROVE  /\ SubSeq(t, 1, n) \in Seq(Int) /\ Len(SubSeq(t, 1, n)) = n
             /\ SubSeq(s, 1, n) \in Seq(Int) /\ Len(SubSeq(s, 1, n)) = n
             /\ \A k \in 1 .. n : SubSeq(t, 1, n)[k] = t[k] /\ SubSeq(s, 1, n)[k] = s[k]
  BY <1>1, <1>2, SMTT(60)
<1> HIDE DEF t
<1>3. ASSUME NEW n \in Nat, n <= Len(s) PROVE SubSeq(t, 1, n) = SubSeq(s, 1, n)
  <2>1. \A k \in 1 .. n : SubSeq(t, 1, n)[k] = SubSeq(s, 1, n)[k]
    BY <1>1, <1>2, <1>3
  <2> QED BY <1>2, <1>3, <2>1, SeqEqual, SMTT(60)
<1>4. SubSeq(t, 1, Len(s)) = s
  BY <1>1, <1>2, SeqEqual
<1>5. \A k \in 1 .. Len(s) : k - 1 \in Nat /\ k - 1 <= Len(s)
  BY <1>1, SMTT(60)
<1> QED BY <1>1, <1>3, <1>4, <1>5 DEF t

\* The stack below its last call.
LEMMA Caller ==
    ASSUME NEW s \in Seq(Int), s # <<>>
    PROVE  LET d == Len(s)
               q == SubSeq(s, 1, d - 1)
           IN  /\ d \in Nat \ {0} /\ q \in Seq(Int) /\ Len(q) = d - 1 /\ s[d] \in Int /\ s = Append(q, s[d])
               /\ \A k \in 1 .. d - 1 : q[k] = s[k] /\ SubSeq(q, 1, k - 1) = SubSeq(s, 1, k - 1)
<1> DEFINE d == Len(s)
           q == SubSeq(s, 1, d - 1)
<1>1. d \in Nat \ {0} /\ s[d] \in Int
  OBVIOUS
<1>2. q \in Seq(Int) /\ Len(q) = d - 1 /\ \A k \in 1 .. d - 1 : q[k] = s[k]
  <2>1. ASSUME NEW n \in Nat, n <= Len(s)
        PROVE  /\ SubSeq(s, 1, n) \in Seq(Int) /\ Len(SubSeq(s, 1, n)) = n
               /\ \A k \in 1 .. n : SubSeq(s, 1, n)[k] = s[k]
    BY <2>1
  <2>2. d - 1 \in Nat /\ d - 1 <= Len(s)
    BY <1>1
  <2> QED BY <2>1, <2>2
<1> DEFINE t == Append(q, s[d])
<1>3. s = t
  <2>1. t \in Seq(Int) /\ Len(t) = d /\ t[d] = s[d] /\ \A k \in 1 .. d - 1 : t[k] = q[k]
    BY <1>1, <1>2, Appended, SMTT(60)
  <2> HIDE DEF t, q
  <2>2. \A k \in 1 .. d : k = d \/ k \in 1 .. d - 1
    BY <1>1
  <2>3. \A k \in 1 .. d : t[k] = s[k]
    BY <1>2, <2>1, <2>2
  <2> QED BY <1>1, <2>1, <2>3, SeqEqual, SMTT(60)
<1>4. \A k \in 1 .. d - 1 : SubSeq(t, 1, k - 1) = SubSeq(q, 1, k - 1)
  <2> HIDE DEF q
  <2> QED BY <1>1, <1>2, Appended
<1> HIDE DEF t
<1> QED BY <1>1, <1>2, <1>3, <1>4 DEF t

LEMMA Arrives ==
    ASSUME InputOK, NEW s, NEW i, Running(s, i), NEW j \in Indexes, Within(s, j), NEW a,
           <<a, Place(s, j)>> \in Through
    PROVE  Running(s, j)
<1>1. Place(s, j) \in DOMAIN nodes
  BY DEF Through
<1> QED BY <1>1 DEF Running, Good, Within

LEMMA Calls ==
    ASSUME InputOK, NEW s, NEW i, Running(s, i), seq[i].op = "call", NEW j \in Indexes,
           Within(Append(s, i), j), NEW a, <<a, Place(Append(s, i), j)>> \in Through
    PROVE  Running(Append(s, i), j)
<1> DEFINE t == Append(s, i)
<1>1. s \in Seq(Int) /\ i \in Int /\ Len(s) \in Nat
  BY DEF Running, InputOK
<1>2. /\ t \in Seq(Int) /\ Len(t) = Len(s) + 1
      /\ t[Len(s) + 1] = i /\ SubSeq(t, 1, Len(s)) = s
      /\ \A k \in 1 .. Len(s) : t[k] = s[k] /\ SubSeq(t, 1, k - 1) = SubSeq(s, 1, k - 1)
  BY <1>1, Appended
<1> HIDE DEF t
<1>3. Good(t, j)
  BY SMTT(60) DEF Through, Good, Within, t
<1>4. ASSUME NEW k \in 1 .. Len(t)
      PROVE  t[k] \in Indexes /\ seq[t[k]].op = "call" /\ Good(SubSeq(t, 1, k - 1), t[k])
  <2>1. CASE k = Len(s) + 1
    <3>1. k - 1 = Len(s) /\ t[k] = i /\ SubSeq(t, 1, k - 1) = s
      BY <1>1, <1>2, <2>1
    <3> QED BY <3>1 DEF Running
  <2>2. CASE k # Len(s) + 1
    <3>1. k \in 1 .. Len(s)
      BY <1>1, <1>2, <2>2
    <3> QED BY <1>2, <3>1 DEF Running
  <2> QED BY <2>1, <2>2
<1> QED BY <1>2, <1>3, <1>4 DEF Running, t

LEMMA Returns ==
    ASSUME InputOK, NEW s, NEW i, Running(s, i), s # <<>>
    PROVE  /\ Running(SubSeq(s, 1, Len(s) - 1), s[Len(s)])
           /\ seq[s[Len(s)]].op = "call" /\ s = Append(SubSeq(s, 1, Len(s) - 1), s[Len(s)])
           /\ Len(SubSeq(s, 1, Len(s) - 1)) = Len(s) - 1 /\ Len(s) \in Nat \ {0}
<1> DEFINE d == Len(s)
           q == SubSeq(s, 1, d - 1)
<1>1. s \in Seq(Int)
  BY DEF Running
<1>2. /\ d \in Nat \ {0} /\ q \in Seq(Int) /\ Len(q) = d - 1 /\ s = Append(q, s[d])
      /\ \A k \in 1 .. d - 1 : q[k] = s[k] /\ SubSeq(q, 1, k - 1) = SubSeq(s, 1, k - 1)
  BY <1>1, Caller, SMTT(60)
<1> HIDE DEF q
<1>3. d \in 1 .. d
  BY <1>2
<1>4. s[d] \in Indexes /\ seq[s[d]].op = "call" /\ Good(q, s[d])
  BY <1>3 DEF Running, q
<1>5. \A k \in 1 .. d - 1 : k \in 1 .. d
  BY <1>2
<1>6. \A k \in 1 .. Len(q) :
         q[k] \in Indexes /\ seq[q[k]].op = "call" /\ Good(SubSeq(q, 1, k - 1), q[k])
  <2>1. \A k \in 1 .. d - 1 :
           s[k] \in Indexes /\ seq[s[k]].op = "call" /\ Good(SubSeq(s, 1, k - 1), s[k])
    BY <1>5, SMTT(60) DEF Running
  <2> QED BY <1>2, <2>1
<1> QED BY <1>2, <1>4, <1>6 DEF Running, q

LEMMA StepsFrom ==
    ASSUME NEW s, NEW i
    PROVE  LET next == Successors(At(s, i))
           IN  /\ seq[i].op = "jump" => next = {At(s, seq[i].target)}
               /\ seq[i].op = "branch" => next = {At(s, seq[i].target)} \cup Resume(s, i)
               /\ seq[i].op = "call" => next = {At(Append(s, i), seq[i].target)}
               /\ seq[i].op = "exit" /\ Len(s) = 0 => next = {Ended}
               /\ seq[i].op = "exit" /\ Len(s) > 0 =>
                      next = Resume(SubSeq(s, 1, Len(s) - 1), s[Len(s)])
               /\ seq[i].op \notin {"jump", "branch", "call", "exit"} => next = Resume(s, i)
<1> DEFINE next == Successors(At(s, i))
           o == seq[i].op
<1>1. At(s, i).pc = i /\ At(s, i).stack = s
  BY DEF At
<1>2. o = "jump" => next = {At(s, seq[i].target)}
  BY ONLY <1>1 DEF Successors
<1>3. o = "branch" => next = {At(s, seq[i].target)} \cup Resume(s, i)
  BY ONLY <1>1 DEF Successors
<1>4. o = "call" => next = {At(Append(s, i), seq[i].target)}
  BY ONLY <1>1 DEF Successors
<1>5. o = "exit" /\ Len(s) = 0 => next = {Ended}
  BY ONLY <1>1 DEF Successors
<1>6. o = "exit" /\ Len(s) > 0 => next = Resume(SubSeq(s, 1, Len(s) - 1), s[Len(s)])
  BY ONLY <1>1 DEF Successors
<1>7. o \notin {"jump", "branch", "call", "exit"} => next = Resume(s, i)
  BY ONLY <1>1 DEF Successors
<1> QED BY <1>2, <1>3, <1>4, <1>5, <1>6, <1>7, SMTT(60)

LEMMA FollowsIs ==
    ASSUME NEW s \in Seq(Int), NEW i \in Int, NEW n
    PROVE  LET b == LabelOf(n)
           IN  /\ ~ Splits(i) /\ <<Place(s, i), b>> \in Through => Follows(At(s, i), n)
               /\ \A x : /\ Splits(i) /\ <<Place(s, i), x>> \in Through /\ <<x, b>> \in Through
                         /\ nodes[x].op = IF n.pc = seq[i].target THEN "assume" ELSE "assume_not"
                         => Follows(At(s, i), n)
<1> DEFINE a == Place(s, i)
           b == LabelOf(n)
<1>1. At(s, i).pc = i /\ LabelOf(At(s, i)) = a
  BY PlaceIs DEF At, LabelOf
<1>2. \A x, y : <<x, y>> \in Through => y \in Behind(x)
  BY DEF Through
<1>3. ASSUME ~ Splits(i), <<a, b>> \in Through PROVE Follows(At(s, i), n)
  <2> HIDE DEF a, b
  <2> QED BY <1>1, <1>2, <1>3 DEF Follows, b
<1>4. ASSUME NEW x, Splits(i), <<a, x>> \in Through, <<x, b>> \in Through,
             nodes[x].op = IF n.pc = seq[i].target THEN "assume" ELSE "assume_not"
      PROVE  Follows(At(s, i), n)
  <2> HIDE DEF a, b
  <2>1. x \in Behind(a) /\ b \in Behind(x)
    BY <1>2, <1>4
  <2>2. b \in UNION {Behind(c) : c \in {y \in Behind(a) :
                nodes[y].op = IF n.pc = seq[i].target THEN "assume" ELSE "assume_not"}}
    BY <1>4, <2>1
  <2> QED BY <1>1, <1>4, <2>2 DEF Follows, b
<1> QED BY <1>3, <1>4

\* Going on behind an instruction, the one executed or the call that is returned to.
LEMMA Resumes ==
    ASSUME InputOK, TargetsIn, Indexes # {}, NEW s, NEW i, Running(s, i),
           seq[i].op \notin {"exit", "jump"}, NEW n \in Resume(s, i)
    PROVE  LET j == Fallthrough(i).from
           IN  /\ ~ IsLast(i) /\ n = At(s, j) /\ j \in Indexes /\ Within(s, j)
               /\ Fallthrough(i) = NewLabel(j) /\ Clone(Fallthrough(i), s) = Place(s, j)
               /\ LabelOf(n) = Place(s, j)
               /\ \A a : <<a, Place(s, j)>> \in Through => Running(s, j)
<1> DEFINE j == Fallthrough(i).from
<1>1. s \in Seq(Int) /\ i \in Indexes /\ Within(s, i)
  BY DEF Running, Good, Within
<1>2. ~ IsLast(i) /\ n = At(s, j)
  BY DEF Resume
<1>3. j \in Indexes /\ Fallthrough(i) = NewLabel(j) /\ j \in Int
  BY <1>1, <1>2, FallsTo DEF InputOK
<1>4. Within(s, j)
  BY <1>1, <1>2, StaysWithin
<1>5. Clone(Fallthrough(i), s) = Place(s, j)
  BY <1>3 DEF Place
<1>6. LabelOf(n) = Place(s, j)
  BY <1>1, <1>2, <1>3, PlaceIs DEF At, LabelOf
<1>7. \A a : <<a, Place(s, j)>> \in Through => Running(s, j)
  BY <1>3, <1>4, Arrives
<1> QED BY <1>2, <1>3, <1>4, <1>5, <1>6, <1>7, SMTT(60)

GoesOn(s, i, n) ==
    /\ n = Ended \/ (n = At(n.stack, n.pc) /\ Running(n.stack, n.pc))
    /\ Follows(At(s, i), n)

LEMMA GoesOnAt ==
    ASSUME NEW s, NEW i, NEW t, NEW j, Running(t, j), Follows(At(s, i), At(t, j))
    PROVE  GoesOn(s, i, At(t, j))
BY DEF GoesOn, At

LEMMA BranchGoesOn ==
    ASSUME InputOK, FollowInv, MainFirst, NEW s, NEW i, Running(s, i), seq[i].op = "branch",
           NEW n \in Successors(At(s, i))
    PROVE  GoesOn(s, i, n)
<1> DEFINE k == seq[i].target
           j == Fallthrough(i).from
<1>1. /\ s \in Seq(Int) /\ i \in Indexes /\ i \in Int /\ Good(s, i) /\ Within(s, i)
      /\ TargetsIn /\ Indexes # {}
  BY DEF Running, FollowInv, InputOK, Good, Within
<1>2. StepsAt(s, i, Through)
  BY <1>1 DEF FollowInv, Faithful
<1>3. k \in Indexes /\ k \in Int /\ Within(s, k)
  BY <1>1, StaysWithin DEF TargetsIn, InputOK
<1>4. LabelOf(At(s, k)) = Place(s, k) /\ At(s, k).pc = k
  BY <1>1, <1>3, PlaceIs DEF At, LabelOf
<1>5. n = At(s, k) \/ n \in Resume(s, i)
  BY StepsFrom
<1>6. n \in Resume(s, i) =>
        /\ ~ IsLast(i) /\ n = At(s, j) /\ j \in Indexes
        /\ Fallthrough(i) = NewLabel(j) /\ Clone(Fallthrough(i), s) = Place(s, j)
        /\ LabelOf(n) = Place(s, j) /\ n.pc = j
        /\ \A a : <<a, Place(s, j)>> \in Through => Running(s, j)
  <2>1. At(s, j).pc = j
    BY DEF At
  <2> QED BY <1>1, <2>1, Resumes
<1>7. CASE Splits(i)
  <2> DEFINE T == Clone(Taken(i), s)
             F == Clone(NotTaken(i), s)
  <2>1. /\ nodes[T].op = "assume" /\ nodes[F].op = "assume_not"
        /\ <<Place(s, i), T>> \in Through /\ <<T, Place(s, k)>> \in Through
        /\ <<Place(s, i), F>> \in Through
        /\ IsLast(i) \/ <<F, Clone(Fallthrough(i), s)>> \in Through
    BY <1>2, <1>7 DEF StepsAt, BranchIn
  <2> HIDE DEF T, F
  <2>2. CASE n = At(s, k)
    <3>1. Running(s, k)
      BY <1>3, <2>1, Arrives, SMTT(60)
    <3>2. Follows(At(s, i), n)
      BY <1>1, <1>4, <1>7, <2>1, <2>2, FollowsIs
    <3> QED BY <2>2, <3>1, <3>2, GoesOnAt, SMTT(60)
  <2>3. CASE n \in Resume(s, i) /\ n # At(s, k)
    <3>1. n.pc # k
      <4>1. n = At(s, n.pc)
        BY <1>6, <2>3
      <4> QED BY <2>3, <4>1
    <3>2. <<F, LabelOf(n)>> \in Through
      BY <1>6, <2>1, <2>3
    <3>3. Follows(At(s, i), n)
      BY <1>1, <1>7, <2>1, <3>1, <3>2, FollowsIs
    <3>4. Running(s, j) /\ n = At(s, j)
      BY <1>6, <2>3, <3>2
    <3> HIDE DEF j
    <3> QED BY <3>3, <3>4, GoesOnAt
  <2> QED BY <1>5, <2>2, <2>3
<1>8. CASE ~ Splits(i)
  <2>1. Fallthrough(i) = NewLabel(k)
    BY <1>8 DEF Splits
  <2>2. ~ IsLast(i)
    BY <1>1, <1>3, <2>1, FallthroughIs, NewLabelApart, SMTT(60)
  <2>3. <<Place(s, i), Place(s, k)>> \in Through
    BY <1>2, <1>8, <2>1, <2>2, SMTT(60) DEF StepsAt, FallAt, Place
  <2>4. j = k
    BY <1>3, <2>1, LabelsApart, SMTT(60)
  <2>5. n = At(s, k)
    BY <1>5, <1>6, <2>4
  <2>6. Running(s, k)
    BY <1>3, <2>3, Arrives, SMTT(60)
  <2>7. Follows(At(s, i), n)
    BY <1>1, <1>4, <1>8, <2>3, <2>5, FollowsIs, SMTT(60)
  <2> QED BY <2>5, <2>6, <2>7, GoesOnAt
<1> QED BY <1>7, <1>8

LEMMA ExitGoesOn ==
    ASSUME InputOK, FollowInv, MainFirst, NEW s, NEW i, Running(s, i), seq[i].op = "exit",
           NEW n \in Successors(At(s, i))
    PROVE  GoesOn(s, i, n)
<1>1. /\ s \in Seq(Int) /\ i \in Indexes /\ i \in Int /\ Good(s, i)
      /\ TargetsIn /\ Indexes # {} /\ Len(s) \in Nat /\ ~ Splits(i)
  BY DEF Running, FollowInv, InputOK, Splits
<1>2. ExitAt(s, i, Through)
  BY <1>1 DEF FollowInv, Faithful, StepsAt
<1>3. CASE s = <<>>
  <2>1. n = Ended
    BY <1>3, StepsFrom
  <2>2. LabelOf(n) = ExitLabel
    BY <2>1 DEF LabelOf, Ended
  <2>3. <<Place(s, i), LabelOf(n)>> \in Through
    BY <1>2, <1>3, <2>2 DEF ExitAt
  <2>4. Follows(At(s, i), n)
    BY <1>1, <2>3, FollowsIs, SMTT(60)
  <2> QED BY <2>1, <2>4 DEF GoesOn
<1>4. CASE s # <<>>
  <2> DEFINE q == SubSeq(s, 1, Len(s) - 1)
             c == s[Len(s)]
             j == Fallthrough(c).from
  <2>1. Running(q, c) /\ seq[c].op = "call" /\ Len(s) > 0
    BY <1>1, <1>4, Returns, SMTT(60)
  <2>2. n \in Resume(q, c)
    BY <2>1, StepsFrom
  <2> HIDE DEF q, c
  <2>3. /\ ~ IsLast(c) /\ n = At(q, j) /\ LabelOf(n) = Place(q, j)
        /\ Clone(Fallthrough(c), q) = Place(q, j)
        /\ \A a : <<a, Place(q, j)>> \in Through => Running(q, j)
    BY <1>1, <2>1, <2>2, Resumes
  <2> HIDE DEF j
  <2>4. <<Place(s, i), Place(q, j)>> \in Through
    BY <1>2, <1>4, <2>3, SMTT(60) DEF ExitAt, q, c
  <2>5. Running(q, j)
    BY <2>3, <2>4, SMTT(60)
  <2>6. Follows(At(s, i), n)
    BY <1>1, <2>3, <2>4, FollowsIs
  <2> QED BY <2>3, <2>5, <2>6, GoesOnAt, SMTT(60)
<1> QED BY <1>3, <1>4

LEMMA MachineGoesOn ==
    ASSUME InputOK, FollowInv, MainFirst, NEW s, NEW i, Running(s, i),
           NEW n \in Successors(At(s, i))
    PROVE  GoesOn(s, i, n)
<1> DEFINE k == seq[i].target
           j == Fallthrough(i).from
<1>1. /\ s \in Seq(Int) /\ i \in Indexes /\ i \in Int /\ Good(s, i) /\ Within(s, i)
      /\ TargetsIn /\ Indexes # {}
  BY DEF Running, FollowInv, InputOK, Good, Within
<1>2. StepsAt(s, i, Through)
  BY <1>1 DEF FollowInv, Faithful
<1>3. CASE seq[i].op = "jump"
  <2>1. n = At(s, k) /\ ~ Splits(i)
    BY <1>3, StepsFrom DEF Splits
  <2>2. k \in Indexes /\ k \in Int /\ Within(s, k)
    <3>1. k \in Indexes
      BY <1>1, <1>3 DEF TargetsIn
    <3>2. k \in Int
      BY <3>1 DEF InputOK
    <3>3. Within(s, k)
      BY <1>1, <1>3, StaysWithin, SMTT(60)
    <3> QED BY <3>1, <3>2, <3>3
  <2>3. LabelOf(n) = Place(s, k)
    BY <1>1, <2>1, <2>2, PlaceIs DEF At, LabelOf
  <2>4. <<Place(s, i), Place(s, k)>> \in Through
    BY <1>2, <1>3 DEF StepsAt, JumpAt
  <2>5. Running(s, k)
    BY <2>2, <2>4, Arrives
  <2>6. Follows(At(s, i), n)
    BY <1>1, <2>1, <2>3, <2>4, FollowsIs
  <2> QED BY <2>1, <2>5, <2>6, GoesOnAt, SMTT(60)
<1>4. CASE seq[i].op = "call"
  <2> DEFINE t == Append(s, i)
  <2>1. n = At(t, k) /\ ~ Splits(i)
    BY <1>4, StepsFrom DEF Splits
  <2>2. k \in Indexes /\ k \in Int /\ Within(t, k) /\ t \in Seq(Int)
    BY <1>1, <1>4, StaysWithin DEF TargetsIn, InputOK
  <2>3. PendingSet = {}
    BY DEF FollowInv, PendingSet
  <2>4. <<Place(s, i), Place(t, k)>> \in Through
    BY <1>2, <1>4, <2>3, SMTT(60) DEF StepsAt, InlinedAt
  <2>5. Running(t, k)
    BY <1>4, <2>2, <2>4, Calls, SMTT(60)
  <2> HIDE DEF t
  <2>6. LabelOf(n) = Place(t, k)
    BY <2>1, <2>2, PlaceIs, SMTT(60) DEF At, LabelOf
  <2>7. Follows(At(s, i), n)
    BY <1>1, <2>1, <2>4, <2>6, FollowsIs, SMTT(60)
  <2> QED BY <2>1, <2>5, <2>7, GoesOnAt, SMTT(60)
<1>5. CASE seq[i].op \notin {"jump", "branch", "call", "exit"}
  <2>1. n \in Resume(s, i) /\ ~ Splits(i)
    BY <1>5, StepsFrom DEF Splits
  <2>2. /\ ~ IsLast(i) /\ n = At(s, j) /\ LabelOf(n) = Place(s, j)
        /\ Clone(Fallthrough(i), s) = Place(s, j)
        /\ \A a : <<a, Place(s, j)>> \in Through => Running(s, j)
    BY <1>1, <1>5, <2>1, Resumes, SMTT(60)
  <2> HIDE DEF j
  <2>3. <<Place(s, i), Place(s, j)>> \in Through
    BY <1>2, <1>5, <2>1, <2>2 DEF StepsAt, FallAt
  <2>4. Running(s, j)
    BY <2>2, <2>3, SMTT(60)
  <2>5. Follows(At(s, i), n)
    BY <1>1, <2>1, <2>2, <2>3, FollowsIs
  <2> QED BY <2>2, <2>4, <2>5, GoesOnAt, SMTT(60)
<1> QED BY <1>3, <1>4, <1>5, BranchGoesOn, ExitGoesOn, SMTT(60)

LEMMA MachineStep ==
    ASSUME StageInv, FlowInv, MachineInv, [Next]_vars
    PROVE  MachineInv'
<1>1. InputOK
  BY DEF StageInv
<1>2. ASSUME UNCHANGED vars \/ Stopped PROVE MachineInv'
  <2>1. UNCHANGED <<machine, pass>> /\ UNCHANGED StageVars
    BY <1>2 DEF Stopped, StageVars, vars
  <2>2. MainFirst' = MainFirst
    BY <2>1, GraphSame
  <2>3. Running(machine.stack, machine.pc)' = Running(machine.stack, machine.pc)
    BY <2>1, GraphSame
  <2> QED BY <2>1, <2>2, <2>3 DEF MachineInv
<1>3. ASSUME Build PROVE MachineInv'
  <2>1. pass # "built"
    BY <1>3, SMTT(60) DEF Build, ValidateInstructionSupport, ResolveKfuncCalls, LowerPseudoLoads, PopulateNodes,
                ValidateControlFlowTargets, ConnectEdges, AddCfgNodes, InlineLocalCalls,
                ValidateTailCallDepth, ComputeCallbackMetadata, InsertTerminationCounters,
                ExtractAssertions
  <2>2. UNCHANGED machine
    BY <1>3 DEF Build, ValidateInstructionSupport, ResolveKfuncCalls, LowerPseudoLoads, PopulateNodes,
                ValidateControlFlowTargets, ConnectEdges, AddCfgNodes, InlineLocalCalls,
                ValidateTailCallDepth, ComputeCallbackMetadata, InsertTerminationCounters,
                ExtractAssertions, Vetted
  <2> QED BY <2>1, <2>2, ZenonT(60) DEF MachineInv
<1>4. ASSUME Start PROVE MachineInv'
  <2>1. /\ pass = "built" /\ UNCHANGED pass /\ UNCHANGED StageVars
        /\ machine' = At(<<>>, FirstIndex)
    BY <1>4 DEF Start, StageVars, FirstIndex
  <2>2. FollowInv /\ TargetsIn /\ Indexes # {}
    BY <2>1 DEF FlowInv, FollowInv
  <2>3. FirstIndex \in Indexes /\ FirstIndex \in Int /\ FirstIndex \in Main
    <3>1. FirstIndex \in Indexes /\ FirstIndex \in Main
      BY <1>1, <2>2, FirstIndexIs, MainIs
    <3>2. \A k \in Indexes : k \in Int
      BY <1>1 DEF InputOK
    <3> QED BY <3>1, <3>2
  <2>4. Place(<<>>, FirstIndex) \in DOMAIN nodes
    <3>1. \A k \in Int : Place(<<>>, k) = NewLabel(k)
      <4>1. <<>> \in Seq(Int)
        OBVIOUS
      <4> QED BY <4>1, PlaceIs
    <3>2. NewLabel(FirstIndex) \in DOMAIN nodes
      BY <2>2, <2>3 DEF FollowInv
    <3> QED BY <2>3, <3>1, <3>2
  <2>5. Running(<<>>, FirstIndex)
    BY <2>3, <2>4 DEF Running, Good
  <2>6. Running(<<>>, FirstIndex)'
    <3>1. FirstIndex' = FirstIndex
      BY <2>1 DEF StageVars, FirstIndex, seq, Indexes
    <3> QED BY <2>1, <2>5, <3>1, GraphSame
  <2>7. machine'.stack = <<>> /\ machine'.pc = FirstIndex /\ machine' = At(machine'.stack, machine'.pc)
    BY <2>1, SMTT(60) DEF At
  <2>8. FirstIndex' = FirstIndex
    BY <2>1 DEF StageVars, FirstIndex, seq, Indexes
  <2> QED BY <2>1, <2>6, <2>7, <2>8, SMTT(60) DEF MachineInv
<1>5. ASSUME Execute PROVE MachineInv'
  <2>1. /\ machine.mode = "running" /\ machine' \in Successors(machine)
        /\ UNCHANGED pass /\ UNCHANGED StageVars
    BY <1>5 DEF Execute, StageVars
  <2>2. pass = "built" /\ FollowInv /\ MainFirst' = MainFirst
    BY <2>1, GraphSame DEF MachineInv, FlowInv
  <2>3. SUFFICES ASSUME MainFirst, machine'.mode = "running"
                 PROVE  machine' = At(machine'.stack, machine'.pc) /\ Running(machine.stack, machine.pc)'
    BY <2>1, <2>2 DEF MachineInv
  <2>4. machine = At(machine.stack, machine.pc) /\ Running(machine.stack, machine.pc)
    BY <2>1, <2>3 DEF MachineInv
  <2>5. GoesOn(machine.stack, machine.pc, machine')
    <3> DEFINE s == machine.stack
               i == machine.pc
               n == machine'
    <3>1. Running(s, i) /\ n \in Successors(At(s, i))
      BY <2>1, <2>4
    <3> HIDE DEF s, i, n
    <3>2. GoesOn(s, i, n)
      BY <1>1, <2>2, <2>3, <3>1, MachineGoesOn
    <3> QED BY <3>2 DEF s, i, n
  <2>6. machine' # Ended
    BY <2>3 DEF Ended
  <2>7. machine' = At(machine'.stack, machine'.pc) /\ Running(machine'.stack, machine'.pc)
    BY <2>5, <2>6 DEF GoesOn
  <2> QED BY <2>1, <2>7, GraphSame
<1> QED BY <1>2, <1>3, <1>4, <1>5 DEF Next

FollowsInv == StageInv /\ FlowInv /\ MachineInv

LEMMA FollowsAlways == Spec => []FollowsInv
<1>1. Init => FollowsInv
  BY StageInit, FlowInit DEF FollowsInv
<1>2. FollowsInv /\ [Next]_vars => FollowsInv'
  BY StageStep, FlowStep, MachineStep, SMTT(60) DEF FollowsInv
<1> QED BY <1>1, <1>2, PTL DEF Spec

(***************************************************************************)
(* The graph follows the machine: whatever the machine executes is a node  *)
(* with its assertions, under the calls on the machine's stack, and every  *)
(* step it can take from there is in the graph.  It holds for every        *)
(* sequence whose main program comes before the subprograms it calls, of   *)
(* any length and any depth of calls; inlining, the split branches and the *)
(* counters have to work together for it.                                  *)
(***************************************************************************)
THEOREM GraphFollowsMachineAlways == Spec => []GraphFollowsMachine
<1>1. FollowsInv => GraphFollowsMachine
  <2>1. SUFFICES ASSUME FollowsInv, machine.mode = "running", MainFirst
                 PROVE  /\ LabelOf(machine) \in asserted
                        /\ \A next \in Successors(machine) : Follows(machine, next)
    BY DEF GraphFollowsMachine
  <2> DEFINE s == machine.stack
             i == machine.pc
  <2>2. InputOK /\ FollowInv /\ asserted = DOMAIN nodes
    BY <2>1 DEF FollowsInv, StageInv, FlowInv, MachineInv
  <2>3. machine = At(s, i) /\ Running(s, i)
    BY <2>1 DEF FollowsInv, MachineInv
  <2> HIDE DEF s, i
  <2>4. s \in Seq(Int) /\ i \in Int /\ Place(s, i) \in DOMAIN nodes
    BY <2>2, <2>3 DEF Running, Good, InputOK
  <2>5. LabelOf(machine) = Place(s, i)
    BY <2>3, <2>4, PlaceIs DEF At, LabelOf
  <2>6. ASSUME NEW next \in Successors(machine) PROVE Follows(machine, next)
    <3>1. GoesOn(s, i, next)
      BY <2>1, <2>2, <2>3, <2>6, MachineGoesOn
    <3> QED BY <2>3, <3>1 DEF GoesOn
  <2> QED BY <2>2, <2>4, <2>5, <2>6
<1> QED BY <1>1, FollowsAlways, PTL

\* Where the main program comes first: the frames of a call and of the exit
\* that returns from it are the same, and there are not too many.
LEMMA FramesMatchMainFirst == Spec => [](MainFirst => FramesMatchMachine)
<1>1. FollowsInv => (MainFirst => FramesMatchMachine)
  <2>1. SUFFICES ASSUME FollowsInv, MainFirst, machine.mode = "running"
                 PROVE  FramesMatchMachine
    BY DEF FramesMatchMachine, ExitMatchesCall, FramesBounded
  <2> DEFINE s == machine.stack
             i == machine.pc
             d == Len(s)
             q == SubSeq(s, 1, d - 1)
             c == s[d]
  <2>2. InputOK /\ FollowInv
    BY <2>1 DEF FollowsInv, StageInv, FlowInv, MachineInv
  <2>3. machine = At(s, i) /\ Running(s, i)
    BY <2>1 DEF FollowsInv, MachineInv
  <2> HIDE DEF s, i
  <2>4. s \in Seq(Int) /\ i \in Indexes /\ i \in Int /\ Good(s, i)
    BY <2>2, <2>3 DEF Running, InputOK
  <2>5. ASSUME s # <<>>
        PROVE  /\ LabelFull(c, -1, q) = Place(q, c) /\ nodes[Place(q, c)].stack_frame_prefix = s
               /\ d + 1 <= input.max_call_stack_frames
    <3>1. Running(q, c) /\ seq[c].op = "call" /\ s = Append(q, c) /\ Len(q) = d - 1 /\ d \in Nat \ {0}
      BY <2>2, <2>3, <2>5, Returns
    <3> HIDE DEF q, c
    <3>2. q \in Seq(Int) /\ c \in Indexes /\ c \in Int /\ Good(q, c)
      BY <2>2, <3>1 DEF Running, InputOK
    <3>3. StepsAt(q, c, Through)
      BY <2>1, <2>2, <3>2 DEF FollowInv, Faithful
    <3>4. PendingSet = {}
      BY <2>2 DEF FollowInv, PendingSet
    <3>5. InlinedAt(q, c, Through)
      BY <3>1, <3>3, <3>4, SMTT(60) DEF StepsAt
    <3>6. nodes[Place(q, c)].stack_frame_prefix = s /\ Len(q) + 2 <= input.max_call_stack_frames
      BY <3>1, <3>5 DEF InlinedAt
    <3>7. LabelFull(c, -1, q) = Place(q, c)
      BY <3>2, PlaceIs
    <3>8. Len(q) + 2 = d + 1
      BY <3>1
    <3> QED BY <3>6, <3>7, <3>8
  <2>6. FramesBounded
    <3>1. CASE s # <<>>
      BY <2>5, <3>1 DEF FramesBounded, s
    <3>2. CASE s = <<>>
      <4>1. Len(s) = 0 /\ input.max_call_stack_frames \in Nat \ {0}
        BY <2>2, <3>2, SMTT(60) DEF InputOK
      <4> QED BY <4>1 DEF FramesBounded, s
    <3> QED BY <3>1, <3>2
  <2>7. ExitMatchesCall
    <3>1. SUFFICES ASSUME s # <<>>, seq[i].op = "exit"
                   PROVE  /\ nodes[LabelOf(machine)].stack_frame_prefix = s
                          /\ nodes[LabelFull(c, -1, q)].stack_frame_prefix = s
      BY DEF ExitMatchesCall, s, i
    <3>2. LabelOf(machine) = Place(s, i)
      BY <2>3, <2>4, PlaceIs DEF At, LabelOf
    <3>3. ExitAt(s, i, Through)
      BY <2>1, <2>2, <2>4 DEF FollowInv, Faithful, StepsAt
    <3> QED BY <2>5, <3>1, <3>2, <3>3 DEF ExitAt
  <2> QED BY <2>6, <2>7 DEF FramesMatchMachine
<1> QED BY <1>1, FollowsAlways, PTL
-----------------------------------------------------------------------------
(***************************************************************************)
(* The labels of callbacks that can end.  From here on the order of the    *)
(* sequence does not matter: which labels lead to the exit is not changed  *)
(* by inlining, even where a call returns to the wrong place.              *)
(***************************************************************************)

(***************************************************************************)
(* The runs of the machine: there are finitely many states with as many    *)
(* active calls as instructions.                                           *)
(***************************************************************************)
Stacks(k) == {s \in Seq(Indexes) : Len(s) <= k}

LEMMA StacksFinite ==
    ASSUME InputOK
    PROVE  \A k \in Nat : IsFiniteSet(Stacks(k))
<1> DEFINE T == {k \in Nat : IsFiniteSet(Stacks(k))}
<1>1. 0 \in T
  <2>1. Stacks(0) = {<<>>}
    <3>1. \A s \in Seq(Indexes) : Len(s) <= 0 <=> s = <<>>
      <4>1. \A s \in Seq(Indexes) : s # <<>> => Len(s) \in Nat \ {0}
        BY EmptySeq
      <4> QED BY <4>1
    <3>2. <<>> \in Seq(Indexes)
      BY EmptySeq
    <3> QED BY <3>1, <3>2 DEF Stacks
  <2> QED BY <2>1, FS_Singleton
<1>2. ASSUME NEW k \in T PROVE k + 1 \in T
  <2> DEFINE f == [x \in Stacks(k) \X Indexes |-> Append(x[1], x[2])]
             g == {f[x] : x \in Stacks(k) \X Indexes}
  <2>1. IsFiniteSet(Stacks(k) \X Indexes)
    BY <1>2, FS_Product DEF InputOK
  <2>2. IsFiniteSet(g)
    <3>1. DOMAIN f = Stacks(k) \X Indexes
      OBVIOUS
    <3> HIDE DEF f
    <3> QED BY <2>1, <3>1, ImageFinite
  <2>3. ASSUME NEW s \in Stacks(k + 1), s # <<>> PROVE s \in g
    <3> DEFINE d == Len(s)
               q == SubSeq(s, 1, d - 1)
    <3>1. s \in Seq(Indexes) /\ d \in Nat \ {0} /\ d <= k + 1
      BY <1>2, <2>3, EmptySeq DEF Stacks
    <3>2. s \in Seq(Int)
      <4>1. Indexes \subseteq Int
        BY DEF InputOK
      <4>2. s \in [1 .. d -> Int]
        <5>1. s = [j \in 1 .. d |-> s[j]]
          BY <3>1
        <5>2. \A j \in 1 .. d : s[j] \in Int
          BY <3>1, <4>1, ElementOfSeq
        <5> QED BY <5>1, <5>2, ZenonT(60)
      <4> QED BY <3>1, <4>2
    <3>3. s[d] \in Indexes /\ q \in Seq(Indexes) /\ Len(q) = d - 1 /\ s = Append(q, s[d])
      <4>1. s[d] \in Indexes /\ \A j \in 1 .. d - 1 : s[j] \in Indexes
        BY <3>1, ElementOfSeq
      <4>2. Len(q) = d - 1 /\ s = Append(q, s[d]) /\ \A j \in 1 .. d - 1 : q[j] = s[j]
        BY <2>3, <3>2, Caller, SMTT(60)
      <4>3. q \in Seq(Int)
        BY <2>3, <3>2, Caller
      <4>4. q \in Seq(Indexes)
        <5> HIDE DEF q, d
        <5>1. q = [j \in 1 .. Len(q) |-> q[j]]
          BY <4>3
        <5>2. \A j \in 1 .. Len(q) : q[j] \in Indexes
          BY <4>1, <4>2
        <5>3. Len(q) \in Nat
          BY <4>3
        <5>4. q \in [1 .. Len(q) -> Indexes]
          BY <5>1, <5>2, ZenonT(60)
        <5> QED BY <5>3, <5>4
      <4> QED BY <4>1, <4>2, <4>4
    <3> HIDE DEF q, d
    <3>4. <<q, s[d]>> \in Stacks(k) \X Indexes
      BY <1>2, <3>1, <3>3 DEF Stacks
    <3>5. f[<<q, s[d]>>] = s
      BY <3>3, <3>4
    <3> QED BY <3>4, <3>5
  <2> HIDE DEF g
  <2>4. Stacks(k + 1) \subseteq g \cup {<<>>}
    BY <2>3
  <2>5. IsFiniteSet(g \cup {<<>>})
    BY <2>2, FS_AddElement
  <2> QED BY <2>4, <2>5, FS_Subset
<1>3. T \in SUBSET Nat
  OBVIOUS
<1> HIDE DEF T
<1>4. T = Nat
  BY <1>1, <1>2, <1>3, SetInduction
<1> QED BY <1>4 DEF T

LEMMA RunsFinite ==
    ASSUME InputOK
    PROVE  /\ IsFiniteSet(Runs) /\ Ended \in Runs
           /\ Cardinality(Indexes) \in Nat
           /\ \A s \in ActiveCalls, i \in Indexes :
                 /\ At(s, i) \in Runs /\ At(s, i) # Ended
                 /\ At(s, i).stack = s /\ At(s, i).pc = i
           /\ \A m \in Runs \ {Ended} : m = At(m.stack, m.pc) /\ m.stack \in ActiveCalls /\ m.pc \in Indexes
<1> DEFINE X == [mode : {"running"}, stack : ActiveCalls, pc : Indexes]
           f == [x \in ActiveCalls \X Indexes |-> At(x[1], x[2])]
           g == {f[x] : x \in ActiveCalls \X Indexes}
<1>1. Cardinality(Indexes) \in Nat
  BY FS_CardinalityType DEF InputOK
<1>2. IsFiniteSet(ActiveCalls)
  BY <1>1, StacksFinite DEF ActiveCalls, Stacks
<1>3. IsFiniteSet(g)
  <2>1. IsFiniteSet(ActiveCalls \X Indexes)
    BY <1>2, FS_Product DEF InputOK
  <2>2. DOMAIN f = ActiveCalls \X Indexes
    OBVIOUS
  <2> HIDE DEF f
  <2> QED BY <2>1, <2>2, ImageFinite
<1>4. \A m \in X : m = At(m.stack, m.pc) /\ m.stack \in ActiveCalls /\ m.pc \in Indexes
  BY DEF At
<1>5. X \subseteq g
  <2> SUFFICES ASSUME NEW m \in X PROVE m \in g
    OBVIOUS
  <2>1. <<m.stack, m.pc>> \in ActiveCalls \X Indexes /\ f[<<m.stack, m.pc>>] = m
    BY <1>4
  <2> QED BY <2>1
<1>6. IsFiniteSet(X \cup {Ended})
  <2> HIDE DEF X, g
  <2> QED BY <1>3, <1>5, FS_Subset, FS_AddElement
<1>7. Runs = X \cup {Ended}
  BY DEF Runs
<1>8. \A s \in ActiveCalls, i \in Indexes :
          At(s, i) \in X /\ At(s, i).stack = s /\ At(s, i).pc = i /\ At(s, i).mode # Ended.mode
  BY DEF At, Ended
<1>9. \A s \in ActiveCalls, i \in Indexes : At(s, i) # Ended
  BY <1>8
<1> HIDE DEF X, f, g
<1> QED BY <1>1, <1>4, <1>6, <1>7, <1>8, <1>9, ZenonT(60)

\* Every run that is at m can go on to n.
Shut(S) == \A m \in S \ {Ended} : Successors(m) \cap Runs \subseteq S
Gets(m, n) == \A S \in SUBSET Runs : m \in S /\ Shut(S) => n \in S

LEMMA CanEndIs ==
    ASSUME InputOK, NEW i \in Indexes
    PROVE  CanEnd(i) <=> Gets(At(<<>>, i), Ended)
<1> DEFINE U == Runs
           F == [S \in SUBSET U |-> S \cup Continued(S)]
           c == CHOOSE c : c = [S \in SUBSET Runs |->
                    LET T == S \cup Continued(S)
                    IN  IF T = S THEN S ELSE c[T]]
           a == At(<<>>, i)
<1>1. F \in [SUBSET U -> SUBSET U]
  BY DEF Continued
<1>2. PICK h : Iterates(U, F, h)
  <2> HIDE DEF F, U
  <2> QED BY <1>1, GrowthExists, SMTT(60)
<1>3. h = [S \in SUBSET Runs |->
             LET T == S \cup Continued(S)
             IN  IF T = S THEN S ELSE h[T]]
  BY <1>2 DEF Iterates
<1>4. c = [S \in SUBSET Runs |->
             LET T == S \cup Continued(S)
             IN  IF T = S THEN S ELSE c[T]]
  BY <1>3, Zenon
<1>5. CanEnd(i) <=> Ended \in c[{a}]
  BY DEF CanEnd
<1>6. GrowsIn(U, F, c)
  <2> HIDE DEF c
  <2>1. \A S, T \in SUBSET U : S \subseteq T => F[S] \subseteq F[T]
    BY DEF Continued
  <2>2. \A S \in SUBSET U : S \subseteq F[S]
    OBVIOUS
  <2>3. Iterates(U, F, c)
    BY <1>4, ZenonT(60) DEF Iterates
  <2>4. IsFiniteSet(U)
    BY RunsFinite
  <2> HIDE DEF F, U
  <2> QED BY <1>1, <2>1, <2>2, <2>3, <2>4 DEF GrowsIn
<1> HIDE DEF c
<1>7. {a} \in SUBSET U
  <2>1. <<>> \in ActiveCalls
    <3>1. Cardinality(Indexes) \in Nat
      BY RunsFinite
    <3> QED BY <3>1, EmptySeq DEF ActiveCalls
  <2> QED BY <2>1, RunsFinite
<1>8. LeastKept(U, F, {a}, c[{a}])
  <2> HIDE DEF F, U, a
  <2> QED BY <1>6, <1>7, GrowthResult
<1>9. \A T \in SUBSET U : F[T] = T <=> Shut(T)
  BY DEF Shut, Continued
<1> HIDE DEF F
<1>10. /\ c[{a}] \in SUBSET U /\ {a} \subseteq c[{a}] /\ F[c[{a}]] = c[{a}]
       /\ \A T \in SUBSET U : {a} \subseteq T /\ F[T] = T => c[{a}] \subseteq T
  BY <1>8 DEF LeastKept
<1> HIDE DEF a
<1>11. Ended \in c[{a}] <=> Gets(a, Ended)
  BY <1>9, <1>10, ZenonT(60) DEF Gets
<1> QED BY <1>5, <1>11 DEF a

LEMMA GetsOn ==
    /\ \A m : Gets(m, m)
    /\ \A m, n, p : Gets(m, n) /\ Gets(n, p) => Gets(m, p)
    /\ \A m : m # Ended => \A n \in Successors(m) : n \in Runs => Gets(m, n)
<1>1. \A m : Gets(m, m)
  BY DEF Gets
<1>2. \A m, n, p : Gets(m, n) /\ Gets(n, p) => Gets(m, p)
  BY DEF Gets
<1>3. \A m : m # Ended => \A n \in Successors(m) : n \in Runs => Gets(m, n)
  BY DEF Gets, Shut
<1> QED BY <1>1, <1>2, <1>3

(***************************************************************************)
(* The labels that lead to the exit, where a call leads there if its       *)
(* continuation and its callee do.                                         *)
(***************************************************************************)
LeadsBack(S, e) == e[2] \in S /\ (nodes[e[1]].op = "call" => NewLabel(nodes[e[1]].target) \in S)
Backs(S) == ExitLabel \in S /\ \A e \in edges : LeadsBack(S, e) => e[1] \in S
Ends == {l \in DOMAIN nodes : \A S \in SUBSET (DOMAIN nodes) : Backs(S) => l \in S}

EndsLeast ==
    /\ Ends \in SUBSET (DOMAIN nodes)
    /\ Backs(Ends)
    /\ \A S \in SUBSET (DOMAIN nodes) : Backs(S) => Ends \subseteq S

LEMMA EndsIs == GraphInv => EndsLeast
<1> SUFFICES ASSUME GraphInv PROVE EndsLeast
  OBVIOUS
<1>1. edges \subseteq (DOMAIN nodes) \X (DOMAIN nodes) /\ ExitLabel \in DOMAIN nodes
  BY DEF GraphInv, GraphType
<1>2. ASSUME NEW e \in edges, LeadsBack(Ends, e) PROVE e[1] \in Ends
  <2>1. e[1] \in DOMAIN nodes
    BY <1>1
  <2>2. ASSUME NEW S \in SUBSET (DOMAIN nodes), Backs(S) PROVE e[1] \in S
    <3>1. LeadsBack(S, e)
      BY <1>2, <2>2 DEF LeadsBack, Ends
    <3> QED BY <2>2, <3>1 DEF Backs
  <2> QED BY <2>1, <2>2 DEF Ends
<1>3. ExitLabel \in Ends
  BY <1>1 DEF Ends, Backs
<1> QED BY <1>2, <1>3 DEF EndsLeast, Backs, Ends

LEMMA EndsNext == (GraphInv => EndsLeast)'
BY EndsIs, PTL

(***************************************************************************)
(* The invariant of inlining: a call that was inlined leads to the exit    *)
(* only if its callee does; the exits of the sequence itself are where     *)
(* they were; and the instructions that lead to the exit are those from    *)
(* which the machine can end.                                              *)
(***************************************************************************)
CallsLead ==
    \A l \in DOMAIN nodes : nodes[l].op = "call" /\ l \notin PendingSet =>
        \A x \in Ends : <<l, x>> \in edges => NewLabel(nodes[l].target) \in Ends

ExitsLead ==
    \A l \in DOMAIN nodes : l.prefix = <<>> =>
        l \in TopLabels /\ (nodes[l].op = "exit" => <<l, ExitLabel>> \in edges)

\* Runs with any number of active calls, and whether they can end.
AnyDepth == {Ended} \cup [mode : {"running"}, stack : Seq(Indexes), pc : Indexes]

EndsAtAnyDepth(i) ==
    \A S \in SUBSET AnyDepth :
        At(<<>>, i) \in S /\ (\A m \in S \ {Ended} : Successors(m) \subseteq S) => Ended \in S

EndsExact ==
    input.must_have_exit => \A i \in Indexes : /\ NewLabel(i) \in Ends <=> CanEnd(i)
                                               /\ NewLabel(i) \in Ends <=> EndsAtAnyDepth(i)

EndInv == CallsLead /\ ExitsLead /\ EndsExact

(***************************************************************************)
(* The edges after a call is inlined.                                      *)
(***************************************************************************)
CloneOf(x, f, exit_to) == IF x = ExitLabel THEN exit_to ELSE Clone(x, f)

InlinedEdges(h, exit_to, R) ==
    LET f == FrameOf(h)
        entry == NewLabel(nodes[h].target)
    IN  /\ entry \in R /\ <<h, exit_to>> \in edges /\ nodes[h].op = "call"
        /\ \A e \in edges : e \in edges' \/ (e[1] = h /\ e[2] = exit_to)
        /\ <<h, Clone(entry, f)>> \in edges'
        /\ \A m \in R, x \in DOMAIN nodes : <<m, x>> \in edges =>
               <<Clone(m, f), CloneOf(x, f, exit_to)>> \in edges'
        /\ \A m \in R, x \in DOMAIN nodes : <<m, x>> \in edges /\ x # ExitLabel => x \in R
        /\ \A e \in edges' :
              \/ e \in edges /\ e[1] # h
              \/ e[1] = h /\ e[2] = Clone(entry, f)
              \/ \E m \in R, x \in DOMAIN nodes :
                    <<m, x>> \in edges /\ e[1] = Clone(m, f) /\ e[2] = CloneOf(x, f, exit_to)
        /\ \A m, n \in R : Clone(m, f) = Clone(n, f) => m = n

LEMMA InlinedEdgesAre ==
    ASSUME InputOK, GraphInv, NEW h, NEW exit_to \in DOMAIN nodes, NEW R \in SUBSET (DOMAIN nodes),
           InlineStep(h, exit_to, R)
    PROVE  InlinedEdges(h, exit_to, R)
<1> DEFINE f == FrameOf(h)
           entry == NewLabel(nodes[h].target)
<1>1. /\ h \in DOMAIN nodes /\ nodes[h].op = "call"
      /\ Walked(h, entry, f, R)
      /\ Inlined(h, f, exit_to, R)
      /\ Children(h) = {exit_to}
  BY DEF InlineStep
<1>2. edges' = (edges \ {<<h, exit_to>>}) \cup {<<h, Clone(entry, f)>>} \cup CloneEdges(R, f, exit_to)
  BY <1>1 DEF Inlined
<1>3. edges \subseteq (DOMAIN nodes) \X (DOMAIN nodes)
  BY DEF GraphInv, GraphType
<1> HIDE DEF f, entry
<1>4. \A a, b : <<a, b>> \in edges <=> b \in Children(a)
  BY <1>3 DEF Children
<1>5. \A e \in edges : e = <<e[1], e[2]>>
  BY <1>3
<1>6. <<h, exit_to>> \in edges /\ \A x : <<h, x>> \in edges => x = exit_to
  BY <1>1, <1>4
<1>7. \A e \in edges : e[1] = h => e[2] = exit_to
  BY <1>5, <1>6
<1>8. CloneEdges(R, f, exit_to) =
          UNION {{<<Clone(m, f), CloneOf(x, f, exit_to)>> : x \in Children(m)} : m \in R}
  BY DEF CloneEdges, CloneOf
<1>9. \A m \in R, x \in DOMAIN nodes : <<m, x>> \in edges =>
          <<Clone(m, f), CloneOf(x, f, exit_to)>> \in edges'
  <2> SUFFICES ASSUME NEW m \in R, NEW x \in DOMAIN nodes, <<m, x>> \in edges
               PROVE  <<Clone(m, f), CloneOf(x, f, exit_to)>> \in CloneEdges(R, f, exit_to)
    BY <1>2
  <2>1. x \in Children(m)
    BY <1>4
  <2> QED BY <1>8, <2>1
<1>10. ASSUME NEW e \in CloneEdges(R, f, exit_to)
       PROVE  \E m \in R, x \in DOMAIN nodes :
                  <<m, x>> \in edges /\ e[1] = Clone(m, f) /\ e[2] = CloneOf(x, f, exit_to)
  <2>1. PICK m \in R : e \in {<<Clone(m, f), CloneOf(x, f, exit_to)>> : x \in Children(m)}
    BY <1>8, <1>10
  <2>2. PICK x \in Children(m) : e = <<Clone(m, f), CloneOf(x, f, exit_to)>>
    BY <2>1
  <2>3. <<m, x>> \in edges /\ x \in DOMAIN nodes
    BY <1>3, <1>4, <2>2
  <2>4. e[1] = Clone(m, f) /\ e[2] = CloneOf(x, f, exit_to)
    BY <2>2
  <2> QED BY <2>3, <2>4
<1>11. /\ entry \in R
       /\ \A m, n \in R : Clone(m, f) = Clone(n, f) => m = n
       /\ \A m \in R, x \in DOMAIN nodes : <<m, x>> \in edges /\ x # ExitLabel => x \in R
  BY <1>1 DEF Walked
<1>12. \A e \in edges : e \in edges' \/ (e[1] = h /\ e[2] = exit_to)
  BY <1>2, <1>5
<1>13. \A e \in edges' :
           \/ e \in edges /\ e[1] # h
           \/ e[1] = h /\ e[2] = Clone(entry, f)
           \/ e \in CloneEdges(R, f, exit_to)
  BY <1>2, <1>5, <1>7
<1>14. <<h, Clone(entry, f)>> \in edges'
  BY <1>2
<1> QED BY <1>1, <1>6, <1>9, <1>10, <1>11, <1>12, <1>13, <1>14 DEF InlinedEdges, f, entry

(***************************************************************************)
(* Inlining a call does not change which labels lead to the exit: a clone  *)
(* does if its original and the continuation of the call do.               *)
(***************************************************************************)
EndClones(h, exit_to, R) ==
    IF exit_to \in Ends THEN {Clone(m, FrameOf(h)) : m \in R \cap Ends} ELSE {}

LEMMA EndsStay ==
    ASSUME InputOK, GraphInv, NEW h, NEW exit_to \in DOMAIN nodes, NEW R \in SUBSET (DOMAIN nodes),
           InlineStep(h, exit_to, R)
    PROVE  Ends \subseteq Ends'
<1> DEFINE f == FrameOf(h)
           entry == NewLabel(nodes[h].target)
<1>1. GraphStep(h, exit_to, R) /\ InlinedEdges(h, exit_to, R)
  BY StepIs, InlinedEdgesAre
<1>2. /\ DOMAIN nodes \subseteq DOMAIN nodes'
      /\ \A l \in DOMAIN nodes : nodes'[l].op = nodes[l].op /\ nodes'[l].target = nodes[l].target
      /\ \A m \in R : /\ Clone(m, f) \notin DOMAIN nodes
                      /\ nodes'[Clone(m, f)].op = nodes[m].op
                      /\ nodes'[Clone(m, f)].target = nodes[m].target
  BY <1>1, ZenonT(60) DEF GraphStep
<1>3. EndsLeast /\ edges \subseteq (DOMAIN nodes) \X (DOMAIN nodes) /\ ExitLabel \in DOMAIN nodes
  BY EndsIs DEF GraphInv, GraphType
<1>4. ASSUME NEW S \in SUBSET (DOMAIN nodes'), Backs(S)'
      PROVE  Ends \subseteq S
  <2> DEFINE W == {l \in DOMAIN nodes :
                      l \in S /\ (l \in R /\ l # ExitLabel /\ exit_to \in S => Clone(l, f) \in S)}
  <2>1. ExitLabel \in S /\ \A e \in edges' : LeadsBack(S, e)' => e[1] \in S
    BY <1>4 DEF Backs
  <2>2. ASSUME NEW e \in edges, LeadsBack(W, e) PROVE e[1] \in W
    <3>1. e[1] \in DOMAIN nodes /\ e[2] \in DOMAIN nodes /\ e = <<e[1], e[2]>>
      BY <1>3
    <3>2. /\ e[2] \in S
          /\ nodes[e[1]].op = "call" => NewLabel(nodes[e[1]].target) \in S
      BY <2>2 DEF LeadsBack
    <3>3. e[1] \in S
      <4>1. CASE e \in edges'
        <5>1. LeadsBack(S, e)'
          BY <1>2, <3>1, <3>2 DEF LeadsBack
        <5> QED BY <2>1, <4>1, <5>1
      <4>2. CASE e \notin edges'
        <5>1. e[1] = h /\ e[2] = exit_to /\ nodes[h].op = "call" /\ entry \in R
              /\ <<h, Clone(entry, f)>> \in edges'
          BY <1>1, <4>2 DEF InlinedEdges
        <5>2. entry \in W
          BY <2>2, <5>1 DEF LeadsBack
        <5>3. entry # ExitLabel
          <6>1. nodes[h].target \in Indexes /\ h \in DOMAIN nodes
            BY <3>1, <5>1 DEF GraphInv, CallNodes
          <6> QED BY <6>1, NewLabelApart
        <5>4. Clone(entry, f) \in S
          BY <3>2, <5>1, <5>2, <5>3
        <5>5. PICK g \in edges' : g = <<h, Clone(entry, f)>>
          BY <5>1
        <5>6. g[1] = h /\ g[2] = Clone(entry, f)
          BY <5>5
        <5>7. LeadsBack(S, g)'
          BY <1>2, <3>1, <3>2, <5>1, <5>4, <5>6, SMTT(60) DEF LeadsBack
        <5>8. g[1] \in S
          BY <2>1, <5>7
        <5> QED BY <5>1, <5>6, <5>8
      <4> QED BY <4>1, <4>2
    <3>4. ASSUME e[1] \in R, exit_to \in S PROVE Clone(e[1], f) \in S
      <4>1. <<Clone(e[1], f), CloneOf(e[2], f, exit_to)>> \in edges'
        BY <1>1, <3>1, <3>4 DEF InlinedEdges
      <4>2. CloneOf(e[2], f, exit_to) \in S
        <5>1. CASE e[2] = ExitLabel
          BY <3>4, <5>1 DEF CloneOf
        <5>2. CASE e[2] # ExitLabel
          <6>1. e[2] \in R
            BY <1>1, <3>1, <3>4, <5>2 DEF InlinedEdges
          <6>2. e[2] \in W
            BY <2>2 DEF LeadsBack
          <6> QED BY <3>4, <5>2, <6>1, <6>2, SMTT(60) DEF CloneOf
        <5> QED BY <5>1, <5>2
      <4>3. LeadsBack(S, <<Clone(e[1], f), CloneOf(e[2], f, exit_to)>>)'
        BY <1>2, <3>2, <3>4, <4>2 DEF LeadsBack
      <4> QED BY <2>1, <4>1, <4>3
    <3> QED BY <3>1, <3>3, <3>4
  <2>3. Backs(W)
    <3>1. ExitLabel \in W
      BY <1>3, <2>1
    <3> HIDE DEF W
    <3> QED BY <2>2, <3>1 DEF Backs
  <2>4. W \in SUBSET (DOMAIN nodes) /\ W \subseteq S
    OBVIOUS
  <2> HIDE DEF W
  <2> QED BY <1>3, <2>3, <2>4 DEF EndsLeast
<1>5. \A l \in Ends : l \in DOMAIN nodes'
  BY <1>2 DEF Ends
<1> QED BY <1>4, <1>5 DEF Ends

LEMMA EndsNoMore ==
    ASSUME InputOK, GraphInv, NEW h, NEW exit_to \in DOMAIN nodes, NEW R \in SUBSET (DOMAIN nodes),
           InlineStep(h, exit_to, R)
    PROVE  Ends' \subseteq Ends \cup EndClones(h, exit_to, R)
<1> DEFINE f == FrameOf(h)
           entry == NewLabel(nodes[h].target)
<1>0. PICK D : D = Ends \cup EndClones(h, exit_to, R)
  OBVIOUS
<1>1. GraphStep(h, exit_to, R) /\ InlinedEdges(h, exit_to, R) /\ GraphInv'
  BY StepIs, InlinedEdgesAre, InlineKeepsGraph
<1>2. /\ DOMAIN nodes' = DOMAIN nodes \cup {Clone(m, f) : m \in R}
      /\ \A l \in DOMAIN nodes : nodes'[l].op = nodes[l].op /\ nodes'[l].target = nodes[l].target
      /\ \A m \in R : /\ Clone(m, f) \notin DOMAIN nodes
                      /\ nodes'[Clone(m, f)].op = nodes[m].op
                      /\ nodes'[Clone(m, f)].target = nodes[m].target
  BY <1>1, ZenonT(60) DEF GraphStep
<1>3. EndsLeast /\ edges \subseteq (DOMAIN nodes) \X (DOMAIN nodes)
  BY EndsIs DEF GraphInv, GraphType
<1>4. /\ \A m, n \in R : Clone(m, f) = Clone(n, f) => m = n
      /\ entry \in R /\ <<h, exit_to>> \in edges /\ nodes[h].op = "call"
  BY <1>1 DEF InlinedEdges
<1>5. \A l \in D : l \in DOMAIN nodes => l \in Ends
  BY <1>0, <1>2 DEF EndClones
<1>6. \A m \in R : Clone(m, f) \in D => m \in Ends /\ exit_to \in Ends
  <2> SUFFICES ASSUME NEW m \in R, Clone(m, f) \in D PROVE m \in Ends /\ exit_to \in Ends
    OBVIOUS
  <2>1. Clone(m, f) \notin Ends
    BY <1>2, <1>3 DEF EndsLeast
  <2>2. exit_to \in Ends /\ Clone(m, f) \in {Clone(n, f) : n \in R \cap Ends}
    BY <1>0, <2>1 DEF EndClones
  <2>3. PICK n \in R \cap Ends : Clone(m, f) = Clone(n, f)
    BY <2>2
  <2> QED BY <1>4, <2>2, <2>3, SMTT(60)
<1>7. \A m \in R : m \in Ends /\ exit_to \in Ends => Clone(m, f) \in D
  BY <1>0 DEF EndClones
<1>8. \A m \in DOMAIN nodes : nodes[m].op = "call" => NewLabel(nodes[m].target) \in DOMAIN nodes
  BY DEF GraphInv, CallNodes, InstructionAt
<1>9. D \in SUBSET (DOMAIN nodes')
  <2>1. Ends \subseteq DOMAIN nodes
    BY <1>3 DEF EndsLeast
  <2>2. EndClones(h, exit_to, R) \subseteq {Clone(m, f) : m \in R}
    BY DEF EndClones
  <2> QED BY <1>0, <1>2, <2>1, <2>2
<1>10. Backs(Ends)
  BY <1>3 DEF EndsLeast
<1>11. ASSUME NEW e \in edges', LeadsBack(D, e)' PROVE e[1] \in D
  <2> HIDE DEF f, entry
  <2>0. /\ e[2] \in D
        /\ nodes'[e[1]].op = "call" => NewLabel(nodes'[e[1]].target) \in D
    BY <1>11 DEF LeadsBack
  <2>1. ASSUME e \in edges, e[1] # h PROVE e[1] \in D
    <3>1. e[1] \in DOMAIN nodes /\ e[2] \in DOMAIN nodes
      BY <1>3, <2>1
    <3>2. LeadsBack(Ends, e)
      BY <1>2, <1>5, <1>8, <2>0, <3>1 DEF LeadsBack
    <3> QED BY <1>10, <2>1, <3>2, <1>0 DEF Backs
  <2>2. ASSUME e[1] = h, e[2] = Clone(entry, f) PROVE e[1] \in D
    <3>1. entry \in Ends /\ exit_to \in Ends
      BY <1>4, <1>6, <2>0, <2>2
    <3>2. LeadsBack(Ends, <<h, exit_to>>)
      BY <3>1 DEF LeadsBack, entry
    <3> QED BY <1>4, <1>10, <2>2, <3>2, <1>0 DEF Backs
  <2>3. ASSUME NEW m \in R, NEW x \in DOMAIN nodes, <<m, x>> \in edges,
               e[1] = Clone(m, f), e[2] = CloneOf(x, f, exit_to)
        PROVE  e[1] \in D
    <3>1. x \in Ends /\ exit_to \in Ends
      <4>1. CASE x = ExitLabel
        <5>1. ExitLabel \in Ends
          BY <1>10 DEF Backs
        <5> QED BY <1>5, <2>0, <2>3, <4>1, <5>1 DEF CloneOf
      <4>2. CASE x # ExitLabel
        <5>1. x \in R
          BY <1>1, <2>3, <4>2 DEF InlinedEdges
        <5> QED BY <1>6, <2>0, <2>3, <4>2, <5>1 DEF CloneOf
      <4> QED BY <4>1, <4>2
    <3>2. nodes[m].op = "call" => NewLabel(nodes[m].target) \in Ends
      BY <1>2, <1>5, <1>8, <2>0, <2>3
    <3>3. LeadsBack(Ends, <<m, x>>)
      BY <3>1, <3>2 DEF LeadsBack
    <3>4. m \in Ends
      BY <1>10, <2>3, <3>3 DEF Backs
    <3> QED BY <1>7, <2>3, <3>1, <3>4
  <2>4. \/ e \in edges /\ e[1] # h
        \/ e[1] = h /\ e[2] = Clone(entry, f)
        \/ \E m \in R, x \in DOMAIN nodes :
              <<m, x>> \in edges /\ e[1] = Clone(m, f) /\ e[2] = CloneOf(x, f, exit_to)
    BY <1>1, <1>11 DEF InlinedEdges, f, entry
  <2> QED BY <2>1, <2>2, <2>3, <2>4
<1>12. Backs(D)'
  <2>1. ExitLabel \in D
    BY <1>0, <1>10 DEF Backs
  <2>2. \A e \in edges' : LeadsBack(D, e)' => e[1] \in D
    BY <1>11
  <2> QED BY <2>1, <2>2 DEF Backs
<1>13. \A S \in SUBSET (DOMAIN nodes') : Backs(S)' => Ends' \subseteq S
  BY <1>1, EndsNext DEF EndsLeast
<1> QED BY <1>0, <1>9, <1>12, <1>13

LEMMA EndingsSame ==
    ASSUME UNCHANGED input
    PROVE  /\ \A i : CanEnd(i)' = CanEnd(i) /\ EndsAtAnyDepth(i)' = EndsAtAnyDepth(i)
           /\ TopLabels' = TopLabels
<1>1. seq' = seq /\ Indexes' = Indexes
  BY DEF seq, Indexes
<1>2. \A i : Fallthrough(i)' = Fallthrough(i) /\ IsLast(i)' = IsLast(i)
  BY SequenceParts
<1>3. \A s, i : Resume(s, i)' = Resume(s, i)
  BY <1>2 DEF Resume
<1>4. \A m : Successors(m)' = Successors(m)
  BY <1>1, <1>3 DEF Successors
<1>5. Runs' = Runs
  BY <1>1 DEF Runs, ActiveCalls
<1>6. \A S : Continued(S)' = Continued(S)
  BY <1>4, <1>5 DEF Continued
<1>7. \A i : CanEnd(i)' = CanEnd(i)
  BY <1>5, <1>6, ZenonT(60) DEF CanEnd
<1>8. TopLabels' = TopLabels
  BY <1>1, SequenceParts DEF TopLabels, Branches
<1>9. \A i : EndsAtAnyDepth(i)' = EndsAtAnyDepth(i)
  <2>1. AnyDepth' = AnyDepth
    BY <1>1 DEF AnyDepth
  <2> QED BY <1>4, <2>1 DEF EndsAtAnyDepth
<1> QED BY <1>7, <1>8, <1>9

LEMMA InlineEnds ==
    ASSUME InputOK, GraphInv, PendingInv, EndInv, NEW exit_to \in DOMAIN nodes,
           NEW R \in SUBSET (DOMAIN nodes), InlineStep(Head(pending), exit_to, R)
    PROVE  EndInv'
<1> DEFINE h == Head(pending)
           f == FrameOf(h)
           entry == NewLabel(nodes[h].target)
<1>1. GraphStep(h, exit_to, R) /\ InlinedEdges(h, exit_to, R)
  BY StepIs, InlinedEdgesAre
<1>2. /\ DOMAIN nodes' = DOMAIN nodes \cup {Clone(m, f) : m \in R}
      /\ \A l \in DOMAIN nodes : nodes'[l].op = nodes[l].op /\ nodes'[l].target = nodes[l].target
      /\ \A m \in R : /\ Clone(m, f) \notin DOMAIN nodes
                      /\ nodes'[Clone(m, f)].op = nodes[m].op
      /\ h \in DOMAIN nodes
      /\ input' = input /\ Indexes' = Indexes
  BY <1>1, ZenonT(60) DEF GraphStep
<1>3. PendingSet' = (PendingSet \ {h}) \cup NewCalls(h, R)
  BY PendingKept
<1>4. Ends \subseteq Ends'
  BY EndsStay
<1>5. Ends' \subseteq Ends \cup EndClones(h, exit_to, R)
  BY EndsNoMore
<1>6. Ends \subseteq DOMAIN nodes /\ DOMAIN nodes \subseteq PlainLabels /\ edges \subseteq (DOMAIN nodes) \X (DOMAIN nodes)
  BY DEF Ends, GraphInv, GraphType
<1>7. \A x \in Ends' : x \in DOMAIN nodes => x \in Ends
  BY <1>2, <1>5 DEF EndClones
<1>8. \A m \in R : Clone(m, f) \in Ends' => m \in Ends
  <2> SUFFICES ASSUME NEW m \in R, Clone(m, f) \in Ends' PROVE m \in Ends
    OBVIOUS
  <2>1. Clone(m, f) \in EndClones(h, exit_to, R)
    BY <1>2, <1>5, <1>6
  <2>2. PICK n \in R \cap Ends : Clone(m, f) = Clone(n, f)
    BY <2>1 DEF EndClones
  <2>3. m = n
    BY <1>1, <2>2 DEF InlinedEdges
  <2> QED BY <2>2, <2>3
<1>9. entry \in R /\ nodes[h].op = "call"
  BY <1>1 DEF InlinedEdges
<1>10. ASSUME NEW l \in DOMAIN nodes, NEW x, <<l, x>> \in edges'
       PROVE  (l # h /\ <<l, x>> \in edges) \/ (l = h /\ x = Clone(entry, f))
  <2>1. PICK e \in edges' : e = <<l, x>>
    BY <1>10
  <2>2. e[1] = l /\ e[2] = x
    BY <2>1
  <2>3. \A m \in R : e[1] # Clone(m, f)
    BY <1>2, <2>2
  <2> QED BY <1>1, <2>1, <2>2, <2>3 DEF InlinedEdges
<1>11. ASSUME NEW l \in DOMAIN nodes', nodes'[l].op = "call", l \notin PendingSet',
              NEW x \in Ends', <<l, x>> \in edges'
       PROVE  NewLabel(nodes'[l].target) \in Ends'
  <2>1. l \in DOMAIN nodes
    <3> SUFFICES ASSUME l \notin DOMAIN nodes PROVE FALSE
      OBVIOUS
    <3>1. PICK m \in R : l = Clone(m, f)
      BY <1>2
    <3>2. nodes[m].op = "call"
      BY <1>2, <1>11, <3>1
    <3>3. l \in NewCalls(h, R)
      BY <3>1, <3>2 DEF NewCalls
    <3> QED BY <1>3, <1>11, <3>3
  <2>2. CASE l # h
    <3>1. <<l, x>> \in edges /\ l \notin PendingSet
      BY <1>3, <1>10, <1>11, <2>1, <2>2
    <3>2. x \in Ends
      BY <1>6, <1>7, <3>1
    <3>3. NewLabel(nodes[l].target) \in Ends
      BY <1>2, <1>11, <2>1, <3>1, <3>2 DEF EndInv, CallsLead
    <3> QED BY <1>2, <1>4, <2>1, <3>3
  <2>3. CASE l = h
    <3>1. x = Clone(entry, f)
      BY <1>10, <1>11, <2>1, <2>3, SMTT(60)
    <3>2. entry \in Ends
      BY <1>8, <1>9, <3>1, SMTT(60)
    <3> QED BY <1>2, <1>4, <2>3, <3>2
  <2> QED BY <2>2, <2>3
<1>12. CallsLead'
  <2> HIDE DEF h, f, entry
  <2> QED BY <1>11 DEF CallsLead
<1>13. TopLabels' = TopLabels /\ \A i : CanEnd(i)' = CanEnd(i) /\ EndsAtAnyDepth(i)' = EndsAtAnyDepth(i)
  BY <1>2, EndingsSame
<1>14. ASSUME NEW l \in DOMAIN nodes', l.prefix = <<>>
       PROVE  l \in TopLabels' /\ (nodes'[l].op = "exit" => <<l, ExitLabel>> \in edges')
  <2>1. l \in DOMAIN nodes
    <3> SUFFICES ASSUME NEW m \in R, l = Clone(m, f) PROVE FALSE
      BY <1>2
    <3>1. h \in PlainLabels /\ m \in PlainLabels
      BY <1>2, <1>6
    <3>2. f # <<>> /\ f \in Seq(Int)
      BY <3>1, FrameIs
    <3>3. l.prefix = f
      BY <3>1, <3>2, CloneIs
    <3> QED BY <1>14, <3>2, <3>3
  <2>2. l \in TopLabels /\ (nodes[l].op = "exit" => <<l, ExitLabel>> \in edges)
    BY <1>14, <2>1 DEF EndInv, ExitsLead
  <2>3. ASSUME nodes[l].op = "exit" PROVE <<l, ExitLabel>> \in edges'
    <3>1. PICK e \in edges : e = <<l, ExitLabel>>
      BY <2>2, <2>3
    <3>2. e[1] # h
      BY <1>9, <2>3, <3>1
    <3> QED BY <1>1, <3>1, <3>2 DEF InlinedEdges
  <2> QED BY <1>2, <1>13, <2>1, <2>2, <2>3
<1>15. ExitsLead'
  <2> HIDE DEF h, f, entry
  <2> QED BY <1>14 DEF ExitsLead
<1>16. EndsExact'
  <2>1. \A i \in Indexes : NewLabel(i) \in DOMAIN nodes
    BY DEF GraphInv, InstructionAt
  <2>2. \A i \in Indexes : NewLabel(i) \in Ends' <=> NewLabel(i) \in Ends
    BY <1>4, <1>7, <2>1
  <2>3. \A i : NewLabel(i)' = NewLabel(i)
    OBVIOUS
  <2> QED BY <1>2, <1>13, <2>2, <2>3 DEF EndsExact, EndInv
<1> QED BY <1>12, <1>15, <1>16 DEF EndInv

-----------------------------------------------------------------------------
(***************************************************************************)
(* The graph before the first call is inlined: an instruction leads to the *)
(* exit if and only if the machine can end from it.                        *)
(***************************************************************************)
\* A node in between is neither a call nor an exit.
OnlyInstructions ==
    \A l \in DOMAIN nodes : nodes[l].op \in {"call", "exit"} => \E i \in Indexes : l = NewLabel(i)

TopGraph ==
    /\ InputOK /\ GraphInv /\ OnlyInstructions
    /\ DOMAIN nodes = TopLabels /\ edges = TopEdges
    /\ \A i \in Indexes : seq[i].op = "call" => NewLabel(i) \in PendingSet

NoFallOff == \A i \in Indexes : IsLast(i) => seq[i].op \in {"exit", "jump"}

LEMMA TopNodes ==
    ASSUME TopGraph, NEW i \in Indexes
    PROVE  /\ NewLabel(i) \in DOMAIN nodes
           /\ nodes[NewLabel(i)].op = "call" <=> seq[i].op = "call"
           /\ nodes[NewLabel(i)].op = "exit" <=> seq[i].op = "exit"
           /\ nodes[NewLabel(i)].target = seq[i].target
           /\ EdgesFrom(i) \subseteq edges
           /\ \A l \in DOMAIN nodes : l.to # -1 => nodes[l].op # "call"
           /\ seq[i].op \in {"jump", "branch", "call"} => seq[i].target \in Indexes
           /\ Splits(i) => seq[i].op = "branch" /\ Taken(i).to # -1 /\ NotTaken(i).to # -1
                           /\ Taken(i) \in DOMAIN nodes /\ NotTaken(i) \in DOMAIN nodes
           /\ i \in Int
<1> USE DEF TopGraph
<1>1. InstructionAt(i) /\ BranchAt(i) /\ CallNodes /\ TargetsIn /\ Indexes # {}
  BY DEF GraphInv
<1>2. EdgesFrom(i) \subseteq edges
  BY <1>1, TopPristine
<1>3. Splits(i) => seq[i].op = "branch" /\ seq[i].target \in Indexes
  BY <1>1 DEF Splits, TargetsIn
<1>4. Splits(i) => Taken(i).to # -1 /\ NotTaken(i).to # -1
  BY <1>3, BranchLabels
<1>5. Splits(i) => Taken(i) \in DOMAIN nodes /\ NotTaken(i) \in DOMAIN nodes
  BY <1>1 DEF BranchAt
<1>6. \A l \in DOMAIN nodes : l.to # -1 => nodes[l].op # "call"
  BY <1>1 DEF CallNodes
<1>7. seq[i].op \in {"jump", "branch", "call"} => seq[i].target \in Indexes
  BY <1>1 DEF TargetsIn
<1>8. i \in Int
  BY DEF InputOK
<1>9. /\ NewLabel(i) \in DOMAIN nodes /\ nodes[NewLabel(i)].target = seq[i].target
      /\ nodes[NewLabel(i)].op = OpAt(i)
  BY <1>1 DEF InstructionAt
<1>10. /\ OpAt(i) = "call" <=> seq[i].op = "call"
       /\ OpAt(i) = "exit" <=> seq[i].op = "exit"
  BY DEF OpAt
<1> HIDE DEF TopGraph
<1> QED BY <1>2, <1>3, <1>4, <1>5, <1>6, <1>7, <1>8, <1>9, <1>10, SMTT(60)

\* What a set that is closed under the edges backwards has, instruction by instruction.
LEMMA EdgeBacks ==
    ASSUME TopGraph, NEW S, NEW E, NEW X \in SUBSET {ExitLabel}, NEW i \in Indexes,
           \A e \in edges : /\ e[2] \in S /\ e[2] \notin X
                            /\ nodes[e[1]].op = "call" => NewLabel(nodes[e[1]].target) \in E
                            => e[1] \in S
    PROVE  /\ seq[i].op = "exit" /\ ExitLabel \in S \ X => NewLabel(i) \in S
           /\ seq[i].op \in {"jump", "branch"} /\ NewLabel(seq[i].target) \in S => NewLabel(i) \in S
           /\ seq[i].op \notin {"exit", "jump", "call"} /\ Fallthrough(i) \in S \ X => NewLabel(i) \in S
           /\ seq[i].op = "call" /\ Fallthrough(i) \in S \ X /\ NewLabel(seq[i].target) \in E => NewLabel(i) \in S
<1> DEFINE l == NewLabel(i)
<1>1. /\ nodes[l].op = "call" <=> seq[i].op = "call"
      /\ nodes[l].target = seq[i].target
      /\ EdgesFrom(i) \subseteq edges
      /\ Splits(i) => seq[i].op = "branch"
      /\ Splits(i) => nodes[Taken(i)].op # "call" /\ nodes[NotTaken(i)].op # "call"
  BY TopNodes
<1>2. ASSUME NEW a, NEW b, <<a, b>> \in edges, b \in S \ X,
             nodes[a].op = "call" => NewLabel(nodes[a].target) \in E
      PROVE  a \in S
  <2>1. PICK e \in edges : e = <<a, b>>
    BY <1>2
  <2>2. e[1] = a /\ e[2] = b
    BY <2>1
  <2> QED BY <1>2, <2>2
<1>3. seq[i].op \in {"jump", "branch"} => NewLabel(seq[i].target) \notin X
  <2>1. seq[i].op \in {"jump", "branch"} => seq[i].target \in Indexes
    BY TopNodes
  <2> QED BY <2>1, NewLabelApart DEF TopGraph
<1>4. InputOK
  BY DEF TopGraph
<1>0. Splits(i) => Taken(i) \notin X /\ NotTaken(i) \notin X
  <2>1. Splits(i) => seq[i].target \in Indexes
    BY <1>1, TopNodes
  <2> QED BY <1>4, <2>1, BranchLabels
<1> HIDE DEF l
<1>5. seq[i].op = "exit" /\ ExitLabel \in S \ X => l \in S
  <2>1. seq[i].op = "exit" => <<l, ExitLabel>> \in edges
    BY <1>1, <1>4, EdgesFromIs DEF l
  <2> QED BY <1>1, <1>2, <2>1
<1>6. seq[i].op = "jump" /\ NewLabel(seq[i].target) \in S => l \in S
  <2>1. seq[i].op = "jump" => <<l, NewLabel(seq[i].target)>> \in edges
    BY <1>1, <1>4, EdgesFromIs DEF l
  <2> QED BY <1>1, <1>2, <1>3, <2>1, SMTT(60)
<1>7. CASE Splits(i)
  <2>1. /\ <<l, Taken(i)>> \in edges /\ <<Taken(i), NewLabel(seq[i].target)>> \in edges
        /\ <<l, NotTaken(i)>> \in edges /\ <<NotTaken(i), Fallthrough(i)>> \in edges
    BY <1>1, <1>4, <1>7, EdgesFromIs, SMTT(60) DEF l
  <2>2. NewLabel(seq[i].target) \in S => l \in S
    <3>1. NewLabel(seq[i].target) \in S => Taken(i) \in S
      BY <1>1, <1>2, <1>3, <1>7, <2>1, SMTT(60)
    <3> QED BY <1>0, <1>1, <1>2, <1>7, <2>1, <3>1
  <2>3. Fallthrough(i) \in S \ X => l \in S
    <3>1. Fallthrough(i) \in S \ X => NotTaken(i) \in S
      BY <1>1, <1>2, <1>7, <2>1
    <3> QED BY <1>0, <1>1, <1>2, <1>7, <2>1, <3>1, SMTT(60)
  <2> QED BY <1>1, <1>7, <2>2, <2>3 DEF l
<1>8. CASE ~ Splits(i)
  <2>1. seq[i].op \notin {"exit", "jump"} => <<l, Fallthrough(i)>> \in edges
    BY <1>1, <1>4, <1>8, EdgesFromIs, SMTT(60) DEF l
  <2>2. seq[i].op \notin {"exit", "jump", "call"} /\ Fallthrough(i) \in S \ X => l \in S
    BY <1>1, <1>2, <2>1
  <2>3. seq[i].op = "call" /\ Fallthrough(i) \in S \ X /\ NewLabel(seq[i].target) \in E => l \in S
    BY <1>1, <1>2, <2>1
  <2>4. seq[i].op = "branch" => NewLabel(seq[i].target) = Fallthrough(i)
    BY <1>8 DEF Splits
  <2> QED BY <1>3, <1>5, <1>6, <2>2, <2>3, <2>4, SMTT(60) DEF l
<1> QED BY <1>7, <1>8

LEMMA TopBacks ==
    ASSUME TopGraph, NEW S, Backs(S), NEW i \in Indexes
    PROVE  /\ seq[i].op = "exit" => NewLabel(i) \in S
           /\ seq[i].op \in {"jump", "branch"} /\ NewLabel(seq[i].target) \in S => NewLabel(i) \in S
           /\ seq[i].op \notin {"exit", "jump", "call"} /\ Fallthrough(i) \in S => NewLabel(i) \in S
           /\ seq[i].op = "call" /\ Fallthrough(i) \in S /\ NewLabel(seq[i].target) \in S => NewLabel(i) \in S
<1>1. \A e \in edges : /\ e[2] \in S /\ e[2] \notin {}
                       /\ nodes[e[1]].op = "call" => NewLabel(nodes[e[1]].target) \in S
                       => e[1] \in S
  BY DEF Backs, LeadsBack
<1>2. ExitLabel \in S /\ S \ {} = S /\ {} \in SUBSET {ExitLabel}
  BY DEF Backs
<1> QED BY <1>1, <1>2, EdgeBacks, ZenonT(60)

(***************************************************************************)
(* Where the exit is out of reach: a run that is at an instruction that    *)
(* does not lead to the exit, or has a call to return to whose             *)
(* continuation does not, stays in such a state and never ends.            *)
(***************************************************************************)
Stuck(m) ==
    m # Ended /\ ( \/ NewLabel(m.pc) \notin Ends
                   \/ \E k \in 1 .. Len(m.stack) : Fallthrough(m.stack[k]) \notin Ends )

LEMMA ResumeIs ==
    ASSUME TopGraph, NEW s, NEW i \in Indexes, NEW n \in Resume(s, i)
    PROVE  /\ ~ IsLast(i) /\ Fallthrough(i).from \in Indexes
           /\ n = At(s, Fallthrough(i).from) /\ Fallthrough(i) = NewLabel(Fallthrough(i).from)
<1>1. ~ IsLast(i) /\ n = At(s, Fallthrough(i).from)
  BY DEF Resume
<1> QED BY <1>1, FallsTo DEF TopGraph

LEMMA DeepIs ==
    /\ \A m \in AnyDepth \ {Ended} : m = At(m.stack, m.pc) /\ m.stack \in Seq(Indexes) /\ m.pc \in Indexes
    /\ \A s \in Seq(Indexes), i \in Indexes : /\ At(s, i) \in AnyDepth /\ At(s, i) # Ended
                                               /\ At(s, i).stack = s /\ At(s, i).pc = i
    /\ Ended \in AnyDepth
<1>1. \A s, i : At(s, i).mode = "running" /\ At(s, i).stack = s /\ At(s, i).pc = i /\ Ended.mode = "ended"
  BY DEF At, Ended
<1>2. \A s, i : At(s, i) # Ended
  BY <1>1
<1>3. \A m \in [mode : {"running"}, stack : Seq(Indexes), pc : Indexes] :
          m = At(m.stack, m.pc) /\ m.stack \in Seq(Indexes) /\ m.pc \in Indexes
  BY DEF At
<1>4. \A s \in Seq(Indexes), i \in Indexes :
          At(s, i) \in [mode : {"running"}, stack : Seq(Indexes), pc : Indexes]
  BY DEF At
<1> QED BY <1>1, <1>2, <1>3, <1>4 DEF AnyDepth

\* A stack without its innermost call is a stack.
LEMMA Popped ==
    ASSUME InputOK, NEW s \in Seq(Indexes), s # <<>>
    PROVE  LET d == Len(s)
               q == SubSeq(s, 1, d - 1)
           IN  /\ d \in Nat \ {0} /\ s[d] \in Indexes /\ q \in Seq(Indexes) /\ Len(q) = d - 1
               /\ \A k \in 1 .. d - 1 : q[k] = s[k]
<1> DEFINE d == Len(s)
           q == SubSeq(s, 1, d - 1)
<1>1. d \in Nat \ {0} /\ s = [k \in 1 .. d |-> s[k]]
  BY EmptySeq
<1>2. \A k \in 1 .. d : s[k] \in Indexes
  BY ElementOfSeq
<1>3. s \in Seq(Int)
  <2>1. \A k \in 1 .. d : s[k] \in Int
    BY <1>2 DEF InputOK
  <2> HIDE DEF d
  <2>2. s \in [1 .. d -> Int]
    BY <1>1, <2>1, ZenonT(60)
  <2> QED BY <1>1, <2>2
<1>4. q \in Seq(Int) /\ Len(q) = d - 1 /\ \A k \in 1 .. d - 1 : q[k] = s[k]
  BY <1>3, Caller
<1> HIDE DEF q, d
<1>5. q \in Seq(Indexes)
  <2>1. q = [k \in 1 .. Len(q) |-> q[k]] /\ Len(q) \in Nat
    BY <1>4
  <2>2. \A k \in 1 .. Len(q) : q[k] \in Indexes
    <3> SUFFICES ASSUME NEW k \in 1 .. Len(q) PROVE q[k] \in Indexes
      OBVIOUS
    <3>1. k \in 1 .. d - 1 /\ k \in 1 .. d
      BY <1>1, <1>4
    <3>2. q[k] = s[k] /\ s[k] \in Indexes
      BY <1>2, <1>4, <3>1, Zenon
    <3> QED BY <3>2
  <2>3. q \in [1 .. Len(q) -> Indexes]
    BY <2>1, <2>2, ZenonT(60)
  <2> QED BY <2>1, <2>3
<1>6. s[d] \in Indexes
  BY <1>1, <1>2
<1> QED BY <1>1, <1>4, <1>5, <1>6, SMTT(60) DEF d, q

LEMMA DeepStays ==
    ASSUME TopGraph, NEW m \in AnyDepth \ {Ended}, NEW n \in Successors(m)
    PROVE  n \in AnyDepth
<1> DEFINE s == m.stack
           i == m.pc
           d == Len(s)
           q == SubSeq(s, 1, d - 1)
<1>1. m = At(s, i) /\ s \in Seq(Indexes) /\ i \in Indexes
  BY DeepIs
<1> HIDE DEF s, i
<1>2. seq[i].op \in {"jump", "branch", "call"} => seq[i].target \in Indexes
  BY <1>1, TopNodes
<1>3. ASSUME NEW t \in Seq(Indexes), NEW j \in Indexes, n \in Resume(t, j) PROVE n \in AnyDepth
  BY <1>3, ResumeIs, DeepIs
<1>4. s = <<>> <=> d = 0
  BY <1>1, EmptySeq
<1>5. s # <<>> => q \in Seq(Indexes) /\ s[d] \in Indexes /\ d > 0
  BY <1>1, Popped DEF TopGraph
<1>6. Append(s, i) \in Seq(Indexes)
  BY <1>1, AppendProperties
<1> HIDE DEF q, d
<1>7. n \in Successors(At(s, i))
  BY <1>1
<1>8. \A j \in Indexes : At(s, j) \in AnyDepth /\ At(Append(s, i), j) \in AnyDepth
  BY <1>1, <1>6, DeepIs
<1>9. CASE seq[i].op = "jump"
  BY <1>2, <1>7, <1>8, <1>9, StepsFrom
<1>10. CASE seq[i].op = "branch"
  <2>1. n = At(s, seq[i].target) \/ n \in Resume(s, i)
    BY <1>7, <1>10, StepsFrom
  <2> QED BY <1>1, <1>2, <1>3, <1>8, <1>10, <2>1
<1>11. CASE seq[i].op = "call"
  BY <1>2, <1>7, <1>8, <1>11, StepsFrom
<1>12. CASE seq[i].op = "exit" /\ s = <<>>
  <2>1. n = Ended
    BY <1>4, <1>7, <1>12, StepsFrom DEF d
  <2> QED BY <2>1, DeepIs
<1>13. CASE seq[i].op = "exit" /\ s # <<>>
  <2>1. n \in Resume(q, s[d])
    BY <1>5, <1>7, <1>13, StepsFrom DEF q, d
  <2> QED BY <1>3, <1>5, <1>13, <2>1
<1>14. CASE seq[i].op \notin {"jump", "branch", "call", "exit"}
  <2>1. n \in Resume(s, i)
    BY <1>7, <1>14, StepsFrom
  <2> QED BY <1>1, <1>3, <2>1
<1> QED BY <1>9, <1>10, <1>11, <1>12, <1>13, <1>14

LEMMA StuckStays ==
    ASSUME TopGraph, NEW m \in AnyDepth, Stuck(m), NEW n \in Successors(m)
    PROVE  Stuck(n)
<1> DEFINE s == m.stack
           i == m.pc
           d == Len(s)
<1>1. m = At(s, i) /\ s \in Seq(Indexes) /\ i \in Indexes
  BY DeepIs DEF Stuck
<1>2. Backs(Ends)
  BY EndsIs DEF EndsLeast, TopGraph
<1>3. s \in Seq(Indexes) /\ d \in Nat /\ \A k \in 1 .. d : s[k] \in Indexes
  BY <1>1, ElementOfSeq
<1>4. NewLabel(i) \notin Ends \/ \E k \in 1 .. d : Fallthrough(s[k]) \notin Ends
  BY DEF Stuck
<1> HIDE DEF s, i, d
<1>5. \A t, j : At(t, j) # Ended /\ At(t, j).pc = j /\ At(t, j).stack = t
  <2>1. \A t, j : At(t, j).mode = "running" /\ At(t, j).pc = j /\ At(t, j).stack = t
    BY DEF At
  <2>2. Ended.mode = "ended"
    BY DEF Ended
  <2> QED BY <2>1, <2>2
<1>6. \A t, j : NewLabel(j) \notin Ends => Stuck(At(t, j))
  BY <1>5 DEF Stuck
<1>7. \A t, j, k : k \in 1 .. Len(t) /\ Fallthrough(t[k]) \notin Ends => Stuck(At(t, j))
  BY <1>5 DEF Stuck
<1>8. ASSUME NEW j, n = At(s, j), NewLabel(i) \notin Ends => NewLabel(j) \notin Ends
      PROVE  Stuck(n)
  BY <1>4, <1>6, <1>7, <1>8 DEF d
<1>9. ASSUME n \in Resume(s, i), Fallthrough(i) \in Ends => NewLabel(i) \in Ends
      PROVE  Stuck(n)
  <2>1. n = At(s, Fallthrough(i).from) /\ Fallthrough(i) = NewLabel(Fallthrough(i).from)
    BY <1>1, <1>9, ResumeIs, SMTT(60)
  <2> QED BY <1>8, <1>9, <2>1
<1>10. n \in Successors(At(s, i))
  BY <1>1
<1>11. CASE seq[i].op = "jump"
  <2>1. n = At(s, seq[i].target)
    BY <1>10, <1>11, StepsFrom
  <2>2. NewLabel(seq[i].target) \in Ends => NewLabel(i) \in Ends
    BY <1>1, <1>2, <1>11, TopBacks
  <2> QED BY <1>8, <2>1, <2>2
<1>12. CASE seq[i].op = "branch"
  <2>1. n = At(s, seq[i].target) \/ n \in Resume(s, i)
    BY <1>10, <1>12, StepsFrom
  <2>2. /\ NewLabel(seq[i].target) \in Ends => NewLabel(i) \in Ends
        /\ Fallthrough(i) \in Ends => NewLabel(i) \in Ends
    BY <1>1, <1>2, <1>12, TopBacks, SMTT(60)
  <2> QED BY <1>8, <1>9, <2>1, <2>2
<1>13. CASE seq[i].op = "call"
  <2>1. n = At(Append(s, i), seq[i].target)
    BY <1>10, <1>13, StepsFrom
  <2>2. Fallthrough(i) \in Ends /\ NewLabel(seq[i].target) \in Ends => NewLabel(i) \in Ends
    BY <1>1, <1>2, <1>13, TopBacks
  <2>3. /\ Len(Append(s, i)) = d + 1 /\ Append(s, i)[d + 1] = i
        /\ \A k \in 1 .. d : Append(s, i)[k] = s[k]
    BY <1>1, <1>3, AppendProperties DEF d
  <2>4. d + 1 \in 1 .. Len(Append(s, i)) /\ \A k \in 1 .. d : k \in 1 .. Len(Append(s, i))
    BY <1>3, <2>3
  <2>5. CASE NewLabel(seq[i].target) \notin Ends
    BY <1>6, <2>1, <2>5
  <2>6. CASE Fallthrough(i) \notin Ends
    BY <1>7, <2>1, <2>3, <2>4, <2>6
  <2>7. CASE \E k \in 1 .. d : Fallthrough(s[k]) \notin Ends
    BY <1>7, <2>1, <2>3, <2>4, <2>7
  <2> QED BY <1>4, <2>2, <2>5, <2>6, <2>7
<1>14. CASE seq[i].op = "exit"
  <2>1. NewLabel(i) \in Ends
    BY <1>1, <1>2, <1>14, TopBacks
  <2>2. PICK k \in 1 .. d : Fallthrough(s[k]) \notin Ends
    BY <1>4, <2>1
  <2>3. d > 0 /\ d \in 1 .. d /\ s # <<>> /\ k \in 1 .. d - 1 \cup {d}
    BY <1>3, <2>2, EmptySeq DEF d
  <2> DEFINE q == SubSeq(s, 1, d - 1)
  <2>4. n \in Resume(q, s[d])
    BY <1>10, <1>14, <2>3, StepsFrom DEF d
  <2>5. s[d] \in Indexes
    BY <1>3, <2>3
  <2>6. n = At(q, Fallthrough(s[d]).from) /\ Fallthrough(s[d]) = NewLabel(Fallthrough(s[d]).from)
    BY <2>4, <2>5, ResumeIs
  <2>7. CASE k = d
    BY <1>6, <2>2, <2>6, <2>7
  <2>8. CASE k \in 1 .. d - 1
    <3>2. Len(q) = d - 1 /\ \A j \in 1 .. d - 1 : q[j] = s[j]
      BY <1>1, <2>3, Popped DEF d, TopGraph
    <3>3. k \in 1 .. Len(q) /\ q[k] = s[k]
      BY <2>8, <3>2
    <3> QED BY <1>7, <2>2, <2>6, <3>3
  <2> QED BY <2>3, <2>7, <2>8
<1>15. CASE seq[i].op \notin {"jump", "branch", "call", "exit"}
  <2>1. n \in Resume(s, i)
    BY <1>10, <1>15, StepsFrom
  <2>2. Fallthrough(i) \in Ends => NewLabel(i) \in Ends
    BY <1>1, <1>2, <1>15, TopBacks
  <2> QED BY <1>9, <2>1, <2>2
<1> QED BY <1>11, <1>12, <1>13, <1>14, <1>15

LEMMA DeepEndsStay ==
    ASSUME InputOK, NEW i \in Indexes, CanEnd(i)
    PROVE  EndsAtAnyDepth(i)
<1> SUFFICES ASSUME NEW S \in SUBSET AnyDepth, At(<<>>, i) \in S,
                    \A m \in S \ {Ended} : Successors(m) \subseteq S
             PROVE  Ended \in S
  BY DEF EndsAtAnyDepth
<1>1. <<>> \in ActiveCalls
  <2>1. Cardinality(Indexes) \in Nat
    BY RunsFinite
  <2> QED BY <2>1, EmptySeq DEF ActiveCalls
<1>2. At(<<>>, i) \in S \cap Runs
  BY <1>1, RunsFinite
<1>3. Shut(S \cap Runs)
  BY DEF Shut
<1>4. Gets(At(<<>>, i), Ended)
  BY CanEndIs
<1> QED BY <1>2, <1>3, <1>4 DEF Gets

LEMMA NoExitNoEnd ==
    ASSUME TopGraph, NEW i \in Indexes, EndsAtAnyDepth(i)
    PROVE  NewLabel(i) \in Ends
<1> SUFFICES ASSUME NewLabel(i) \notin Ends PROVE FALSE
  OBVIOUS
<1> DEFINE a == At(<<>>, i)
           S == {m \in AnyDepth : Stuck(m)}
<1>1. a \in AnyDepth /\ a # Ended /\ a.pc = i
  BY DeepIs, EmptySeq
<1>2. a \in S
  BY <1>1 DEF Stuck
<1>3. ASSUME NEW m \in S \ {Ended}, NEW n \in Successors(m) PROVE n \in S
  BY <1>3, StuckStays, DeepStays
<1>4. S \in SUBSET AnyDepth /\ Ended \notin S
  BY DEF Stuck
<1> HIDE DEF a, S
<1> QED BY <1>2, <1>3, <1>4 DEF EndsAtAnyDepth, a

(***************************************************************************)
(* Conversely, an instruction that leads to the exit: what is used of the  *)
(* graph is only which instructions lead there if others do.               *)
(***************************************************************************)
Leading(T, i) ==
    \/ seq[i].op = "exit"
    \/ seq[i].op \in {"jump", "branch"} /\ seq[i].target \in T
    \/ seq[i].op \notin {"exit", "jump", "call"} /\ ~ IsLast(i) /\ Fallthrough(i).from \in T
    \/ seq[i].op = "call" /\ ~ IsLast(i) /\ Fallthrough(i).from \in T /\ seq[i].target \in T

\* The calls of A are never returned from.
KeptBut(A, T) == \A i \in Indexes : Leading(T, i) /\ ~ (seq[i].op = "call" /\ i \in A) => i \in T
LeastBut(A) == {i \in Indexes : \A T \in SUBSET Indexes : KeptBut(A, T) => i \in T}

LEMMA LeastButIs ==
    ASSUME NEW A
    PROVE  /\ LeastBut(A) \in SUBSET Indexes
           /\ KeptBut(A, LeastBut(A))
           /\ \A T \in SUBSET Indexes : KeptBut(A, T) => LeastBut(A) \subseteq T
           /\ \A S, T, i : S \subseteq T /\ Leading(S, i) => Leading(T, i)
<1>1. \A S, T, i : S \subseteq T /\ Leading(S, i) => Leading(T, i)
  BY DEF Leading
<1>2. \A T \in SUBSET Indexes : KeptBut(A, T) => LeastBut(A) \subseteq T
  BY DEF LeastBut
<1>3. ASSUME NEW i \in Indexes, Leading(LeastBut(A), i), ~ (seq[i].op = "call" /\ i \in A)
      PROVE  i \in LeastBut(A)
  <2>1. ASSUME NEW T \in SUBSET Indexes, KeptBut(A, T) PROVE i \in T
    <3>1. Leading(T, i)
      BY <1>1, <1>2, <1>3, <2>1
    <3> QED BY <1>3, <2>1, <3>1 DEF KeptBut
  <2> QED BY <2>1 DEF LeastBut
<1>4. KeptBut(A, LeastBut(A))
  BY <1>3 DEF KeptBut
<1> QED BY <1>1, <1>2, <1>4 DEF LeastBut

\* The callee of a call that leads to the exit does so without that call.
LEMMA CalleeLeads ==
    ASSUME NEW A, NEW i \in LeastBut(A), seq[i].op = "call"
    PROVE  i \notin A /\ seq[i].target \in LeastBut(A \cup {i})
<1>1. ASSUME NEW B, i \in B PROVE i \notin LeastBut(B)
  <2> DEFINE T == LeastBut(B) \ {i}
  <2>1. LeastBut(B) \in SUBSET Indexes /\ KeptBut(B, LeastBut(B))
    BY LeastButIs
  <2>2. KeptBut(B, T)
    <3> SUFFICES ASSUME NEW j \in Indexes, Leading(T, j), ~ (seq[j].op = "call" /\ j \in B)
                 PROVE  j \in T
      BY DEF KeptBut
    <3>1. Leading(LeastBut(B), j)
      <4>1. T \subseteq LeastBut(B)
        OBVIOUS
      <4> HIDE DEF T
      <4> QED BY <4>1, LeastButIs
    <3>2. j \in LeastBut(B)
      BY <2>1, <3>1 DEF KeptBut
    <3>3. j # i
      BY <1>1
    <3> QED BY <3>2, <3>3
  <2>3. T \in SUBSET Indexes /\ i \notin T
    BY <2>1
  <2> HIDE DEF T
  <2>4. LeastBut(B) \subseteq T
    BY <2>2, <2>3, LeastButIs
  <2> QED BY <2>3, <2>4
<1>2. i \notin A
  BY <1>1
<1> DEFINE F == LeastBut(A \cup {i})
<1>3. i \notin F
  BY <1>1
<1>4. F \in SUBSET Indexes /\ KeptBut(A \cup {i}, F)
  BY LeastButIs
<1> HIDE DEF F
<1>5. ASSUME seq[i].target \notin F PROVE FALSE
  <2>1. ~ Leading(F, i)
    BY <1>5 DEF Leading
  <2>2. KeptBut(A, F)
    BY <1>4, <2>1 DEF KeptBut
  <2>3. LeastBut(A) \subseteq F
    BY <1>4, <2>2, LeastButIs
  <2> QED BY <1>3, <2>3
<1> QED BY <1>2, <1>5 DEF F

LEMMA EndsAreLeast ==
    ASSUME TopGraph, NoFallOff, NEW i \in Indexes, NewLabel(i) \in Ends
    PROVE  i \in LeastBut({})
<1> SUFFICES ASSUME NEW T \in SUBSET Indexes, KeptBut({}, T) PROVE i \in T
  BY DEF LeastBut
<1> DEFINE Leads1(l) == l = EntryLabel \/ l = ExitLabel \/ (IF l.to = -1 THEN l.from ELSE l.to) \in T
           S == {l \in DOMAIN nodes : Leads1(l)}
<1>1. InputOK /\ GraphInv /\ TargetsIn /\ Indexes # {} /\ edges = TopEdges /\ edges \subseteq (DOMAIN nodes) \X (DOMAIN nodes)
  BY DEF TopGraph, GraphInv, GraphType
<1>2. \A j \in Indexes : Leading(T, j) => j \in T
  BY DEF KeptBut
<1>3. \A j \in Indexes : Leads1(NewLabel(j)) => j \in T
  BY <1>1, NewLabelApart, LabelsApart DEF InputOK
<1>4. \A j \in T : Leads1(NewLabel(j))
  BY <1>1, LabelsApart DEF InputOK
<1>5. ASSUME NEW e \in edges, LeadsBack(S, e) PROVE Leads1(e[1])
  <2>1. CASE e = <<EntryLabel, NewLabel(FirstIndex)>>
    BY <2>1
  <2>2. ASSUME NEW j \in Indexes, e \in EdgesFrom(j) PROVE Leads1(e[1])
    <3>1. /\ nodes[NewLabel(j)].op = "call" <=> seq[j].op = "call"
          /\ nodes[NewLabel(j)].target = seq[j].target
          /\ seq[j].op \in {"jump", "branch", "call"} => seq[j].target \in Indexes
          /\ Splits(j) => seq[j].op = "branch"
      BY TopNodes
    <3>2. e[2] \in S /\ (nodes[e[1]].op = "call" => NewLabel(nodes[e[1]].target) \in S)
      BY <1>5 DEF LeadsBack
    <3>3. j \in T => Leads1(NewLabel(j))
      BY <1>4
    <3>4. IsLast(j) => seq[j].op \in {"exit", "jump"}
      BY DEF NoFallOff
    <3>5. ~ IsLast(j) => Fallthrough(j).from \in Indexes /\ Fallthrough(j) = NewLabel(Fallthrough(j).from)
      BY <1>1, FallsTo
    <3>6. \A k \in Indexes : NewLabel(k) \in S => k \in T
      BY <1>3
    <3>7. Leads1(e[2])
      BY <3>2
    <3>8. Splits(j) => /\ Taken(j).to = seq[j].target /\ NotTaken(j).to = Fallthrough(j).from
                       /\ Taken(j).to # -1 /\ NotTaken(j).to # -1
                       /\ Taken(j) # ExitLabel /\ NotTaken(j) # ExitLabel
                       /\ Taken(j) # EntryLabel /\ NotTaken(j) # EntryLabel
      <4> SUFFICES ASSUME Splits(j)
                   PROVE  /\ Taken(j).to = seq[j].target /\ NotTaken(j).to = Fallthrough(j).from
                          /\ Taken(j).to # -1 /\ NotTaken(j).to # -1
                          /\ Taken(j) # ExitLabel /\ NotTaken(j) # ExitLabel
                          /\ Taken(j) # EntryLabel /\ NotTaken(j) # EntryLabel
        OBVIOUS
      <4>1. /\ Taken(j) = LabelFull(j, seq[j].target, <<>>)
            /\ NotTaken(j) = LabelFull(j, Fallthrough(j).from, <<>>)
            /\ Taken(j).to # -1 /\ NotTaken(j).to # -1
            /\ Taken(j) # ExitLabel /\ NotTaken(j) # ExitLabel
        BY <1>1, <3>1, BranchLabels
      <4>2. EntryLabel.to = -1
        BY LabelsApart
      <4>3. \A a, b, p : LabelFull(a, b, p).to = b
        BY DEF LabelFull
      <4> QED BY <4>1, <4>2, <4>3
    <3>9. seq[j].op \in {"exit", "jump", "branch", "call"} \/ seq[j].op \notin {"exit", "jump", "branch", "call"}
      OBVIOUS
    <3>10. \A k \in Indexes : Leads1(NewLabel(k)) => k \in T
      BY <1>3
    <3>11. InputOK
      BY <1>1
    <3> HIDE DEF Leads1, S
    <3>12. CASE seq[j].op = "exit"
      <4>1. e = <<NewLabel(j), ExitLabel>>
        BY <2>2, <3>11, <3>12, EdgesFromIs
      <4>2. j \in T
        BY <1>2, <3>12 DEF Leading
      <4> QED BY <3>3, <4>1, <4>2
    <3>13. CASE seq[j].op = "jump"
      <4>1. e = <<NewLabel(j), NewLabel(seq[j].target)>>
        BY <2>2, <3>11, <3>13, EdgesFromIs
      <4>2. seq[j].target \in T
        BY <3>1, <3>2, <3>6, <3>13, <4>1
      <4>3. j \in T
        BY <1>2, <3>13, <4>2 DEF Leading
      <4> QED BY <3>3, <4>1, <4>3
    <3>14. CASE Splits(j)
      <4>1. e \in {<<NewLabel(j), Taken(j)>>, <<Taken(j), NewLabel(seq[j].target)>>,
                   <<NewLabel(j), NotTaken(j)>>, <<NotTaken(j), Fallthrough(j)>>}
        BY <2>2, <3>11, <3>14, EdgesFromIs
      <4>2. seq[j].op = "branch" /\ ~ IsLast(j)
        BY <3>1, <3>4, <3>14
      <4>3. seq[j].target \in T => j \in T
        BY <1>2, <4>2 DEF Leading
      <4>4. Fallthrough(j).from \in T => j \in T
        BY <1>2, <4>2 DEF Leading
      <4>5. /\ Leads1(Taken(j)) <=> seq[j].target \in T
            /\ Leads1(NotTaken(j)) <=> Fallthrough(j).from \in T
        BY <3>8, <3>14 DEF Leads1
      <4>6. CASE e = <<NewLabel(j), Taken(j)>>
        BY <3>3, <3>7, <4>3, <4>5, <4>6, SMTT(60)
      <4>7. CASE e = <<Taken(j), NewLabel(seq[j].target)>>
        BY <3>1, <3>7, <3>10, <4>2, <4>5, <4>7
      <4>8. CASE e = <<NewLabel(j), NotTaken(j)>>
        BY <3>3, <3>7, <4>4, <4>5, <4>8
      <4>9. CASE e = <<NotTaken(j), Fallthrough(j)>>
        <5>1. e[1] = NotTaken(j) /\ e[2] = Fallthrough(j)
          BY <4>9
        <5>2. Leads1(NewLabel(Fallthrough(j).from))
          BY <3>5, <3>7, <4>2, <5>1
        <5>3. Fallthrough(j).from \in T
          BY <3>5, <3>10, <4>2, <5>2
        <5> QED BY <4>5, <5>1, <5>3
      <4> QED BY <4>1, <4>6, <4>7, <4>8, <4>9
    <3>15. CASE seq[j].op \notin {"exit", "jump"} /\ ~ Splits(j)
      <4>1. e = <<NewLabel(j), Fallthrough(j)>>
        BY <2>2, <3>11, <3>15, EdgesFromIs
      <4>2. ~ IsLast(j)
        BY <3>4, <3>15
      <4>3. Fallthrough(j).from \in T
        <5>1. Leads1(NewLabel(Fallthrough(j).from))
          BY <3>5, <3>7, <4>1, <4>2
        <5> QED BY <3>5, <3>10, <4>2, <5>1
      <4>4. CASE seq[j].op # "call"
        <5>1. j \in T
          BY <1>2, <3>15, <4>2, <4>3, <4>4, SMTT(60) DEF Leading
        <5> QED BY <3>3, <4>1, <5>1
      <4>5. CASE seq[j].op = "call"
        <5>1. NewLabel(seq[j].target) \in S
          BY <3>1, <3>2, <4>1, <4>5, SMTT(60)
        <5>2. seq[j].target \in T
          BY <3>1, <3>6, <4>5, <5>1, SMTT(60)
        <5>3. j \in T
          BY <1>2, <4>2, <4>3, <4>5, <5>2 DEF Leading
        <5> QED BY <3>3, <4>1, <5>3
      <4> QED BY <4>4, <4>5
    <3> QED BY <3>12, <3>13, <3>14, <3>15
  <2>3. e \in TopEdges
    BY <1>1
  <2> HIDE DEF Leads1
  <2> QED BY <2>1, <2>2, <2>3 DEF TopEdges
<1>6. Backs(S)
  <2>1. ExitLabel \in S
    BY <1>1 DEF GraphInv
  <2>2. \A e \in edges : e[1] \in DOMAIN nodes
    BY <1>1
  <2> QED BY <1>5, <2>1, <2>2 DEF Backs
<1>7. S \in SUBSET (DOMAIN nodes)
  OBVIOUS
<1>8. NewLabel(i) \in S
  <2> HIDE DEF S
  <2>1. EndsLeast
    BY <1>1, EndsIs
  <2> QED BY <1>6, <1>7, <2>1, SMTT(60) DEF EndsLeast
<1> QED BY <1>3, <1>8

(***************************************************************************)
(* With the calls of A on the stack, a run at an instruction that leads to *)
(* the exit without returning from one of them gets to an exit under the   *)
(* same stack: no call needs to be made while it is active.                *)
(***************************************************************************)
ReachesExit(s, i) == \E e \in Indexes : seq[e].op = "exit" /\ Gets(At(s, i), At(s, e))

Unwinds(A) ==
    \A s \in Seq(Indexes) : Len(s) = Cardinality(A) =>
        \A i \in LeastBut(A) : ReachesExit(s, i)

LEMMA ReachesOn ==
    ASSUME InputOK, NEW s \in ActiveCalls, NEW i \in Indexes, NEW j \in Indexes,
           At(s, j) \in Successors(At(s, i)), ReachesExit(s, j)
    PROVE  ReachesExit(s, i)
<1>1. At(s, i) # Ended /\ At(s, j) \in Runs
  BY RunsFinite
<1>2. Gets(At(s, i), At(s, j))
  BY <1>1, GetsOn
<1> QED BY <1>2, GetsOn DEF ReachesExit

LEMMA UnwindsStep ==
    ASSUME TopGraph, NEW A \in SUBSET Indexes,
           \A c \in Indexes \ A : Unwinds(A \cup {c})
    PROVE  Unwinds(A)
<1> SUFFICES ASSUME NEW s \in Seq(Indexes), Len(s) = Cardinality(A)
             PROVE  \A i \in LeastBut(A) : ReachesExit(s, i)
  BY DEF Unwinds
<1> DEFINE W == {i \in LeastBut(A) : ReachesExit(s, i)}
<1>1. InputOK /\ IsFiniteSet(Indexes) /\ Indexes \subseteq Int
  BY DEF TopGraph, InputOK
<1>2. IsFiniteSet(A) /\ Cardinality(A) \in Nat /\ Cardinality(A) <= Cardinality(Indexes) /\ Cardinality(Indexes) \in Nat
  BY <1>1, FS_Subset, FS_CardinalityType
<1>3. s \in ActiveCalls
  BY <1>2 DEF ActiveCalls
<1>4. LeastBut(A) \in SUBSET Indexes /\ KeptBut(A, LeastBut(A))
  BY LeastButIs
<1>5. ASSUME NEW i \in Indexes, Leading(W, i), ~ (seq[i].op = "call" /\ i \in A)
      PROVE  i \in W
  <2>1. i \in LeastBut(A)
    <3>1. W \subseteq LeastBut(A)
      OBVIOUS
    <3> HIDE DEF W
    <3>2. Leading(LeastBut(A), i)
      BY <1>5, <3>1, LeastButIs
    <3> QED BY <1>4, <1>5, <3>2 DEF KeptBut
  <2>2. seq[i].op \in {"jump", "branch", "call"} => seq[i].target \in Indexes
    BY TopNodes
  <2>3. \A j \in W : j \in Indexes /\ ReachesExit(s, j)
    BY <1>4
  <2>4. ~ IsLast(i) => Fallthrough(i).from \in Indexes
    BY <1>1, FallsTo
  <2> HIDE DEF W
  <2>5. CASE seq[i].op = "exit"
    <3>1. ReachesExit(s, i)
      BY <2>5, GetsOn DEF ReachesExit
    <3> QED BY <2>1, <3>1 DEF W
  <2>6. CASE seq[i].op \in {"jump", "branch"} /\ seq[i].target \in W
    <3>1. At(s, seq[i].target) \in Successors(At(s, i))
      BY <2>6, StepsFrom
    <3>2. ReachesExit(s, i)
      BY <1>1, <1>3, <2>3, <2>6, <3>1, ReachesOn
    <3> QED BY <2>1, <3>2 DEF W
  <2>7. CASE seq[i].op \notin {"exit", "jump", "call"} /\ ~ IsLast(i) /\ Fallthrough(i).from \in W
    <3>1. At(s, Fallthrough(i).from) \in Resume(s, i)
      BY <2>7 DEF Resume
    <3>2. At(s, Fallthrough(i).from) \in Successors(At(s, i))
      BY <2>7, <3>1, StepsFrom
    <3>3. ReachesExit(s, i)
      BY <1>1, <1>3, <2>3, <2>7, <3>2, ReachesOn
    <3> QED BY <2>1, <3>3 DEF W
  <2>8. CASE seq[i].op = "call" /\ ~ IsLast(i) /\ Fallthrough(i).from \in W /\ seq[i].target \in W
    <3> DEFINE t == Append(s, i)
               c == seq[i].target
               j == Fallthrough(i).from
    <3>1. i \notin A /\ c \in LeastBut(A \cup {i}) /\ c \in Indexes
      BY <2>1, <2>2, <2>8, CalleeLeads
    <3>2. Cardinality(A \cup {i}) = Cardinality(A) + 1
      BY <1>2, <3>1, FS_AddElement
    <3>3. Cardinality(A \cup {i}) <= Cardinality(Indexes)
      <4>1. A \cup {i} \in SUBSET Indexes
        OBVIOUS
      <4> QED BY <1>1, <4>1, FS_Subset
    <3>4. /\ t \in Seq(Indexes) /\ Len(t) = Len(s) + 1 /\ t[Len(s) + 1] = i
      BY AppendProperties
    <3>5. SubSeq(t, 1, Len(s)) = s
      <4>1. s \in Seq(Int) /\ i \in Int
        <5>1. \A k \in 1 .. Len(s) : s[k] \in Int
          BY <1>1, ElementOfSeq
        <5>2. s = [k \in 1 .. Len(s) |-> s[k]] /\ Len(s) \in Nat
          OBVIOUS
        <5>3. s \in [1 .. Len(s) -> Int]
          BY <5>1, <5>2, ZenonT(60)
        <5> QED BY <1>1, <5>2, <5>3
      <4> QED BY <4>1, Appended
    <3> HIDE DEF t
    <3>6. t \in ActiveCalls
      BY <1>2, <3>2, <3>3, <3>4 DEF ActiveCalls
    <3>7. PICK e \in Indexes : seq[e].op = "exit" /\ Gets(At(t, c), At(t, e))
      <4>1. Unwinds(A \cup {i})
        BY <3>1
      <4>2. Len(t) = Cardinality(A \cup {i})
        BY <3>2, <3>4
      <4> QED BY <3>1, <3>4, <4>1, <4>2 DEF Unwinds, ReachesExit
    <3>8. Gets(At(s, i), At(t, c))
      <4>1. At(t, c) \in Successors(At(s, i))
        BY <2>8, StepsFrom DEF t
      <4>2. At(t, c) \in Runs /\ At(s, i) # Ended
        BY <1>1, <1>3, <3>1, <3>6, RunsFinite
      <4> QED BY <4>1, <4>2, GetsOn
    <3>9. Gets(At(t, e), At(s, j))
      <4>1. Len(t) > 0 /\ Len(t) - 1 = Len(s)
        BY <1>2, <3>4
      <4>2. Successors(At(t, e)) = Resume(SubSeq(t, 1, Len(t) - 1), t[Len(t)])
        BY <3>7, <4>1, StepsFrom
      <4>3. Successors(At(t, e)) = Resume(s, i)
        BY <3>4, <3>5, <4>1, <4>2
      <4>4. At(s, j) \in Successors(At(t, e))
        BY <2>8, <4>3 DEF Resume
      <4>5. At(s, j) \in Runs /\ At(t, e) # Ended
        BY <1>1, <1>3, <2>4, <2>8, <3>6, RunsFinite
      <4> QED BY <4>4, <4>5, GetsOn
    <3>10. ReachesExit(s, j)
      BY <2>3, <2>8
    <3> HIDE DEF c, j
    <3>11. Gets(At(s, i), At(s, j))
      BY <3>7, <3>8, <3>9, GetsOn
    <3>12. ReachesExit(s, i)
      BY <3>10, <3>11, GetsOn DEF ReachesExit
    <3> QED BY <2>1, <3>12 DEF W
  <2> QED BY <1>5, <2>5, <2>6, <2>7, <2>8 DEF Leading
<1>6. KeptBut(A, W)
  <2> HIDE DEF W
  <2> QED BY <1>5 DEF KeptBut
<1>7. W \in SUBSET Indexes
  BY <1>4
<1>8. LeastBut(A) \subseteq W
  <2> HIDE DEF W
  <2> QED BY <1>6, <1>7, LeastButIs
<1> QED BY <1>8

LEMMA ExitEnds ==
    ASSUME TopGraph, NoFallOff, NEW i \in Indexes, NewLabel(i) \in Ends
    PROVE  CanEnd(i)
<1>1. InputOK /\ IsFiniteSet(Indexes)
  BY DEF TopGraph, InputOK
<1>2. \A A \in SUBSET Indexes : IsFiniteSet(A) /\ Cardinality(A) \in Nat
                                /\ Cardinality(A) <= Cardinality(Indexes)
  BY <1>1, FS_Subset, FS_CardinalityType
<1>3. ASSUME NEW B \in SUBSET Indexes, ~ Unwinds(B) PROVE FALSE
  <2> DEFINE K == {k \in Nat : \E A \in SUBSET Indexes : Cardinality(A) = k /\ ~ Unwinds(A)}
             bound == Cardinality(Indexes)
  <2>1. K \in SUBSET Nat /\ K # {} /\ bound \in Nat /\ \A k \in K : k <= bound
    BY <1>1, <1>2, <1>3, FS_CardinalityType
  <2> HIDE DEF bound
  <2>2. PICK k \in K : \A m \in K : m <= k
    <3> HIDE DEF K
    <3>1. K \in SUBSET (0 .. bound)
      BY <2>1
    <3> QED BY <2>1, <3>1, GreatestNat
  <2>3. PICK A \in SUBSET Indexes : Cardinality(A) = k /\ ~ Unwinds(A)
    OBVIOUS
  <2>4. ASSUME NEW c \in Indexes \ A PROVE Unwinds(A \cup {c})
    <3>1. Cardinality(A \cup {c}) = k + 1
      BY <1>2, <2>3, FS_AddElement
    <3>2. A \cup {c} \in SUBSET Indexes /\ k + 1 \in Nat /\ ~ (k + 1 <= k)
      OBVIOUS
    <3>3. k + 1 \notin K
      BY <2>2, <3>2
    <3> QED BY <3>1, <3>2, <3>3
  <2> QED BY <2>3, <2>4, UnwindsStep
<1>4. Unwinds({})
  BY <1>3
<1>5. i \in LeastBut({})
  BY EndsAreLeast
<1>6. <<>> \in Seq(Indexes) /\ Len(<<>>) = Cardinality({}) /\ Len(<<>>) = 0
  BY EmptySeq, FS_EmptySet
<1>7. PICK e \in Indexes : seq[e].op = "exit" /\ Gets(At(<<>>, i), At(<<>>, e))
  BY <1>4, <1>5, <1>6 DEF Unwinds, ReachesExit
<1>8. <<>> \in ActiveCalls
  BY <1>1, <1>6, FS_CardinalityType DEF ActiveCalls
<1>9. Ended \in Successors(At(<<>>, e))
  BY <1>6, <1>7, StepsFrom
<1>10. Ended \in Runs /\ At(<<>>, e) # Ended
  BY <1>1, <1>8, RunsFinite
<1>11. Gets(At(<<>>, e), Ended)
  BY <1>9, <1>10, GetsOn
<1>12. Gets(At(<<>>, i), Ended)
  BY <1>7, <1>11, GetsOn
<1> QED BY <1>1, <1>12, CanEndIs

-----------------------------------------------------------------------------
(***************************************************************************)
(* The graph that ConnectEdges makes.                                      *)
(***************************************************************************)
FallOffKnown == input.must_have_exit => NoFallOff

LEMMA TopEndInv == TopGraph /\ FallOffKnown => EndInv
<1> SUFFICES ASSUME TopGraph, FallOffKnown PROVE EndInv
  OBVIOUS
<1>1. InputOK /\ DOMAIN nodes = TopLabels
  BY DEF TopGraph
<1>2. ASSUME NEW l \in DOMAIN nodes, nodes[l].op = "call" PROVE l \in PendingSet
  <2>1. PICK i \in Indexes : l = NewLabel(i)
    BY <1>2 DEF TopGraph, OnlyInstructions
  <2>2. seq[i].op = "call"
    BY <1>2, <2>1, TopNodes
  <2> QED BY <2>1, <2>2 DEF TopGraph
<1>3. ASSUME NEW l \in DOMAIN nodes, nodes[l].op = "exit" PROVE <<l, ExitLabel>> \in edges
  <2>1. PICK i \in Indexes : l = NewLabel(i)
    BY <1>3 DEF TopGraph, OnlyInstructions
  <2>2. seq[i].op = "exit" /\ EdgesFrom(i) \subseteq edges
    BY <1>3, <2>1, TopNodes
  <2>3. EdgesFrom(i) = {<<NewLabel(i), ExitLabel>>}
    BY <1>1, <2>2, EdgesFromIs
  <2> QED BY <2>1, <2>2, <2>3
<1>4. CallsLead
  BY <1>2 DEF CallsLead
<1>5. ExitsLead
  BY <1>1, <1>3 DEF ExitsLead
<1>6. EndsExact
  <2>1. ASSUME input.must_have_exit, NEW i \in Indexes
        PROVE  (NewLabel(i) \in Ends <=> CanEnd(i)) /\ (NewLabel(i) \in Ends <=> EndsAtAnyDepth(i))
    BY <1>1, <2>1, NoExitNoEnd, ExitEnds, DeepEndsStay DEF FallOffKnown
  <2> QED BY <2>1 DEF EndsExact
<1> QED BY <1>4, <1>5, <1>6 DEF EndInv

LEMMA TopEndNext == (TopGraph /\ FallOffKnown => EndInv)'
BY TopEndInv, PTL

LEMMA ConnectTop ==
    ASSUME InputOK, TargetsIn, Populated, ConnectEdges, pass' # "rejected"
    PROVE  TopGraph' /\ FallOffKnown'
<1>1. /\ Indexes # {} /\ input' = input
      /\ DOMAIN nodes' = TopLabels
      /\ \A i \in Branches : /\ nodes'[Taken(i)] = Node("assume", 0, <<>>)
                             /\ nodes'[NotTaken(i)] = Node("assume_not", 0, <<>>)
      /\ \A l \in DOMAIN nodes : nodes'[l] = nodes[l]
      /\ edges' = TopEdges
      /\ pending' = InOrder(LocalCalls, LabelLess)
  BY ConnectEdgesIs
<1>2. seq' = seq /\ Indexes' = Indexes /\ Branches' = Branches /\ TopLabels' = TopLabels /\ TopEdges' = TopEdges
  <2>1. seq' = seq /\ Indexes' = Indexes /\ FirstIndex' = FirstIndex
    BY <1>1 DEF seq, Indexes, FirstIndex
  <2>2. \A i : EdgesFrom(i)' = EdgesFrom(i)
    BY <1>1, SequenceParts
  <2> QED BY <1>1, <2>1, <2>2, SequenceParts, EndingsSame, SMTT(60) DEF TopEdges, Branches
<1>3. GraphInv' /\ InputOK'
  BY <1>1, <1>2, ConnectOpensGraph DEF InputOK
<1>4. \A i \in Indexes : seq[i].op = "call" => NewLabel(i) \in PendingSet'
  <2>1. \A i \in Indexes : seq[i].op = "call" => NewLabel(i) \in LocalCalls
    BY DEF LocalCalls
  <2> HIDE DEF LocalCalls
  <2>2. \A l \in LocalCalls : \E k \in DOMAIN pending' : pending'[k] = l
    BY <1>1, CallsAreListed DEF CallsListed
  <2> QED BY <2>1, <2>2 DEF PendingSet
<1>5. ASSUME NEW l \in TopLabels, nodes'[l].op \in {"call", "exit"}
      PROVE  \E i \in Indexes : l = NewLabel(i)
  <2>1. \A n, op : n = Node(op, 0, <<>>) => n.op = op
    BY DEF Node
  <2>2. nodes'[EntryLabel].op = "undefined" /\ nodes'[ExitLabel].op = "undefined"
    BY <1>1 DEF Populated
  <2>3. \A i \in Branches : nodes'[Taken(i)].op = "assume" /\ nodes'[NotTaken(i)].op = "assume_not"
    BY <1>1, <2>1
  <2> QED BY <1>5, <2>2, <2>3 DEF TopLabels
<1>6. TopGraph'
  <2>1. OnlyInstructions'
    BY <1>1, <1>2, <1>5 DEF OnlyInstructions
  <2> QED BY <1>1, <1>2, <1>3, <1>4, <2>1 DEF TopGraph
<1>7. FallOffKnown'
  <2>1. \A i \in Indexes : IsLast(i) /\ input.must_have_exit => ~ HasFall(seq[i])
    BY DEF ConnectEdges, Rejected
  <2>2. \A i \in Indexes : IsLast(i) /\ input.must_have_exit => seq[i].op \in {"exit", "jump"}
    BY <2>1 DEF HasFall
  <2>3. \A i : IsLast(i)' = IsLast(i)
    BY <1>1, SequenceParts
  <2> QED BY <1>1, <1>2, <2>2, <2>3 DEF FallOffKnown, NoFallOff
<1> QED BY <1>6, <1>7

LEMMA ConnectEnds ==
    ASSUME InputOK, TargetsIn, Populated, ConnectEdges, pass' # "rejected"
    PROVE  EndInv'
BY ConnectTop, TopEndNext

(***************************************************************************)
(* What ComputeCallbackMetadata finds: with every call inlined, a label    *)
(* reaches the exit, or an exit of the sequence itself, if and only if it  *)
(* leads there.                                                            *)
(***************************************************************************)
LEMMA CallbackEnds ==
    ASSUME InputOK, GraphInv, EndInv, PendingSet = {}, NEW l \in DOMAIN nodes
    PROVE  (\E x \in ReachedFrom(l) : EndsCallback(x)) <=> l \in Ends
<1>1. EdgesIn /\ ExitLabel \in DOMAIN nodes /\ edges \subseteq (DOMAIN nodes) \X (DOMAIN nodes)
  BY DEF GraphInv, GraphType, EdgesIn
<1>2. /\ Ends \in SUBSET (DOMAIN nodes) /\ Backs(Ends)
      /\ \A S \in SUBSET (DOMAIN nodes) : Backs(S) => Ends \subseteq S
  BY EndsIs DEF EndsLeast
<1>3. ASSUME NEW x \in ReachedFrom(l), EndsCallback(x), l \notin Ends PROVE FALSE
  <2> DEFINE T == DOMAIN nodes \ Ends
  <2>1. ASSUME NEW e \in edges, e[1] \in T PROVE e[2] \in T
    <3> SUFFICES ASSUME e[2] \in Ends PROVE FALSE
      BY <1>1
    <3>1. e[1] \in DOMAIN nodes /\ e = <<e[1], e[2]>> /\ e[1] \notin Ends
      BY <1>1, <2>1
    <3>2. nodes[e[1]].op = "call" => NewLabel(nodes[e[1]].target) \in Ends
      BY <3>1 DEF EndInv, CallsLead
    <3>3. LeadsBack(Ends, e)
      BY <3>2 DEF LeadsBack
    <3> QED BY <1>2, <3>1, <3>3 DEF Backs
  <2>2. T \in SUBSET (DOMAIN nodes) /\ l \in T /\ Closed(T)
    <3>1. Closed(T)
      <4> HIDE DEF T
      <4> QED BY <2>1 DEF Closed
    <3> QED BY <1>3, <3>1
  <2>3. x \in T
    <3> HIDE DEF T
    <3> QED BY <1>1, <2>2, ReachedIs
  <2>4. x = ExitLabel \/ <<x, ExitLabel>> \in edges
    BY <1>3, <2>3 DEF EndsCallback, EndInv, ExitsLead
  <2>5. ExitLabel \in Ends
    BY <1>2 DEF Backs
  <2>6. CASE x = ExitLabel
    BY <2>3, <2>5, <2>6
  <2>7. CASE <<x, ExitLabel>> \in edges
    <3>1. PICK e \in edges : e = <<x, ExitLabel>>
      BY <2>7
    <3>2. e[1] = x /\ e[2] = ExitLabel
      BY <3>1
    <3>3. e[2] \in T
      BY <2>1, <2>3, <3>2
    <3> QED BY <2>5, <3>2, <3>3
  <2> QED BY <2>4, <2>6, <2>7
<1>4. ASSUME l \in Ends PROVE \E x \in ReachedFrom(l) : EndsCallback(x)
  <2> DEFINE S == {m \in DOMAIN nodes : ExitLabel \in ReachedFrom(m)}
  <2>1. ASSUME NEW e \in edges, LeadsBack(S, e) PROVE e[1] \in S
    <3>1. e[1] \in DOMAIN nodes /\ e[2] \in S
      BY <1>1, <2>1 DEF LeadsBack
    <3>2. e[1] \in ReachedFrom(e[1]) /\ Closed(ReachedFrom(e[1])) /\ ReachedFrom(e[1]) \in SUBSET (DOMAIN nodes)
      BY <1>1, <3>1, ReachedIs
    <3>3. e[2] \in ReachedFrom(e[1])
      BY <3>2 DEF Closed
    <3>4. ReachedFrom(e[2]) \subseteq ReachedFrom(e[1])
      BY <1>1, <3>1, <3>2, <3>3, ReachedIs
    <3> QED BY <3>1, <3>4
  <2>2. ExitLabel \in S
    BY <1>1, ReachedIs
  <2>3. S \in SUBSET (DOMAIN nodes)
    OBVIOUS
  <2>4. Backs(S)
    <3> HIDE DEF S
    <3> QED BY <2>1, <2>2 DEF Backs
  <2>5. l \in S
    <3> HIDE DEF S
    <3> QED BY <1>2, <1>4, <2>3, <2>4
  <2>6. ExitLabel \in ReachedFrom(l)
    BY <2>5
  <2> QED BY <2>6 DEF EndsCallback
<1> QED BY <1>3, <1>4

CallbackExitsAtAnyDepth ==
    pass = "InsertTerminationCounters" /\ input.must_have_exit =>
        \A i \in callbacks.targets : i \in callbacks.with_exit <=> EndsAtAnyDepth(i)

LEMMA CallbackTargetsIn ==
    ASSUME InputOK, GraphInv, EndInv, ComputeCallbackMetadata, NEW i \in callbacks'.targets
    PROVE  i \in Indexes
<1>0. callbacks'.targets = {l.from : l \in {x \in DOMAIN nodes \ {EntryLabel, ExitLabel} :
                           ~ IsJump(x) /\ x.prefix = <<>> /\ nodes[x].op # "exit"}}
  BY DEF ComputeCallbackMetadata
<1>1. PICK x \in DOMAIN nodes \ {EntryLabel, ExitLabel} : i = x.from /\ ~ IsJump(x) /\ x.prefix = <<>>
  BY <1>0
<1>2. x \in TopLabels
  BY <1>1 DEF EndInv, ExitsLead
<1>3. x.to = -1
  BY <1>1 DEF IsJump
<1>4. \A j \in Branches : Taken(j).to # -1 /\ NotTaken(j).to # -1
  <2>1. \A j \in Branches : j \in Indexes /\ Splits(j) /\ seq[j].target \in Indexes
    BY DEF Branches, Splits, GraphInv, TargetsIn
  <2> QED BY <2>1, BranchLabels
<1>5. PICK j \in Indexes : x = NewLabel(j)
  BY <1>1, <1>2, <1>3, <1>4 DEF TopLabels
<1> QED BY <1>1, <1>5, LabelsApart DEF InputOK

LEMMA CallbacksFound ==
    ASSUME InputOK, GraphInv, EndInv, pending = <<>>, ComputeCallbackMetadata
    PROVE  CallbackExitsExact' /\ CallbackExitsAtAnyDepth'
<1>1. /\ callbacks'.targets = {l.from : l \in {x \in DOMAIN nodes \ {EntryLabel, ExitLabel} :
                           ~ IsJump(x) /\ x.prefix = <<>> /\ nodes[x].op # "exit"}}
      /\ callbacks'.with_exit = {i \in callbacks'.targets : \E l \in ReachedFrom(NewLabel(i)) : EndsCallback(l)}
      /\ input' = input
  BY DEF ComputeCallbackMetadata
<1>2. PendingSet = {}
  BY DEF PendingSet
<1>3. \A i \in callbacks'.targets : i \in Indexes
  BY CallbackTargetsIn
<1>4. ASSUME input.must_have_exit, NEW i \in callbacks'.targets
      PROVE  /\ i \in callbacks'.with_exit <=> CanEnd(i)'
             /\ i \in callbacks'.with_exit <=> EndsAtAnyDepth(i)'
  <2>1. i \in Indexes
    BY <1>3
  <2>2. NewLabel(i) \in DOMAIN nodes
    BY <2>1 DEF GraphInv, InstructionAt
  <2>3. (\E l \in ReachedFrom(NewLabel(i)) : EndsCallback(l)) <=> NewLabel(i) \in Ends
    BY <1>2, <2>2, CallbackEnds
  <2>4. (NewLabel(i) \in Ends <=> CanEnd(i)) /\ (NewLabel(i) \in Ends <=> EndsAtAnyDepth(i))
    BY <1>4, <2>1 DEF EndInv, EndsExact
  <2>5. CanEnd(i)' = CanEnd(i) /\ EndsAtAnyDepth(i)' = EndsAtAnyDepth(i)
    BY <1>1, EndingsSame
  <2> QED BY <1>1, <2>3, <2>4, <2>5
<1> QED BY <1>1, <1>4 DEF CallbackExitsExact, CallbackExitsAtAnyDepth

\* EndInv speaks of nothing but the stage.
LEMMA EndsSame ==
    ASSUME UNCHANGED StageVars, EndInv
    PROVE  EndInv'
<1>1. input' = input /\ nodes' = nodes /\ edges' = edges /\ pending' = pending
  BY DEF StageVars
<1>2. (\A i : CanEnd(i)' = CanEnd(i) /\ EndsAtAnyDepth(i)' = EndsAtAnyDepth(i)) /\ TopLabels' = TopLabels
  BY <1>1, EndingsSame
<1>3. \A S, e : LeadsBack(S, e)' = LeadsBack(S, e)
  BY <1>1 DEF LeadsBack
<1>4. \A S : Backs(S)' = Backs(S)
  BY <1>1, <1>3 DEF Backs
<1>5. Ends' = Ends
  BY <1>1, <1>4 DEF Ends
<1>6. CallsLead'
  BY <1>1, <1>5 DEF CallsLead, EndInv, PendingSet
<1>7. ExitsLead'
  BY <1>1, <1>2 DEF ExitsLead, EndInv
<1>8. EndsExact'
  <2>1. Indexes' = Indexes
    BY <1>1 DEF Indexes, seq
  <2> QED BY <1>1, <1>2, <1>5, <2>1, SMTT(60) DEF EndsExact, EndInv
<1> QED BY <1>6, <1>7, <1>8 DEF EndInv

EndingInv == (pass \in Inlining => EndInv) /\ CallbackExitsExact /\ CallbackExitsAtAnyDepth

LEMMA EndingInit == Init => EndingInv
<1> SUFFICES ASSUME Init PROVE EndingInv
  OBVIOUS
<1>1. pass = "ValidateInstructionSupport"
  BY DEF Init
<1> QED BY <1>1 DEF EndingInv, CallbackExitsExact, CallbackExitsAtAnyDepth, Inlining

LEMMA EndingStep ==
    ASSUME StageInv, FlowInv, EndingInv, [Next]_vars
    PROVE  EndingInv'
<1>1. InputOK
  BY DEF StageInv
<1>2. ASSUME UNCHANGED vars \/ Start \/ Execute \/ Stopped PROVE EndingInv'
  <2>1. UNCHANGED <<pass, callbacks, input>> /\ UNCHANGED StageVars
    BY <1>2 DEF Start, Execute, Stopped, StageVars, vars
  <2>2. pass \in Inlining => EndInv'
    BY <2>1, EndsSame DEF EndingInv
  <2>3. CallbackExitsExact' /\ CallbackExitsAtAnyDepth'
    <3>1. \A i : CanEnd(i)' = CanEnd(i) /\ EndsAtAnyDepth(i)' = EndsAtAnyDepth(i)
      BY <2>1, EndingsSame
    <3> QED BY <2>1, <3>1 DEF EndingInv, CallbackExitsExact, CallbackExitsAtAnyDepth
  <2> QED BY <2>1, <2>2, <2>3, SMTT(60) DEF EndingInv
<1>3. ASSUME ValidateInstructionSupport \/ ResolveKfuncCalls \/ LowerPseudoLoads
             \/ PopulateNodes \/ ValidateControlFlowTargets
      PROVE EndingInv'
  <2>1. pass' \in Unpopulated \cup {"ValidateControlFlowTargets", "ConnectEdges", "rejected"}
    BY <1>3 DEF ValidateInstructionSupport, ResolveKfuncCalls, LowerPseudoLoads, PopulateNodes,
                ValidateControlFlowTargets, Rejected, Go, Unpopulated
  <2> QED BY <2>1 DEF EndingInv, CallbackExitsExact, CallbackExitsAtAnyDepth, Unpopulated, Inlining
<1>4. ASSUME ConnectEdges PROVE EndingInv'
  <2>1. Populated /\ TargetsIn
    BY <1>4 DEF StageInv, ConnectEdges
  <2>2. pass' = "rejected" \/ (pass' = "InlineLocalCalls" /\ EndInv')
    BY <1>1, <1>4, <2>1, ConnectEnds, ConnectEdgesIs, SMTT(60)
  <2> QED BY <2>2 DEF EndingInv, CallbackExitsExact, CallbackExitsAtAnyDepth, Inlining
<1>5. ASSUME AddCfgNodes PROVE EndingInv'
  <2>1. GraphInv /\ PendingInv /\ EndInv
    BY <1>5 DEF StageInv, FlowInv, InlineInv, EndingInv, AddCfgNodes, Inlining
  <2>2. CASE pass' \in {"rejected", "panicked"}
    BY <2>2 DEF EndingInv, CallbackExitsExact, CallbackExitsAtAnyDepth, Inlining
  <2>3. CASE pass' \notin {"rejected", "panicked"}
    <3>1. PICK exit_to \in DOMAIN nodes, R \in SUBSET (DOMAIN nodes) : InlineStep(Head(pending), exit_to, R)
      BY <1>1, <1>5, <2>1, <2>3, AddCfgNodesIs
    <3>2. EndInv' /\ pass' = "InlineLocalCalls"
      BY <1>1, <2>1, <3>1, InlineEnds DEF InlineStep
    <3> QED BY <3>2 DEF EndingInv, CallbackExitsExact, CallbackExitsAtAnyDepth, Inlining
  <2> QED BY <2>2, <2>3, SMTT(60)
<1>6. ASSUME InlineLocalCalls \/ ValidateTailCallDepth PROVE EndingInv'
  <2>1. /\ UNCHANGED StageVars /\ pass \in Inlining
        /\ pass' \in {"ValidateTailCallDepth", "ComputeCallbackMetadata", "rejected"}
    BY <1>6 DEF InlineLocalCalls, ValidateTailCallDepth, Vetted, StageVars, Rejected, Go, Inlining
  <2>2. EndInv'
    BY <2>1, EndsSame DEF EndingInv
  <2> QED BY <2>1, <2>2 DEF EndingInv, CallbackExitsExact, CallbackExitsAtAnyDepth, Inlining
<1>7. ASSUME ComputeCallbackMetadata PROVE EndingInv'
  <2>1. /\ UNCHANGED StageVars /\ pass \in Inlining /\ pending = <<>> /\ GraphInv /\ EndInv
    BY <1>7 DEF ComputeCallbackMetadata, StageVars, Inlining, StageInv, FlowInv, EndingInv
  <2>2. EndInv'
    BY <2>1, EndsSame
  <2>3. CallbackExitsExact' /\ CallbackExitsAtAnyDepth'
    BY <1>1, <1>7, <2>1, CallbacksFound
  <2> QED BY <2>2, <2>3 DEF EndingInv
<1>8. ASSUME InsertTerminationCounters \/ ExtractAssertions PROVE EndingInv'
  <2>1. pass' \in {"ExtractAssertions", "built"}
    BY <1>8 DEF InsertTerminationCounters, ExtractAssertions, Go
  <2> QED BY <2>1 DEF EndingInv, CallbackExitsExact, CallbackExitsAtAnyDepth, Inlining
<1> QED BY <1>2, <1>3, <1>4, <1>5, <1>6, <1>7, <1>8, SMTT(60) DEF Next, Build

LEMMA EndingAlways == Spec => []EndingInv
<1>1. StageInv /\ FlowInv /\ EndingInv /\ [Next]_vars => (StageInv /\ FlowInv /\ EndingInv)'
  BY StageStep, FlowStep, EndingStep
<1>2. Init => StageInv /\ FlowInv /\ EndingInv
  BY StageInit, FlowInit, EndingInit
<1> QED BY <1>1, <1>2, PTL DEF Spec

(***************************************************************************)
(* callback_targets_with_exit is exact: of the instructions a callback may *)
(* start at, those are in it from which the machine can end, and no other. *)
(* It holds for every sequence that has to have an exit, wherever its      *)
(* subprograms are: pass_compute_callback_metadata looks at the inlined    *)
(* graph, where an exit of a subprogram is the return to its caller.       *)
(***************************************************************************)
THEOREM CallbackExitsExactAlways == Spec => []CallbackExitsExact
<1>1. EndingInv => CallbackExitsExact
  BY DEF EndingInv
<1> QED BY <1>1, EndingAlways, PTL

(***************************************************************************)
(* The same of runs that may have any number of calls active: the bound in *)
(* CanEnd, which only keeps the number of runs finite, loses no end.       *)
(***************************************************************************)
THEOREM CallbackExitsAtAnyDepthAlways == Spec => []CallbackExitsAtAnyDepth
<1>1. EndingInv => CallbackExitsAtAnyDepth
  BY DEF EndingInv
<1> QED BY <1>1, EndingAlways, PTL

-----------------------------------------------------------------------------
(***************************************************************************)
(* How deep calls nest, wherever the subprograms are.  Passes(i, j): a run *)
(* at i can get to j in the same activation, where a call is passed if its *)
(* callee leads to an exit.                                                *)
(***************************************************************************)
Returning == LeastBut({})

OnTheWay(T) ==
    \A k \in T :
        /\ seq[k].op \in {"jump", "branch"} => seq[k].target \in T
        /\ seq[k].op \notin {"exit", "jump", "call"} /\ ~ IsLast(k) => Fallthrough(k).from \in T
        /\ seq[k].op = "call" /\ ~ IsLast(k) /\ seq[k].target \in Returning => Fallthrough(k).from \in T

Passes(i, j) == \A T \in SUBSET Indexes : i \in T /\ OnTheWay(T) => j \in T

LEMMA PassesOn ==
    ASSUME NEW i, NEW k
    PROVE  /\ Passes(i, i)
           /\ Passes(i, k) =>
                 /\ seq[k].op \in {"jump", "branch"} => Passes(i, seq[k].target)
                 /\ seq[k].op \notin {"exit", "jump", "call"} /\ ~ IsLast(k) => Passes(i, Fallthrough(k).from)
                 /\ seq[k].op = "call" /\ ~ IsLast(k) /\ seq[k].target \in Returning =>
                        Passes(i, Fallthrough(k).from)
<1>1. Passes(i, i)
  BY DEF Passes
<1>2. ASSUME Passes(i, k), seq[k].op \in {"jump", "branch"} PROVE Passes(i, seq[k].target)
  BY <1>2 DEF Passes, OnTheWay
<1>3. ASSUME Passes(i, k), seq[k].op \notin {"exit", "jump", "call"}, ~ IsLast(k)
      PROVE  Passes(i, Fallthrough(k).from)
  BY <1>3 DEF Passes, OnTheWay
<1>4. ASSUME Passes(i, k), seq[k].op = "call", ~ IsLast(k), seq[k].target \in Returning
      PROVE  Passes(i, Fallthrough(k).from)
  BY <1>4 DEF Passes, OnTheWay
<1> QED BY <1>1, <1>2, <1>3, <1>4

\* An activation that gets to an exit is one that is returned from.
LEMMA PassesExit ==
    ASSUME InputOK, TargetsIn, NEW i \in Indexes, NEW e \in Indexes, seq[e].op = "exit", Passes(i, e)
    PROVE  i \in Returning
<1> SUFFICES ASSUME i \notin Returning PROVE FALSE
  OBVIOUS
<1> DEFINE T == Indexes \ Returning
<1>1. \A k \in Indexes : Leading(Returning, k) => k \in Returning
  BY LeastButIs DEF Returning, KeptBut
<1>2. ASSUME NEW k \in T
      PROVE  /\ seq[k].op \in {"jump", "branch"} => seq[k].target \in T
             /\ seq[k].op \notin {"exit", "jump", "call"} /\ ~ IsLast(k) => Fallthrough(k).from \in T
             /\ seq[k].op = "call" /\ ~ IsLast(k) /\ seq[k].target \in Returning => Fallthrough(k).from \in T
  <2>1. k \in Indexes /\ ~ Leading(Returning, k)
    BY <1>1
  <2>2. seq[k].op \in {"jump", "branch"} => seq[k].target \in Indexes
    BY <2>1 DEF TargetsIn
  <2>3. ~ IsLast(k) => Fallthrough(k).from \in Indexes
    BY <2>1, FallsTo
  <2> QED BY <2>1, <2>2, <2>3 DEF Leading
<1>3. OnTheWay(T)
  <2> HIDE DEF T
  <2> QED BY <1>2 DEF OnTheWay
<1>4. T \in SUBSET Indexes /\ i \in T
  OBVIOUS
<1>5. e \in T
  <2> HIDE DEF T
  <2> QED BY <1>3, <1>4 DEF Passes
<1>6. e \in Returning
  BY <1>1 DEF Leading
<1> QED BY <1>5, <1>6

LEMMA PassesSame ==
    ASSUME UNCHANGED input
    PROVE  /\ Returning' = Returning
           /\ \A i, j : Passes(i, j)' = Passes(i, j)
<1>1. seq' = seq /\ Indexes' = Indexes
  BY DEF seq, Indexes
<1>2. \A i : Fallthrough(i)' = Fallthrough(i) /\ IsLast(i)' = IsLast(i)
  BY SequenceParts
<1>3. \A T, i : Leading(T, i)' = Leading(T, i)
  BY <1>1, <1>2 DEF Leading
<1>4. \A A, T : KeptBut(A, T)' = KeptBut(A, T)
  BY <1>1, <1>3 DEF KeptBut
<1>5. Returning' = Returning
  BY <1>1, <1>4 DEF Returning, LeastBut
<1>6. \A T : OnTheWay(T)' = OnTheWay(T)
  BY <1>1, <1>2, <1>5 DEF OnTheWay
<1>7. \A i, j : Passes(i, j)' = Passes(i, j)
  BY <1>1, <1>6 DEF Passes
<1> QED BY <1>5, <1>7, SMTT(60)

(***************************************************************************)
(* The labels from which the graph leads to a label of instruction j, not  *)
(* through the exit, a call being passed if its callee leads to the exit.  *)
(***************************************************************************)
LeadsOn(S, e) ==
    /\ e[2] \in S /\ e[2] # ExitLabel
    /\ nodes[e[1]].op = "call" => NewLabel(nodes[e[1]].target) \in Ends

Toward(j, S) ==
    /\ \A x \in DOMAIN nodes : x.from = j /\ x.to = -1 => x \in S
    /\ \A e \in edges : LeadsOn(S, e) => e[1] \in S

Before(j) == {l \in DOMAIN nodes : \A S \in SUBSET (DOMAIN nodes) : Toward(j, S) => l \in S}

(***************************************************************************)
(* The invariant of inlining: the graph gets wherever an activation can    *)
(* get to; a clone is of the instruction its label names; and a call that  *)
(* was inlined is not too deep, and has a clone of each instruction its    *)
(* callee can get to.                                                      *)
(***************************************************************************)
GetsThere == \A i, j \in Indexes : Passes(i, j) => NewLabel(i) \in Before(j)

NamedRight ==
    \A l \in DOMAIN nodes : l.to = -1 /\ l.from \in Indexes =>
        nodes[l].op = OpAt(l.from) /\ nodes[l].target = seq[l.from].target

Unfolded(l) ==
    /\ Len(l.prefix) + 2 <= input.max_call_stack_frames
    /\ \A j \in Indexes : Passes(nodes[l].target, j) => LabelFull(j, -1, FrameOf(l)) \in DOMAIN nodes

DepthInv ==
    /\ GetsThere /\ NamedRight
    /\ \A l \in DOMAIN nodes : nodes[l].op = "call" /\ l \notin PendingSet => Unfolded(l)

LEMMA BeforeKept ==
    ASSUME InputOK, GraphInv, NEW h, NEW exit_to \in DOMAIN nodes, NEW R \in SUBSET (DOMAIN nodes),
           InlineStep(h, exit_to, R), NEW j
    PROVE  Before(j) \subseteq Before(j)'
<1> DEFINE f == FrameOf(h)
           entry == NewLabel(nodes[h].target)
<1>1. GraphStep(h, exit_to, R) /\ InlinedEdges(h, exit_to, R)
  BY StepIs, InlinedEdgesAre
<1>2. /\ DOMAIN nodes \subseteq DOMAIN nodes'
      /\ \A l \in DOMAIN nodes : nodes'[l].op = nodes[l].op /\ nodes'[l].target = nodes[l].target
      /\ \A m \in R : /\ Clone(m, f) \notin DOMAIN nodes /\ Clone(m, f) \in DOMAIN nodes'
                      /\ nodes'[Clone(m, f)].op = nodes[m].op
                      /\ nodes'[Clone(m, f)].target = nodes[m].target
  BY <1>1, ZenonT(60) DEF GraphStep
<1>3. /\ EndsLeast /\ edges \subseteq (DOMAIN nodes) \X (DOMAIN nodes) /\ ExitLabel \in DOMAIN nodes
      /\ Ends \subseteq Ends'
  BY EndsIs, EndsStay DEF GraphInv, GraphType
<1>4. \A m \in R : Clone(m, f).from = m.from /\ Clone(m, f).to = m.to
  BY DEF Clone, LabelFull
<1>5. entry # ExitLabel /\ entry \in DOMAIN nodes /\ entry \in R /\ nodes[h].op = "call"
  <2>1. h \in DOMAIN nodes /\ nodes[h].op = "call" /\ entry \in R
    BY <1>1 DEF GraphStep, InlinedEdges
  <2>2. nodes[h].target \in Indexes
    BY <2>1 DEF GraphInv, CallNodes
  <2> QED BY <2>1, <2>2, NewLabelApart, SMTT(60)
<1> HIDE DEF f, entry
<1>6. ASSUME NEW S \in SUBSET (DOMAIN nodes'), Toward(j, S)'
      PROVE  Before(j) \subseteq S
  <2>1. /\ \A x \in DOMAIN nodes' : x.from = j /\ x.to = -1 => x \in S
        /\ \A e \in edges' : LeadsOn(S, e)' => e[1] \in S
    BY <1>6 DEF Toward
  <2>2. ASSUME NEW a, NEW b, <<a, b>> \in edges', b \in S, b # ExitLabel,
               nodes'[a].op = "call" => NewLabel(nodes'[a].target) \in Ends'
        PROVE  a \in S
    <3>1. PICK e \in edges' : e = <<a, b>>
      BY <2>2
    <3>2. e[1] = a /\ e[2] = b
      BY <3>1
    <3>3. LeadsOn(S, e)'
      BY <2>2, <3>2 DEF LeadsOn
    <3> QED BY <2>1, <3>2, <3>3
  \* The clone of a label that leads to the exit leads to the continuation.
  <2>3. ASSUME exit_to \in S, exit_to # ExitLabel, entry \in Ends PROVE Clone(entry, f) \in S
    <3> DEFINE V == {l \in Ends : l \in R /\ l # ExitLabel => Clone(l, f) \in S}
    <3>1. ASSUME NEW e \in edges, LeadsBack(V, e) PROVE e[1] \in V
      <4>1. e[1] \in DOMAIN nodes /\ e[2] \in DOMAIN nodes /\ e = <<e[1], e[2]>>
        BY <1>3
      <4>2. /\ e[2] \in Ends
            /\ nodes[e[1]].op = "call" => NewLabel(nodes[e[1]].target) \in Ends
        BY <3>1 DEF LeadsBack
      <4>3. e[1] \in Ends
        <5>1. LeadsBack(Ends, e)
          BY <4>2 DEF LeadsBack
        <5> QED BY <1>3, <5>1 DEF EndsLeast, Backs
      <4>4. ASSUME e[1] \in R PROVE Clone(e[1], f) \in S
        <5>1. <<Clone(e[1], f), CloneOf(e[2], f, exit_to)>> \in edges'
          BY <1>1, <4>1, <4>4 DEF InlinedEdges, f
        <5>2. CloneOf(e[2], f, exit_to) \in S /\ CloneOf(e[2], f, exit_to) # ExitLabel
          <6>1. CASE e[2] = ExitLabel
            BY <2>3, <6>1 DEF CloneOf
          <6>2. CASE e[2] # ExitLabel
            <7>1. e[2] \in R
              BY <1>1, <4>1, <4>4, <6>2 DEF InlinedEdges, f
            <7>2. e[2] \in V
              BY <3>1 DEF LeadsBack
            <7>3. Clone(e[2], f) \in S /\ Clone(e[2], f) # ExitLabel
              BY <1>2, <1>3, <6>2, <7>1, <7>2, SMTT(60)
            <7> QED BY <6>2, <7>3 DEF CloneOf
          <6> QED BY <6>1, <6>2
        <5>3. nodes'[Clone(e[1], f)].op = "call" => NewLabel(nodes'[Clone(e[1], f)].target) \in Ends'
          BY <1>2, <1>3, <4>2, <4>4
        <5> QED BY <2>2, <5>1, <5>2, <5>3, SMTT(60)
      <4> QED BY <4>3, <4>4
    <3>2. ExitLabel \in V
      BY <1>3 DEF EndsLeast, Backs
    <3>3. V \in SUBSET (DOMAIN nodes)
      BY <1>3 DEF EndsLeast
    <3> HIDE DEF V
    <3>4. Backs(V)
      BY <3>1, <3>2 DEF Backs
    <3>5. entry \in V
      BY <1>3, <2>3, <3>3, <3>4, SMTT(60) DEF EndsLeast
    <3> QED BY <1>5, <3>5 DEF V
  <2> DEFINE W == {l \in DOMAIN nodes : l \in S /\ (l \in R /\ l # ExitLabel => Clone(l, f) \in S)}
  <2>4. ASSUME NEW x \in DOMAIN nodes, x.from = j, x.to = -1 PROVE x \in W
    <3>1. x \in S
      BY <1>2, <2>1, <2>4
    <3>2. x \in R => Clone(x, f) \in S
      BY <1>2, <1>4, <2>1, <2>4
    <3> QED BY <3>1, <3>2
  <2>5. ASSUME NEW e \in edges, LeadsOn(W, e) PROVE e[1] \in W
    <3>1. e[1] \in DOMAIN nodes /\ e[2] \in DOMAIN nodes /\ e = <<e[1], e[2]>>
      BY <1>3
    <3>2. /\ e[2] \in S /\ e[2] \in W /\ e[2] # ExitLabel
          /\ nodes[e[1]].op = "call" => NewLabel(nodes[e[1]].target) \in Ends
      BY <2>5 DEF LeadsOn
    <3>3. e[1] \in S
      <4>1. CASE e \in edges'
        <5>1. LeadsOn(S, e)'
          BY <1>2, <1>3, <3>1, <3>2, SMTT(60) DEF LeadsOn
        <5> QED BY <2>1, <4>1, <5>1
      <4>2. CASE e \notin edges'
        <5>1. e[1] = h /\ e[2] = exit_to /\ <<h, Clone(entry, f)>> \in edges'
          BY <1>1, <4>2 DEF InlinedEdges, f, entry
        <5>2. entry \in Ends
          BY <1>5, <3>2, <5>1 DEF entry
        <5>3. Clone(entry, f) \in S /\ Clone(entry, f) # ExitLabel
          BY <1>2, <1>3, <1>5, <2>3, <3>2, <5>1, <5>2, SMTT(60)
        <5>4. nodes'[h].op = "call" => NewLabel(nodes'[h].target) \in Ends'
          BY <1>2, <1>3, <3>1, <3>2, <5>1
        <5> QED BY <2>2, <5>1, <5>3, <5>4
      <4> QED BY <4>1, <4>2
    <3>4. ASSUME e[1] \in R PROVE Clone(e[1], f) \in S
      <4>1. <<Clone(e[1], f), CloneOf(e[2], f, exit_to)>> \in edges' /\ e[2] \in R
        BY <1>1, <3>1, <3>2, <3>4, SMTT(60) DEF InlinedEdges, f
      <4>2. CloneOf(e[2], f, exit_to) = Clone(e[2], f)
        BY <3>2 DEF CloneOf
      <4>3. Clone(e[2], f) \in S /\ Clone(e[2], f) # ExitLabel
        BY <1>2, <1>3, <3>2, <4>1, SMTT(60)
      <4>4. nodes'[Clone(e[1], f)].op = "call" => NewLabel(nodes'[Clone(e[1], f)].target) \in Ends'
        BY <1>2, <1>3, <3>2, <3>4
      <4> QED BY <2>2, <4>1, <4>2, <4>3, <4>4, SMTT(60)
    <3> QED BY <3>1, <3>3, <3>4, SMTT(60)
  <2>6. W \in SUBSET (DOMAIN nodes) /\ W \subseteq S
    OBVIOUS
  <2> HIDE DEF W
  <2>7. Toward(j, W)
    BY <2>4, <2>5 DEF Toward
  <2> QED BY <2>6, <2>7 DEF Before
<1>7. \A l \in Before(j) : l \in DOMAIN nodes'
  BY <1>2 DEF Before
<1> QED BY <1>6, <1>7 DEF Before

LEMMA InlineDepth ==
    ASSUME InputOK, GraphInv, PendingInv, DepthInv, NEW exit_to \in DOMAIN nodes,
           NEW R \in SUBSET (DOMAIN nodes), InlineStep(Head(pending), exit_to, R)
    PROVE  DepthInv'
<1> DEFINE h == Head(pending)
           f == FrameOf(h)
           entry == NewLabel(nodes[h].target)
<1>1. GraphStep(h, exit_to, R) /\ InlinedEdges(h, exit_to, R)
  BY StepIs, InlinedEdgesAre
<1>2. /\ DOMAIN nodes' = DOMAIN nodes \cup {Clone(m, f) : m \in R}
      /\ \A l \in DOMAIN nodes : nodes'[l].op = nodes[l].op /\ nodes'[l].target = nodes[l].target
      /\ \A m \in R : /\ Clone(m, f) \notin DOMAIN nodes
                      /\ nodes'[Clone(m, f)].op = nodes[m].op
                      /\ nodes'[Clone(m, f)].target = nodes[m].target
      /\ h \in DOMAIN nodes /\ Len(h.prefix) + 2 <= input.max_call_stack_frames
      /\ input' = input /\ seq' = seq /\ Indexes' = Indexes
  BY <1>1, ZenonT(60) DEF GraphStep
<1>3. PendingSet' = (PendingSet \ {h}) \cup NewCalls(h, R)
  BY PendingKept
<1>4. \A i, j : Passes(i, j)' = Passes(i, j)
  BY <1>2, PassesSame
<1>5. \A j : Before(j) \subseteq Before(j)'
  BY BeforeKept
<1>6. GetsThere'
  BY <1>2, <1>4, <1>5 DEF GetsThere, DepthInv
<1>7. \A m \in R : /\ Clone(m, f).from = m.from /\ Clone(m, f).to = m.to
                   /\ Clone(m, f) = LabelFull(m.from, m.to, f)
  BY DEF Clone, LabelFull
<1>8. \A i : OpAt(i)' = OpAt(i)
  BY <1>2 DEF OpAt
<1> HIDE DEF f, entry, h
<1>9. NamedRight'
  <2>1. ASSUME NEW l \in DOMAIN nodes', l.to = -1, l.from \in Indexes
        PROVE  nodes'[l].op = OpAt(l.from) /\ nodes'[l].target = seq[l.from].target
    <3>1. CASE l \in DOMAIN nodes
      BY <1>2, <2>1, <3>1 DEF DepthInv, NamedRight
    <3>2. CASE l \notin DOMAIN nodes
      <4>1. PICK m \in R : l = Clone(m, f)
        BY <1>2, <3>2
      <4>2. m.to = -1 /\ m.from = l.from /\ m \in DOMAIN nodes
        BY <1>7, <2>1, <4>1
      <4>3. nodes[m].op = OpAt(m.from) /\ nodes[m].target = seq[m.from].target
        BY <2>1, <4>2 DEF DepthInv, NamedRight
      <4> QED BY <1>2, <4>1, <4>2, <4>3
    <3> QED BY <3>1, <3>2
  <2> QED BY <1>2, <1>8, <2>1 DEF NamedRight
<1>10. ASSUME NEW l \in DOMAIN nodes', nodes'[l].op = "call", l \notin PendingSet'
       PROVE  Unfolded(l)'
  <2>1. l \in DOMAIN nodes
    <3> SUFFICES ASSUME l \notin DOMAIN nodes PROVE FALSE
      OBVIOUS
    <3>1. PICK m \in R : l = Clone(m, f)
      BY <1>2
    <3>2. nodes[m].op = "call"
      BY <1>2, <1>10, <3>1
    <3>3. l \in NewCalls(h, R)
      BY <3>1, <3>2 DEF NewCalls, f
    <3> QED BY <1>3, <1>10, <3>3
  <2>2. CASE l # h
    <3>1. Unfolded(l)
      BY <1>2, <1>3, <1>10, <2>1, <2>2 DEF DepthInv
    <3> QED BY <1>2, <1>4, <2>1, <3>1 DEF Unfolded
  <2>3. CASE l = h
    <3>1. entry \in R /\ nodes[h].op = "call"
      BY <1>1 DEF InlinedEdges, entry
    <3>2. nodes[h].target \in Indexes
      BY <1>2, <3>1 DEF GraphInv, CallNodes
    <3>3. ASSUME NEW j \in Indexes, Passes(nodes[h].target, j)
          PROVE  LabelFull(j, -1, f) \in DOMAIN nodes'
      <4>1. entry \in Before(j)
        BY <3>2, <3>3 DEF DepthInv, GetsThere, entry
      <4>2. ASSUME \A x \in R : ~ (x.from = j /\ x.to = -1) PROVE FALSE
        <5> DEFINE Y == DOMAIN nodes \ R
        <5>1. \A x \in DOMAIN nodes : x.from = j /\ x.to = -1 => x \in Y
          BY <4>2
        <5>2. ASSUME NEW e \in edges, LeadsOn(Y, e) PROVE e[1] \in Y
          <6>1. e[1] \in DOMAIN nodes /\ e[2] \in DOMAIN nodes /\ e = <<e[1], e[2]>>
            BY DEF GraphInv, GraphType
          <6>2. e[2] \notin R /\ e[2] # ExitLabel
            BY <5>2 DEF LeadsOn
          <6> QED BY <1>1, <6>1, <6>2, SMTT(60) DEF InlinedEdges
        <5>3. Y \in SUBSET (DOMAIN nodes) /\ entry \notin Y
          BY <3>1
        <5> HIDE DEF Y
        <5>4. Toward(j, Y)
          BY <5>1, <5>2 DEF Toward
        <5> QED BY <4>1, <5>3, <5>4 DEF Before
      <4>3. PICK x \in R : x.from = j /\ x.to = -1
        BY <4>2
      <4>4. Clone(x, f) = LabelFull(j, -1, f) /\ Clone(x, f) \in DOMAIN nodes'
        BY <1>2, <1>7, <4>3
      <4> QED BY <4>4
    <3> QED BY <1>2, <1>4, <2>3, <3>3 DEF Unfolded, f
  <2> QED BY <2>2, <2>3
<1>11. (\A l \in DOMAIN nodes : nodes[l].op = "call" /\ l \notin PendingSet => Unfolded(l))'
  BY <1>10
<1> QED BY <1>6, <1>9, <1>11 DEF DepthInv

\* Before the first call is inlined, the graph is the sequence.
LEMMA TopDepth == TopGraph => DepthInv
<1> SUFFICES ASSUME TopGraph PROVE DepthInv
  OBVIOUS
<1>1. InputOK /\ GraphInv /\ EndsLeast /\ DOMAIN nodes = TopLabels
  BY EndsIs DEF TopGraph
<1>2. ASSUME NEW k \in Indexes, ~ IsLast(k)
      PROVE  /\ Fallthrough(k).from \in Indexes /\ Fallthrough(k) # ExitLabel
             /\ Fallthrough(k) = NewLabel(Fallthrough(k).from)
  BY <1>1, <1>2, FallsTo
<1>3. ASSUME NEW k \in Returning PROVE NewLabel(k) \in Ends
  <2> DEFINE T == {i \in Indexes : NewLabel(i) \in Ends}
  <2>1. Backs(Ends)
    BY <1>1 DEF EndsLeast
  <2>2. ASSUME NEW i \in Indexes, Leading(T, i) PROVE i \in T
    <3>1. NewLabel(i) \in Ends
      BY <1>2, <2>1, <2>2, TopBacks DEF Leading
    <3> QED BY <3>1
  <2>3. T \in SUBSET Indexes
    OBVIOUS
  <2>4. k \in T
    <3> HIDE DEF T
    <3>1. KeptBut({}, T)
      BY <2>2 DEF KeptBut
    <3> QED BY <2>3, <3>1, LeastButIs DEF Returning
  <2> QED BY <2>4
<1>4. ASSUME NEW i \in Indexes, NEW j \in Indexes, Passes(i, j) PROVE NewLabel(i) \in Before(j)
  <2>1. ASSUME NEW S \in SUBSET (DOMAIN nodes), Toward(j, S), NewLabel(i) \notin S PROVE FALSE
    <3> DEFINE T == {k \in Indexes : NewLabel(k) \notin S}
    <3>1. \A e \in edges : /\ e[2] \in S /\ e[2] \notin {ExitLabel}
                           /\ nodes[e[1]].op = "call" => NewLabel(nodes[e[1]].target) \in Ends
                           => e[1] \in S
      BY <2>1 DEF Toward, LeadsOn
    <3>2. ASSUME NEW k \in T
          PROVE  /\ seq[k].op \in {"jump", "branch"} => seq[k].target \in T
                 /\ seq[k].op \notin {"exit", "jump", "call"} /\ ~ IsLast(k) => Fallthrough(k).from \in T
                 /\ seq[k].op = "call" /\ ~ IsLast(k) /\ seq[k].target \in Returning => Fallthrough(k).from \in T
      <4>1. k \in Indexes /\ NewLabel(k) \notin S
        OBVIOUS
      <4>2. /\ seq[k].op \in {"jump", "branch"} => NewLabel(seq[k].target) \notin S
            /\ seq[k].op \notin {"exit", "jump", "call"} => Fallthrough(k) \notin S \ {ExitLabel}
            /\ seq[k].op = "call" /\ NewLabel(seq[k].target) \in Ends => Fallthrough(k) \notin S \ {ExitLabel}
        BY <3>1, <4>1, EdgeBacks
      <4>3. seq[k].op \in {"jump", "branch"} => seq[k].target \in Indexes
        BY <4>1, TopNodes
      <4>4. seq[k].op \notin {"exit", "jump", "call"} /\ ~ IsLast(k) => Fallthrough(k).from \in T
        BY <1>2, <4>1, <4>2
      <4>5. seq[k].op = "call" /\ ~ IsLast(k) /\ seq[k].target \in Returning => Fallthrough(k).from \in T
        BY <1>2, <1>3, <4>1, <4>2
      <4> QED BY <4>2, <4>3, <4>4, <4>5
    <3>3. T \in SUBSET Indexes /\ i \in T
      BY <2>1
    <3>4. j \in T
      <4> HIDE DEF T
      <4>1. OnTheWay(T)
        BY <3>2 DEF OnTheWay
      <4> QED BY <1>4, <3>3, <4>1 DEF Passes
    <3>5. NewLabel(j) \in DOMAIN nodes /\ NewLabel(j).from = j /\ NewLabel(j).to = -1
      <4>1. NewLabel(j) \in DOMAIN nodes /\ j \in Int
        BY TopNodes
      <4> QED BY <4>1, LabelsApart
    <3>6. NewLabel(j) \in S
      BY <2>1, <3>5 DEF Toward
    <3> QED BY <3>4, <3>6
  <2>2. NewLabel(i) \in DOMAIN nodes
    BY TopNodes
  <2> QED BY <2>1, <2>2 DEF Before
<1>5. ASSUME NEW l \in DOMAIN nodes, l.to = -1, l.from \in Indexes
      PROVE  nodes[l].op = OpAt(l.from) /\ nodes[l].target = seq[l.from].target
  <2>1. l # EntryLabel /\ l # ExitLabel
    <3>1. \A i \in Indexes : i \in Nat
      BY <1>1 DEF InputOK
    <3> QED BY <1>5, <3>1, LabelsApart
  <2>2. \A i \in Branches : l # Taken(i) /\ l # NotTaken(i)
    <3>1. \A i \in Branches : i \in Indexes /\ Splits(i)
      BY DEF Branches
    <3> QED BY <1>5, <3>1, TopNodes, SMTT(60)
  <2>3. PICK i \in Indexes : l = NewLabel(i)
    BY <1>1, <2>1, <2>2 DEF TopLabels
  <2>4. l.from = i
    BY <1>1, <2>3, LabelsApart DEF InputOK
  <2>5. InstructionAt(i)
    BY <1>1 DEF GraphInv
  <2> QED BY <2>3, <2>4, <2>5 DEF InstructionAt
<1>6. ASSUME NEW l \in DOMAIN nodes, nodes[l].op = "call" PROVE l \in PendingSet
  <2>1. PICK i \in Indexes : l = NewLabel(i)
    BY <1>6 DEF TopGraph, OnlyInstructions
  <2>2. seq[i].op = "call"
    BY <1>6, <2>1, TopNodes
  <2> QED BY <2>1, <2>2 DEF TopGraph
<1> QED BY <1>4, <1>5, <1>6 DEF DepthInv, GetsThere, NamedRight

LEMMA TopDepthNext == (TopGraph => DepthInv)'
BY TopDepth, PTL

LEMMA ConnectDepth ==
    ASSUME InputOK, TargetsIn, Populated, ConnectEdges, pass' # "rejected"
    PROVE  DepthInv'
BY ConnectTop, TopDepthNext

\* DepthInv speaks of nothing but the stage.
LEMMA DepthSame ==
    ASSUME UNCHANGED StageVars, DepthInv
    PROVE  DepthInv'
<1>1. input' = input /\ nodes' = nodes /\ edges' = edges /\ pending' = pending
  BY DEF StageVars
<1>2. seq' = seq /\ Indexes' = Indexes /\ PendingSet' = PendingSet
  BY <1>1 DEF seq, Indexes, PendingSet
<1>3. \A i : OpAt(i)' = OpAt(i)
  BY <1>2 DEF OpAt
<1>4. \A i, j : Passes(i, j)' = Passes(i, j)
  BY <1>1, PassesSame, SMTT(60)
<1>5. Ends' = Ends
  <2>1. \A S, e : LeadsBack(S, e)' = LeadsBack(S, e)
    BY <1>1 DEF LeadsBack
  <2>2. \A S : Backs(S)' = Backs(S)
    BY <1>1, <2>1 DEF Backs
  <2> QED BY <1>1, <2>2 DEF Ends
<1>6. \A S, e : LeadsOn(S, e)' = LeadsOn(S, e)
  BY <1>1, <1>5 DEF LeadsOn
<1>7. \A j, S : Toward(j, S)' = Toward(j, S)
  BY <1>1, <1>6 DEF Toward
<1>8. \A j : Before(j)' = Before(j)
  BY <1>1, <1>7 DEF Before
<1>9. GetsThere'
  BY <1>2, <1>4, <1>8 DEF GetsThere, DepthInv
<1>10. NamedRight'
  BY <1>1, <1>2, <1>3 DEF NamedRight, DepthInv
<1>11. \A l : Unfolded(l)' = Unfolded(l)
  BY <1>1, <1>2, <1>4 DEF Unfolded
<1> QED BY <1>1, <1>2, <1>9, <1>10, <1>11 DEF DepthInv

(***************************************************************************)
(* The calls a run can have active: each is one its caller's callee can    *)
(* get to.  When no call is pending any more, the graph has them all.      *)
(***************************************************************************)
Calling(s) ==
    \A k \in 1 .. Len(s) : /\ seq[s[k]].op = "call"
                           /\ k > 1 => Passes(seq[s[k - 1]].target, s[k])

DepthOK == \A s \in Seq(Indexes) : Calling(s) => Len(s) + 1 <= input.max_call_stack_frames

LEMMA StackIs ==
    ASSUME InputOK, NEW s \in Seq(Indexes)
    PROVE  /\ s \in Seq(Int) /\ Len(s) \in Nat
           /\ \A k \in 1 .. Len(s) : s[k] \in Indexes /\ s[k] \in Int
<1> DEFINE d == Len(s)
<1>1. d \in Nat /\ s = [k \in 1 .. d |-> s[k]] /\ \A k \in 1 .. d : s[k] \in Indexes
  BY ElementOfSeq
<1>2. \A k \in 1 .. d : s[k] \in Int
  BY <1>1 DEF InputOK
<1> HIDE DEF d
<1>3. s \in [1 .. d -> Int]
  BY <1>1, <1>2, ZenonT(60)
<1> QED BY <1>1, <1>2, <1>3 DEF d

LEMMA StackUpTo ==
    ASSUME NEW s \in Seq(Int), NEW k \in 1 .. Len(s)
    PROVE  /\ SubSeq(s, 1, k - 1) \in Seq(Int) /\ Len(SubSeq(s, 1, k - 1)) = k - 1
           /\ Append(SubSeq(s, 1, k - 1), s[k]) = SubSeq(s, 1, k)
           /\ k = 1 => SubSeq(s, 1, k - 1) = <<>>
<1> DEFINE q == SubSeq(s, 1, k - 1)
           r == SubSeq(s, 1, k)
<1>1. Len(s) \in Nat /\ k \in Nat \ {0} /\ k <= Len(s) /\ s[k] \in Int
  OBVIOUS
<1>2. ASSUME NEW n \in Nat, n <= Len(s)
      PROVE  /\ SubSeq(s, 1, n) \in Seq(Int) /\ Len(SubSeq(s, 1, n)) = n
             /\ \A j \in 1 .. n : SubSeq(s, 1, n)[j] = s[j]
  BY <1>2, SMTT(60)
<1>3. q \in Seq(Int) /\ Len(q) = k - 1 /\ \A j \in 1 .. k - 1 : q[j] = s[j]
  <2>1. k - 1 \in Nat /\ k - 1 <= Len(s)
    BY <1>1
  <2> QED BY <1>2, <2>1, SMTT(60)
<1>4. r \in Seq(Int) /\ Len(r) = k /\ \A j \in 1 .. k : r[j] = s[j]
  BY <1>1, <1>2
<1> HIDE DEF q, r
<1>5. Append(q, s[k]) = r
  <2> DEFINE t == Append(q, s[k])
  <2>1. t \in Seq(Int) /\ Len(t) = k /\ t[k] = s[k] /\ \A j \in 1 .. k - 1 : t[j] = q[j]
    BY <1>1, <1>3, Appended, SMTT(60)
  <2> HIDE DEF t
  <2>2. \A j \in 1 .. k : j = k \/ j \in 1 .. k - 1
    BY <1>1
  <2>3. \A j \in 1 .. k : t[j] = r[j]
    BY <1>3, <1>4, <2>1, <2>2
  <2>4. t = r
    BY <1>1, <1>4, <2>1, <2>3, SeqEqual
  <2> QED BY <2>4 DEF t
<1>6. k = 1 => q = <<>>
  BY <1>3, EmptySeq
<1> QED BY <1>3, <1>5, <1>6 DEF q, r

LEMMA CallsFit ==
    ASSUME InputOK, input.max_call_stack_frames # 0, GraphInv, DepthInv, PendingSet = {}
    PROVE  DepthOK
<1> SUFFICES ASSUME NEW s \in Seq(Indexes), Calling(s)
             PROVE  Len(s) + 1 <= input.max_call_stack_frames
  BY DEF DepthOK
<1> DEFINE d == Len(s)
           label(k) == LabelFull(s[k], -1, SubSeq(s, 1, k - 1))
           T == {k \in Nat : k + 1 \in 1 .. d => label(k + 1) \in DOMAIN nodes}
<1>1. s \in Seq(Int) /\ d \in Nat /\ \A k \in 1 .. d : s[k] \in Indexes /\ s[k] \in Int
  BY StackIs
<1>2. ASSUME NEW k \in 1 .. d, label(k) \in DOMAIN nodes
      PROVE  /\ k + 1 <= input.max_call_stack_frames
             /\ k + 1 \in 1 .. d => label(k + 1) \in DOMAIN nodes
  <2>1. label(k).from = s[k] /\ label(k).to = -1 /\ label(k).prefix = SubSeq(s, 1, k - 1)
    BY DEF LabelFull
  <2>2. /\ s[k] \in Indexes /\ s[k] \in Int /\ k \in Int
        /\ Len(SubSeq(s, 1, k - 1)) = k - 1 /\ Append(SubSeq(s, 1, k - 1), s[k]) = SubSeq(s, 1, k)
    BY <1>1, StackUpTo
  <2>3. seq[s[k]].op = "call"
    BY DEF Calling
  <2>4. nodes[label(k)].op = "call" /\ nodes[label(k)].target = seq[s[k]].target
    <3> HIDE DEF label
    <3>1. nodes[label(k)].op = OpAt(s[k]) /\ nodes[label(k)].target = seq[s[k]].target
      BY <1>2, <2>1, <2>2, SMTT(60) DEF DepthInv, NamedRight
    <3> QED BY <2>3, <3>1 DEF OpAt
  <2>5. Unfolded(label(k)) /\ FrameOf(label(k)) = SubSeq(s, 1, k)
    <3>1. FrameOf(label(k)) = SubSeq(s, 1, k)
      BY <2>1, <2>2 DEF FrameOf
    <3> HIDE DEF label
    <3> QED BY <1>2, <2>4, <3>1 DEF DepthInv
  <2>6. k + 1 <= input.max_call_stack_frames
    <3>1. k - 1 + 2 <= input.max_call_stack_frames
      BY <2>1, <2>2, <2>5, SMTT(60) DEF Unfolded
    <3>2. k - 1 + 2 = k + 1
      BY <2>2
    <3> QED BY <3>1, <3>2
  <2>7. ASSUME k + 1 \in 1 .. d PROVE label(k + 1) \in DOMAIN nodes
    <3>1. k + 1 > 1 /\ (k + 1) - 1 = k
      BY <1>1, <2>2
    <3>2. Passes(seq[s[k]].target, s[k + 1])
      BY <2>7, <3>1, Zenon DEF Calling
    <3>3. s[k + 1] \in Indexes
      BY <1>1, <2>7
    <3>4. LabelFull(s[k + 1], -1, SubSeq(s, 1, k)) \in DOMAIN nodes
      <4> HIDE DEF label
      <4> QED BY <2>4, <2>5, <3>2, <3>3 DEF Unfolded
    <3> QED BY <3>1, <3>4
  <2> QED BY <2>6, <2>7
<1>3. 0 \in T
  <2> SUFFICES ASSUME 1 \in 1 .. d PROVE label(1) \in DOMAIN nodes
    OBVIOUS
  <2>1. label(1) = NewLabel(s[1])
    BY <1>1, StackUpTo DEF NewLabel
  <2>2. NewLabel(s[1]) \in DOMAIN nodes
    BY <1>1 DEF GraphInv, InstructionAt
  <2> QED BY <2>1, <2>2
<1> HIDE DEF label
<1>4. ASSUME NEW k \in T PROVE k + 1 \in T
  <2> SUFFICES ASSUME (k + 1) + 1 \in 1 .. d PROVE label((k + 1) + 1) \in DOMAIN nodes
    OBVIOUS
  <2>1. k + 1 \in 1 .. d
    BY <1>1
  <2> QED BY <1>2, <2>1
<1>5. T = Nat
  <2>1. T \in SUBSET Nat
    OBVIOUS
  <2> HIDE DEF T
  <2> QED BY <1>3, <1>4, <2>1, SetInduction, SMTT(60)
<1>6. CASE d = 0
  BY <1>6 DEF InputOK
<1>7. CASE d # 0
  <2>1. d - 1 \in T /\ d \in 1 .. d /\ (d - 1) + 1 = d
    <3> HIDE DEF T, d
    <3> QED BY <1>1, <1>5, <1>7, SMTT(60)
  <2>2. label(d) \in DOMAIN nodes
    BY <2>1
  <2> QED BY <1>2, <2>1, <2>2
<1> QED BY <1>6, <1>7

LEMMA CallingSame ==
    ASSUME UNCHANGED input
    PROVE  /\ \A s : Calling(s)' = Calling(s)
           /\ DepthOK' = DepthOK
<1>1. seq' = seq /\ Indexes' = Indexes /\ \A i, j : Passes(i, j)' = Passes(i, j)
  BY SequenceParts, PassesSame
<1>2. \A s : Calling(s)' = Calling(s)
  BY <1>1 DEF Calling
<1> QED BY <1>1, <1>2 DEF DepthOK

\* The passes behind inlining, when no call is pending any more.
AllInlined == {"ValidateTailCallDepth", "ComputeCallbackMetadata", "InsertTerminationCounters",
             "ExtractAssertions", "built"}

DepthsInv == (pass = "InlineLocalCalls" => DepthInv) /\ (pass \in AllInlined => DepthOK)

LEMMA DepthsInit == Init => DepthsInv
<1> SUFFICES ASSUME Init PROVE DepthsInv
  OBVIOUS
<1>1. pass = "ValidateInstructionSupport"
  BY DEF Init
<1> QED BY <1>1 DEF DepthsInv, AllInlined

LEMMA DepthsStep ==
    ASSUME StageInv, FlowInv, DepthsInv, [Next]_vars
    PROVE  DepthsInv'
<1>1. InputOK /\ input.max_call_stack_frames # 0
  BY DEF StageInv, InputOK
<1>2. ASSUME UNCHANGED vars \/ Start \/ Execute \/ Stopped PROVE DepthsInv'
  <2>1. UNCHANGED <<pass, input>> /\ UNCHANGED StageVars
    BY <1>2 DEF Start, Execute, Stopped, StageVars, vars
  <2>2. pass = "InlineLocalCalls" => DepthInv'
    BY <2>1, DepthSame DEF DepthsInv
  <2>3. DepthOK' = DepthOK
    BY <2>1, CallingSame
  <2> QED BY <2>1, <2>2, <2>3 DEF DepthsInv
<1>3. ASSUME ValidateInstructionSupport \/ ResolveKfuncCalls \/ LowerPseudoLoads
             \/ PopulateNodes \/ ValidateControlFlowTargets
      PROVE DepthsInv'
  <2>1. pass' \in Unpopulated \cup {"ValidateControlFlowTargets", "ConnectEdges", "rejected"}
    BY <1>3 DEF ValidateInstructionSupport, ResolveKfuncCalls, LowerPseudoLoads, PopulateNodes,
                ValidateControlFlowTargets, Rejected, Go, Unpopulated
  <2> QED BY <2>1 DEF DepthsInv, Unpopulated, AllInlined
<1>4. ASSUME ConnectEdges PROVE DepthsInv'
  <2>1. Populated /\ TargetsIn
    BY <1>4 DEF StageInv, ConnectEdges
  <2>2. pass' = "rejected" \/ (pass' = "InlineLocalCalls" /\ DepthInv')
    BY <1>1, <1>4, <2>1, ConnectDepth, ConnectEdgesIs, SMTT(60)
  <2> QED BY <2>2 DEF DepthsInv, AllInlined
<1>5. ASSUME AddCfgNodes PROVE DepthsInv'
  <2>1. GraphInv /\ PendingInv /\ DepthInv
    BY <1>5 DEF StageInv, FlowInv, InlineInv, DepthsInv, AddCfgNodes, Inlining
  <2>2. CASE pass' \in {"rejected", "panicked"}
    BY <2>2 DEF DepthsInv, AllInlined
  <2>3. CASE pass' \notin {"rejected", "panicked"}
    <3>1. PICK exit_to \in DOMAIN nodes, R \in SUBSET (DOMAIN nodes) : InlineStep(Head(pending), exit_to, R)
      BY <1>1, <1>5, <2>1, <2>3, AddCfgNodesIs
    <3>2. DepthInv' /\ pass' = "InlineLocalCalls"
      BY <1>1, <2>1, <3>1, InlineDepth DEF InlineStep
    <3> QED BY <3>2 DEF DepthsInv, AllInlined
  <2> QED BY <2>2, <2>3, SMTT(60)
<1>6. ASSUME InlineLocalCalls PROVE DepthsInv'
  <2>1. /\ UNCHANGED input /\ pending = <<>> /\ GraphInv /\ DepthInv /\ pass' = "ValidateTailCallDepth"
    BY <1>6 DEF InlineLocalCalls, Vetted, StageInv, DepthsInv, Go, Inlining
  <2>2. PendingSet = {}
    BY <2>1 DEF PendingSet
  <2>3. DepthOK'
    BY <1>1, <2>1, <2>2, CallsFit, CallingSame, SMTT(60)
  <2> QED BY <2>1, <2>3 DEF DepthsInv
<1>7. ASSUME \/ ValidateTailCallDepth \/ ComputeCallbackMetadata
             \/ InsertTerminationCounters \/ ExtractAssertions
      PROVE  DepthsInv'
  <2>1. pass \in AllInlined /\ UNCHANGED input /\ pass' # "InlineLocalCalls"
    BY <1>7 DEF ValidateTailCallDepth, ComputeCallbackMetadata, InsertTerminationCounters, ExtractAssertions,
                Vetted, Rejected, Go, AllInlined
  <2>2. DepthOK'
    BY <2>1, CallingSame DEF DepthsInv
  <2> QED BY <2>1, <2>2 DEF DepthsInv
<1> QED BY <1>2, <1>3, <1>4, <1>5, <1>6, <1>7, SMTT(60) DEF Next, Build

(***************************************************************************)
(* The calls the machine has active are such calls: it returns only from a *)
(* callee that leads to an exit, so it gets behind a call only where       *)
(* Passes says.                                                            *)
(***************************************************************************)
CallsMade(s, i) ==
    /\ s \in Seq(Indexes) /\ i \in Indexes /\ Calling(s)
    /\ s # <<>> => Passes(seq[s[Len(s)]].target, i)

MadeInv ==
    machine.mode = "running" =>
        machine = At(machine.stack, machine.pc) /\ CallsMade(machine.stack, machine.pc)

LEMMA CallsGoOn ==
    ASSUME InputOK, TargetsIn, NEW s, NEW i, CallsMade(s, i), NEW n \in Successors(At(s, i))
    PROVE  n = Ended \/ \E t, j : n = At(t, j) /\ CallsMade(t, j)
<1> DEFINE d == Len(s)
           main == s = <<>>
<1>1. /\ s \in Seq(Indexes) /\ i \in Indexes /\ Calling(s)
      /\ s # <<>> => Passes(seq[s[d]].target, i)
      /\ d \in Nat /\ s \in Seq(Int) /\ \A k \in 1 .. d : s[k] \in Indexes
  BY StackIs DEF CallsMade
<1>2. seq[i].op \in {"jump", "branch", "call"} => seq[i].target \in Indexes
  BY <1>1 DEF TargetsIn
<1>3. s = <<>> <=> d = 0
  BY <1>1, EmptySeq
\* It stays in the activation.
<1>4. ASSUME NEW j \in Indexes, n = At(s, j),
             \A k : Passes(k, i) => Passes(k, j)
      PROVE  \E t, x : n = At(t, x) /\ CallsMade(t, x)
  BY <1>1, <1>4 DEF CallsMade
<1>5. ASSUME n \in Resume(s, i), seq[i].op \notin {"exit", "jump", "call"}
      PROVE  \E t, x : n = At(t, x) /\ CallsMade(t, x)
  <2>1. ~ IsLast(i) /\ n = At(s, Fallthrough(i).from)
    BY <1>5 DEF Resume
  <2>2. Fallthrough(i).from \in Indexes
    BY <1>1, <2>1, FallsTo
  <2>3. \A k : Passes(k, i) => Passes(k, Fallthrough(i).from)
    BY <1>5, <2>1, PassesOn
  <2> QED BY <1>4, <2>1, <2>2, <2>3
<1>6. ASSUME n = At(s, seq[i].target), seq[i].op \in {"jump", "branch"}
      PROVE  \E t, x : n = At(t, x) /\ CallsMade(t, x)
  <2>1. \A k : Passes(k, i) => Passes(k, seq[i].target)
    BY <1>6, PassesOn
  <2> QED BY <1>2, <1>4, <1>6, <2>1
<1>7. CASE seq[i].op = "jump"
  <2>1. n = At(s, seq[i].target)
    BY <1>7, StepsFrom
  <2> QED BY <1>6, <1>7, <2>1
<1>8. CASE seq[i].op = "branch"
  <2>1. n = At(s, seq[i].target) \/ n \in Resume(s, i)
    BY <1>8, StepsFrom
  <2> QED BY <1>5, <1>6, <1>8, <2>1
<1>9. CASE seq[i].op = "call"
  <2> DEFINE t == Append(s, i)
             j == seq[i].target
  <2>1. n = At(t, j)
    BY <1>9, StepsFrom
  <2>2. t \in Seq(Indexes) /\ Len(t) = d + 1 /\ t[d + 1] = i /\ \A k \in 1 .. d : t[k] = s[k]
    BY <1>1, AppendProperties
  <2> HIDE DEF t, d
  <2>3. ASSUME NEW k \in 1 .. Len(t)
        PROVE  seq[t[k]].op = "call" /\ (k > 1 => Passes(seq[t[k - 1]].target, t[k]))
    <3>1. CASE k = d + 1
      <4>1. ASSUME k > 1 PROVE Passes(seq[t[k - 1]].target, t[k])
        <5>1. k - 1 = d /\ d \in 1 .. d /\ s # <<>>
          BY <1>1, <1>3, <3>1, <4>1
        <5> QED BY <1>1, <2>2, <3>1, <5>1
      <4> QED BY <1>9, <2>2, <3>1, <4>1
    <3>2. CASE k # d + 1
      <4>1. k \in 1 .. d /\ (k > 1 => k - 1 \in 1 .. d)
        BY <1>1, <2>2, <3>2
      <4>2. seq[s[k]].op = "call" /\ (k > 1 => Passes(seq[s[k - 1]].target, s[k]))
        BY <1>1, <4>1, Zenon DEF Calling, d
      <4> QED BY <2>2, <4>1, <4>2
    <3> QED BY <3>1, <3>2
  <2>4. Calling(t)
    BY <2>3 DEF Calling
  <2>5. Passes(seq[t[Len(t)]].target, j)
    BY <2>2, PassesOn
  <2>6. CallsMade(t, j)
    BY <1>2, <1>9, <2>2, <2>4, <2>5 DEF CallsMade
  <2> QED BY <2>1, <2>6
<1>10. CASE seq[i].op = "exit" /\ s = <<>>
  <2>1. n = Ended
    BY <1>3, <1>10, StepsFrom
  <2> QED BY <2>1
<1>11. CASE seq[i].op = "exit" /\ s # <<>>
  <2> DEFINE q == SubSeq(s, 1, d - 1)
             c == s[d]
             j == Fallthrough(c).from
  <2>1. n \in Resume(q, c)
    BY <1>1, <1>3, <1>11, StepsFrom
  <2>2. d \in Nat \ {0} /\ q \in Seq(Indexes) /\ Len(q) = d - 1 /\ \A k \in 1 .. d - 1 : q[k] = s[k]
    BY <1>1, <1>11, Popped
  <2>3. d \in 1 .. d /\ c \in Indexes
    BY <1>1, <2>2
  <2> HIDE DEF q, d, c
  <2>4. seq[c].op = "call" /\ (d > 1 => Passes(seq[s[d - 1]].target, c))
    BY <1>1, <2>3, Zenon DEF Calling, c, d
  <2>5. ~ IsLast(c) /\ n = At(q, j) /\ j \in Indexes
    <3>1. ~ IsLast(c) /\ n = At(q, j)
      BY <2>1 DEF Resume
    <3> QED BY <2>3, <3>1, FallsTo
  <2>6. seq[c].target \in Returning
    <3>1. seq[c].target \in Indexes
      BY <2>3, <2>4 DEF TargetsIn
    <3>2. Passes(seq[c].target, i)
      BY <1>1, <1>11 DEF c
    <3> QED BY <1>1, <1>11, <3>1, <3>2, PassesExit
  <2>7. \A k : Passes(k, c) => Passes(k, j)
    BY <2>4, <2>5, <2>6, PassesOn
  <2>8. Calling(q)
    <3>1. ASSUME NEW k \in 1 .. Len(q)
          PROVE  seq[q[k]].op = "call" /\ (k > 1 => Passes(seq[q[k - 1]].target, q[k]))
      <4>1. k \in 1 .. d /\ k \in 1 .. d - 1 /\ (k > 1 => k - 1 \in 1 .. d - 1)
        BY <2>2
      <4>2. seq[s[k]].op = "call" /\ (k > 1 => Passes(seq[s[k - 1]].target, s[k]))
        BY <1>1, <4>1, Zenon DEF Calling, d
      <4> QED BY <2>2, <4>1, <4>2
    <3> QED BY <3>1 DEF Calling
  <2>9. q # <<>> => Passes(seq[q[Len(q)]].target, j)
    <3> SUFFICES ASSUME q # <<>> PROVE Passes(seq[q[Len(q)]].target, j)
      OBVIOUS
    <3>1. Len(q) # 0
      BY <2>2, EmptySeq
    <3>2. d > 1 /\ d - 1 \in 1 .. d - 1
      BY <2>2, <3>1
    <3>3. q[Len(q)] = s[d - 1]
      BY <2>2, <3>2
    <3> QED BY <2>4, <2>7, <3>2, <3>3, SMTT(60)
  <2>10. CallsMade(q, j)
    BY <2>2, <2>5, <2>8, <2>9 DEF CallsMade
  <2> QED BY <2>5, <2>10
<1>12. CASE seq[i].op \notin {"jump", "branch", "call", "exit"}
  <2>1. n \in Resume(s, i)
    BY <1>12, StepsFrom
  <2> QED BY <1>5, <1>12, <2>1
<1> QED BY <1>7, <1>8, <1>9, <1>10, <1>11, <1>12, SMTT(60)

LEMMA MadeInit == Init => MadeInv
<1> SUFFICES ASSUME Init PROVE MadeInv
  OBVIOUS
<1>1. machine.mode = "not started"
  BY DEF Init, NotStarted
<1> QED BY <1>1 DEF MadeInv

LEMMA MadeSame ==
    ASSUME UNCHANGED input
    PROVE  \A s, i : CallsMade(s, i)' = CallsMade(s, i)
BY CallingSame, PassesSame, SequenceParts DEF CallsMade

LEMMA MadeStep ==
    ASSUME StageInv, FlowInv, MachineInv, MadeInv, [Next]_vars
    PROVE  MadeInv'
<1>1. InputOK
  BY DEF StageInv
<1>2. ASSUME UNCHANGED vars \/ Stopped \/ Build PROVE MadeInv'
  <2>1. UNCHANGED <<machine, input>>
    BY <1>2 DEF Stopped, vars, Build, ValidateInstructionSupport, ResolveKfuncCalls, LowerPseudoLoads,
                PopulateNodes, ValidateControlFlowTargets, ConnectEdges, AddCfgNodes, InlineLocalCalls,
                ValidateTailCallDepth, ComputeCallbackMetadata, InsertTerminationCounters,
                ExtractAssertions, Vetted
  <2> QED BY <2>1, MadeSame, SMTT(60) DEF MadeInv
<1>3. ASSUME NEW t, NEW j, machine' = At(t, j), CallsMade(t, j), UNCHANGED input PROVE MadeInv'
  <2>1. machine'.stack = t /\ machine'.pc = j
    BY <1>3 DEF At
  <2>2. CallsMade(machine.stack, machine.pc)'
    BY <1>3, <2>1, MadeSame
  <2> QED BY <1>3, <2>1, <2>2 DEF MadeInv
<1>4. ASSUME Start PROVE MadeInv'
  <2>1. pass = "built" /\ UNCHANGED input /\ machine' = At(<<>>, FirstIndex)
    BY <1>4 DEF Start, FirstIndex
  <2>2. FirstIndex \in Indexes
    BY <1>1, <2>1, FirstIndexIs DEF FlowInv, FollowInv
  <2>3. CallsMade(<<>>, FirstIndex)
    BY <2>2 DEF CallsMade, Calling
  <2> QED BY <1>3, <2>1, <2>3
<1>5. ASSUME Execute PROVE MadeInv'
  <2>1. machine.mode = "running" /\ machine' \in Successors(machine) /\ UNCHANGED input
    BY <1>5 DEF Execute
  <2>2. TargetsIn
    BY <2>1 DEF MachineInv, FlowInv, FollowInv
  <2> DEFINE s == machine.stack
             i == machine.pc
             n == machine'
  <2>3. machine = At(s, i) /\ CallsMade(s, i) /\ n \in Successors(At(s, i))
    BY <2>1 DEF MadeInv
  <2> HIDE DEF s, i, n
  <2>4. n = Ended \/ \E t, j : n = At(t, j) /\ CallsMade(t, j)
    BY <1>1, <2>2, <2>3, CallsGoOn
  <2>5. CASE n = Ended
    <3>1. machine'.mode # "running"
      BY <2>5 DEF Ended, n
    <3> QED BY <3>1 DEF MadeInv
  <2>6. CASE \E t, j : n = At(t, j) /\ CallsMade(t, j)
    <3>1. PICK t, j : machine' = At(t, j) /\ CallsMade(t, j)
      BY <2>6 DEF n
    <3> QED BY <1>3, <2>1, <3>1
  <2> QED BY <2>4, <2>5, <2>6
<1> QED BY <1>2, <1>4, <1>5 DEF Next

(***************************************************************************)
(* The frames in the graph are those of the machine: a call and the exit   *)
(* that returns from it name the same activation, and no accepted sequence *)
(* ever has more activations than stack frames, wherever its subprograms   *)
(* are: a recursive one is never accepted.                                 *)
(***************************************************************************)
THEOREM FramesMatchMachineAlways == Spec => []FramesMatchMachine
<1> DEFINE Inv == StageInv /\ FlowInv /\ MachineInv /\ DepthsInv /\ MadeInv
<1>1. Init => Inv
  BY StageInit, FlowInit, DepthsInit, MadeInit
<1>2. Inv /\ [Next]_vars => Inv'
  BY StageStep, FlowStep, MachineStep, DepthsStep, MadeStep
<1>3. Inv => FramesBounded
  <2>1. SUFFICES ASSUME Inv, machine.mode = "running"
                 PROVE  Len(machine.stack) + 1 <= input.max_call_stack_frames
    BY DEF FramesBounded
  <2>2. pass = "built"
    BY <2>1 DEF MachineInv
  <2>3. DepthOK
    BY <2>1, <2>2 DEF DepthsInv, AllInlined
  <2>4. machine.stack \in Seq(Indexes) /\ Calling(machine.stack)
    BY <2>1 DEF MadeInv, CallsMade
  <2> QED BY <2>3, <2>4 DEF DepthOK
<1>4. (MainFirst => FramesMatchMachine) /\ FramesBounded => FramesMatchMachine
  BY DEF FramesMatchMachine, ExitMatchesCall
<1> HIDE DEF Inv
<1> QED BY <1>1, <1>2, <1>3, <1>4, FramesMatchMainFirst, PTL DEF Spec

-----------------------------------------------------------------------------
(***************************************************************************)
(* When inlining cannot panic.  If every call is in front of all calls     *)
(* that are made under its callee, a call is inlined before them, its      *)
(* callee is cloned as it is in the sequence, and the clones' labels are   *)
(* new.                                                                    *)
(***************************************************************************)
CallsForward ==
    \A c \in Indexes : seq[c].op = "call" => \A d \in Leads(seq[c].target, TRUE) : d > c

\* A clone is there because of a call that was inlined.
CallersIn ==
    \A l \in DOMAIN nodes : l.prefix # <<>> =>
        \E h \in DOMAIN nodes : h \notin PendingSet /\ nodes[h].op = "call" /\ l.prefix = FrameOf(h)

\* Everything under a call is in its span.
SpansIn ==
    \A l \in DOMAIN nodes : l.prefix # <<>> =>
        LET c == l.prefix[1]
        IN  /\ c \in Indexes /\ seq[c].op = "call"
            /\ \E i \in Span(c) : \E m \in TopAt(i) : l = Clone(m, l.prefix)

ForwardInv == CallersIn /\ (CallsForward => SpansIn)

LEMMA ForwardSpan ==
    ASSUME InputOK, TargetsIn, CallsForward, NEW c \in Indexes, seq[c].op = "call",
           NEW d \in Span(c), seq[d].op = "call"
    PROVE  d > c
<1>1. seq[c].target \in Indexes
  BY DEF TargetsIn
<1>2. IsZone(seq[c].target, TRUE, Span(c))
  BY <1>1, ZoneExists DEF Span, Zone
<1>3. d \in Leads(seq[c].target, TRUE)
  BY <1>2 DEF IsZone, LocalCallsIn
<1> QED BY <1>3 DEF CallsForward

\* The call that is inlined next, wherever it is.
LEMMA NextCallIs ==
    ASSUME InputOK, GraphInv, PendingInv, NamedRight, SpansIn, pending # <<>>
    PROVE  LET h == Head(pending)
           IN  /\ h \in DOMAIN nodes /\ Root(h) \in Indexes /\ seq[Root(h)].op = "call"
               /\ nodes[h].target \in Span(Root(h))
               /\ h.prefix = <<>> => h.from = Root(h)
<1> DEFINE h == Head(pending)
           q == h.prefix
           r == Root(h)
<1>1. 1 \in DOMAIN pending /\ h = pending[1] /\ h \in DOMAIN nodes /\ nodes[h].op = "call"
  <2>1. pending \in Seq({l \in DOMAIN nodes : nodes[l].op = "call"})
    BY DEF GraphInv, PendingCalls
  <2> QED BY <2>1
<1> HIDE DEF h
<1>2. h \in PlainLabels /\ q \in Seq(Int) /\ h.to = -1 /\ TargetsIn /\ Indexes # {}
  BY <1>1 DEF GraphInv, GraphType, PlainLabels, CallNodes
<1>3. \A i \in Indexes : i \in Int
  BY DEF InputOK
<1>4. ASSUME h.from \in Indexes
      PROVE  seq[h.from].op = "call" /\ nodes[h].target = seq[h.from].target
  <2>1. nodes[h].op = OpAt(h.from) /\ nodes[h].target = seq[h.from].target
    BY <1>1, <1>2, <1>4 DEF NamedRight
  <2> QED BY <1>1, <2>1 DEF OpAt
<1>5. CASE q = <<>>
  <2>1. PICK i \in Indexes : h = NewLabel(i) /\ seq[i].op = "call"
    BY <1>1, <1>5 DEF PendingInv, LocalCalls
  <2>2. h.from = i /\ r = i
    BY <1>3, <1>5, <2>1, LabelsApart DEF Root
  <2>3. seq[i].target \in Span(i)
    BY <1>2, <2>1, SpanIs
  <2> QED BY <1>1, <1>4, <2>1, <2>2, <2>3 DEF h
<1>6. CASE q # <<>>
  <2>1. r = q[1]
    BY <1>6 DEF Root
  <2>2. /\ r \in Indexes /\ seq[r].op = "call"
        /\ \E i \in Span(r) : \E m \in TopAt(i) : h = Clone(m, q)
    BY <1>1, <1>6, <2>1 DEF SpansIn
  <2>3. PICK i \in Span(r) : \E m \in TopAt(i) : h = Clone(m, q)
    BY <2>2
  <2>4. i \in Indexes /\ Flow(i, TRUE) \subseteq Span(r)
    BY <1>2, <2>2, <2>3, SpanIs
  <2>5. h.from = i
    BY <1>2, <2>3, <2>4, TopAtIs, CloneIs
  <2>6. seq[i].target \in Flow(i, TRUE)
    BY <1>2, <1>4, <2>4, <2>5, FlowIs
  <2> QED BY <1>1, <1>4, <1>6, <2>2, <2>4, <2>5, <2>6 DEF h
<1> QED BY <1>5, <1>6

LEMMA SpanKeepsWalk ==
    ASSUME InputOK, GraphInv, PendingInv, PristineInv, NamedRight, CallsForward, SpansIn, pending # <<>>
    PROVE  LET h == Head(pending)
               T == UNION {TopAt(i) : i \in Span(Root(h))}
           IN  /\ T \in SUBSET (DOMAIN nodes)
               /\ \A m \in T : m \in PlainLabels /\ m.prefix = <<>>
               /\ KeepsWalk(h, NewLabel(nodes[h].target), T)
<1> DEFINE h == Head(pending)
           r == Root(h)
           Z == Span(r)
           T == UNION {TopAt(i) : i \in Z}
           entry == NewLabel(nodes[h].target)
<1>1. /\ h \in DOMAIN nodes /\ r \in Indexes /\ seq[r].op = "call"
      /\ nodes[h].target \in Z /\ (h.prefix = <<>> => h.from = r)
  BY NextCallIs
<1>2. 1 \in DOMAIN pending /\ h = pending[1]
  BY DEF GraphInv, PendingCalls
<1> HIDE DEF h
<1>3. TargetsIn
  BY DEF GraphInv
<1>4. Z \in SUBSET Indexes /\ \A k \in Z : Flow(k, TRUE) \subseteq Z
  BY <1>1, <1>3, SpanIs
<1>5. \A i \in Z : i \in Int /\ r \in Int /\ (seq[i].op = "call" => i > r)
  <2>1. \A i \in Indexes : i \in Int
    BY DEF InputOK
  <2>2. ASSUME NEW i \in Z, seq[i].op = "call" PROVE i > r
    BY <1>1, <1>3, <2>2, ForwardSpan
  <2> QED BY <1>1, <1>4, <2>1, <2>2
<1>6. ASSUME NEW i \in Z PROVE Pristine(i)
  <2>1. ASSUME seq[i].op = "call" PROVE NewLabel(i) \in PendingSet
    <3>1. ~ (i <= Root(pending[1]))
      BY <1>2, <1>5, <2>1
    <3> QED BY <1>2, <1>4, <2>1, <3>1 DEF PendingInv
  <2> QED BY <1>4, <2>1 DEF PristineInv
<1>7. entry \in T
  BY <1>1, <1>3, <1>4, TopAtIs
<1>8. h \notin T
  <2>1. ASSUME NEW i \in Z, h \in TopAt(i) PROVE FALSE
    <3>1. h.prefix = <<>> /\ h.from = i
      BY <1>3, <1>4, <2>1, TopAtIs
    <3> QED BY <1>1, <1>5, <3>1
  <2> QED BY <2>1
<1>9. T \in SUBSET (DOMAIN nodes)
  <2>1. \A i \in Z : TopAt(i) \in SUBSET (DOMAIN nodes)
    BY <1>4 DEF GraphInv, InstructionAt, BranchAt, TopAt
  <2> QED BY <2>1
<1>10. \A m \in T : m \in PlainLabels /\ m.prefix = <<>>
  BY <1>3, <1>4, TopAtIs
<1>11. ASSUME NEW m \in T, NEW x \in DOMAIN nodes \ {ExitLabel}, <<m, x>> \in edges
       PROVE  x \in T
  <2>1. PICK i \in Z : m \in TopAt(i)
    OBVIOUS
  <2>2. <<m, x>> \in EdgesFrom(i)
    <3>1. \A e \in edges : e[1] \in TopAt(i) => e \in EdgesFrom(i)
      BY <1>6 DEF Pristine
    <3> QED BY <1>11, <2>1, <3>1
  <2>3. x = ExitLabel \/ \E j \in Z : x \in TopAt(j)
    BY <1>3, <1>4, <2>2, EdgesStay, ZenonT(60)
  <2> QED BY <2>3
<1>12. KeepsWalk(h, entry, T)
  <2> HIDE DEF T, entry
  <2> QED BY <1>7, <1>8, <1>11 DEF KeepsWalk
<1> QED BY <1>9, <1>10, <1>12 DEF h

LEMMA ForwardGoesOn ==
    ASSUME InputOK, GraphInv, PendingInv, PristineInv, NamedRight, CallersIn, CallsForward, SpansIn,
           AddCfgNodes
    PROVE  pass' # "panicked"
<1> DEFINE h == Head(pending)
           f == FrameOf(h)
           T == UNION {TopAt(i) : i \in Span(Root(h))}
           entry == NewLabel(nodes[h].target)
<1>1. pass = "InlineLocalCalls" /\ pending # <<>>
  BY DEF AddCfgNodes
<1>2. /\ T \in SUBSET (DOMAIN nodes)
      /\ \A m \in T : m \in PlainLabels /\ m.prefix = <<>>
      /\ KeepsWalk(h, entry, T)
  BY <1>1, SpanKeepsWalk
<1>3. 1 \in DOMAIN pending /\ h = pending[1] /\ h \in DOMAIN nodes /\ nodes[h].op = "call" /\ h \in PendingSet
  <2>1. pending \in Seq({l \in DOMAIN nodes : nodes[l].op = "call"})
    BY DEF GraphInv, PendingCalls
  <2> QED BY <1>1, <2>1 DEF PendingSet
<1> HIDE DEF h
<1>4. h \in PlainLabels /\ f \in Seq(Int) /\ f # <<>>
  BY <1>3, FrameIs DEF GraphInv, GraphType
<1>5. ASSUME NEW l \in DOMAIN nodes, l.prefix = f PROVE FALSE
  <2>1. PICK g \in DOMAIN nodes : g \notin PendingSet /\ nodes[g].op = "call" /\ f = FrameOf(g)
    BY <1>4, <1>5 DEF CallersIn
  <2>2. g \in PlainLabels /\ g.to = -1 /\ h.to = -1
    BY <1>3, <2>1 DEF GraphInv, GraphType, CallNodes
  <2>3. g.prefix = h.prefix /\ g.from = h.from
    BY <1>4, <2>1, <2>2, FirstOfFrame DEF f
  <2>4. g = h
    BY <1>4, <2>2, <2>3, LabelIs
  <2> QED BY <1>3, <2>1, <2>4
<1>6. Clonable(f, T)
  <2>1. ASSUME NEW m \in T
        PROVE  /\ Clone(m, f) \notin DOMAIN nodes
               /\ \A n \in T : Clone(m, f) = Clone(n, f) => m = n
    <3>1. Clone(m, f).prefix = f
      BY <1>2, <1>4, CloneIs
    <3>2. ASSUME NEW n \in T, Clone(m, f) = Clone(n, f) PROVE m = n
      <4>1. m.from = n.from /\ m.to = n.to /\ m.prefix = n.prefix /\ m \in PlainLabels /\ n \in PlainLabels
        BY <1>2, <1>4, <3>2, CloneIs, SMTT(60)
      <4> QED BY <4>1, LabelIs
    <3> QED BY <1>5, <3>1, <3>2
  <2> HIDE DEF T
  <2> QED BY <2>1 DEF Clonable
<1>7. entry \in DOMAIN nodes
  BY <1>2 DEF KeepsWalk
<1>8. CloneWalk(h, entry).status # "panicked"
  <2>1. GraphType
    BY DEF GraphInv
  <2> HIDE DEF T, entry
  <2> QED BY <1>2, <1>3, <1>4, <1>6, <1>7, <2>1, WalkResult DEF f
<1>9. ASSUME pass' = "panicked" PROVE FALSE
  <2> HIDE DEF entry, T
  <2>1. ~ (TooManyFrames(h) \/ Cardinality(Children(h)) # 1)
    BY <1>9, SMTT(60) DEF AddCfgNodes, Rejected, h
  <2>2. PICK exit_to \in Children(h), walk \in {CloneWalk(h, entry)} :
              \/ walk.status = "ok" /\ Inlined(h, f, exit_to, walk.seen)
              \/ walk.status # "ok" /\ pass' = walk.status
    BY <2>1 DEF AddCfgNodes, h, entry
  <2>3. walk = CloneWalk(h, entry)
    BY <2>2
  <2>4. pass' = walk.status
    BY <1>1, <1>9, <2>2 DEF Inlined
  <2> QED BY <1>8, <1>9, <2>3, <2>4
<1> QED BY <1>9

LEMMA CallersKept ==
    ASSUME InputOK, GraphInv, PendingInv, CallersIn, NEW exit_to \in DOMAIN nodes,
           NEW R \in SUBSET (DOMAIN nodes), InlineStep(Head(pending), exit_to, R)
    PROVE  CallersIn'
<1> DEFINE h == Head(pending)
           f == FrameOf(h)
<1>1. GraphStep(h, exit_to, R) /\ h \in DOMAIN nodes /\ nodes[h].op = "call"
  BY StepIs DEF InlineStep
<1>2. PendingSet' = (PendingSet \ {h}) \cup NewCalls(h, R)
  BY PendingKept
<1> HIDE DEF h
<1>3. h \in PlainLabels /\ R \subseteq PlainLabels /\ f \in Seq(Int)
  BY <1>1, FrameIs DEF GraphInv, GraphType
<1>4. /\ DOMAIN nodes' = DOMAIN nodes \cup {Clone(m, f) : m \in R}
      /\ \A g \in DOMAIN nodes : nodes'[g].op = nodes[g].op
      /\ \A x \in NewCalls(h, R) : x \notin DOMAIN nodes
  BY <1>1 DEF GraphStep, NewCalls
<1>5. ASSUME NEW g \in DOMAIN nodes, g \notin PendingSet \/ g = h, nodes[g].op = "call"
      PROVE  g \in DOMAIN nodes' /\ g \notin PendingSet' /\ nodes'[g].op = "call"
  BY <1>2, <1>4, <1>5
<1> HIDE DEF f
<1>6. ASSUME NEW l \in DOMAIN nodes', l.prefix # <<>>
      PROVE  \E g \in DOMAIN nodes' : g \notin PendingSet' /\ nodes'[g].op = "call" /\ l.prefix = FrameOf(g)
  <2>1. CASE l \in DOMAIN nodes
    <3>1. PICK g \in DOMAIN nodes : g \notin PendingSet /\ nodes[g].op = "call" /\ l.prefix = FrameOf(g)
      BY <1>6, <2>1 DEF CallersIn
    <3> QED BY <1>5, <3>1
  <2>2. ASSUME NEW m \in R, l = Clone(m, f)
        PROVE \E g \in DOMAIN nodes' : g \notin PendingSet' /\ nodes'[g].op = "call" /\ l.prefix = FrameOf(g)
    <3>1. l.prefix = f
      BY <1>3, <2>2, CloneIs
    <3>2. h \in DOMAIN nodes' /\ h \notin PendingSet' /\ nodes'[h].op = "call"
      BY <1>1, <1>5
    <3> QED BY <3>1, <3>2 DEF f
  <2> QED BY <1>4, <2>1, <2>2
<1> QED BY <1>6 DEF CallersIn

LEMMA SpansKept ==
    ASSUME InputOK, GraphInv, PendingInv, PristineInv, NamedRight, CallsForward, SpansIn,
           NEW exit_to \in DOMAIN nodes, NEW R \in SUBSET (DOMAIN nodes),
           InlineStep(Head(pending), exit_to, R)
    PROVE  SpansIn'
<1> DEFINE h == Head(pending)
           f == FrameOf(h)
           r == Root(h)
           T == UNION {TopAt(i) : i \in Span(r)}
           entry == NewLabel(nodes[h].target)
<1>1. GraphStep(h, exit_to, R) /\ pending # <<>> /\ Walked(h, entry, f, R)
  BY StepIs DEF InlineStep
<1>2. T \in SUBSET (DOMAIN nodes) /\ KeepsWalk(h, entry, T)
  BY <1>1, SpanKeepsWalk
<1>3. r \in Indexes /\ seq[r].op = "call"
  BY <1>1, NextCallIs
<1> HIDE DEF h, f, entry
<1>4. h \in PlainLabels /\ R \subseteq PlainLabels
  BY <1>1 DEF GraphStep, GraphInv, GraphType
<1>5. f \in Seq(Int) /\ f[1] = r
  BY <1>4, FrameIs, FirstOfFrame DEF f
<1>6. R \subseteq T
  <2> HIDE DEF T
  <2> QED BY <1>1, <1>2 DEF Walked, KeepsWalk
<1>7. UNCHANGED input /\ seq' = seq /\ Indexes' = Indexes
      /\ DOMAIN nodes' = DOMAIN nodes \cup {Clone(m, f) : m \in R}
  BY <1>1 DEF GraphStep, f
<1>8. ASSUME NEW l \in DOMAIN nodes', l.prefix # <<>>
      PROVE  LET c == l.prefix[1]
             IN  /\ c \in Indexes /\ seq[c].op = "call"
                 /\ \E i \in Span(c) : \E m \in TopAt(i) : l = Clone(m, l.prefix)
  <2>1. CASE l \in DOMAIN nodes
    BY <1>8, <2>1 DEF SpansIn
  <2>2. ASSUME NEW m \in R, l = Clone(m, f)
        PROVE LET c == l.prefix[1]
              IN  /\ c \in Indexes /\ seq[c].op = "call"
                  /\ \E i \in Span(c) : \E x \in TopAt(i) : l = Clone(x, l.prefix)
    <3>1. l.prefix = f
      BY <1>4, <1>5, <2>2, CloneIs
    <3>2. PICK i \in Span(r) : m \in TopAt(i)
      BY <1>6
    <3> HIDE DEF r, T
    <3> QED BY <1>3, <1>5, <2>2, <3>1, <3>2
  <2> QED BY <1>7, <2>1, <2>2
<1> QED BY <1>7, <1>8, SequenceParts, ZoneParts DEF SpansIn

\* The order of the calls depends on the sequence only.
LEMMA ForwardSame == ASSUME UNCHANGED input PROVE CallsForward' = CallsForward
<1>1. seq' = seq /\ Indexes' = Indexes
  BY DEF seq, Indexes
<1>2. \A i, across : Leads(i, across)' = Leads(i, across)
  BY <1>1 DEF Leads, Fallthrough, IsLast
<1> QED BY <1>1, <1>2 DEF CallsForward

LEMMA ForwardKept ==
    ASSUME InputOK, GraphInv, PendingInv, PristineInv, NamedRight, ForwardInv,
           NEW exit_to \in DOMAIN nodes, NEW R \in SUBSET (DOMAIN nodes),
           InlineStep(Head(pending), exit_to, R)
    PROVE  ForwardInv'
<1>1. UNCHANGED input
  BY DEF InlineStep
<1> QED BY <1>1, CallersKept, SpansKept, ForwardSame DEF ForwardInv

LEMMA ConnectForward ==
    ASSUME InputOK, TargetsIn, Populated, ConnectEdges, pass' # "rejected"
    PROVE  ForwardInv'
<1>1. DOMAIN nodes' = TopLabels
  BY ConnectEdgesIs
<1>2. \A l \in DOMAIN nodes' : l.prefix = <<>>
  BY <1>1, TopLabelsType
<1> QED BY <1>2 DEF ForwardInv, CallersIn, SpansIn

LEMMA ForwardStays ==
    ASSUME UNCHANGED StageVars, ForwardInv
    PROVE  ForwardInv'
<1>1. UNCHANGED input /\ nodes' = nodes /\ pending' = pending
  BY DEF StageVars
<1>2. PendingSet' = PendingSet /\ seq' = seq /\ Indexes' = Indexes
  BY <1>1 DEF PendingSet, seq, Indexes
<1>3. CallersIn' = CallersIn
  BY <1>1, <1>2 DEF CallersIn
<1>4. SpansIn' = SpansIn
  BY <1>1, <1>2, SequenceParts, ZoneParts DEF SpansIn
<1> QED BY <1>1, <1>3, <1>4, ForwardSame DEF ForwardInv

NoPanicInv ==
    /\ pass = "InlineLocalCalls" => ForwardInv
    /\ CallsForward => pass # "panicked"

LEMMA NoPanicInit == Init => NoPanicInv
<1> SUFFICES ASSUME Init PROVE NoPanicInv
  OBVIOUS
<1>1. pass = "ValidateInstructionSupport"
  BY DEF Init
<1> QED BY <1>1 DEF NoPanicInv

LEMMA NoPanicStep ==
    ASSUME StageInv, FlowInv, DepthsInv, NoPanicInv, [Next]_vars
    PROVE  NoPanicInv'
<1>1. InputOK /\ UNCHANGED input /\ CallsForward' = CallsForward
  BY InputFixed, ForwardSame DEF StageInv
<1>2. ASSUME UNCHANGED vars \/ Start \/ Execute \/ Stopped PROVE NoPanicInv'
  <2>1. UNCHANGED pass /\ UNCHANGED StageVars
    BY <1>2 DEF Start, Execute, Stopped, StageVars, vars
  <2> QED BY <1>1, <2>1, ForwardStays DEF NoPanicInv
<1>3. ASSUME \/ ValidateInstructionSupport \/ ResolveKfuncCalls \/ LowerPseudoLoads
             \/ PopulateNodes \/ ValidateControlFlowTargets \/ InlineLocalCalls
             \/ ValidateTailCallDepth \/ ComputeCallbackMetadata
             \/ InsertTerminationCounters \/ ExtractAssertions
      PROVE  NoPanicInv'
  <2>1. pass' # "InlineLocalCalls" /\ pass' # "panicked"
    BY <1>3 DEF ValidateInstructionSupport, ResolveKfuncCalls, LowerPseudoLoads, PopulateNodes,
                ValidateControlFlowTargets, InlineLocalCalls, ValidateTailCallDepth,
                ComputeCallbackMetadata, InsertTerminationCounters, ExtractAssertions, Rejected, Go
  <2> QED BY <2>1 DEF NoPanicInv
<1>4. ASSUME ConnectEdges PROVE NoPanicInv'
  <2>1. Populated /\ TargetsIn
    BY <1>4 DEF StageInv, ConnectEdges
  <2>2. pass' \in {"rejected", "InlineLocalCalls"}
    BY <1>1, <1>4, <2>1, ConnectEdgesIs
  <2>3. pass' # "rejected" => ForwardInv'
    BY <1>1, <1>4, <2>1, ConnectForward
  <2> QED BY <2>2, <2>3 DEF NoPanicInv
<1>5. ASSUME AddCfgNodes PROVE NoPanicInv'
  <2>1. GraphInv /\ PendingInv /\ PristineInv /\ NamedRight /\ ForwardInv
    BY <1>5 DEF StageInv, FlowInv, InlineInv, DepthsInv, DepthInv, NoPanicInv, AddCfgNodes, Inlining
  <2>2. CASE pass' \in {"rejected", "panicked"}
    <3>1. CallsForward => pass' # "panicked"
      BY <1>1, <1>5, <2>1, ForwardGoesOn DEF ForwardInv
    <3> QED BY <1>1, <2>2, <3>1 DEF NoPanicInv
  <2>3. CASE pass' \notin {"rejected", "panicked"}
    <3>1. PICK exit_to \in DOMAIN nodes, R \in SUBSET (DOMAIN nodes) : InlineStep(Head(pending), exit_to, R)
      BY <1>1, <1>5, <2>1, <2>3, AddCfgNodesIs
    <3>2. ForwardInv'
      BY <1>1, <2>1, <3>1, ForwardKept
    <3> QED BY <2>3, <3>2 DEF NoPanicInv
  <2> QED BY <2>2, <2>3, SMTT(60)
<1> QED BY <1>2, <1>3, <1>4, <1>5 DEF Next, Build

(***************************************************************************)
(* No sequence whose calls all go forward makes CfgBuilder::insert panic,  *)
(* however its subprograms are nested and whatever loops they have:        *)
(* recursive calls, and too many nested ones, end in an error.             *)
(***************************************************************************)
THEOREM ForwardCallsNeverPanic == Spec => [](CallsForward => pass # "panicked")
<1> DEFINE Inv == StageInv /\ FlowInv /\ DepthsInv /\ NoPanicInv
<1>1. Init => Inv
  BY StageInit, FlowInit, DepthsInit, NoPanicInit
<1>2. Inv /\ [Next]_vars => Inv'
  BY StageStep, FlowStep, DepthsStep, NoPanicStep
<1>3. Inv => (CallsForward => pass # "panicked")
  BY DEF NoPanicInv
<1> HIDE DEF Inv
<1> QED BY <1>1, <1>2, <1>3, PTL DEF Spec

\* And the main program of such a sequence is in front of its subprograms.
LEMMA ForwardIsMainFirst ==
    ASSUME InputOK, TargetsIn, Indexes # {}, CallsForward
    PROVE  MainFirst
<1>1. IsZone(FirstIndex, FALSE, Main) /\ FirstIndex \in Indexes
  <2>1. FirstIndex \in Indexes
    BY FirstIndexIs
  <2> QED BY <2>1, ZoneExists DEF Main, Zone
<1>2. ASSUME NEW main \in Indexes, \A j \in Indexes : main <= j PROVE main = FirstIndex
  <2>1. \A i \in Indexes : i \in Int
    BY DEF InputOK
  <2> QED BY <1>1, <1>2, <2>1, FirstIndexIs
<1>3. \A c \in Leads(FirstIndex, FALSE) : c \in Indexes /\ seq[c].op = "call"
  BY <1>1 DEF IsZone, LocalCallsIn
<1>4. \A c \in Leads(FirstIndex, FALSE) : \A d \in Leads(seq[c].target, TRUE) : d > c
  BY <1>3 DEF CallsForward
<1> QED BY <1>2, <1>4 DEF MainFirst

-----------------------------------------------------------------------------
(***************************************************************************)
(* Types.                                                                  *)
(***************************************************************************)
EdgesApart == edges \subseteq (DOMAIN nodes \ {ExitLabel}) \X (DOMAIN nodes \ {EntryLabel})
TypedInv ==
    /\ EdgesApart
    /\ \A k \in DOMAIN pending : pending[k] \in DOMAIN nodes /\ nodes[pending[k]].op = "call"
    /\ asserted \subseteq DOMAIN nodes
    /\ callbacks.with_exit \subseteq callbacks.targets /\ callbacks.targets \subseteq Indexes

LEMMA TypedInit == Init => TypedInv
BY DEF Init, TypedInv, EdgesApart

LEMMA PendingTyped ==
    ASSUME PendingCalls, NEW k \in DOMAIN pending
    PROVE  pending[k] \in DOMAIN nodes /\ nodes[pending[k]].op = "call"
<1>1. PICK P : P = {l \in DOMAIN nodes : nodes[l].op = "call"}
  OBVIOUS
<1>2. pending \in Seq(P)
  BY <1>1 DEF PendingCalls
<1>3. pending[k] \in P
  BY <1>2
<1> QED BY <1>1, <1>3

LEMMA PendingTypedNext ==
    PendingCalls' => \A k \in DOMAIN pending' : pending'[k] \in DOMAIN nodes' /\ nodes'[pending'[k]].op = "call"
<1>1. PendingCalls => \A k \in DOMAIN pending : pending[k] \in DOMAIN nodes /\ nodes[pending[k]].op = "call"
  BY PendingTyped
<1>2. (PendingCalls => \A k \in DOMAIN pending : pending[k] \in DOMAIN nodes /\ nodes[pending[k]].op = "call")'
  BY <1>1, PTL
<1> QED BY <1>2

\* The edges of the sequence do not leave the exit and do not enter the entry.
LEMMA TopEdgesApart ==
    ASSUME InputOK, TargetsIn, Indexes # {}, NEW e \in TopEdges
    PROVE  e[1] # ExitLabel /\ e[2] # EntryLabel
<1>1. \A i \in Indexes : NewLabel(i) # ExitLabel /\ NewLabel(i) # EntryLabel
  BY LabelsApart DEF InputOK
<1>2. EntryLabel # ExitLabel
  BY LabelsApart
<1>3. CASE e = <<EntryLabel, NewLabel(FirstIndex)>>
  BY <1>1, <1>2, <1>3, FirstIndexIs
<1>4. ASSUME NEW i \in Indexes, e \in EdgesFrom(i)
      PROVE  e[1] # ExitLabel /\ e[2] # EntryLabel
  <2>1. Fallthrough(i) # EntryLabel
    <3>1. CASE IsLast(i)
      BY <1>2, <3>1 DEF Fallthrough
    <3>2. CASE ~ IsLast(i)
      <4>1. Fallthrough(i) = NewLabel(Fallthrough(i).from) /\ Fallthrough(i).from \in Indexes
        BY <3>2, FallsTo
      <4> QED BY <1>1, <4>1
    <3> QED BY <3>1, <3>2
  <2>2. seq[i].op \in {"jump", "branch"} => NewLabel(seq[i].target) # EntryLabel
    BY <1>1 DEF TargetsIn
  <2>3. Splits(i) => /\ Taken(i) # ExitLabel /\ NotTaken(i) # ExitLabel
                     /\ Taken(i) # EntryLabel /\ NotTaken(i) # EntryLabel
    <3>1. SUFFICES ASSUME Splits(i) PROVE /\ Taken(i) # ExitLabel /\ NotTaken(i) # ExitLabel
                                          /\ Taken(i) # EntryLabel /\ NotTaken(i) # EntryLabel
      OBVIOUS
    <3>2. seq[i].target \in Indexes
      BY <3>1 DEF Splits, TargetsIn
    <3> QED BY <3>1, <3>2, BranchLabels, LabelsApart
  <2>4. Splits(i) => seq[i].op = "branch"
    BY DEF Splits
  <2> QED BY <1>1, <1>2, <1>4, <2>1, <2>2, <2>3, <2>4, SMTT(60) DEF EdgesFrom
<1> QED BY <1>3, <1>4 DEF TopEdges

LEMMA InlineKeepsApart ==
    ASSUME InputOK, GraphInv, EdgesApart, NEW h, NEW exit_to \in DOMAIN nodes,
           NEW R \in SUBSET (DOMAIN nodes), InlineStep(h, exit_to, R)
    PROVE  EdgesApart'
<1> DEFINE f == FrameOf(h)
           entry == NewLabel(nodes[h].target)
<1>1. InlinedEdges(h, exit_to, R) /\ GraphInv'
  BY InlinedEdgesAre, InlineKeepsGraph
<1>2. /\ h \in DOMAIN nodes /\ <<h, exit_to>> \in edges /\ entry \in R
      /\ \A e \in edges' :
            \/ e \in edges /\ e[1] # h
            \/ e[1] = h /\ e[2] = Clone(entry, f)
            \/ \E m \in R, x \in DOMAIN nodes :
                  <<m, x>> \in edges /\ e[1] = Clone(m, f) /\ e[2] = CloneOf(x, f, exit_to)
  BY <1>1 DEF InlinedEdges, InlineStep
<1>3. DOMAIN nodes \subseteq PlainLabels
  BY DEF GraphInv, GraphType
<1>4. f \in Seq(Int) /\ f # <<>>
  BY <1>2, <1>3, FrameIs
<1> HIDE DEF f, entry
<1>5. \A m \in DOMAIN nodes : Clone(m, f) # ExitLabel /\ Clone(m, f) # EntryLabel
  BY <1>3, <1>4, CloneIs, LabelsApart
<1>6. edges' \subseteq (DOMAIN nodes') \X (DOMAIN nodes')
  BY <1>1 DEF GraphInv, GraphType
<1>7. h # ExitLabel /\ exit_to # EntryLabel
  BY <1>2 DEF EdgesApart
<1>8. ASSUME NEW e \in edges' PROVE e[1] # ExitLabel /\ e[2] # EntryLabel
  <2>1. CASE e \in edges
    BY <2>1 DEF EdgesApart
  <2>2. CASE e[1] = h /\ e[2] = Clone(entry, f)
    BY <1>2, <1>5, <1>7, <2>2
  <2>3. ASSUME NEW m \in R, NEW x \in DOMAIN nodes, e[1] = Clone(m, f), e[2] = CloneOf(x, f, exit_to)
        PROVE  e[1] # ExitLabel /\ e[2] # EntryLabel
    BY <1>5, <1>7, <2>3 DEF CloneOf
  <2> QED BY <1>2, <2>1, <2>2, <2>3
<1> QED BY <1>6, <1>8 DEF EdgesApart

LEMMA CountersKeepApart ==
    ASSUME GraphInv, EdgesApart, InsertTerminationCounters
    PROVE  /\ EdgesApart'
           /\ \A l \in DOMAIN nodes : l \in DOMAIN nodes' /\ nodes'[l] = nodes[l]
<1>1. PICK H : /\ nodes' = [l \in DOMAIN nodes \cup {MakeIncrementCounter(h) : h \in H} |->
                               IF l \in DOMAIN nodes THEN nodes[l] ELSE Node("counter", 0, <<>>)]
               /\ edges' = InsertAfter(H)
  BY DEF InsertTerminationCounters
<1>2. DOMAIN nodes \subseteq PlainLabels
  BY DEF GraphInv, GraphType
<1>3. \A l \in DOMAIN nodes : MakeIncrementCounter(l) # ExitLabel /\ MakeIncrementCounter(l) # EntryLabel
  BY <1>2, CountersApart, LabelsApart
<1>4. ASSUME NEW e \in edges'
      PROVE  e \in (DOMAIN nodes' \ {ExitLabel}) \X (DOMAIN nodes' \ {EntryLabel})
  <2>1. CASE e \in edges
    BY <1>1, <2>1 DEF EdgesApart
  <2>2. ASSUME NEW x \in edges, x[1] \in H,
               e = <<x[1], MakeIncrementCounter(x[1])>> \/ e = <<MakeIncrementCounter(x[1]), x[2]>>
        PROVE  e \in (DOMAIN nodes' \ {ExitLabel}) \X (DOMAIN nodes' \ {EntryLabel})
    <3>1. x[1] \in DOMAIN nodes \ {ExitLabel} /\ x[2] \in DOMAIN nodes \ {EntryLabel}
      BY DEF EdgesApart
    <3>2. MakeIncrementCounter(x[1]) \in DOMAIN nodes' /\ x[1] \in DOMAIN nodes' /\ x[2] \in DOMAIN nodes'
      BY <1>1, <2>2, <3>1
    <3> QED BY <1>3, <2>2, <3>1, <3>2
  <2>3. e \in edges \/ \E x \in edges :
            x[1] \in H /\ (e = <<x[1], MakeIncrementCounter(x[1])>> \/ e = <<MakeIncrementCounter(x[1]), x[2]>>)
    BY <1>1 DEF InsertAfter
  <2> QED BY <2>1, <2>2, <2>3
<1> QED BY <1>1, <1>4 DEF EdgesApart

LEMMA TypedStep ==
    ASSUME StageInv, FlowInv, EndingInv, TypedInv, [Next]_vars
    PROVE  TypedInv'
<1>1. InputOK /\ UNCHANGED input /\ Indexes' = Indexes
  BY InputFixed DEF StageInv, Indexes, seq
<1>2. ASSUME UNCHANGED <<nodes, edges, pending, callbacks, asserted>> PROVE TypedInv'
  BY <1>1, <1>2 DEF TypedInv, EdgesApart
<1>3. ASSUME UNCHANGED vars \/ Start \/ Execute \/ Stopped PROVE TypedInv'
  <2>1. UNCHANGED <<nodes, edges, pending, callbacks, asserted>>
    BY <1>3 DEF Start, Execute, Stopped, vars
  <2> QED BY <1>2, <2>1
<1>4. ASSUME \/ ValidateInstructionSupport \/ ResolveKfuncCalls \/ LowerPseudoLoads
             \/ ValidateControlFlowTargets \/ InlineLocalCalls \/ ValidateTailCallDepth
      PROVE  TypedInv'
  <2>1. UNCHANGED <<nodes, edges, pending, callbacks, asserted>>
    BY <1>4 DEF ValidateInstructionSupport, ResolveKfuncCalls, LowerPseudoLoads, Vetted,
                ValidateControlFlowTargets, InlineLocalCalls, ValidateTailCallDepth
  <2> QED BY <1>2, <2>1
<1>5. ASSUME PopulateNodes PROVE TypedInv'
  <2>1. /\ UNCHANGED <<edges, pending, callbacks, asserted>>
        /\ \A l \in DOMAIN nodes : l \in DOMAIN nodes' /\ nodes'[l] = nodes[l]
    BY <1>5 DEF PopulateNodes
  <2> QED BY <1>1, <2>1 DEF TypedInv, EdgesApart
<1>6. ASSUME ConnectEdges PROVE TypedInv'
  <2>1. Populated /\ TargetsIn
    BY <1>6 DEF StageInv, ConnectEdges
  <2>2. CASE pass' = "rejected"
    <3>1. UNCHANGED <<nodes, edges, pending, callbacks, asserted>>
      BY <1>6, <2>2 DEF ConnectEdges, Go
    <3> QED BY <1>2, <3>1
  <2>3. CASE pass' # "rejected"
    <3>1. /\ Indexes # {} /\ UNCHANGED <<callbacks, asserted>> /\ edges' = TopEdges
          /\ \A l \in DOMAIN nodes : nodes'[l] = nodes[l]
          /\ DOMAIN nodes' = TopLabels
      BY <1>1, <1>6, <2>1, <2>3, ConnectEdgesIs
    <3>2. GraphInv'
      BY <1>1, <1>6, <2>1, <2>3, ConnectOpensGraph
    <3>3. DOMAIN nodes \subseteq DOMAIN nodes'
      BY <2>1, <3>1 DEF Populated, TopLabels
    <3>4. EdgesApart'
      <4>1. edges' \subseteq (DOMAIN nodes') \X (DOMAIN nodes')
        BY <3>2 DEF GraphInv, GraphType
      <4>2. \A e \in edges' : e[1] # ExitLabel /\ e[2] # EntryLabel
        BY <1>1, <2>1, <3>1, TopEdgesApart
      <4> QED BY <4>1, <4>2 DEF EdgesApart
    <3>5. PendingCalls'
      BY <3>2, SMTT(60) DEF GraphInv
    <3> QED BY <1>1, <3>1, <3>3, <3>4, <3>5, PendingTypedNext DEF TypedInv
  <2> QED BY <2>2, <2>3, SMTT(60)
<1>7. ASSUME AddCfgNodes PROVE TypedInv'
  <2>1. GraphInv /\ EdgesApart /\ UNCHANGED <<callbacks, asserted>>
    <3>1. pass = "InlineLocalCalls" /\ UNCHANGED <<callbacks, asserted>>
      BY ONLY <1>7 DEF AddCfgNodes
    <3> QED BY <3>1 DEF StageInv, TypedInv, Inlining
  <2>2. CASE pass' \in {"rejected", "panicked"}
    <3>1. UNCHANGED <<nodes, edges, pending, callbacks, asserted>>
      BY ONLY <1>7, <2>2, ZenonT(60) DEF AddCfgNodes, Inlined
    <3> QED BY <1>2, <3>1
  <2>3. CASE pass' \notin {"rejected", "panicked"}
    <3>1. PICK exit_to \in DOMAIN nodes, R \in SUBSET (DOMAIN nodes) : InlineStep(Head(pending), exit_to, R)
      BY <1>1, <1>7, <2>1, <2>3, AddCfgNodesIs
    <3>2. EdgesApart' /\ GraphInv'
      BY <1>1, <2>1, <3>1, InlineKeepsApart, InlineKeepsGraph, SMTT(60)
    <3>3. DOMAIN nodes \subseteq DOMAIN nodes'
      <4>1. GraphStep(Head(pending), exit_to, R)
        BY <1>1, <2>1, <3>1, StepIs
      <4> QED BY <4>1 DEF GraphStep
    <3>4. PendingCalls'
      BY <3>2 DEF GraphInv
    <3> QED BY <1>1, <2>1, <3>2, <3>3, <3>4, PendingTypedNext DEF TypedInv
  <2> QED BY <2>2, <2>3
<1>8. ASSUME ComputeCallbackMetadata PROVE TypedInv'
  <2>1. UNCHANGED <<nodes, edges, pending, asserted>> /\ callbacks'.with_exit \subseteq callbacks'.targets
    BY <1>8 DEF ComputeCallbackMetadata
  <2>2. GraphInv /\ EndInv
    BY <1>8 DEF ComputeCallbackMetadata, Inlining, StageInv, EndingInv
  <2>3. callbacks'.targets \subseteq Indexes
    BY <1>1, <1>8, <2>2, CallbackTargetsIn
  <2> QED BY <1>1, <2>1, <2>3 DEF TypedInv, EdgesApart
<1>9. ASSUME InsertTerminationCounters PROVE TypedInv'
  <2>1. GraphInv /\ EdgesApart /\ UNCHANGED <<pending, callbacks, asserted>>
    BY <1>9 DEF InsertTerminationCounters, Inlining, StageInv, TypedInv
  <2>2. /\ EdgesApart'
        /\ \A l \in DOMAIN nodes : l \in DOMAIN nodes' /\ nodes'[l] = nodes[l]
    BY <1>9, <2>1, CountersKeepApart
  <2> QED BY <1>1, <2>1, <2>2 DEF TypedInv
<1>10. ASSUME ExtractAssertions PROVE TypedInv'
  <2>1. UNCHANGED <<nodes, edges, pending, callbacks>> /\ asserted' = DOMAIN nodes
    BY <1>10 DEF ExtractAssertions
  <2> QED BY <1>1, <2>1 DEF TypedInv, EdgesApart
<1> QED BY <1>3, <1>4, <1>5, <1>6, <1>7, <1>8, <1>9, <1>10, SMTT(60) DEF Next, Build

LEMMA TypedIs ==
    ASSUME TypedInv, MadeInv
    PROVE  TypeOK
<1>1. machine.mode = "running" => machine.pc \in Indexes
  BY DEF MadeInv, CallsMade
<1> QED BY <1>1 DEF TypedInv, EdgesApart, TypeOK

\* For every sequence: an edge never leaves the exit or enters the entry, what
\* is pending is a call of the graph, and the callbacks that are listed, and
\* what the machine executes, are instructions.
THEOREM TypeCorrect == Spec => []TypeOK
<1> DEFINE Inv == StageInv /\ FlowInv /\ MachineInv /\ MadeInv /\ EndingInv /\ TypedInv
<1>1. Init => Inv
  BY StageInit, FlowInit, MadeInit, EndingInit, TypedInit
<1>2. Inv /\ [Next]_vars => Inv'
  BY StageStep, FlowStep, MachineStep, MadeStep, EndingStep, TypedStep
<1>3. Inv => TypeOK
  BY TypedIs
<1> HIDE DEF Inv
<1> QED BY <1>1, <1>2, <1>3, PTL DEF Spec
=============================================================================
