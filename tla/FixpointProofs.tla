---------------------------- MODULE FixpointProofs ----------------------------
(***************************************************************************)
(* Proofs about Fixpoint, for every program, every abstract domain and     *)
(* every limit that satisfy its assumptions: first the position and the    *)
(* frames of the walk, then the soundness of its verdict.                  *)
(***************************************************************************)
EXTENDS Fixpoint, SequenceTheorems, TLAPS

(***************************************************************************)
(* What the assumptions say of a program's weak topological order.         *)
(***************************************************************************)
LEMMA WtoFacts ==
    ASSUME NEW p \in Programs
    PROVE  /\ p.wto.order \in Seq(Labels)
           /\ Len(p.wto.order) \in Nat \ {0}
           /\ p.wto.order[1] = Entry
           /\ p.wto.heads \subseteq 1 .. Len(p.wto.order)
           /\ \A q \in 1 .. Len(p.wto.order) :
                 /\ p.wto.order[q] \in Labels
                 /\ p.wto.last[q] \in 1 .. Len(p.wto.order)
                 /\ q <= p.wto.last[q]
           /\ \A h \in p.wto.heads : \A q \in 1 .. Len(p.wto.order) :
                 h <= q /\ q <= p.wto.last[h] => p.wto.last[q] <= p.wto.last[h]
           /\ p.ins \in [Labels -> Instr]
  <1>1. ProgramOK(p)
    BY ProgramsAssumption
  <1>2. IsWto(p.wto, Entry, p.edges, Labels) /\ p.ins \in [Labels -> Instr]
    BY <1>1 DEF ProgramOK
  <1> QED
    BY <1>2 DEF IsWto, WellNested, CoversReachable, Positions, InCycle

(***************************************************************************)
(* The three ways in which the stack of frames changes.                    *)
(***************************************************************************)
LEMMA AppendFrame ==
    ASSUME NEW S, NEW s \in Seq(S), NEW f \in S
    PROVE  /\ Append(s, f) \in Seq(S)
           /\ Len(Append(s, f)) = Len(s) + 1
           /\ \A i \in 1 .. Len(s) : Append(s, f)[i] = s[i]
           /\ Append(s, f)[Len(s) + 1] = f
  OBVIOUS

LEMMA ReplaceFrame ==
    ASSUME NEW S, NEW s \in Seq(S), s # <<>>, NEW f \in S
    PROVE  LET t == [s EXCEPT ![Len(s)] = f]
           IN  /\ t \in Seq(S)
               /\ Len(t) = Len(s)
               /\ \A i \in 1 .. Len(s) - 1 : t[i] = s[i]
               /\ t[Len(s)] = f
  BY EmptySeq, ExceptSeq

LEMMA RemoveFrame ==
    ASSUME NEW S, NEW s \in Seq(S), s # <<>>
    PROVE  /\ SubSeq(s, 1, Len(s) - 1) \in Seq(S)
           /\ Len(SubSeq(s, 1, Len(s) - 1)) = Len(s) - 1
           /\ \A i \in 1 .. Len(s) - 1 : SubSeq(s, 1, Len(s) - 1)[i] = s[i]
  <1> DEFINE n == Len(s) - 1
  <1>1. Len(s) \in Nat \ {0} /\ n \in Nat
    BY EmptySeq
  <1>2. \A i \in 1 .. n : s[i] \in S
    BY <1>1, ElementOfSeq
  <1> HIDE DEF n
  <1>3. 1 \in Int /\ n \in Int
    BY <1>1
  <1>4. /\ SubSeq(s, 1, n) \in Seq(S)
        /\ Len(SubSeq(s, 1, n)) = IF 1 <= n THEN n - 1 + 1 ELSE 0
        /\ \A i \in 1 .. n - 1 + 1 : SubSeq(s, 1, n)[i] = s[1 + i - 1]
    BY <1>2, <1>3, SubSeqProperties, SMTT(20)
  <1>5. /\ SubSeq(s, 1, n) \in Seq(S)
        /\ Len(SubSeq(s, 1, n)) = n
        /\ \A i \in 1 .. n : SubSeq(s, 1, n)[i] = s[i]
    BY <1>1, <1>4
  <1> QED
    BY <1>5 DEF n

(***************************************************************************)
(* The abstract values the iterator computes are values of the domain.     *)
(***************************************************************************)
LEMMA JoinAllType ==
    ASSUME post \in [Labels -> Dom], NEW P \in SUBSET Labels
    PROVE  {post[m] : m \in P} \in SUBSET Dom /\ JoinAll({post[m] : m \in P}) \in Dom
  <1>1. {post[m] : m \in P} \in SUBSET Dom
    OBVIOUS
  <1> QED
    BY <1>1, DomainClosed

LEMMA JoinAllPrevsType ==
    ASSUME TypeOK, NEW n \in Labels
    PROVE  JoinAllPrevs(n) \in Dom /\ StartInvariant(n) \in Dom
  <1> DEFINE outside == {x \in Parents(n) : ~ IsSupersetOf(wto.nesting[x], wto.nesting[n])}
  <1>1. Parents(n) \in SUBSET Labels /\ outside \in SUBSET Labels
    BY DEF Parents
  <1> HIDE DEF outside
  <1>2. JoinAll({post[m] : m \in Parents(n)}) \in Dom
    BY <1>1, JoinAllType DEF TypeOK
  <1>3. JoinAll({post[m] : m \in outside}) \in Dom
    BY <1>1, JoinAllType DEF TypeOK
  <1> QED
    BY <1>2, <1>3 DEF JoinAllPrevs, StartInvariant, TypeOK, outside

LEMMA TransformToPostType ==
    ASSUME TypeOK, prog \in Programs, NEW n \in Labels, NEW d \in Dom,
           TransformToPost(n, d)
    PROVE  /\ post' \in [Labels -> Dom]
           /\ error' \in SUBSET Labels
           /\ failed' \in BOOLEAN
           /\ failed => failed'
  <1>1. prog.ins[n] \in Instr
    BY WtoFacts
  <1>2. Transfer(prog.ins[n], d) \in Dom \cup {Fails}
    BY <1>1, DomainClosed
  <1> QED
    BY <1>2, ZenonT(60) DEF TransformToPost, SetError, TypeOK

LEMMA ExtrapolateRefineType ==
    ASSUME NEW a \in Dom, NEW b \in Dom, NEW i
    PROVE  Extrapolate(a, b, i) \in Dom /\ Refine(a, b, i) \in Dom
  <1>1. (i = WIDENING_DELAY) \in BOOLEAN
    OBVIOUS
  <1>2. Widen(a, b, i = WIDENING_DELAY) \in Dom
    BY <1>1, DomainClosed
  <1>3. Join(a, b) \in Dom /\ Meet(a, b) \in Dom /\ Narrow(a, b) \in Dom
    BY DomainClosed
  <1> QED
    BY <1>2, <1>3 DEF Extrapolate, Refine

-----------------------------------------------------------------------------
(***************************************************************************)
(* The walk over the order: types, and the frames that go with a position. *)
(***************************************************************************)
StructInv ==
    /\ prog \in Programs
    /\ TypeOK
    /\ WalkStructure

LEMMA StructInit == Init => StructInv
  <1> SUFFICES ASSUME Init PROVE StructInv
    OBVIOUS
  <1> USE DEF Init
  <1>1. \A h \in prog.wto.heads : prog.wto.order[h] \in Labels
    BY WtoFacts
  <1>2. {prog.wto.order[h] : h \in prog.wto.heads} \in SUBSET Labels
    BY <1>1
  <1>3. EntryState(prog) \in Dom
    BY <1>2, DomainClosed DEF EntryState
  <1>4. TypeOK
    <2>1. pre \in [Labels -> Dom] /\ post \in [Labels -> Dom] /\ exit_value \in Dom
      BY <1>3, DomainClosed
    <2>2. frames \in Seq(Frame)
      BY EmptySeq
    <2>3. pc \in 1 .. Len(wto.order) + 1
      BY WtoFacts DEF wto
    <2> QED
      BY <2>1, <2>2, <2>3 DEF TypeOK
  <1>5. DOMAIN frames = {}
    OBVIOUS
  <1>6. WalkStructure
    BY <1>5, WtoFacts, SMTT(60) DEF WalkStructure, wto
  <1> QED
    BY <1>4, <1>6 DEF StructInv

(***************************************************************************)
(* Consequences for the stack of frames: the end of a frame's cycle does   *)
(* not come after the end of the cycles around it.                         *)
(***************************************************************************)
LEMMA FrameFacts ==
    ASSUME StructInv
    PROVE  /\ Len(frames) \in Nat
           /\ DOMAIN frames = 1 .. Len(frames)
           /\ frames # <<>> <=> Len(frames) > 0
           /\ \A k \in 1 .. Len(frames) :
                 /\ frames[k] \in Frame
                 /\ frames[k].head \in Nat /\ frames[k].inv \in Dom
                 /\ frames[k].head \in prog.wto.heads
                 /\ frames[k].head \in 1 .. Len(prog.wto.order)
                 /\ prog.wto.last[frames[k].head] \in 1 .. Len(prog.wto.order)
                 /\ prog.wto.order[frames[k].head] \in Labels
           /\ \A j, k \in 1 .. Len(frames) :
                 j < k => prog.wto.last[frames[k].head] <= prog.wto.last[frames[j].head]
  <1> USE DEF StructInv
  <1>1. /\ Len(frames) \in Nat
        /\ DOMAIN frames = 1 .. Len(frames)
        /\ frames # <<>> <=> Len(frames) > 0
    BY EmptySeq DEF TypeOK
  <1>2. ASSUME NEW k \in 1 .. Len(frames)
        PROVE  /\ frames[k] \in Frame
               /\ frames[k].head \in Nat /\ frames[k].inv \in Dom
               /\ frames[k].head \in prog.wto.heads
               /\ frames[k].head \in 1 .. Len(prog.wto.order)
               /\ prog.wto.last[frames[k].head] \in 1 .. Len(prog.wto.order)
               /\ prog.wto.order[frames[k].head] \in Labels
    <2>1. frames[k] \in Frame
      BY ElementOfSeq DEF TypeOK
    <2>2. frames[k].head \in prog.wto.heads
      BY <1>1 DEF WalkStructure, wto
    <2> QED
      BY <2>1, <2>2, WtoFacts, SMTT(60) DEF Frame
  <1>3. ASSUME NEW j \in 1 .. Len(frames), NEW k \in 1 .. Len(frames), j < k
        PROVE  prog.wto.last[frames[k].head] <= prog.wto.last[frames[j].head]
    <2>1. frames[j].head < frames[k].head /\ frames[k].head <= prog.wto.last[frames[j].head]
      BY <1>1, <1>3 DEF WalkStructure, wto
    <2>2. /\ frames[j].head \in prog.wto.heads /\ frames[j].head \in Nat
          /\ frames[k].head \in 1 .. Len(prog.wto.order)
      BY <1>2
    <2>3. \A h \in prog.wto.heads : \A q \in 1 .. Len(prog.wto.order) :
              h <= q /\ q <= prog.wto.last[h] => prog.wto.last[q] <= prog.wto.last[h]
      BY WtoFacts
    <2>4. frames[j].head <= frames[k].head
      BY <2>1, <2>2, SMTT(60)
    <2> QED
      BY <2>1, <2>2, <2>3, <2>4
  <1> QED
    BY <1>1, <1>2, <1>3

(***************************************************************************)
(* Before a component is visited the walk is strictly inside all of the    *)
(* cycles on the stack.                                                    *)
(***************************************************************************)
LEMMA AtComponentInside ==
    ASSUME StructInv, AtComponent
    PROVE  /\ pc \in 1 .. Len(prog.wto.order)
           /\ Node(pc) \in Labels
           /\ \A k \in 1 .. Len(frames) :
                 frames[k].head < pc /\ pc <= prog.wto.last[frames[k].head]
  <1> USE DEF StructInv
  <1>1. Len(prog.wto.order) \in Nat /\ pc \in 1 .. Len(prog.wto.order) /\ Node(pc) \in Labels
    BY WtoFacts DEF AtComponent, Node, wto, TypeOK
  <1>2. ASSUME NEW k \in 1 .. Len(frames)
        PROVE  frames[k].head < pc /\ pc <= prog.wto.last[frames[k].head]
    <2>1. pc <= prog.wto.last[TopFrame.head] + 1 /\ TopFrame.head <= pc
      BY FrameFacts DEF WalkStructure, TopFrame, wto
    <2>2. pc # prog.wto.last[TopFrame.head] + 1 /\ TopFrame.head # pc
      BY FrameFacts DEF AtComponent, AtLoopEnd, AtHead, wto
    <2>3. prog.wto.last[TopFrame.head] <= prog.wto.last[frames[k].head]
      BY FrameFacts, SMTT(60) DEF TopFrame
    <2>4. /\ pc \in Nat /\ prog.wto.last[TopFrame.head] \in Nat
          /\ prog.wto.last[frames[k].head] \in Nat
          /\ frames[k].head \in Nat /\ TopFrame.head \in Nat
      BY <1>1, FrameFacts, SMTT(60) DEF TopFrame
    <2>5. frames[k].head <= TopFrame.head
      BY FrameFacts, SMTT(60) DEF WalkStructure, TopFrame
    <2> QED
      BY <2>1, <2>2, <2>3, <2>4, <2>5, SMTT(60)
  <1> QED
    BY <1>1, <1>2

LEMMA ProcessNodeStruct ==
    ASSUME StructInv, ProcessNode PROVE StructInv'
  <1> USE DEF StructInv
  <1>1. AtComponent
    BY DEF ProcessNode
  <1>2. JoinAllPrevs(Node(pc)) \in Dom
    BY <1>1, AtComponentInside, JoinAllPrevsType
  <1>3. pre' \in [Labels -> Dom] /\ post' \in [Labels -> Dom]
            /\ error' \in SUBSET Labels /\ failed' \in BOOLEAN
    <2>1. CASE skip'
      BY <2>1 DEF ProcessNode, TypeOK
    <2>2. CASE ~ skip'
      BY <2>2, <1>1, <1>2, AtComponentInside, TransformToPostType DEF ProcessNode, TypeOK
    <2> QED
      BY <2>1, <2>2
  <1>4. TypeOK'
    BY <1>1, <1>3, AtComponentInside, WtoFacts, SMTT(60) DEF ProcessNode, TypeOK, wto
  <1>5. ~ skip'
    BY WtoFacts DEF ProcessNode, WalkStructure, Node, wto
  <1>6. \A h \in prog.wto.heads : h < pc + 1 /\ ~ Active(h) => prog.wto.last[h] < pc + 1
    BY <1>1, AtComponentInside, WtoFacts, SMTT(60) DEF ProcessNode, AtComponent, WalkStructure, wto, TypeOK
  <1>7. WalkStructure'
    BY <1>1, <1>5, <1>6, AtComponentInside, FrameFacts, SMTT(60)
       DEF ProcessNode, AtComponent, WalkStructure, Active, wto
  <1> QED
    BY <1>4, <1>7 DEF ProcessNode

LEMMA ProcessHeadStruct ==
    ASSUME StructInv, ProcessHead PROVE StructInv'
  <1> USE DEF StructInv
  <1>1. /\ pc = TopFrame.head /\ pc \in 1 .. Len(prog.wto.order) /\ pc \in prog.wto.heads
        /\ Node(pc) \in Labels /\ TopFrame.inv \in Dom
        /\ prog.wto.last[pc] \in Nat /\ pc <= prog.wto.last[pc]
        /\ Len(frames) \in DOMAIN frames
    BY FrameFacts, WtoFacts, SMTT(60) DEF ProcessHead, AtHead, TopFrame, Node, wto
  <1>2. pre' \in [Labels -> Dom] /\ post' \in [Labels -> Dom]
            /\ error' \in SUBSET Labels /\ failed' \in BOOLEAN
    BY <1>1, TransformToPostType, SMTT(60) DEF ProcessHead, TypeOK
  <1>3. TypeOK'
    BY <1>1, <1>2, WtoFacts, SMTT(60) DEF ProcessHead, TypeOK, wto
  <1>4. \A k \in 1 .. Len(frames) : frames[k].head <= pc /\ pc <= prog.wto.last[frames[k].head]
    BY <1>1, FrameFacts, SMTT(60) DEF WalkStructure, TopFrame, wto
  <1>5. \A h \in prog.wto.heads : h < pc + 1 /\ ~ Active(h) => prog.wto.last[h] < pc + 1
    <2>1. Active(pc)
      BY <1>1 DEF Active, TopFrame
    <2>2. ASSUME NEW h \in prog.wto.heads, h < pc + 1, ~ Active(h)
          PROVE  prog.wto.last[h] < pc + 1
      <3>1. h < pc /\ prog.wto.last[h] \in Nat
        BY <1>1, <2>1, <2>2, WtoFacts, SMTT(60)
      <3>2. prog.wto.last[h] < pc
        BY <2>2, <3>1 DEF WalkStructure, wto
      <3> QED
        BY <1>1, <3>1, <3>2
    <2> QED
      BY <2>2
  <1>6. WalkStructure'
    BY <1>1, <1>4, <1>5, FrameFacts, SMTT(60) DEF ProcessHead, AtHead, WalkStructure, Active, wto
  <1> QED
    BY <1>3, <1>6, SMTT(60) DEF ProcessHead

LEMMA EnterCycleStruct ==
    ASSUME StructInv, EnterCycle PROVE StructInv'
  <1> USE DEF StructInv
  <1>1. AtComponent /\ pc \in prog.wto.heads
    BY DEF EnterCycle, wto
  <1>2. skip' = FALSE
    <2>1. skip => pc = 1 /\ Node(1) = Entry /\ 1 \in Positions(wto) /\ InCycle(wto, 1, 1)
      BY WtoFacts DEF WalkStructure, Node, wto, Positions, InCycle
    <2> QED
      BY <2>1 DEF EnterCycle
  <1>3. PICK d \in Dom : frames' = Append(frames, FrameOf(pc, "up", 1, d))
    <2>1. StartInvariant(Node(pc)) \in Dom /\ pre[Entry] \in Dom
      BY <1>1, AtComponentInside, JoinAllPrevsType, ProgramsAssumption DEF TypeOK
    <2> QED
      BY <1>2, <2>1 DEF EnterCycle
  <1> DEFINE f == FrameOf(pc, "up", 1, d)
  <1>4. f \in Frame /\ f.head = pc
    BY <1>1, AtComponentInside DEF Frame, FrameOf
  <1> HIDE DEF f
  <1>5. /\ frames' \in Seq(Frame)
        /\ Len(frames') = Len(frames) + 1
        /\ \A k \in 1 .. Len(frames) : frames'[k] = frames[k]
        /\ frames'[Len(frames) + 1] = f
    BY <1>3, <1>4, AppendFrame DEF TypeOK, f
  <1>6. UNCHANGED <<prog, pre, post, error, failed, exit_value, phase, run, pc>>
    BY <1>2 DEF EnterCycle
  <1>7. TypeOK'
    BY <1>2, <1>5, <1>6 DEF TypeOK, wto
  <1>8. WalkStructure'
    <2>1. DOMAIN frames' = 1 .. Len(frames) + 1
      BY <1>5, LenProperties
    <2>2. \A h \in prog.wto.heads : Active(h)' <=> Active(h) \/ h = pc
      BY <1>4, <1>5, <2>1, FrameFacts, SMTT(60) DEF Active
    <2>3. \A k \in DOMAIN frames' :
            /\ frames'[k].head \in prog.wto.heads
            /\ frames'[k].head <= pc /\ pc <= prog.wto.last[frames'[k].head] + 1
      BY <1>1, <1>4, <1>5, <2>1, AtComponentInside, FrameFacts, WtoFacts, SMTT(60)
    <2>4. \A j, k \in DOMAIN frames' : j < k =>
            /\ frames'[j].head < frames'[k].head
            /\ frames'[k].head <= prog.wto.last[frames'[j].head]
      <3> SUFFICES ASSUME NEW j \in 1 .. Len(frames) + 1, NEW k \in 1 .. Len(frames) + 1, j < k
                   PROVE  /\ frames'[j].head < frames'[k].head
                          /\ frames'[k].head <= prog.wto.last[frames'[j].head]
        BY <2>1
      <3>1. j \in 1 .. Len(frames) /\ frames'[j] = frames[j]
        BY <1>5, FrameFacts
      <3>2. CASE k = Len(frames) + 1
        BY <1>1, <1>4, <1>5, <3>1, <3>2, AtComponentInside, SMTT(60)
      <3>3. CASE k \in 1 .. Len(frames)
        BY <1>5, <3>1, <3>3, FrameFacts, ZenonT(60) DEF WalkStructure, wto
      <3> QED
        BY <3>2, <3>3, FrameFacts
    <2>5. \A h \in prog.wto.heads : h < pc /\ ~ Active(h)' => prog.wto.last[h] < pc
      BY <2>2 DEF WalkStructure, wto
    <2>6. \A k \in DOMAIN frames', h \in prog.wto.heads :
            h < frames'[k].head /\ frames'[k].head <= prog.wto.last[h] => Active(h)'
      <3> SUFFICES ASSUME NEW k \in 1 .. Len(frames) + 1, NEW h \in prog.wto.heads,
                          h < frames'[k].head, frames'[k].head <= prog.wto.last[h]
                   PROVE  Active(h)
        BY <2>1, <2>2
      <3>1. CASE k = Len(frames) + 1
        <4>1. h < pc /\ pc <= prog.wto.last[h]
          BY <1>4, <1>5, <3>1
        <4>2. pc \in Nat /\ prog.wto.last[h] \in Nat
          BY <1>1, AtComponentInside, WtoFacts, SMTT(60)
        <4> QED
          BY <4>1, <4>2, SMTT(60) DEF WalkStructure, wto
      <3>2. CASE k \in 1 .. Len(frames)
        BY <1>5, <3>2, FrameFacts, SMTT(60) DEF WalkStructure, wto
      <3> QED
        BY <3>1, <3>2, FrameFacts
    <2> QED
      BY <1>1, <1>2, <1>6, <2>3, <2>4, <2>5, <2>6 DEF WalkStructure, wto, AtComponent
  <1> QED
    BY <1>6, <1>7, <1>8

(***************************************************************************)
(* The two ends of an iteration: go back to the head with another frame,   *)
(* or leave the cycle.                                                     *)
(***************************************************************************)
LEMMA LoopEndFacts ==
    ASSUME StructInv, phase = "walk", AtLoopEnd
    PROVE  /\ Len(frames) \in 1 .. Len(frames)
           /\ TopFrame \in Frame /\ TopFrame.head \in prog.wto.heads
           /\ TopFrame.head \in 1 .. Len(prog.wto.order)
           /\ Node(TopFrame.head) \in Labels
           /\ JoinAllPrevs(Node(TopFrame.head)) \in Dom
           /\ pc = prog.wto.last[TopFrame.head] + 1
           /\ prog.wto.last[TopFrame.head] \in Nat
           /\ skip = FALSE
  <1> USE DEF StructInv
  <1>1. Len(frames) \in 1 .. Len(frames) /\ frames # <<>>
    BY FrameFacts DEF AtLoopEnd
  <1>2. skip = FALSE
    BY <1>1 DEF WalkStructure, TypeOK
  <1>3. Node(TopFrame.head) \in Labels
    BY <1>1, FrameFacts DEF TopFrame, Node, wto
  <1> QED
    BY <1>1, <1>2, <1>3, FrameFacts, JoinAllPrevsType, SMTT(60) DEF AtLoopEnd, TopFrame, wto

LEMMA RepeatStruct ==
    ASSUME StructInv, phase = "walk", AtLoopEnd,
           NEW f \in Frame, f.head = TopFrame.head, frames' = SetTop(f), pc' = TopFrame.head,
           UNCHANGED <<prog, skip, phase>>
    PROVE  WalkStructure' /\ frames' \in Seq(Frame) /\ pc' \in 1 .. Len(prog.wto.order) + 1
  <1> USE DEF StructInv
  <1>1. frames # <<>> /\ frames \in Seq(Frame)
    BY DEF AtLoopEnd, TypeOK
  <1>2. /\ frames' \in Seq(Frame)
        /\ Len(frames') = Len(frames)
        /\ \A i \in 1 .. Len(frames) - 1 : frames'[i] = frames[i]
        /\ frames'[Len(frames)] = f
    BY <1>1, ReplaceFrame DEF SetTop
  <1>3. DOMAIN frames' = 1 .. Len(frames)
    BY <1>2, LenProperties, SMTT(60)
  <1>4. \A k \in 1 .. Len(frames) : frames'[k].head = frames[k].head
    BY <1>2, LoopEndFacts, FrameFacts, SMTT(60) DEF TopFrame
  <1>5. \A h \in prog.wto.heads : Active(h)' <=> Active(h)
    BY <1>3, <1>4, FrameFacts DEF Active
  <1>6. \A k \in 1 .. Len(frames) :
            /\ frames[k].head \in prog.wto.heads
            /\ frames[k].head <= TopFrame.head
            /\ TopFrame.head <= prog.wto.last[frames[k].head] + 1
    <2> SUFFICES ASSUME NEW k \in 1 .. Len(frames)
                 PROVE  /\ frames[k].head <= TopFrame.head
                        /\ TopFrame.head <= prog.wto.last[frames[k].head] + 1
      BY FrameFacts
    <2>1. CASE k = Len(frames)
      BY <2>1, LoopEndFacts, WtoFacts, SMTT(60) DEF TopFrame
    <2>2. CASE k < Len(frames)
      <3>1. k \in DOMAIN frames /\ Len(frames) \in DOMAIN frames
        BY FrameFacts, LoopEndFacts
      <3>2. frames[k].head < TopFrame.head /\ TopFrame.head <= prog.wto.last[frames[k].head]
        BY <2>2, <3>1 DEF WalkStructure, TopFrame, wto
      <3> QED
        BY <3>2, FrameFacts, LoopEndFacts, SMTT(60)
    <2>3. Len(frames) \in Nat
      BY FrameFacts
    <2> QED
      BY <2>1, <2>2, <2>3
  <1>7. ASSUME NEW h \in prog.wto.heads, h < TopFrame.head, ~ Active(h)
        PROVE  prog.wto.last[h] < TopFrame.head
    <2>1. ~ (TopFrame.head <= prog.wto.last[h])
      BY <1>7, LoopEndFacts, FrameFacts DEF WalkStructure, TopFrame, wto
    <2> QED
      BY <2>1, WtoFacts, LoopEndFacts, SMTT(60)
  <1>8. WalkStructure'
    BY <1>3, <1>4, <1>5, <1>6, <1>7, LoopEndFacts, FrameFacts, ZenonT(60) DEF WalkStructure, wto
  <1> QED
    BY <1>2, <1>8, LoopEndFacts, WtoFacts

LEMMA LeaveStruct ==
    ASSUME StructInv, phase = "walk", AtLoopEnd, frames' = PopFrame,
           UNCHANGED <<prog, skip, phase, pc>>
    PROVE  WalkStructure' /\ frames' \in Seq(Frame)
  <1> USE DEF StructInv
  <1>1. frames # <<>> /\ frames \in Seq(Frame)
    BY DEF AtLoopEnd, TypeOK
  <1>2. /\ frames' \in Seq(Frame)
        /\ Len(frames') = Len(frames) - 1
        /\ \A i \in 1 .. Len(frames) - 1 : frames'[i] = frames[i]
    BY <1>1, RemoveFrame DEF PopFrame
  <1>3. DOMAIN frames' = 1 .. Len(frames) - 1
    BY <1>2, LenProperties, SMTT(60)
  <1>4. \A h \in prog.wto.heads : Active(h) => Active(h)' \/ h = TopFrame.head
    <2> SUFFICES ASSUME NEW k \in DOMAIN frames, frames[k].head # TopFrame.head
                 PROVE  k \in DOMAIN frames' /\ frames'[k] = frames[k]
      BY DEF Active
    <2> QED
      BY <1>2, <1>3, FrameFacts, LoopEndFacts, SMTT(60) DEF TopFrame
  <1>5. ASSUME NEW h \in prog.wto.heads, h < pc, ~ Active(h)'
        PROVE  prog.wto.last[h] < pc
    <2>1. CASE Active(h)
      BY <1>4, <1>5, <2>1, LoopEndFacts, SMTT(60)
    <2>2. CASE ~ Active(h)
      BY <1>5, <2>2 DEF WalkStructure, wto
    <2> QED
      BY <2>1, <2>2
  <1>6. ASSUME NEW k \in 1 .. Len(frames) - 1, NEW h \in prog.wto.heads,
               h < frames[k].head, frames[k].head <= prog.wto.last[h]
        PROVE  Active(h)'
    <2>1. k \in DOMAIN frames /\ Len(frames) \in DOMAIN frames /\ k < Len(frames)
      BY FrameFacts, LoopEndFacts, SMTT(60)
    <2>2. Active(h) /\ frames[k].head < TopFrame.head
      BY <1>6, <2>1 DEF WalkStructure, TopFrame, wto
    <2>3. h # TopFrame.head
      BY <1>6, <2>1, <2>2, FrameFacts, LoopEndFacts, WtoFacts, SMTT(60)
    <2> QED
      BY <1>4, <2>2, <2>3, SMTT(60)
  <1>7. WalkStructure'
    <2>1. \A k \in DOMAIN frames' : k \in DOMAIN frames /\ frames'[k] = frames[k]
      BY <1>2, <1>3, FrameFacts
    <2>2. \A k \in DOMAIN frames' :
              /\ frames'[k].head \in wto.heads
              /\ frames'[k].head <= pc /\ pc <= wto.last[frames'[k].head] + 1
      BY <2>1 DEF WalkStructure
    <2>3. \A j, k \in DOMAIN frames' :
              j < k => frames'[j].head < frames'[k].head /\ frames'[k].head <= wto.last[frames'[j].head]
      BY <2>1 DEF WalkStructure
    <2>4. \A h \in wto.heads : h < pc /\ ~ Active(h)' => wto.last[h] < pc
      BY <1>5 DEF wto
    <2>5. \A k \in DOMAIN frames', h \in wto.heads :
              h < frames'[k].head /\ frames'[k].head <= wto.last[h] => Active(h)'
      BY <1>2, <1>3, <1>6 DEF wto
    <2>6. ~ skip /\ phase # "done"
      BY <1>1 DEF WalkStructure
    <2>7. wto' = wto
      BY DEF wto
    <2> QED
      BY <2>2, <2>3, <2>4, <2>5, <2>6, <2>7 DEF WalkStructure
  <1> QED
    BY <1>2, <1>7

LEMMA FrameType ==
    ASSUME NEW h \in Nat, NEW dir \in {"up", "down"}, NEW i \in Nat \ {0}, NEW d \in Dom
    PROVE  /\ FrameOf(h, dir, i, d) \in Frame
           /\ FrameOf(h, dir, i, d).head = h
           /\ FrameOf(h, dir, i, d).dir = dir
           /\ FrameOf(h, dir, i, d).inv = d
  BY DEF Frame, FrameOf

LEMMA EndAscendingStruct ==
    ASSUME StructInv, EndAscending PROVE StructInv'
  <1> USE DEF StructInv
  <1>1. phase = "walk" /\ AtLoopEnd
    BY DEF EndAscending
  <1> DEFINE f == TopFrame
             new_pre == JoinAllPrevs(Node(f.head))
             down == FrameOf(f.head, "down", 1, new_pre)
             wider == Extrapolate(f.inv, new_pre, f.iter)
             up == FrameOf(f.head, "up", f.iter + 1, wider)
  <1>2. /\ down \in Frame /\ down.head = TopFrame.head
        /\ up \in Frame /\ up.head = TopFrame.head
    <2>1. f \in Frame /\ new_pre \in Dom
      BY <1>1, LoopEndFacts
    <2>2. f.inv \in Dom /\ f.head \in Nat /\ f.iter + 1 \in Nat \ {0}
      BY <2>1 DEF Frame
    <2>3. wider \in Dom
      BY <2>1, <2>2, ExtrapolateRefineType
    <2> HIDE DEF f, new_pre, wider
    <2> QED
      BY <2>1, <2>2, <2>3, FrameType DEF f
  <1>3. (frames' = SetTop(down) \/ frames' = SetTop(up)) /\ pc' = TopFrame.head
    BY DEF EndAscending
  <1> HIDE DEF down, up
  <1>4. UNCHANGED <<prog, skip, phase>>
    BY DEF EndAscending
  <1>5. WalkStructure' /\ frames' \in Seq(Frame) /\ pc' \in 1 .. Len(prog.wto.order) + 1
    BY <1>1, <1>2, <1>3, <1>4, RepeatStruct
  <1>6. pre' \in [Labels -> Dom]
    BY <1>1, LoopEndFacts DEF EndAscending, TypeOK
  <1>7. TypeOK'
    BY <1>4, <1>5, <1>6 DEF EndAscending, TypeOK, wto
  <1> QED
    BY <1>4, <1>5, <1>7

LEMMA EndDescendingStruct ==
    ASSUME StructInv, EndDescending PROVE StructInv'
  <1> USE DEF StructInv
  <1>1. phase = "walk" /\ AtLoopEnd
    BY DEF EndDescending
  <1> DEFINE f == TopFrame
             refined == Refine(f.inv, JoinAllPrevs(Node(f.head)), f.iter)
             again == FrameOf(f.head, "down", f.iter + 1, refined)
  <1>2. refined \in Dom /\ again \in Frame /\ again.head = TopFrame.head
    <2>1. f \in Frame /\ JoinAllPrevs(Node(f.head)) \in Dom
      BY <1>1, LoopEndFacts
    <2>2. f.inv \in Dom /\ f.head \in Nat /\ f.iter + 1 \in Nat \ {0}
      BY <2>1 DEF Frame
    <2>3. refined \in Dom
      BY <2>1, <2>2, ExtrapolateRefineType
    <2> HIDE DEF f, refined
    <2> QED
      BY <2>1, <2>2, <2>3, FrameType DEF f
  <1>3. \/ frames' = PopFrame /\ pc' = pc
        \/ frames' = SetTop(again) /\ pc' = TopFrame.head
    BY DEF EndDescending
  <1>4. pre' \in [Labels -> Dom]
    BY <1>1, <1>2, LoopEndFacts DEF EndDescending, TypeOK
  <1> HIDE DEF again
  <1>5. UNCHANGED <<prog, skip, phase>>
    BY DEF EndDescending
  <1>6. WalkStructure' /\ frames' \in Seq(Frame) /\ pc' \in 1 .. Len(prog.wto.order) + 1
    BY <1>1, <1>2, <1>3, <1>5, RepeatStruct, LeaveStruct DEF TypeOK, wto
  <1>7. TypeOK'
    BY <1>4, <1>5, <1>6 DEF EndDescending, TypeOK, wto
  <1> QED
    BY <1>5, <1>6, <1>7

LEMMA FinishStruct ==
    ASSUME StructInv, Finish PROVE StructInv'
  <1> USE DEF StructInv
  <1>1. TypeOK'
    BY ProgramsAssumption DEF Finish, TypeOK, wto, OverBound
  <1>2. WalkStructure'
    BY DEF Finish, WalkStructure, Active, wto
  <1> QED
    BY <1>1, <1>2 DEF Finish

LEMMA RunStruct ==
    ASSUME StructInv, Load \/ Execute PROVE StructInv'
  <1> USE DEF StructInv
  <1>1. UNCHANGED <<prog, pre, post, error, failed, exit_value, control, phase>>
    BY DEF Load, Execute
  <1>2. WalkStructure'
    BY <1>1 DEF WalkStructure, Active, wto, control
  <1>3. run' \in [mode : {"running", "halted"}, at : Labels, st : State]
    <2>1. CASE Load
      <3>1. pre[Entry] \in Dom /\ Entry \in Labels
        BY ProgramsAssumption DEF TypeOK
      <3>2. Gamma(pre[Entry]) \subseteq State
        BY <3>1, DomainSound
      <3> QED
        BY <2>1, <3>1, <3>2 DEF Load
    <2>2. CASE Execute
      <3>1. run \in [mode : {"running", "halted"}, at : Labels, st : State]
        <4>1. run.mode = "running"
          BY <2>2 DEF Execute
        <4>2. NotLoaded.mode # "running"
          BY DEF NotLoaded
        <4> QED
          BY <4>1, <4>2 DEF TypeOK
      <3>2. Step(prog.ins[run.at], run.st) \subseteq State
        BY <3>1, WtoFacts, StepsAssumption
      <3> QED
        BY <2>2, <3>1, <3>2, ZenonT(60) DEF Execute
    <2> QED
      BY <2>1, <2>2
  <1>4. TypeOK'
    BY <1>1, <1>3 DEF TypeOK, wto, control
  <1> QED
    BY <1>1, <1>2, <1>4

LEMMA StructStep == StructInv /\ [Next]_vars => StructInv'
  <1> SUFFICES ASSUME StructInv, [Next]_vars PROVE StructInv'
    OBVIOUS
  <1>1. CASE Stopped \/ UNCHANGED vars
    BY <1>1, SMTT(60) DEF Stopped, vars, StructInv, TypeOK, WalkStructure, Active, wto
  <1> QED
    BY <1>1, ProcessNodeStruct, EnterCycleStruct, ProcessHeadStruct, EndAscendingStruct,
       EndDescendingStruct, FinishStruct, RunStruct DEF Next

(***************************************************************************)
(* The walk is well typed and follows the nesting of the order: whatever   *)
(* the program, run pushes and pops its cycles like the recursion of       *)
(* visit_component, and never leaves the order.                            *)
(***************************************************************************)
THEOREM WalkCorrect == Spec => [](TypeOK /\ WalkStructure)
  <1>1. StructInv /\ [Next]_vars => StructInv'
    BY StructStep
  <1>2. StructInv => TypeOK /\ WalkStructure
    BY DEF StructInv
  <1> QED
    BY <1>1, <1>2, StructInit, PTL DEF Spec

-----------------------------------------------------------------------------
(***************************************************************************)
(* The verdict of Fixpoint is sound: whatever program it accepts, and      *)
(* whatever abstract domain satisfies the assumptions, the program never   *)
(* executes an instruction outside of its safe states.                     *)
(*                                                                         *)
(* The argument.  While a cycle is being iterated, the invariant of its    *)
(* head is a guess.  Reach(g, C, e) is what an execution can reach if the  *)
(* guesses C are taken for granted: the states of the entry invariant e,   *)
(* the states of each guess at its head, and everything that steps lead to *)
(* except into a head that has a guess.  The inductive invariant says that *)
(* every position left of pc covers what Reach leads to there, and that    *)
(* the guess of a cycle on its way down covers what Reach leads to at its  *)
(* head when that guess alone is withdrawn.  Hence the guess may be        *)
(* dropped when the cycle is left; with no guess remaining Reach is what   *)
(* the program can do.                                                     *)
(***************************************************************************)

Points == Labels \X State

Guessed(g, C, n) == \E c \in C : g.wto.order[c[1]] = n

Closed(g, C, e, X) ==
    /\ \A s \in Gamma(e) : <<Entry, s>> \in X
    /\ \A c \in C : \A s \in Gamma(c[2]) : <<g.wto.order[c[1]], s>> \in X
    /\ \A m, n \in Labels : \A s, t \in State :
          <<m, n>> \in g.edges /\ <<m, s>> \in X /\ s \in Safe(g.ins[m])
              /\ t \in Step(g.ins[m], s) /\ ~ Guessed(g, C, n)
          => <<n, t>> \in X

Reach(g, C, e) == {x \in Points : \A X \in SUBSET Points : Closed(g, C, e, X) => x \in X}

(***************************************************************************)
(* A set of guesses: positions of heads with values of the domain.         *)
(***************************************************************************)
Guesses(g) == SUBSET (g.wto.heads \X Dom)

LEMMA GuessFacts ==
    ASSUME NEW g \in Programs, NEW C \in Guesses(g), NEW c \in C
    PROVE  /\ c[1] \in g.wto.heads /\ c[2] \in Dom
           /\ c[1] \in 1 .. Len(g.wto.order)
           /\ g.wto.order[c[1]] \in Labels
           /\ Gamma(c[2]) \subseteq State
  <1>1. c \in g.wto.heads \X Dom
    BY DEF Guesses
  <1>2. c[1] \in g.wto.heads /\ c[2] \in Dom
    BY <1>1
  <1> QED
    BY <1>2, WtoFacts, DomainSound, SMTT(60)

(***************************************************************************)
(* Reach is itself closed ...                                              *)
(***************************************************************************)
LEMMA ReachClosed ==
    ASSUME NEW g \in Programs, NEW C \in Guesses(g), NEW e \in Dom
    PROVE  Closed(g, C, e, Reach(g, C, e))
  <1> DEFINE R == Reach(g, C, e)
  <1>1. ASSUME NEW x \in Points, \A X \in SUBSET Points : Closed(g, C, e, X) => x \in X
        PROVE  x \in R
    BY <1>1 DEF Reach
  <1>2. ASSUME NEW x \in R, NEW X \in SUBSET Points, Closed(g, C, e, X)
        PROVE  x \in X
    BY <1>2 DEF Reach
  <1> HIDE DEF R
  <1>3. ASSUME NEW s \in Gamma(e) PROVE <<Entry, s>> \in R
    <2>1. <<Entry, s>> \in Points
      BY DomainSound, ProgramsAssumption DEF Points
    <2>2. \A X \in SUBSET Points : Closed(g, C, e, X) => <<Entry, s>> \in X
      BY DEF Closed
    <2> QED
      BY <1>1, <2>1, <2>2
  <1>4. ASSUME NEW c \in C, NEW s \in Gamma(c[2]) PROVE <<g.wto.order[c[1]], s>> \in R
    <2>1. <<g.wto.order[c[1]], s>> \in Points
      BY GuessFacts DEF Points
    <2>2. \A X \in SUBSET Points : Closed(g, C, e, X) => <<g.wto.order[c[1]], s>> \in X
      BY DEF Closed
    <2> QED
      BY <1>1, <2>1, <2>2
  <1>5. ASSUME NEW m \in Labels, NEW n \in Labels, NEW s \in State, NEW t \in State,
               <<m, n>> \in g.edges, <<m, s>> \in R, s \in Safe(g.ins[m]),
               t \in Step(g.ins[m], s), ~ Guessed(g, C, n)
        PROVE  <<n, t>> \in R
    <2>1. <<n, t>> \in Points
      BY DEF Points
    <2>2. ASSUME NEW X \in SUBSET Points, Closed(g, C, e, X) PROVE <<n, t>> \in X
      <3>1. <<m, s>> \in X
        BY <1>2, <1>5, <2>2
      <3> QED
        BY <1>5, <2>2, <3>1 DEF Closed
    <2> QED
      BY <1>1, <2>1, <2>2
  <1>6. Closed(g, C, e, R)
    BY <1>3, <1>4, <1>5 DEF Closed
  <1> QED
    BY <1>6 DEF R

(***************************************************************************)
(* ... and the least closed set.                                           *)
(***************************************************************************)
LEMMA ReachLeast ==
    ASSUME NEW g, NEW C, NEW e, NEW X \in SUBSET Points, Closed(g, C, e, X)
    PROVE  Reach(g, C, e) \subseteq X
  BY DEF Reach

(***************************************************************************)
(* How a point gets into Reach: from the entry, from a guess, or by a step *)
(* to a label that has none.                                               *)
(***************************************************************************)
LEMMA ReachInversion ==
    ASSUME NEW g \in Programs, NEW C \in Guesses(g), NEW e \in Dom,
           NEW n \in Labels, NEW t \in State, <<n, t>> \in Reach(g, C, e)
    PROVE  \/ n = Entry /\ t \in Gamma(e)
           \/ \E c \in C : g.wto.order[c[1]] = n /\ t \in Gamma(c[2])
           \/ /\ ~ Guessed(g, C, n)
              /\ \E m \in Labels, s \in State :
                    /\ <<m, n>> \in g.edges /\ <<m, s>> \in Reach(g, C, e)
                    /\ s \in Safe(g.ins[m]) /\ t \in Step(g.ins[m], s)
  <1> DEFINE R == Reach(g, C, e)
             Why(a, b) ==
                \/ a = Entry /\ b \in Gamma(e)
                \/ \E c \in C : g.wto.order[c[1]] = a /\ b \in Gamma(c[2])
                \/ /\ ~ Guessed(g, C, a)
                   /\ \E m \in Labels, s \in State :
                         /\ <<m, a>> \in g.edges /\ <<m, s>> \in R
                         /\ s \in Safe(g.ins[m]) /\ b \in Step(g.ins[m], s)
             X == {x \in R : Why(x[1], x[2])}
  <1>1. Closed(g, C, e, R) /\ R \subseteq Points
    BY ReachClosed DEF Reach
  <1>2. \A a \in Labels, b \in State : <<a, b>> \in X <=> <<a, b>> \in R /\ Why(a, b)
    BY ZenonT(60)
  <1> HIDE DEF R, Why, X
  <1>3. X \in SUBSET Points
    BY <1>1 DEF X
  <1>4. ASSUME NEW s \in Gamma(e) PROVE <<Entry, s>> \in X
    <2>1. s \in State /\ Entry \in Labels /\ <<Entry, s>> \in R
      BY <1>1, DomainSound, ProgramsAssumption DEF Closed
    <2> QED
      BY <1>2, <2>1 DEF Why
  <1>5. ASSUME NEW c \in C, NEW s \in Gamma(c[2]) PROVE <<g.wto.order[c[1]], s>> \in X
    <2>1. s \in State /\ g.wto.order[c[1]] \in Labels
      BY GuessFacts
    <2>2. <<g.wto.order[c[1]], s>> \in R
      BY <1>1 DEF Closed
    <2>3. Why(g.wto.order[c[1]], s)
      BY DEF Why
    <2> QED
      BY <1>2, <2>1, <2>2, <2>3
  <1>6. ASSUME NEW m \in Labels, NEW a \in Labels, NEW s \in State, NEW b \in State,
               <<m, a>> \in g.edges, <<m, s>> \in X, s \in Safe(g.ins[m]),
               b \in Step(g.ins[m], s), ~ Guessed(g, C, a)
        PROVE  <<a, b>> \in X
    <2>1. <<m, s>> \in R
      BY <1>2, <1>6
    <2>2. <<a, b>> \in R
      BY <1>1, <1>6, <2>1 DEF Closed
    <2>3. Why(a, b)
      BY <1>6, <2>1 DEF Why
    <2> QED
      BY <1>2, <2>2, <2>3
  <1>7. Closed(g, C, e, X)
    BY <1>4, <1>5, <1>6 DEF Closed
  <1>8. <<n, t>> \in X
    BY <1>3, <1>7, ReachLeast
  <1>9. Why(n, t)
    BY <1>2, <1>8
  <1> QED
    BY <1>9 DEF Why, R

-----------------------------------------------------------------------------
(***************************************************************************)
(* The rest of what is known of the order: positions are unique, an edge   *)
(* goes forward or back to a head around its source, and the entry is not  *)
(* a head because no edge leads to it.                                     *)
(***************************************************************************)
LEMMA OrderFacts ==
    ASSUME NEW g \in Programs
    PROVE  /\ \A p, q \in 1 .. Len(g.wto.order) : g.wto.order[p] = g.wto.order[q] => p = q
           /\ \A p, q \in 1 .. Len(g.wto.order) :
                 <<g.wto.order[p], g.wto.order[q]>> \in g.edges
                 => p < q \/ (q \in g.wto.heads /\ q <= p /\ p <= g.wto.last[q])
           /\ \A p \in 1 .. Len(g.wto.order), n \in Labels : <<g.wto.order[p], n>> \in g.edges
                 => \E q \in 1 .. Len(g.wto.order) : g.wto.order[q] = n
           /\ \A m \in Labels : <<m, Entry>> \notin g.edges
           /\ \A h \in g.wto.heads : g.wto.order[h] # Entry
  <1>1. ProgramOK(g)
    BY ProgramsAssumption
  <1>2. IsWto(g.wto, Entry, g.edges, Labels)
    BY <1>1 DEF ProgramOK
  <1>3. \A p, q \in 1 .. Len(g.wto.order) : g.wto.order[p] = g.wto.order[q] => p = q
    BY <1>2 DEF IsWto, OncePerLabel, Positions
  <1>4. \A p, q \in 1 .. Len(g.wto.order) :
            <<g.wto.order[p], g.wto.order[q]>> \in g.edges
            => p < q \/ (q \in g.wto.heads /\ q <= p /\ p <= g.wto.last[q])
    BY <1>2 DEF IsWto, BackEdgesReturnToHeads, Positions, InCycle
  <1>5. ASSUME NEW p \in 1 .. Len(g.wto.order), NEW n \in Labels,
               <<g.wto.order[p], n>> \in g.edges
        PROVE  \E q \in 1 .. Len(g.wto.order) : g.wto.order[q] = n
    <2>1. \A x \in g.edges : x[1] = g.wto.order[p] =>
              \E q \in 1 .. Len(g.wto.order) : g.wto.order[q] = x[2]
      BY <1>2 DEF IsWto, CoversReachable, Positions
    <2> QED
      BY <1>5, <2>1
  <1>6. \A m \in Labels : <<m, Entry>> \notin g.edges
    <2>1. \A x \in g.edges : x[2] # Entry
      BY <1>1 DEF ProgramOK
    <2> QED
      BY <2>1
  <1>7. ASSUME NEW h \in g.wto.heads, g.wto.order[h] = Entry PROVE FALSE
    <2>1. PICK p \in 1 .. Len(g.wto.order) : <<g.wto.order[p], g.wto.order[h]>> \in g.edges
      BY <1>2 DEF IsWto, HeadsAreTargets, Positions
    <2> QED
      BY <1>6, <1>7, <2>1, WtoFacts
  <1> QED
    BY <1>3, <1>4, <1>5, <1>6, <1>7

(***************************************************************************)
(* Whatever is in Reach has a position in the order.                       *)
(***************************************************************************)
LEMMA ReachHasPosition ==
    ASSUME NEW g \in Programs, NEW C \in Guesses(g), NEW e \in Dom,
           NEW n \in Labels, NEW t \in State, <<n, t>> \in Reach(g, C, e)
    PROVE  \E q \in 1 .. Len(g.wto.order) : g.wto.order[q] = n
  <1> DEFINE Placed(a) == \E q \in 1 .. Len(g.wto.order) : g.wto.order[q] = a
             X == {x \in Points : Placed(x[1])}
  <1>1. \A a \in Labels, b \in State : <<a, b>> \in X <=> Placed(a)
    BY DEF Points
  <1>2. X \in SUBSET Points
    OBVIOUS
  <1>3. Placed(Entry)
    BY WtoFacts
  <1>4. \A c \in C : Placed(g.wto.order[c[1]])
    BY GuessFacts
  <1>5. \A a, b \in Labels : <<a, b>> \in g.edges /\ Placed(a) => Placed(b)
    BY OrderFacts, SMTT(60)
  <1> HIDE DEF Placed, X
  <1>6. Closed(g, C, e, X)
    <2>1. ASSUME NEW s \in Gamma(e) PROVE <<Entry, s>> \in X
      BY <1>1, <1>3, DomainSound, ProgramsAssumption
    <2>2. ASSUME NEW c \in C, NEW s \in Gamma(c[2]) PROVE <<g.wto.order[c[1]], s>> \in X
      BY <1>1, <1>4, GuessFacts
    <2>3. ASSUME NEW m \in Labels, NEW a \in Labels, NEW s \in State, NEW b \in State,
                 <<m, a>> \in g.edges, <<m, s>> \in X
          PROVE  <<a, b>> \in X
      BY <1>1, <1>5, <2>3
    <2> QED
      BY <2>1, <2>2, <2>3 DEF Closed
  <1> QED
    BY <1>1, <1>2, <1>6, ReachLeast DEF Placed

(***************************************************************************)
(* Reach left of a position depends only on the guesses left of it, when   *)
(* every head there without a guess has its whole cycle there too.         *)
(***************************************************************************)
LEMMA ReachLocal ==
    ASSUME NEW g \in Programs, NEW C \in Guesses(g), NEW D \in Guesses(g), NEW e \in Dom,
           NEW b \in Nat,
           \A d \in D : d[1] < b => d \in C,
           \A c \in C : c[1] < b => \E d \in D : d[1] = c[1],
           \A h \in g.wto.heads : h < b /\ ~ (\E d \in D : d[1] = h) => g.wto.last[h] < b,
           NEW q \in 1 .. Len(g.wto.order), q < b,
           NEW t \in State, <<g.wto.order[q], t>> \in Reach(g, D, e)
    PROVE  <<g.wto.order[q], t>> \in Reach(g, C, e)
  <1> DEFINE R == Reach(g, C, e)
             In(a, u) == \E p \in 1 .. Len(g.wto.order) :
                            g.wto.order[p] = a /\ (p < b => <<a, u>> \in R)
             X == {x \in Points : In(x[1], x[2])}
  <1>1. \A a \in Labels, u \in State : <<a, u>> \in X <=> In(a, u)
    BY SMTT(60) DEF Points
  <1>2. X \in SUBSET Points
    OBVIOUS
  <1>3. Closed(g, C, e, R)
    BY ReachClosed
  <1> HIDE DEF R, X
  <1>4. ASSUME NEW s \in Gamma(e) PROVE <<Entry, s>> \in X
    <2>1. s \in State /\ Entry \in Labels /\ <<Entry, s>> \in R
      BY <1>3, DomainSound, ProgramsAssumption DEF Closed
    <2>2. In(Entry, s)
      BY <2>1, WtoFacts
    <2> QED
      BY <1>1, <2>1, <2>2
  <1>5. ASSUME NEW d \in D, NEW s \in Gamma(d[2]) PROVE <<g.wto.order[d[1]], s>> \in X
    <2>1. s \in State /\ g.wto.order[d[1]] \in Labels /\ d[1] \in 1 .. Len(g.wto.order)
      BY GuessFacts
    <2>2. d[1] < b => <<g.wto.order[d[1]], s>> \in R
      BY <1>3 DEF Closed
    <2>3. In(g.wto.order[d[1]], s)
      BY <2>1, <2>2
    <2> QED
      BY <1>1, <2>1, <2>3
  <1>6. ASSUME NEW m \in Labels, NEW a \in Labels, NEW s \in State, NEW u \in State,
               <<m, a>> \in g.edges, <<m, s>> \in X, s \in Safe(g.ins[m]),
               u \in Step(g.ins[m], s), ~ Guessed(g, D, a)
        PROVE  <<a, u>> \in X
    <2>1. PICK p \in 1 .. Len(g.wto.order) : g.wto.order[p] = m /\ (p < b => <<m, s>> \in R)
      BY <1>1, <1>6
    <2>2. PICK r \in 1 .. Len(g.wto.order) : g.wto.order[r] = a
      BY <1>6, <2>1, OrderFacts, SMTT(60)
    <2>3. p < r \/ (r \in g.wto.heads /\ r <= p /\ p <= g.wto.last[r])
      BY <1>6, <2>1, <2>2, OrderFacts
    <2>4. ASSUME r < b PROVE <<a, u>> \in R
      <3>1. ~ (\E d \in D : d[1] = r)
        BY <1>6, <2>2 DEF Guessed
      <3>2. p < b
        <4>1. CASE p < r
          BY <2>4, <4>1
        <4>2. CASE r \in g.wto.heads /\ p <= g.wto.last[r]
          <5>1. g.wto.last[r] < b /\ g.wto.last[r] \in Nat
            BY <2>4, <3>1, <4>2, WtoFacts, SMTT(60)
          <5> QED
            BY <4>2, <5>1, SMTT(60)
        <4> QED
          BY <2>3, <4>1, <4>2
      <3>3. ~ Guessed(g, C, a)
        <4> SUFFICES ASSUME NEW c \in C, g.wto.order[c[1]] = a PROVE FALSE
          BY DEF Guessed
        <4>1. c[1] = r
          BY <2>2, GuessFacts, OrderFacts, SMTT(60)
        <4> QED
          BY <2>4, <3>1, <4>1, SMTT(60)
      <3> QED
        BY <1>3, <1>6, <2>1, <3>2, <3>3 DEF Closed
    <2> QED
      BY <1>1, <2>2, <2>4
  <1>7. Closed(g, D, e, X)
    BY <1>4, <1>5, <1>6 DEF Closed
  <1>8. g.wto.order[q] \in Labels /\ In(g.wto.order[q], t)
    BY <1>1, <1>2, <1>7, ReachLeast, WtoFacts, SMTT(60)
  <1> QED
    BY <1>8, OrderFacts DEF R

(***************************************************************************)
(* Withdrawing the guess <<h, d>> adds nothing to Reach when the states    *)
(* that then reach h by steps from points of Reach are in the guess.       *)
(***************************************************************************)
LEMMA WithdrawGuess ==
    ASSUME NEW g \in Programs, NEW C \in Guesses(g), NEW e \in Dom,
           NEW h \in g.wto.heads, NEW d \in Dom,
           NEW D, D = C \cup {<<h, d>>},
           \A m \in Labels, s \in State, t \in State :
              /\ <<m, g.wto.order[h]>> \in g.edges
              /\ <<m, s>> \in Reach(g, D, e) /\ <<m, s>> \in Reach(g, C, e)
              /\ s \in Safe(g.ins[m]) /\ t \in Step(g.ins[m], s)
              => t \in Gamma(d) \/ (Guessed(g, C, g.wto.order[h]))
    PROVE  Reach(g, C, e) \subseteq Reach(g, D, e)
  <1>1. D \in Guesses(g)
    BY DEF Guesses
  <1> DEFINE RC == Reach(g, C, e)
             RD == Reach(g, D, e)
             X == RC \cap RD
  <1>2. Closed(g, C, e, RC) /\ Closed(g, D, e, RD) /\ RC \subseteq Points
    BY <1>1, ReachClosed DEF Reach
  <1> HIDE DEF RC, RD
  <1>3. ASSUME NEW m \in Labels, NEW a \in Labels, NEW s \in State, NEW u \in State,
               <<m, a>> \in g.edges, <<m, s>> \in X, s \in Safe(g.ins[m]),
               u \in Step(g.ins[m], s), ~ Guessed(g, C, a)
        PROVE  <<a, u>> \in X
    <2>1. <<a, u>> \in RC
      BY <1>2, <1>3 DEF Closed
    <2>2. CASE a = g.wto.order[h]
      <3>1. u \in Gamma(d)
        BY <1>3, <2>2 DEF RC, RD
      <3>2. <<h, d>> \in D /\ <<h, d>>[1] = h /\ <<h, d>>[2] = d
        OBVIOUS
      <3>3. <<a, u>> \in RD
        BY <1>2, <2>2, <3>1, <3>2 DEF Closed
      <3> QED
        BY <2>1, <3>3
    <2>3. CASE a # g.wto.order[h]
      <3>1. ~ Guessed(g, D, a)
        BY <1>3, <2>3 DEF Guessed
      <3>2. <<a, u>> \in RD
        BY <1>2, <1>3, <3>1 DEF Closed
      <3> QED
        BY <2>1, <3>2
    <2> QED
      BY <2>2, <2>3
  <1>4. ASSUME NEW c \in C, NEW s \in Gamma(c[2]) PROVE <<g.wto.order[c[1]], s>> \in X
    <2>1. c \in D
      OBVIOUS
    <2> QED
      BY <1>2, <2>1 DEF Closed
  <1>5. \A s \in Gamma(e) : <<Entry, s>> \in X
    BY <1>2 DEF Closed
  <1>6. Closed(g, C, e, X) /\ X \in SUBSET Points
    BY <1>2, <1>3, <1>4, <1>5 DEF Closed
  <1> HIDE DEF X
  <1>7. RC \subseteq X
    BY <1>6, ReachLeast DEF RC
  <1> QED
    BY <1>7 DEF X, RC, RD

-----------------------------------------------------------------------------
(***************************************************************************)
(* The inductive invariant.                                                *)
(***************************************************************************)
Ctx(fs, k) == {<<fs[i].head, fs[i].inv>> : i \in 1 .. k}
Reached(k) == Reach(prog, Ctx(frames, k), pre[Entry])

Covered(n, s) ==
    /\ s \in Gamma(pre[n])
    /\ IsCounter(prog.ins[n]) \/ s \in Safe(prog.ins[n])
    /\ s \in Safe(prog.ins[n]) => Step(prog.ins[n], s) \subseteq Gamma(post[n])

LeftCovered ==
    \A q \in 1 .. Len(prog.wto.order) : q < pc =>
        \A s \in State : <<Node(q), s>> \in Reached(Len(frames)) => Covered(Node(q), s)

GuessesHold ==
    \A k \in 1 .. Len(frames) : frames[k].dir = "down" =>
        /\ pre[Node(frames[k].head)] = frames[k].inv
        /\ \A s \in State : <<Node(frames[k].head), s>> \in Reached(k - 1) =>
                                s \in Gamma(frames[k].inv)

VerdictHolds ==
    phase = "done" =>
        /\ exit_value = post[Exit]
        /\ \A n \in Labels, s \in State :
              <<n, s>> \in Reach(prog, {}, pre[Entry]) => s \in Safe(prog.ins[n])

RunHolds ==
    run # NotLoaded =>
        /\ Accepted
        /\ run.mode = "running" => <<run.at, run.st>> \in Reach(prog, {}, pre[Entry])
        /\ run.mode = "halted" => run.st \in Gamma(exit_value)

SoundInv ==
    /\ StructInv
    /\ ~ failed => error = {} /\ LeftCovered /\ GuessesHold /\ VerdictHolds
    /\ RunHolds

LEMMA CtxGuesses ==
    ASSUME NEW g \in Programs, NEW fs \in Seq(Frame), NEW k \in 0 .. Len(fs),
           \A i \in 1 .. Len(fs) : fs[i].head \in g.wto.heads
    PROVE  /\ Ctx(fs, k) \in Guesses(g)
           /\ \A i \in 1 .. k : <<fs[i].head, fs[i].inv>> \in Ctx(fs, k)
           /\ \A c \in Ctx(fs, k) : \E i \in 1 .. k :
                 c[1] = fs[i].head /\ c[2] = fs[i].inv /\ c = <<fs[i].head, fs[i].inv>>
  <1>1. \A i \in 1 .. k : i \in 1 .. Len(fs)
    BY LenProperties
  <1>2. \A i \in 1 .. k : fs[i].inv \in Dom
    <2>1. \A i \in 1 .. k : fs[i] \in Frame
      BY <1>1, ElementOfSeq
    <2> QED
      BY <2>1, SMTT(60) DEF Frame
  <1>3. \A i \in 1 .. k : <<fs[i].head, fs[i].inv>> \in g.wto.heads \X Dom
    BY <1>1, <1>2
  <1> QED
    BY <1>3 DEF Ctx, Guesses

LEMMA CtxFacts ==
    ASSUME StructInv, NEW k \in 0 .. Len(frames)
    PROVE  /\ Ctx(frames, k) \in Guesses(prog)
           /\ pre[Entry] \in Dom
           /\ \A i \in 1 .. k : <<frames[i].head, frames[i].inv>> \in Ctx(frames, k)
           /\ \A c \in Ctx(frames, k) : \E i \in 1 .. k :
                 c[1] = frames[i].head /\ c[2] = frames[i].inv /\ c = <<frames[i].head, frames[i].inv>>
  <1>1. pre[Entry] \in Dom
    BY ProgramsAssumption DEF StructInv, TypeOK
  <1>2. frames \in Seq(Frame) /\ prog \in Programs
            /\ \A i \in 1 .. Len(frames) : frames[i].head \in prog.wto.heads
    BY FrameFacts DEF StructInv, TypeOK
  <1> QED
    BY <1>1, <1>2, CtxGuesses

(***************************************************************************)
(* The transfer function covers what it is given, as long as the label has *)
(* no error.                                                               *)
(***************************************************************************)
LEMMA TransformSound ==
    ASSUME StructInv, NEW n \in Labels, NEW d \in Dom, TransformToPost(n, d),
           error = {}, ~ failed'
    PROVE  /\ error' = {}
           /\ \A m \in Labels : m # n => post'[m] = post[m]
           /\ \A s \in Gamma(d) :
                 /\ IsCounter(prog.ins[n]) \/ s \in Safe(prog.ins[n])
                 /\ s \in Safe(prog.ins[n]) => Step(prog.ins[n], s) \subseteq Gamma(post'[n])
  <1>1. prog.ins[n] \in Instr
    BY WtoFacts DEF StructInv
  <1>2. /\ Applies(n, d)
        /\ Transfer(prog.ins[n], d) # Fails
        /\ post' = [post EXCEPT ![n] = Transfer(prog.ins[n], d)]
        /\ error' = error
    BY DEF TransformToPost, SetError
  <1>3. post'[n] = Transfer(prog.ins[n], d) /\ \A m \in Labels : m # n => post'[m] = post[m]
    BY <1>2 DEF StructInv, TypeOK
  <1>4. IsCounter(prog.ins[n]) \/ Gamma(d) \subseteq Safe(prog.ins[n])
    BY <1>1, <1>2, InstructionsSound DEF Applies
  <1>5. \A s \in Gamma(d) \cap Safe(prog.ins[n]) : Step(prog.ins[n], s) \subseteq Gamma(post'[n])
    BY <1>1, <1>2, <1>3, InstructionsSound
  <1> QED
    BY <1>2, <1>3, <1>4, <1>5

(***************************************************************************)
(* What is covered stays covered when the walk goes back to a position, or *)
(* stays where it is, and only the frames from there on change.            *)
(***************************************************************************)
LEMMA CoveredAfterJump ==
    ASSUME StructInv, LeftCovered, StructInv', prog' = prog, post' = post, pc' <= pc,
           pre'[Entry] = pre[Entry],
           \A q \in 1 .. Len(prog.wto.order) : q < pc' => pre'[Node(q)] = pre[Node(q)],
           \A i \in 1 .. Len(frames') : frames'[i].head < pc' =>
              i \in 1 .. Len(frames) /\ frames'[i] = frames[i],
           \A i \in 1 .. Len(frames) : frames[i].head < pc' =>
              i \in 1 .. Len(frames') /\ frames'[i] = frames[i]
    PROVE  LeftCovered'
  <1> DEFINE C == Ctx(frames, Len(frames))
             D == Ctx(frames', Len(frames'))
             e == pre[Entry]
  <1>0. prog \in Programs /\ pc \in Nat /\ pc' \in Nat
    BY DEF StructInv, TypeOK
  <1>1. /\ Len(frames) \in Nat /\ C \in Guesses(prog) /\ e \in Dom
        /\ \A i \in 1 .. Len(frames) : <<frames[i].head, frames[i].inv>> \in C
        /\ \A c \in C : \E i \in 1 .. Len(frames) :
              c[1] = frames[i].head /\ c[2] = frames[i].inv /\ c = <<frames[i].head, frames[i].inv>>
    <2>1. Len(frames) \in 0 .. Len(frames) /\ Len(frames) \in Nat
      BY FrameFacts
    <2> QED
      BY <2>1, CtxFacts
  <1>2. /\ Len(frames') \in Nat /\ D \in Guesses(prog)
        /\ \A i \in 1 .. Len(frames') : <<frames'[i].head, frames'[i].inv>> \in D
        /\ \A d \in D : \E i \in 1 .. Len(frames') :
              d[1] = frames'[i].head /\ d[2] = frames'[i].inv /\ d = <<frames'[i].head, frames'[i].inv>>
    <2>1. frames' \in Seq(Frame) /\ DOMAIN frames' = 1 .. Len(frames') /\ Len(frames') \in Nat
      BY LenProperties DEF StructInv, TypeOK
    <2>2. \A i \in 1 .. Len(frames') : frames'[i].head \in prog.wto.heads
      BY <2>1 DEF StructInv, WalkStructure, wto
    <2>3. Len(frames') \in 0 .. Len(frames')
      BY <2>1
    <2> QED
      BY <1>0, <2>1, <2>2, <2>3, CtxGuesses, SMTT(60)
  <1>3. \A d \in D : d[1] < pc' => d \in C
    BY <1>1, <1>2, SMTT(60)
  <1>4. \A c \in C : c[1] < pc' => \E d \in D : d[1] = c[1]
    <2> SUFFICES ASSUME NEW c \in C, c[1] < pc' PROVE \E d \in D : d[1] = c[1]
      OBVIOUS
    <2>1. PICK i \in 1 .. Len(frames) : c[1] = frames[i].head
      BY <1>1
    <2>2. i \in 1 .. Len(frames') /\ frames'[i] = frames[i]
      BY <2>1
    <2>3. <<frames'[i].head, frames'[i].inv>> \in D
      BY <1>2, <2>2
    <2>4. <<frames'[i].head, frames'[i].inv>>[1] = c[1]
      BY <2>1, <2>2
    <2> QED
      BY <2>3, <2>4
  <1>5. ASSUME NEW h \in prog.wto.heads, h < pc', ~ (\E d \in D : d[1] = h)
        PROVE  prog.wto.last[h] < pc'
    <2>1. ~ Active(h)'
      <3> SUFFICES ASSUME NEW k \in DOMAIN frames', frames'[k].head = h PROVE FALSE
        BY DEF Active
      <3>1. k \in 1 .. Len(frames')
        BY LenProperties, SMTT(60) DEF StructInv, TypeOK
      <3>2. <<frames'[k].head, frames'[k].inv>> \in D
        BY <1>2, <3>1
      <3>3. <<frames'[k].head, frames'[k].inv>>[1] = h
        OBVIOUS
      <3> QED
        BY <1>5, <3>2, <3>3
    <2> QED
      BY <1>5, <2>1 DEF StructInv, WalkStructure, wto
  <1> HIDE DEF C, D, e
  <1>6. ASSUME NEW q \in 1 .. Len(prog.wto.order), q < pc', NEW s \in State,
               <<prog.wto.order[q], s>> \in Reach(prog, D, e)
        PROVE  <<prog.wto.order[q], s>> \in Reach(prog, C, e)
    BY <1>0, <1>1, <1>2, <1>3, <1>4, <1>5, <1>6, ReachLocal
  <1>7. ASSUME NEW q \in 1 .. Len(prog.wto.order), q < pc', NEW s \in State,
               <<Node(q), s>> \in Reach(prog, D, e)
        PROVE  Covered(Node(q), s)'
    <2>1. <<Node(q), s>> \in Reached(Len(frames))
      BY <1>6, <1>7 DEF Node, wto, Reached, C, e
    <2>2. q < pc
      BY <1>0, <1>7
    <2>3. Covered(Node(q), s)
      BY <2>1, <2>2 DEF LeftCovered
    <2> QED
      BY <1>7, <2>3 DEF Covered, Node, wto
  <1> QED
    BY <1>7 DEF LeftCovered, Reached, D, e, Node, wto

(***************************************************************************)
(* A state that a covered point left of pc steps to is in the join over    *)
(* the predecessors of the label it steps to.                              *)
(***************************************************************************)
LEMMA JoinCovers ==
    ASSUME StructInv, LeftCovered, NEW m \in Labels, NEW n \in Labels, n # Entry,
           NEW s \in State, NEW t \in State,
           NEW p \in 1 .. Len(prog.wto.order), p < pc, Node(p) = m,
           <<m, n>> \in prog.edges, <<m, s>> \in Reached(Len(frames)),
           s \in Safe(prog.ins[m]), t \in Step(prog.ins[m], s)
    PROVE  t \in Gamma(JoinAllPrevs(n))
  <1>1. t \in Gamma(post[m])
    BY DEF LeftCovered, Covered
  <1>2. m \in Parents(n)
    BY DEF Parents
  <1> DEFINE S == {post[x] : x \in Parents(n)}
  <1>3. S \in SUBSET Dom /\ post[m] \in S
    BY <1>2, JoinAllType DEF StructInv, TypeOK, Parents
  <1> HIDE DEF S
  <1>4. Gamma(post[m]) \subseteq Gamma(JoinAll(S))
    BY <1>3, DomainSound
  <1> QED
    BY <1>1, <1>4 DEF JoinAllPrevs, S

(***************************************************************************)
(* At the end of an iteration whose guess is a post-fixpoint, or was found *)
(* from one, the guess may be withdrawn; the join over the predecessors of *)
(* the head then covers what reaches it.                                   *)
(***************************************************************************)
LEMMA GuessWithdrawn ==
    ASSUME StructInv, LeftCovered, GuessesHold, phase = "walk", AtLoopEnd,
           \/ TopFrame.dir = "down"
           \/ Leq(JoinAllPrevs(Node(TopFrame.head)), TopFrame.inv)
    PROVE  /\ Reached(Len(frames) - 1) \subseteq Reached(Len(frames))
           /\ \A t \in State : <<Node(TopFrame.head), t>> \in Reached(Len(frames) - 1) =>
                 t \in Gamma(TopFrame.inv) /\ t \in Gamma(JoinAllPrevs(Node(TopFrame.head)))
  <1> DEFINE L == Len(frames)
             H == TopFrame.head
             d == TopFrame.inv
             n == Node(H)
             C == Ctx(frames, L - 1)
             D == Ctx(frames, L)
             e == pre[Entry]
             new_pre == JoinAllPrevs(n)
  <1>0. /\ prog \in Programs /\ L \in Nat \ {0} /\ L \in 0 .. L /\ L - 1 \in 0 .. L
        /\ H \in prog.wto.heads /\ H \in 1 .. Len(prog.wto.order) /\ d \in Dom
        /\ n \in Labels /\ n = prog.wto.order[H] /\ new_pre \in Dom
        /\ pc = prog.wto.last[H] + 1 /\ prog.wto.last[H] \in Nat /\ H <= prog.wto.last[H]
    BY FrameFacts, LoopEndFacts, WtoFacts, SMTT(60) DEF StructInv, TopFrame, Node, wto
  <1>1. n # Entry
    BY <1>0, OrderFacts, SMTT(60)
  <1>2. C \in Guesses(prog) /\ D \in Guesses(prog) /\ e \in Dom
    BY <1>0, CtxFacts, SMTT(60)
  <1>3. D = C \cup {<<H, d>>}
    BY <1>0, SMTT(60) DEF Ctx, TopFrame
  <1>4. ~ Guessed(prog, C, n)
    <2> SUFFICES ASSUME NEW c \in C, prog.wto.order[c[1]] = n PROVE FALSE
      BY DEF Guessed
    <2>1. PICK i \in 1 .. L - 1 : c[1] = frames[i].head
      BY <1>0, CtxFacts, ZenonT(60)
    <2>2. i \in 1 .. L /\ i \in DOMAIN frames /\ L \in DOMAIN frames /\ i < L
      BY <1>0, FrameFacts, SMTT(60)
    <2>3. frames[i].head < H /\ frames[i].head \in 1 .. Len(prog.wto.order)
      BY <2>2, FrameFacts DEF StructInv, WalkStructure, TopFrame
    <2>4. frames[i].head = H
      BY <1>0, <2>1, <2>3, OrderFacts, SMTT(60)
    <2> QED
      BY <1>0, <2>3, <2>4
  <1> HIDE DEF C, D, e
  <1>5. ASSUME NEW m \in Labels, NEW s \in State, NEW t \in State,
               <<m, n>> \in prog.edges, <<m, s>> \in Reach(prog, D, e),
               s \in Safe(prog.ins[m]), t \in Step(prog.ins[m], s)
        PROVE  t \in Gamma(new_pre)
    <2>1. PICK p \in 1 .. Len(prog.wto.order) : prog.wto.order[p] = m
      BY <1>0, <1>2, <1>5, ReachHasPosition, SMTT(60)
    <2>2. p < H \/ p <= prog.wto.last[H]
      BY <1>0, <1>5, <2>1, OrderFacts
    <2>3. p < pc
      BY <1>0, <2>2, SMTT(60)
    <2>4. <<m, s>> \in Reached(Len(frames)) /\ Node(p) = m
      BY <1>5, <2>1 DEF Reached, D, e, Node, wto
    <2> QED
      BY <1>0, <1>1, <1>5, <2>3, <2>4, JoinCovers
  <1>6. ASSUME NEW m \in Labels, NEW s \in State, NEW t \in State,
               <<m, n>> \in prog.edges, <<m, s>> \in Reach(prog, D, e),
               <<m, s>> \in Reach(prog, C, e),
               s \in Safe(prog.ins[m]), t \in Step(prog.ins[m], s)
        PROVE  t \in Gamma(d)
    <2>1. CASE TopFrame.dir = "down"
      <3>1. <<n, t>> \in Reach(prog, C, e)
        BY <1>0, <1>2, <1>4, <1>6, ReachClosed DEF Closed
      <3>2. <<n, t>> \in Reached(L - 1)
        BY <3>1 DEF Reached, C, e
      <3>3. L \in 1 .. Len(frames) /\ frames[L].dir = "down"
        BY <1>0, <2>1 DEF TopFrame
      <3> QED
        BY <3>2, <3>3 DEF GuessesHold, TopFrame
    <2>2. CASE Leq(new_pre, d)
      <3>1. Gamma(new_pre) \subseteq Gamma(d)
        BY <1>0, <2>2, DomainSound, SMTT(60)
      <3> QED
        BY <1>5, <1>6, <3>1
    <2> QED
      BY <2>1, <2>2
  <1>7. Reach(prog, C, e) \subseteq Reach(prog, D, e)
    <2>1. n = prog.wto.order[H]
      BY <1>0
    <2> HIDE DEF n, H, d
    <2> QED
      BY <1>0, <1>2, <1>3, <1>6, <2>1, WithdrawGuess, SMTT(60)
  <1>8. ASSUME NEW t \in State, <<n, t>> \in Reach(prog, C, e)
        PROVE  t \in Gamma(d) /\ t \in Gamma(new_pre)
    <2>1. PICK m \in Labels, s \in State :
              /\ <<m, n>> \in prog.edges /\ <<m, s>> \in Reach(prog, C, e)
              /\ s \in Safe(prog.ins[m]) /\ t \in Step(prog.ins[m], s)
      BY <1>0, <1>1, <1>2, <1>4, <1>8, ReachInversion, ZenonT(60) DEF Guessed
    <2> QED
      BY <1>5, <1>6, <1>7, <2>1
  <1> QED
    BY <1>7, <1>8, SMTT(60) DEF Reached, C, D, e

-----------------------------------------------------------------------------
(***************************************************************************)
(* Each action keeps the invariant.                                        *)
(***************************************************************************)
LEMMA SoundInit == Init => SoundInv
  <1> SUFFICES ASSUME Init PROVE SoundInv
    OBVIOUS
  <1>1. StructInv
    BY StructInit
  <1>2. error = {} /\ VerdictHolds /\ RunHolds
    BY DEF Init, VerdictHolds, RunHolds
  <1>3. \A q \in 1 .. Len(prog.wto.order) : ~ (q < pc)
    BY <1>1, WtoFacts DEF Init, StructInv
  <1>4. LeftCovered
    BY <1>3 DEF LeftCovered
  <1>5. GuessesHold
    BY DEF Init, GuessesHold
  <1> QED
    BY <1>1, <1>2, <1>4, <1>5 DEF SoundInv

LEMMA WalkNotRunning ==
    ASSUME SoundInv, phase = "walk" PROVE run = NotLoaded
  BY DEF SoundInv, RunHolds, Accepted

LEMMA ProcessNodeSound ==
    ASSUME SoundInv, ProcessNode PROVE SoundInv'
  <1> DEFINE n == Node(pc)
             d == JoinAllPrevs(n)
  <1>1. StructInv /\ StructInv' /\ AtComponent /\ phase = "walk" /\ prog \in Programs
    BY ProcessNodeStruct DEF SoundInv, ProcessNode, AtComponent, StructInv
  <1>2. RunHolds'
    BY <1>1, WalkNotRunning DEF ProcessNode, RunHolds
  <1>3. SUFFICES ASSUME ~ failed'
                 PROVE  (error = {} /\ LeftCovered /\ GuessesHold /\ VerdictHolds)'
    BY <1>1, <1>2 DEF SoundInv
  <1>4. n \in Labels /\ d \in Dom /\ pc \in 1 .. Len(prog.wto.order) /\ n = prog.wto.order[pc]
            /\ pc \notin prog.wto.heads
    BY <1>1, AtComponentInside, JoinAllPrevsType DEF StructInv, ProcessNode, wto, Node
  <1>5. /\ pre' = [pre EXCEPT ![n] = d] /\ TransformToPost(n, d)
        /\ pc' = pc + 1 /\ prog' = prog /\ frames' = frames /\ phase' = phase
    <2>1. ~ skip'
      BY WtoFacts DEF ProcessNode, WalkStructure, Node, wto, SoundInv, StructInv
    <2> QED
      BY <2>1 DEF ProcessNode
  <1>6. ~ failed
    BY <1>1, <1>3, <1>4, <1>5, TransformToPostType DEF StructInv
  <1>7. error = {} /\ LeftCovered /\ GuessesHold
    BY <1>6 DEF SoundInv
  <1>8. /\ error' = {}
        /\ \A m \in Labels : m # n => post'[m] = post[m]
        /\ \A s \in Gamma(d) :
              /\ IsCounter(prog.ins[n]) \/ s \in Safe(prog.ins[n])
              /\ s \in Safe(prog.ins[n]) => Step(prog.ins[n], s) \subseteq Gamma(post'[n])
    BY <1>1, <1>3, <1>4, <1>5, <1>7, TransformSound
  <1>9. pre'[n] = d /\ \A m \in Labels : m # n => pre'[m] = pre[m]
    BY <1>1, <1>4, <1>5 DEF StructInv, TypeOK
  <1>10. pre'[Entry] = pre[Entry]
    BY <1>4, <1>9, ProgramsAssumption DEF JoinAllPrevs
  <1>11. \A q \in 1 .. Len(prog.wto.order) : q # pc => Node(q) # n /\ Node(q) \in Labels
    BY <1>1, <1>4, OrderFacts, WtoFacts DEF Node, wto
  <1>12. Reached(Len(frames))' = Reached(Len(frames))
    BY <1>5, <1>10 DEF Reached
  <1>13. ASSUME NEW s \in State, <<n, s>> \in Reached(Len(frames))
         PROVE  s \in Gamma(d)
    <2> DEFINE C == Ctx(frames, Len(frames))
    <2>1. C \in Guesses(prog) /\ pre[Entry] \in Dom
      <3>1. Len(frames) \in 0 .. Len(frames)
        BY <1>1, FrameFacts
      <3> QED
        BY <1>1, <3>1, CtxFacts
    <2>2. ~ (\E c \in C : prog.wto.order[c[1]] = n)
      <3> SUFFICES ASSUME NEW c \in C, prog.wto.order[c[1]] = n PROVE FALSE
        OBVIOUS
      <3>1. c[1] \in prog.wto.heads /\ c[1] \in 1 .. Len(prog.wto.order)
        BY <1>1, <2>1, GuessFacts
      <3> QED
        BY <1>1, <1>4, <3>1, OrderFacts
    <2> HIDE DEF C
    <2>3. <<n, s>> \in Reach(prog, C, pre[Entry])
      BY <1>13 DEF Reached, C
    <2>4. CASE n = Entry
      <3>1. \A m \in Labels : <<m, n>> \notin prog.edges
        BY <1>1, <2>4, OrderFacts
      <3>2. s \in Gamma(pre[Entry])
        BY <1>1, <1>4, <2>1, <2>2, <2>3, <3>1, ReachInversion, ZenonT(60)
      <3> QED
        BY <2>4, <3>2 DEF JoinAllPrevs
    <2>5. CASE n # Entry
      <3>1. PICK m \in Labels, u \in State :
                /\ <<m, n>> \in prog.edges /\ <<m, u>> \in Reach(prog, C, pre[Entry])
                /\ u \in Safe(prog.ins[m]) /\ s \in Step(prog.ins[m], u)
        BY <1>1, <1>4, <2>1, <2>2, <2>3, <2>5, ReachInversion, ZenonT(60)
      <3>2. PICK p \in 1 .. Len(prog.wto.order) : prog.wto.order[p] = m
        BY <1>1, <2>1, <3>1, ReachHasPosition
      <3>3. p < pc
        BY <1>1, <1>4, <3>1, <3>2, OrderFacts, SMTT(60)
      <3>4. <<m, u>> \in Reached(Len(frames)) /\ Node(p) = m
        BY <3>1, <3>2 DEF Reached, C, Node, wto
      <3> QED
        BY <1>1, <1>4, <1>7, <2>5, <3>1, <3>3, <3>4, JoinCovers
    <2> QED
      BY <2>4, <2>5
  <1>14. LeftCovered'
    <2> SUFFICES ASSUME NEW q \in 1 .. Len(prog.wto.order), q < pc + 1, NEW s \in State,
                        <<Node(q), s>> \in Reached(Len(frames))
                 PROVE  Covered(Node(q), s)'
      BY <1>5, <1>12, SMTT(60) DEF LeftCovered, Node, wto
    <2>1. CASE q = pc
      <3>1. s \in Gamma(d)
        BY <1>13, <2>1
      <3> QED
        BY <1>5, <1>8, <1>9, <2>1, <3>1, SMTT(60) DEF Covered, Node, wto
    <2>2. CASE q < pc
      <3>1. Covered(Node(q), s)
        BY <1>7, <2>2 DEF LeftCovered
      <3>2. Node(q) # n /\ Node(q) \in Labels
        BY <1>4, <1>11, <2>2
      <3> QED
        BY <1>5, <1>8, <1>9, <3>1, <3>2, SMTT(60) DEF Covered, Node, wto
    <2> QED
      BY <1>4, <2>1, <2>2
  <1>15. GuessesHold'
    <2> SUFFICES ASSUME NEW k \in 1 .. Len(frames), frames[k].dir = "down"
                 PROVE  /\ pre'[Node(frames[k].head)] = frames[k].inv
                        /\ \A s \in State : <<Node(frames[k].head), s>> \in Reached(k - 1) =>
                              s \in Gamma(frames[k].inv)
      BY <1>5, <1>10 DEF GuessesHold, Node, wto, Reached
    <2>1. frames[k].head \in 1 .. Len(prog.wto.order) /\ frames[k].head # pc
      BY <1>1, <1>4, AtComponentInside, FrameFacts
    <2>2. pre'[Node(frames[k].head)] = pre[Node(frames[k].head)]
      BY <1>9, <1>11, <2>1
    <2> QED
      BY <1>7, <2>2, SMTT(60) DEF GuessesHold
  <1>16. VerdictHolds'
    BY <1>1, <1>5 DEF VerdictHolds
  <1> QED
    BY <1>8, <1>14, <1>15, <1>16

LEMMA ProcessHeadSound ==
    ASSUME SoundInv, ProcessHead PROVE SoundInv'
  <1> DEFINE n == Node(pc)
             d == TopFrame.inv
             L == Len(frames)
  <1>1. StructInv /\ StructInv' /\ phase = "walk" /\ prog \in Programs
    BY ProcessHeadStruct DEF SoundInv, ProcessHead, StructInv
  <1>2. RunHolds'
    BY <1>1, WalkNotRunning DEF ProcessHead, RunHolds
  <1>3. SUFFICES ASSUME ~ failed'
                 PROVE  (error = {} /\ LeftCovered /\ GuessesHold /\ VerdictHolds)'
    BY <1>1, <1>2, SMTT(60) DEF SoundInv
  <1>4. /\ L \in 1 .. L /\ L \in 0 .. L
        /\ pc = TopFrame.head /\ pc \in prog.wto.heads /\ pc \in 1 .. Len(prog.wto.order)
        /\ n \in Labels /\ n = prog.wto.order[pc] /\ d \in Dom
    BY <1>1, FrameFacts DEF ProcessHead, AtHead, TopFrame, Node, wto
  <1>5. /\ TransformToPost(n, d)
        /\ pc' = pc + 1 /\ prog' = prog /\ frames' = frames /\ phase' = phase
        /\ pre' = IF TopFrame.dir = "up" THEN [pre EXCEPT ![n] = d] ELSE pre
    BY DEF ProcessHead
  <1>6. ~ failed
    BY <1>1, <1>3, <1>4, <1>5, TransformToPostType, SMTT(60) DEF StructInv
  <1>7. error = {} /\ LeftCovered /\ GuessesHold
    BY <1>6 DEF SoundInv
  <1>8. /\ error' = {}
        /\ \A m \in Labels : m # n => post'[m] = post[m]
        /\ \A s \in Gamma(d) :
              /\ IsCounter(prog.ins[n]) \/ s \in Safe(prog.ins[n])
              /\ s \in Safe(prog.ins[n]) => Step(prog.ins[n], s) \subseteq Gamma(post'[n])
    BY <1>1, <1>3, <1>4, <1>5, <1>7, TransformSound
  <1>9. pre'[n] = d /\ \A m \in Labels : m # n => pre'[m] = pre[m]
    <2>1. CASE TopFrame.dir = "up"
      BY <1>1, <1>4, <1>5, <2>1, SMTT(60) DEF StructInv, TypeOK
    <2>2. CASE TopFrame.dir = "down"
      BY <1>4, <1>5, <1>7, <2>2, SMTT(60) DEF GuessesHold, TopFrame
    <2>3. TopFrame \in Frame
      BY <1>1, <1>4, FrameFacts, SMTT(60) DEF TopFrame
    <2> QED
      BY <2>1, <2>2, <2>3 DEF Frame
  <1>10. pre'[Entry] = pre[Entry]
    BY <1>1, <1>4, <1>9, OrderFacts, ProgramsAssumption
  <1>11. \A q \in 1 .. Len(prog.wto.order) : q # pc => Node(q) # n /\ Node(q) \in Labels
    BY <1>1, <1>4, OrderFacts, WtoFacts, SMTT(60) DEF Node, wto
  <1>12. Reached(L)' = Reached(L)
    BY <1>5, <1>10 DEF Reached
  <1>13. ASSUME NEW s \in State, <<n, s>> \in Reached(L)
         PROVE  s \in Gamma(d)
    <2> DEFINE C == Ctx(frames, L)
    <2>1. /\ C \in Guesses(prog) /\ pre[Entry] \in Dom
          /\ \A c \in C : \E i \in 1 .. L : c[1] = frames[i].head /\ c[2] = frames[i].inv
          /\ <<frames[L].head, frames[L].inv>> \in C
      BY <1>1, <1>4, CtxFacts
    <2>2. n # Entry
      BY <1>1, <1>4, OrderFacts
    <2>3. Guessed(prog, C, n)
      BY <1>4, <2>1, SMTT(60) DEF Guessed, TopFrame
    <2>4. <<n, s>> \in Reach(prog, C, pre[Entry])
      BY <1>13 DEF Reached
    <2> HIDE DEF C
    <2>5. PICK c \in C : prog.wto.order[c[1]] = n /\ s \in Gamma(c[2])
      BY <1>1, <1>4, <2>1, <2>2, <2>3, <2>4, ReachInversion
    <2>6. PICK i \in 1 .. L : c[1] = frames[i].head /\ c[2] = frames[i].inv
      BY <2>1, <2>5
    <2>7. frames[i].head = pc
      BY <1>1, <1>4, <2>5, <2>6, FrameFacts, OrderFacts, SMTT(60)
    <2>8. i = L
      <3>1. i \in DOMAIN frames /\ L \in DOMAIN frames /\ L \in Nat
        BY <1>1, <1>4, <2>6, FrameFacts
      <3>2. i < L => frames[i].head < TopFrame.head
        BY <1>1, <3>1 DEF StructInv, WalkStructure, TopFrame
      <3> QED
        BY <1>4, <2>6, <2>7, <3>1, <3>2
    <2> QED
      BY <2>5, <2>6, <2>8 DEF TopFrame
  <1>14. LeftCovered'
    <2> SUFFICES ASSUME NEW q \in 1 .. Len(prog.wto.order), q < pc + 1, NEW s \in State,
                        <<Node(q), s>> \in Reached(L)
                 PROVE  Covered(Node(q), s)'
      BY <1>5, <1>12, SMTT(60) DEF LeftCovered, Node, wto
    <2>1. CASE q = pc
      <3>1. s \in Gamma(d)
        BY <1>13, <2>1
      <3> QED
        BY <1>5, <1>8, <1>9, <2>1, <3>1, SMTT(60) DEF Covered, Node, wto
    <2>2. CASE q < pc
      <3>1. Covered(Node(q), s)
        BY <1>7, <2>2 DEF LeftCovered
      <3>2. Node(q) # n /\ Node(q) \in Labels
        BY <1>4, <1>11, <2>2, SMTT(60)
      <3> QED
        BY <1>5, <1>8, <1>9, <3>1, <3>2, SMTT(60) DEF Covered, Node, wto
    <2> QED
      BY <1>4, <2>1, <2>2
  <1>15. GuessesHold'
    <2> SUFFICES ASSUME NEW k \in 1 .. L, frames[k].dir = "down"
                 PROVE  /\ pre'[Node(frames[k].head)] = frames[k].inv
                        /\ \A s \in State : <<Node(frames[k].head), s>> \in Reached(k - 1) =>
                              s \in Gamma(frames[k].inv)
      BY <1>5, <1>10 DEF GuessesHold, Node, wto, Reached
    <2>1. pre[Node(frames[k].head)] = frames[k].inv
      BY <1>7 DEF GuessesHold
    <2>2. CASE k = L
      BY <1>5, <1>7, <2>1, <2>2 DEF GuessesHold, TopFrame
    <2>3. CASE k # L
      <3>1. k \in DOMAIN frames /\ L \in DOMAIN frames /\ k < L
        <4>1. L \in Nat /\ DOMAIN frames = 1 .. L
          BY <1>1, FrameFacts, SMTT(60)
        <4> HIDE DEF L
        <4> QED
          BY <2>3, <4>1
      <3>2. frames[k].head # pc /\ frames[k].head \in 1 .. Len(prog.wto.order)
        BY <1>1, <1>4, <3>1, FrameFacts DEF StructInv, WalkStructure, TopFrame
      <3>3. pre'[Node(frames[k].head)] = pre[Node(frames[k].head)]
        BY <1>9, <1>11, <3>2
      <3> QED
        BY <1>7, <2>1, <3>3 DEF GuessesHold
    <2> QED
      BY <2>2, <2>3
  <1>16. VerdictHolds'
    BY <1>1, <1>5 DEF VerdictHolds
  <1> QED
    BY <1>8, <1>14, <1>15, <1>16

(***************************************************************************)
(* A frame that is left alone keeps what is known of its guess.            *)
(***************************************************************************)
LEMMA GuessKept ==
    ASSUME GuessesHold, prog' = prog, pre'[Entry] = pre[Entry],
           NEW k \in 1 .. Len(frames), \A i \in 1 .. k : frames'[i] = frames[i],
           frames[k].dir = "down",
           pre'[Node(frames[k].head)] = pre[Node(frames[k].head)]
    PROVE  /\ pre'[Node(frames[k].head)] = frames'[k].inv
           /\ \A s \in State : <<Node(frames[k].head), s>> \in
                    Reach(prog, Ctx(frames', k - 1), pre'[Entry]) => s \in Gamma(frames'[k].inv)
  <1>1. k \in 1 .. k /\ \A i \in 1 .. k - 1 : i \in 1 .. k
    OBVIOUS
  <1>2. frames'[k] = frames[k] /\ \A i \in 1 .. k - 1 : frames'[i] = frames[i]
    BY <1>1
  <1>3. Ctx(frames', k - 1) = Ctx(frames, k - 1)
    BY <1>2, SMTT(60) DEF Ctx
  <1> QED
    BY <1>2, <1>3 DEF GuessesHold, Reached

LEMMA EnterCycleSound ==
    ASSUME SoundInv, EnterCycle PROVE SoundInv'
  <1>1. StructInv /\ StructInv' /\ AtComponent /\ phase = "walk" /\ prog \in Programs
    BY EnterCycleStruct DEF SoundInv, EnterCycle, AtComponent, StructInv
  <1>2. UNCHANGED <<prog, pre, post, error, failed, exit_value, phase, run>>
    BY DEF EnterCycle
  <1>3. RunHolds'
    BY <1>1, <1>2, WalkNotRunning DEF RunHolds
  <1>4. SUFFICES ASSUME ~ failed
                 PROVE  (error = {} /\ LeftCovered /\ GuessesHold /\ VerdictHolds)'
    BY <1>1, <1>2, <1>3 DEF SoundInv
  <1>5. error = {} /\ LeftCovered /\ GuessesHold
    BY <1>4 DEF SoundInv
  <1>6. PICK d : frames' = Append(frames, FrameOf(pc, "up", 1, d)) /\ pc' = pc
    <2>1. ~ skip'
      <3>1. skip => pc = 1 /\ Node(1) = Entry /\ 1 \in Positions(wto) /\ InCycle(wto, 1, 1)
        BY <1>1, WtoFacts DEF StructInv, WalkStructure, Node, wto, Positions, InCycle
      <3> QED
        BY <3>1 DEF EnterCycle
    <2> QED
      BY <2>1 DEF EnterCycle
  <1>7. /\ Len(frames) \in Nat /\ Len(frames') = Len(frames) + 1
        /\ \A i \in 1 .. Len(frames) : frames'[i] = frames[i]
        /\ frames'[Len(frames) + 1] = FrameOf(pc, "up", 1, d)
    <2>1. frames \in Seq(Frame)
      BY <1>1 DEF StructInv, TypeOK
    <2> QED
      BY <1>6, <2>1
  <1>8. FrameOf(pc, "up", 1, d).head = pc /\ FrameOf(pc, "up", 1, d).dir = "up"
    BY DEF FrameOf
  <1>9. pc \in Nat
    BY <1>1, AtComponentInside
  <1>10. LeftCovered'
    <2>1. \A i \in 1 .. Len(frames') : frames'[i].head < pc' =>
              i \in 1 .. Len(frames) /\ frames'[i] = frames[i]
      BY <1>6, <1>7, <1>8, <1>9
    <2>2. \A i \in 1 .. Len(frames) : frames[i].head < pc' =>
              i \in 1 .. Len(frames') /\ frames'[i] = frames[i]
      BY <1>7
    <2>3. pc' <= pc
      BY <1>6, <1>9
    <2> QED
      BY <1>1, <1>2, <1>5, <2>1, <2>2, <2>3, CoveredAfterJump
  <1>11. GuessesHold'
    <2> SUFFICES ASSUME NEW k \in 1 .. Len(frames) + 1, frames'[k].dir = "down"
                 PROVE  /\ pre'[Node(frames'[k].head)] = frames'[k].inv
                        /\ \A s \in State : <<Node(frames'[k].head), s>> \in
                              Reach(prog, Ctx(frames', k - 1), pre'[Entry])
                              => s \in Gamma(frames'[k].inv)
      BY <1>2, <1>7, SMTT(60) DEF GuessesHold, Reached, Node, wto
    <2>1. k \in 1 .. Len(frames)
      BY <1>7, <1>8
    <2>2. \A i \in 1 .. k : frames'[i] = frames[i]
      BY <1>7, <2>1
    <2>3. frames'[k] = frames[k]
      BY <1>7, <2>1
    <2> QED
      BY <1>2, <1>5, <2>1, <2>2, <2>3, GuessKept, SMTT(60)
  <1>12. VerdictHolds'
    BY <1>1, <1>2 DEF VerdictHolds
  <1> QED
    BY <1>2, <1>5, <1>10, <1>11, <1>12

(***************************************************************************)
(* Going back to the head of the top frame with the frame f.               *)
(***************************************************************************)
LEMMA RepeatSound ==
    ASSUME StructInv, StructInv', LeftCovered, GuessesHold, phase = "walk", AtLoopEnd,
           NEW f \in Frame, f.head = TopFrame.head, frames' = SetTop(f), pc' = TopFrame.head,
           UNCHANGED <<prog, post>>,
           \A m \in Labels : m # Node(TopFrame.head) => pre'[m] = pre[m],
           f.dir = "down" =>
              /\ pre'[Node(TopFrame.head)] = f.inv
              /\ \A s \in State : <<Node(TopFrame.head), s>> \in Reached(Len(frames) - 1) =>
                                      s \in Gamma(f.inv)
    PROVE  LeftCovered' /\ GuessesHold'
  <1> DEFINE L == Len(frames)
             H == TopFrame.head
  <1>1. /\ prog \in Programs /\ L \in Nat \ {0} /\ DOMAIN frames = 1 .. L
        /\ H \in prog.wto.heads /\ H \in 1 .. Len(prog.wto.order)
        /\ pc = prog.wto.last[H] + 1 /\ prog.wto.last[H] \in Nat /\ H <= prog.wto.last[H]
    BY FrameFacts, LoopEndFacts, WtoFacts, SMTT(60) DEF StructInv
  <1>2. /\ Len(frames') = L
        /\ \A i \in 1 .. L - 1 : frames'[i] = frames[i]
        /\ frames'[L] = f
    <2>1. frames # <<>> /\ frames \in Seq(Frame)
      BY SMTT(60) DEF AtLoopEnd, StructInv, TypeOK
    <2> QED
      BY <2>1, ReplaceFrame DEF SetTop
  <1>3. \A q \in 1 .. Len(prog.wto.order) : q # H => pre'[Node(q)] = pre[Node(q)]
    BY <1>1, OrderFacts, WtoFacts, SMTT(60) DEF Node, wto
  <1>4. pre'[Entry] = pre[Entry]
    BY <1>1, OrderFacts, ProgramsAssumption, SMTT(60) DEF Node, wto
  <1>5. \A i \in 1 .. L - 1 : frames[i].head < H /\ frames[i].head \in 1 .. Len(prog.wto.order)
    <2> SUFFICES ASSUME NEW i \in 1 .. L - 1
                 PROVE  frames[i].head < H /\ frames[i].head \in 1 .. Len(prog.wto.order)
      OBVIOUS
    <2>1. i \in DOMAIN frames /\ L \in DOMAIN frames /\ i < L /\ i \in 1 .. L
      BY <1>1
    <2> QED
      BY <2>1, FrameFacts DEF StructInv, WalkStructure, TopFrame
  <1>6. LeftCovered'
    <2>1. \A i \in 1 .. Len(frames') : frames'[i].head < pc' =>
              i \in 1 .. Len(frames) /\ frames'[i] = frames[i]
      BY <1>1, <1>2
    <2>2. \A i \in 1 .. Len(frames) : frames[i].head < pc' =>
              i \in 1 .. Len(frames') /\ frames'[i] = frames[i]
      BY <1>1, <1>2, SMTT(60) DEF TopFrame
    <2>3. pc' <= pc
      BY <1>1, SMTT(60)
    <2>4. \A q \in 1 .. Len(prog.wto.order) : q < pc' => pre'[Node(q)] = pre[Node(q)]
      BY <1>1, <1>3
    <2> QED
      BY <1>4, <2>1, <2>2, <2>3, <2>4, CoveredAfterJump
  <1>7. GuessesHold'
    <2> SUFFICES ASSUME NEW k \in 1 .. L, frames'[k].dir = "down"
                 PROVE  /\ pre'[Node(frames'[k].head)] = frames'[k].inv
                        /\ \A s \in State : <<Node(frames'[k].head), s>> \in
                              Reach(prog, Ctx(frames', k - 1), pre'[Entry])
                              => s \in Gamma(frames'[k].inv)
      BY <1>2 DEF GuessesHold, Reached, Node, wto
    <2>1. CASE k = L
      <3>1. Ctx(frames', L - 1) = Ctx(frames, L - 1)
        BY <1>2, SMTT(60) DEF Ctx
      <3> QED
        BY <1>2, <1>4, <2>1, <3>1 DEF Reached
    <2>2. CASE k # L
      <3>1. k \in 1 .. L - 1 /\ \A i \in 1 .. k : i \in 1 .. L - 1
        <4>1. L \in Nat
          BY <1>1
        <4> HIDE DEF L
        <4> QED
          BY <2>2, <4>1
      <3>2. frames'[k] = frames[k] /\ \A i \in 1 .. k : frames'[i] = frames[i]
        BY <1>2, <3>1
      <3>3. pre'[Node(frames[k].head)] = pre[Node(frames[k].head)]
        BY <1>1, <1>3, <1>5, <3>1, SMTT(60)
      <3> QED
        BY <1>4, <3>2, <3>3, GuessKept
    <2> QED
      BY <2>1, <2>2, SMTT(60)
  <1> QED
    BY <1>6, <1>7, SMTT(60)

LEMMA EndAscendingSound ==
    ASSUME SoundInv, EndAscending PROVE SoundInv'
  <1> DEFINE f == TopFrame
             n == Node(f.head)
             new_pre == JoinAllPrevs(n)
             down == FrameOf(f.head, "down", 1, new_pre)
             up == FrameOf(f.head, "up", f.iter + 1, Extrapolate(f.inv, new_pre, f.iter))
  <1>1. StructInv /\ StructInv' /\ AtLoopEnd /\ phase = "walk" /\ prog \in Programs
    BY EndAscendingStruct DEF SoundInv, EndAscending, StructInv
  <1>2. UNCHANGED <<prog, post, error, failed, exit_value, phase, run>> /\ pc' = f.head
    BY DEF EndAscending
  <1>3. RunHolds'
    BY <1>1, <1>2, WalkNotRunning DEF RunHolds
  <1>4. SUFFICES ASSUME ~ failed
                 PROVE  (error = {} /\ LeftCovered /\ GuessesHold /\ VerdictHolds)'
    BY <1>1, <1>2, <1>3 DEF SoundInv
  <1>5. error = {} /\ LeftCovered /\ GuessesHold
    BY <1>4 DEF SoundInv
  <1>6. /\ f \in Frame /\ f.inv \in Dom /\ f.head \in Nat /\ f.iter + 1 \in Nat \ {0}
        /\ n \in Labels /\ new_pre \in Dom
    <2>1. f \in Frame /\ n \in Labels /\ new_pre \in Dom
      BY <1>1, LoopEndFacts
    <2> QED
      BY <2>1 DEF Frame
  <1>7. LeftCovered' /\ GuessesHold'
    <2>1. CASE Leq(new_pre, f.inv)
      <3>1. pre' = [pre EXCEPT ![n] = new_pre] /\ frames' = SetTop(down)
        BY <2>1 DEF EndAscending
      <3>2. pre'[n] = new_pre /\ \A m \in Labels : m # n => pre'[m] = pre[m]
        BY <1>1, <1>6, <3>1 DEF StructInv, TypeOK
      <3>3. \A s \in State : <<n, s>> \in Reached(Len(frames) - 1) => s \in Gamma(new_pre)
        BY <1>1, <1>5, <2>1, GuessWithdrawn
      <3>4. down \in Frame /\ down.head = f.head /\ down.dir = "down" /\ down.inv = new_pre
        <4>1. "down" \in {"up", "down"} /\ 1 \in Nat \ {0}
          OBVIOUS
        <4> QED
          BY <1>6, <4>1, FrameType
      <3> HIDE DEF down
      <3> QED
        BY <1>1, <1>2, <1>5, <3>1, <3>2, <3>3, <3>4, RepeatSound
    <2>2. CASE ~ Leq(new_pre, f.inv)
      <3>1. pre' = pre /\ frames' = SetTop(up)
        BY <2>2 DEF EndAscending
      <3>2. up \in Frame /\ up.head = f.head /\ up.dir = "up"
        <4>1. "up" \in {"up", "down"}
          OBVIOUS
        <4>2. Extrapolate(f.inv, new_pre, f.iter) \in Dom
          BY <1>6, ExtrapolateRefineType
        <4> QED
          BY <1>6, <4>1, <4>2, FrameType
      <3> HIDE DEF up
      <3> QED
        BY <1>1, <1>2, <1>5, <3>1, <3>2, RepeatSound
    <2> QED
      BY <2>1, <2>2
  <1>8. VerdictHolds'
    BY <1>1, <1>2 DEF VerdictHolds
  <1> QED
    BY <1>2, <1>5, <1>7, <1>8

LEMMA RefineSound ==
    ASSUME NEW a \in Dom, NEW b \in Dom, NEW i, NEW s, s \in Gamma(a), s \in Gamma(b)
    PROVE  s \in Gamma(Refine(a, b, i))
  BY DomainSound DEF Refine

LEMMA EndDescendingSound ==
    ASSUME SoundInv, EndDescending PROVE SoundInv'
  <1> DEFINE f == TopFrame
             L == Len(frames)
             n == Node(f.head)
             new_pre == JoinAllPrevs(n)
             refined == Refine(f.inv, new_pre, f.iter)
             again == FrameOf(f.head, "down", f.iter + 1, refined)
  <1>1. /\ StructInv /\ StructInv' /\ AtLoopEnd /\ phase = "walk" /\ prog \in Programs
        /\ f.dir = "down"
    BY EndDescendingStruct DEF SoundInv, EndDescending, StructInv
  <1>2. UNCHANGED <<prog, post, error, failed, exit_value, phase, run>>
    BY DEF EndDescending
  <1>3. RunHolds'
    BY <1>1, <1>2, WalkNotRunning DEF RunHolds
  <1>4. SUFFICES ASSUME ~ failed
                 PROVE  (error = {} /\ LeftCovered /\ GuessesHold /\ VerdictHolds)'
    BY <1>1, <1>2, <1>3 DEF SoundInv
  <1>5. error = {} /\ LeftCovered /\ GuessesHold
    BY <1>4 DEF SoundInv
  <1>6. /\ f \in Frame /\ f.inv \in Dom /\ f.head \in Nat /\ f.iter + 1 \in Nat \ {0}
        /\ n \in Labels /\ new_pre \in Dom /\ refined \in Dom
    <2>1. f \in Frame /\ n \in Labels /\ new_pre \in Dom
      BY <1>1, LoopEndFacts
    <2>2. f.inv \in Dom /\ f.head \in Nat /\ f.iter + 1 \in Nat \ {0}
      BY <2>1 DEF Frame
    <2> QED
      BY <2>1, <2>2, ExtrapolateRefineType
  <1>7. /\ Reached(L - 1) \subseteq Reached(L)
        /\ \A s \in State : <<n, s>> \in Reached(L - 1) =>
              s \in Gamma(f.inv) /\ s \in Gamma(new_pre) /\ s \in Gamma(refined)
    BY <1>1, <1>5, <1>6, GuessWithdrawn, RefineSound
  <1>8. CASE frames' = SetTop(again) /\ pre' = [pre EXCEPT ![n] = refined] /\ pc' = f.head
    <2>1. pre'[n] = refined /\ \A m \in Labels : m # n => pre'[m] = pre[m]
      BY <1>1, <1>6, <1>8 DEF StructInv, TypeOK
    <2>2. again \in Frame /\ again.head = f.head /\ again.inv = refined
      <3>1. "down" \in {"up", "down"}
        OBVIOUS
      <3> QED
        BY <1>6, <3>1, FrameType
    <2>3. VerdictHolds'
      BY <1>1, <1>2 DEF VerdictHolds
    <2> HIDE DEF again, refined
    <2>4. LeftCovered' /\ GuessesHold'
      BY <1>1, <1>2, <1>5, <1>7, <1>8, <2>1, <2>2, RepeatSound
    <2> QED
      BY <1>2, <1>5, <2>3, <2>4
  <1>9. CASE /\ frames' = PopFrame /\ pc' = pc
             /\ pre' = pre \/ pre' = [pre EXCEPT ![n] = refined]
    <2> HIDE DEF refined
    <2>1. /\ L \in Nat \ {0} /\ DOMAIN frames = 1 .. L
          /\ f.head \in prog.wto.heads /\ f.head \in 1 .. Len(prog.wto.order)
          /\ n = prog.wto.order[f.head] /\ n # Entry
          /\ f.head <= prog.wto.last[f.head] /\ pc = prog.wto.last[f.head] + 1
      BY <1>1, FrameFacts, LoopEndFacts, OrderFacts, WtoFacts, SMTT(60) DEF Node, wto
    <2>2. /\ Len(frames') = L - 1
          /\ \A i \in 1 .. L - 1 : frames'[i] = frames[i]
      <3>1. frames # <<>> /\ frames \in Seq(Frame)
        BY <1>1 DEF AtLoopEnd, StructInv, TypeOK
      <3> QED
        BY <1>9, <3>1, RemoveFrame DEF PopFrame
    <2>3. \A m \in Labels : m # n => pre'[m] = pre[m]
      BY <1>1, <1>6, <1>9 DEF StructInv, TypeOK
    <2>4. pre'[n] = pre[n] \/ pre'[n] = refined
      BY <1>1, <1>6, <1>9 DEF StructInv, TypeOK
    <2>5. pre'[Entry] = pre[Entry]
      BY <2>1, <2>3, ProgramsAssumption
    <2>6. Reached(Len(frames))' = Reached(L - 1)
      <3>1. Ctx(frames', L - 1) = Ctx(frames, L - 1)
        BY <2>2, SMTT(60) DEF Ctx
      <3> QED
        BY <1>2, <2>2, <2>5, <3>1 DEF Reached
    <2>7. LeftCovered'
      <3> SUFFICES ASSUME NEW q \in 1 .. Len(prog.wto.order), q < pc, NEW s \in State,
                          <<Node(q), s>> \in Reached(L - 1)
                   PROVE  Covered(Node(q), s)'
        BY <1>2, <1>9, <2>6 DEF LeftCovered, Node, wto
      <3>1. Covered(Node(q), s)
        BY <1>5, <1>7 DEF LeftCovered
      <3>2. s \in Gamma(pre'[Node(q)])
        <4>1. CASE Node(q) = n
          BY <1>7, <2>4, <3>1, <4>1 DEF Covered
        <4>2. CASE Node(q) # n
          <5>1. Node(q) \in Labels
            BY <1>1, WtoFacts DEF Node, wto
          <5> QED
            BY <2>3, <3>1, <4>2, <5>1 DEF Covered
        <4> QED
          BY <4>1, <4>2
      <3> QED
        BY <1>2, <3>1, <3>2 DEF Covered, Node, wto
    <2>8. GuessesHold'
      <3> SUFFICES ASSUME NEW k \in 1 .. L - 1, frames'[k].dir = "down"
                   PROVE  /\ pre'[Node(frames'[k].head)] = frames'[k].inv
                          /\ \A s \in State : <<Node(frames'[k].head), s>> \in
                                Reach(prog, Ctx(frames', k - 1), pre'[Entry])
                                => s \in Gamma(frames'[k].inv)
        BY <1>2, <2>2, SMTT(60) DEF GuessesHold, Reached, Node, wto
      <3>1. k \in 1 .. L /\ k < L /\ k \in DOMAIN frames /\ L \in DOMAIN frames
                /\ \A i \in 1 .. k : i \in 1 .. L - 1
        <4>1. L \in Nat \ {0} /\ DOMAIN frames = 1 .. L
          BY <2>1
        <4> HIDE DEF L
        <4> QED
          BY <4>1
      <3>2. frames'[k] = frames[k] /\ \A i \in 1 .. k : frames'[i] = frames[i]
        BY <2>2, <3>1, SMTT(60)
      <3>3. frames[k].head < f.head /\ frames[k].head \in 1 .. Len(prog.wto.order)
        BY <1>1, <3>1, FrameFacts, SMTT(60) DEF StructInv, WalkStructure, TopFrame
      <3>4. Node(frames[k].head) \in Labels /\ Node(frames[k].head) # n
        BY <1>1, <2>1, <3>3, OrderFacts, WtoFacts, SMTT(60) DEF Node, wto
      <3>5. pre'[Node(frames[k].head)] = pre[Node(frames[k].head)]
        BY <2>3, <3>4
      <3> QED
        BY <1>2, <1>5, <2>5, <3>1, <3>2, <3>5, GuessKept, SMTT(60)
    <2>9. VerdictHolds'
      BY <1>1, <1>2 DEF VerdictHolds
    <2> QED
      BY <1>2, <1>5, <2>7, <2>8, <2>9, SMTT(60)
  <1> QED
    BY <1>8, <1>9 DEF EndDescending

(***************************************************************************)
(* At the end of the walk no guess is left, and a loop counter over its    *)
(* bound is an error.                                                      *)
(***************************************************************************)
LEMMA FinishSound ==
    ASSUME SoundInv, Finish PROVE SoundInv'
  <1>1. StructInv /\ StructInv' /\ phase = "walk" /\ prog \in Programs
    BY FinishStruct DEF SoundInv, Finish, StructInv
  <1>2. /\ UNCHANGED <<prog, pre, post, pc, frames, run>> /\ exit_value' = post[Exit]
        /\ frames = <<>> /\ pc = Len(prog.wto.order) + 1
    BY DEF Finish, wto
  <1>3. RunHolds'
    BY <1>1, <1>2, WalkNotRunning DEF RunHolds
  <1>4. SUFFICES ASSUME ~ failed'
                 PROVE  (error = {} /\ LeftCovered /\ GuessesHold /\ VerdictHolds)'
    BY <1>1, <1>3 DEF SoundInv
  <1>5. ~ failed /\ error = {} /\ LeftCovered /\ GuessesHold
    BY <1>4 DEF SoundInv, Finish
  <1>6. error' = {} /\ (prog.check_for_termination => OverBound = {})
    BY <1>4, <1>5 DEF Finish
  <1>7. LeftCovered' /\ GuessesHold'
    BY <1>2, <1>5, ZenonT(60) DEF LeftCovered, GuessesHold, Reached, Covered, Node, wto
  <1>8. ASSUME NEW n \in Labels, NEW s \in State, <<n, s>> \in Reach(prog, {}, pre[Entry])
        PROVE  s \in Safe(prog.ins[n])
    <2>1. Ctx(frames, Len(frames)) = {} /\ {} \in Guesses(prog) /\ pre[Entry] \in Dom
      BY <1>1, <1>2, ProgramsAssumption DEF Ctx, Guesses, StructInv, TypeOK
    <2>2. PICK q \in 1 .. Len(prog.wto.order) : prog.wto.order[q] = n
      BY <1>1, <1>8, <2>1, ReachHasPosition
    <2>3. q < pc /\ Node(q) = n
      BY <1>1, <1>2, <2>2, WtoFacts DEF Node, wto
    <2>4. Covered(n, s)
      BY <1>5, <1>8, <2>1, <2>3 DEF LeftCovered, Reached
    <2>5. CASE IsCounter(prog.ins[n])
      <3>1. prog.check_for_termination
        BY <1>1, <2>5, ProgramsAssumption DEF ProgramOK
      <3>2. pre[n] # Bot
        BY <2>4, DomainSound DEF Covered
      <3>3. Check(prog.ins[n], pre[n])
        BY <1>6, <2>5, <3>1, <3>2 DEF OverBound
      <3>4. prog.ins[n] \in Instr /\ pre[n] \in Dom
        BY <1>1, WtoFacts, SMTT(60) DEF StructInv, TypeOK
      <3> QED
        BY <2>4, <2>5, <3>3, <3>4, InstructionsSound DEF Covered
    <2>6. CASE ~ IsCounter(prog.ins[n])
      BY <2>4, <2>6 DEF Covered
    <2> QED
      BY <2>5, <2>6
  <1>9. VerdictHolds'
    BY <1>2, <1>8 DEF VerdictHolds
  <1> QED
    BY <1>6, <1>7, <1>9

LEMMA RunSound ==
    ASSUME SoundInv, Load \/ Execute PROVE SoundInv'
  <1>1. StructInv /\ StructInv' /\ prog \in Programs
    BY RunStruct DEF SoundInv, StructInv
  <1>2. UNCHANGED <<prog, pre, post, error, failed, exit_value, skip, pc, frames, phase>>
    BY ZenonT(60) DEF Load, Execute, control
  <1>3. ~ failed => (error = {} /\ LeftCovered /\ GuessesHold /\ VerdictHolds)'
    BY <1>2, ZenonT(60) DEF SoundInv, LeftCovered, GuessesHold, VerdictHolds, Reached, Covered, Node, wto
  <1>4. {} \in Guesses(prog) /\ pre[Entry] \in Dom
    BY <1>1, ProgramsAssumption DEF Guesses, StructInv, TypeOK
  <1>5. Closed(prog, {}, pre[Entry], Reach(prog, {}, pre[Entry]))
    BY <1>1, <1>4, ReachClosed
  <1>6. RunHolds'
    <2>1. CASE Load
      <3>1. PICK s \in Gamma(pre[Entry]) : run' = [mode |-> "running", at |-> Entry, st |-> s]
        BY <2>1 DEF Load
      <3>2. run'.mode = "running" /\ run'.at = Entry /\ run'.st = s
        BY <3>1
      <3>3. <<Entry, s>> \in Reach(prog, {}, pre[Entry])
        BY <1>5 DEF Closed
      <3> QED
        BY <1>2, <2>1, <3>2, <3>3 DEF Load, RunHolds, Accepted
    <2>2. CASE Execute
      <3>1. run.mode = "running" /\ run.st \in Safe(prog.ins[run.at])
        BY <2>2 DEF Execute
      <3>2. run # NotLoaded
        <4>1. NotLoaded.mode # "running"
          BY DEF NotLoaded
        <4> QED
          BY <3>1, <4>1
      <3>3. Accepted /\ <<run.at, run.st>> \in Reach(prog, {}, pre[Entry])
        BY <3>1, <3>2 DEF SoundInv, RunHolds
      <3>4. run \in [mode : {"running", "halted"}, at : Labels, st : State]
        BY <1>1, <3>2 DEF StructInv, TypeOK
      <3>5. PICK s \in Step(prog.ins[run.at], run.st) :
                \/ run.at = Exit /\ run' = [run EXCEPT !.mode = "halted", !.st = s]
                \/ \E m \in Labels : <<run.at, m>> \in prog.edges
                                     /\ run' = [run EXCEPT !.at = m, !.st = s]
        BY <2>2 DEF Execute
      <3>6. s \in State
        <4>1. prog.ins[run.at] \in Instr /\ run.st \in State
          BY <1>1, <3>4, WtoFacts
        <4> QED
          BY <4>1, StepsAssumption
      <3>7. CASE run.at = Exit /\ run' = [run EXCEPT !.mode = "halted", !.st = s]
        <4>1. run'.mode = "halted" /\ run'.st = s
          BY <3>4, <3>7
        <4>2. s \in Gamma(exit_value)
          <5>1. /\ phase = "done" /\ ~ failed /\ LeftCovered /\ exit_value = post[Exit]
                /\ frames = <<>> /\ pc = Len(prog.wto.order) + 1
            BY <1>1, <3>3 DEF Accepted, SoundInv, VerdictHolds, StructInv, WalkStructure, wto
          <5>2. Ctx(frames, Len(frames)) = {}
            BY <5>1 DEF Ctx
          <5>3. run.st \in State /\ Exit \in Labels
            BY <3>4, ProgramsAssumption
          <5>4. PICK q \in 1 .. Len(prog.wto.order) : prog.wto.order[q] = Exit
            BY <1>1, <1>4, <3>3, <3>7, <5>3, ReachHasPosition
          <5>5. q < pc /\ Node(q) = Exit
            BY <1>1, <5>1, <5>4, WtoFacts DEF Node, wto
          <5>6. Covered(Exit, run.st)
            BY <3>3, <3>7, <5>1, <5>2, <5>3, <5>5 DEF LeftCovered, Reached
          <5> QED
            BY <3>1, <3>7, <5>1, <5>6 DEF Covered
        <4> QED
          BY <1>2, <3>3, <4>1, <4>2 DEF RunHolds, Accepted
      <3>8. ASSUME NEW m \in Labels, <<run.at, m>> \in prog.edges,
                   run' = [run EXCEPT !.at = m, !.st = s]
            PROVE  RunHolds'
        <4>1. run'.mode = "running" /\ run'.at = m /\ run'.st = s
          BY <3>1, <3>4, <3>8
        <4>2. ~ Guessed(prog, {}, m) /\ run.at \in Labels /\ run.st \in State
          BY <3>4 DEF Guessed
        <4>3. <<m, s>> \in Reach(prog, {}, pre[Entry])
          BY <1>5, <3>1, <3>3, <3>6, <3>8, <4>2 DEF Closed
        <4> QED
          BY <1>2, <3>3, <4>1, <4>3 DEF RunHolds, Accepted
      <3> QED
        BY <3>5, <3>7, <3>8
    <2> QED
      BY <2>1, <2>2
  <1> QED
    BY <1>1, <1>2, <1>3, <1>6 DEF SoundInv

(***************************************************************************)
(* What the invariant says of the execution.                               *)
(***************************************************************************)
LEMMA SoundImplies == SoundInv => NoFault /\ RunInPre /\ ExitValueSound
  <1> SUFFICES ASSUME SoundInv PROVE NoFault /\ RunInPre /\ ExitValueSound
    OBVIOUS
  <1>1. NotLoaded.mode # "running" /\ NotLoaded.mode # "halted"
    BY DEF NotLoaded
  <1>2. ExitValueSound
    BY <1>1 DEF SoundInv, RunHolds, ExitValueSound
  <1>3. ASSUME run.mode = "running"
        PROVE  run.st \in Safe(prog.ins[run.at]) /\ run.st \in Gamma(pre[run.at])
    <2>1. run # NotLoaded /\ StructInv /\ prog \in Programs
      BY <1>1, <1>3 DEF SoundInv, StructInv
    <2>2. run.at \in Labels /\ run.st \in State
      <3>1. run \in [mode : {"running", "halted"}, at : Labels, st : State]
        BY <2>1 DEF StructInv, TypeOK
      <3> QED
        BY <3>1
    <2>3. Accepted /\ <<run.at, run.st>> \in Reach(prog, {}, pre[Entry])
      BY <1>3, <2>1 DEF SoundInv, RunHolds
    <2>4. /\ phase = "done" /\ ~ failed /\ LeftCovered /\ VerdictHolds
          /\ frames = <<>> /\ pc = Len(prog.wto.order) + 1
      BY <2>1, <2>3 DEF Accepted, SoundInv, StructInv, WalkStructure, wto
    <2>5. /\ Ctx(frames, Len(frames)) = {} /\ {} \in Guesses(prog) /\ pre[Entry] \in Dom
      BY <2>1, <2>4, ProgramsAssumption DEF Ctx, Guesses, StructInv, TypeOK
    <2>6. PICK q \in 1 .. Len(prog.wto.order) : prog.wto.order[q] = run.at
      BY <2>1, <2>2, <2>3, <2>5, ReachHasPosition
    <2>7. q < pc /\ Node(q) = run.at
      BY <2>1, <2>4, <2>6, WtoFacts DEF Node, wto
    <2>8. Covered(run.at, run.st)
      BY <2>2, <2>3, <2>4, <2>5, <2>7 DEF LeftCovered, Reached
    <2> QED
      BY <2>2, <2>3, <2>4, <2>8 DEF VerdictHolds, Covered
  <1> QED
    BY <1>2, <1>3 DEF NoFault, RunInPre

LEMMA SoundStep == SoundInv /\ [Next]_vars => SoundInv'
  <1> SUFFICES ASSUME SoundInv, [Next]_vars PROVE SoundInv'
    OBVIOUS
  <1>1. CASE Stopped \/ UNCHANGED vars
    <2>1. UNCHANGED vars
      BY <1>1 DEF Stopped
    <2>2. StructInv'
      BY <2>1 DEF vars, SoundInv, StructInv, TypeOK, WalkStructure, Active, wto
    <2>3. RunHolds'
      BY <2>1, SMTT(60) DEF vars, SoundInv, RunHolds, Accepted
    <2>4. ~ failed => (error = {} /\ LeftCovered /\ GuessesHold /\ VerdictHolds)'
      BY <2>1, ZenonT(60) DEF vars, SoundInv, LeftCovered, GuessesHold, VerdictHolds, Reached, Covered,
                  Node, wto
    <2> QED
      BY <2>1, <2>2, <2>3, <2>4 DEF SoundInv, vars
  <1> QED
    BY <1>1, ProcessNodeSound, EnterCycleSound, ProcessHeadSound, EndAscendingSound,
       EndDescendingSound, FinishSound, RunSound DEF Next

(***************************************************************************)
(* The verdict is sound: no execution of a program that the iterator       *)
(* accepts reaches an instruction in a state outside of its safe states.   *)
(***************************************************************************)
THEOREM VerdictSound == Spec => []NoFault
  BY SoundInit, SoundStep, SoundImplies, PTL DEF Spec

(***************************************************************************)
(* The invariants reported with the verdict hold: an execution of an       *)
(* accepted program is, at every label, in a state of the label's pre, and *)
(* it ends in a state of exit_value.                                       *)
(***************************************************************************)
THEOREM InvariantsSound == Spec => []InvariantsHold
  BY SoundInit, SoundStep, SoundImplies, PTL DEF Spec, InvariantsHold

-----------------------------------------------------------------------------
(***************************************************************************)
(* What narrowing needs of the domain to go down: a meet and a narrowing   *)
(* are below their first operand.                                          *)
(***************************************************************************)
RefiningDescends ==
    \A a, b \in Dom : Leq(a, a) /\ Leq(Meet(a, b), a) /\ Leq(Narrow(a, b), a)

DescendsStep ==
    frames # <<>> /\ Len(frames') = Len(frames) /\ TopFrame'.dir = "down"
        => Leq(TopFrame'.inv, TopFrame.inv)

LEMMA NarrowingStep == RefiningDescends /\ StructInv /\ [Next]_vars => DescendsStep
  <1> SUFFICES ASSUME RefiningDescends, StructInv, [Next]_vars,
                      frames # <<>>, Len(frames') = Len(frames), TopFrame'.dir = "down"
               PROVE  Leq(TopFrame'.inv, TopFrame.inv)
    BY DEF DescendsStep
  <1>1. /\ Len(frames) \in Nat \ {0}
        /\ TopFrame.inv \in Dom /\ TopFrame.head \in Nat
        /\ Node(TopFrame.head) \in Labels
    BY FrameFacts DEF TopFrame, Node, wto
  <1>2. CASE UNCHANGED frames
    BY <1>1, <1>2 DEF RefiningDescends, TopFrame
  <1>3. ASSUME NEW f \in Frame, frames' = SetTop(f)
        PROVE  TopFrame' = f
    <2>1. frames \in Seq(Frame)
      BY DEF StructInv, TypeOK
    <2>2. frames'[Len(frames)] = f
      BY <1>3, <2>1, ReplaceFrame DEF SetTop
    <2> QED BY <2>2 DEF TopFrame
  <1>4. JoinAllPrevs(Node(TopFrame.head)) \in Dom
    BY <1>1, JoinAllPrevsType DEF StructInv
  <1>5. frames' # PopFrame
    <2>1. Len(PopFrame) = Len(frames) - 1
      BY RemoveFrame DEF StructInv, TypeOK, PopFrame
    <2> QED BY <1>1, <2>1
  <1>6. CASE EndAscending
    <2>1. TopFrame.iter + 1 \in Nat \ {0}
      BY <1>1, FrameFacts DEF TopFrame, Frame
    <2> DEFINE n == JoinAllPrevs(Node(TopFrame.head))
               x == Extrapolate(TopFrame.inv, n, TopFrame.iter)
               down == FrameOf(TopFrame.head, "down", 1, n)
               up == FrameOf(TopFrame.head, "up", TopFrame.iter + 1, x)
    <2>2. down \in Frame /\ down.inv = n
      BY <1>1, <1>4 DEF Frame, FrameOf
    <2>3. up \in Frame /\ up.dir = "up"
      BY <1>1, <1>4, <2>1, ExtrapolateRefineType DEF Frame, FrameOf
    <2> HIDE DEF down, up
    <2>4. \/ Leq(n, TopFrame.inv) /\ frames' = SetTop(down)
          \/ frames' = SetTop(up)
      BY <1>6, ZenonT(60) DEF EndAscending, down, up
    <2>5. CASE frames' = SetTop(up)
      BY <1>3, <2>3, <2>5
    <2>6. CASE Leq(n, TopFrame.inv) /\ frames' = SetTop(down)
      BY <1>3, <2>2, <2>6
    <2> QED BY <2>4, <2>5, <2>6
  <1>7. CASE EndDescending
    <2>1. TopFrame.iter + 1 \in Nat \ {0}
      BY <1>1, FrameFacts DEF TopFrame, Frame
    <2> DEFINE n == JoinAllPrevs(Node(TopFrame.head))
               r == Refine(TopFrame.inv, n, TopFrame.iter)
               down == FrameOf(TopFrame.head, "down", TopFrame.iter + 1, r)
    <2>2. down \in Frame /\ down.inv = r
      BY <1>1, <1>4, <2>1, ExtrapolateRefineType DEF Frame, FrameOf
    <2>3. Leq(r, TopFrame.inv)
      BY <1>1, <1>4 DEF RefiningDescends, Refine
    <2> HIDE DEF down, r
    <2>4. frames' = PopFrame \/ frames' = SetTop(down)
      BY <1>7, ZenonT(60) DEF EndDescending, down, r
    <2> QED BY <1>3, <1>5, <2>2, <2>3, <2>4
  <1>8. CASE EnterCycle
    <2>1. UNCHANGED frames \/ \E f : frames' = Append(frames, f)
      BY <1>8 DEF EnterCycle
    <2>2. \A f : Len(Append(frames, f)) = Len(frames) + 1
      BY DEF StructInv, TypeOK
    <2> QED BY <1>1, <1>2, <2>1, <2>2
  <1> QED
    BY <1>2, <1>6, <1>7, <1>8
    DEF Next, ProcessNode, ProcessHead, Finish, Load, Execute, Stopped, vars, control

(***************************************************************************)
(* Narrowing is descending: over any domain whose meet and narrowing are   *)
(* below their first operand, the invariant of a head only shrinks from    *)
(* the post-fixpoint to the end of its cycle.                              *)
(***************************************************************************)
THEOREM NarrowingOnlyDescends ==
    ASSUME RefiningDescends
    PROVE  Spec => NarrowingDescends
  <1>1. StructInv /\ [Next]_vars => DescendsStep
    BY NarrowingStep
  <1>2. Spec => []StructInv
    BY StructInit, StructStep, PTL DEF Spec
  <1> QED
    BY <1>1, <1>2, PTL DEF Spec, NarrowingDescends, DescendsStep
=============================================================================
