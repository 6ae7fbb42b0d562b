---------------------------- MODULE LoadingProofs ----------------------------
(***************************************************************************)
(* Linking follows the object file, for every file: where control goes     *)
(* from a slot of a linked program is where the file says, through all the *)
(* copies of subprograms.                                                  *)
(***************************************************************************)
EXTENDS Loading, CfgBuilderProofs

-----------------------------------------------------------------------------
(***************************************************************************)
(* Functions that are sequences, without a set for their members.          *)
(***************************************************************************)
IsSeq(s) == \E n \in Nat : s = [i \in 1 .. n |-> s[i]]

LEMMA SeqIs ==
    ASSUME NEW s, IsSeq(s)
    PROVE  /\ Len(s) \in Nat /\ DOMAIN s = 1 .. Len(s)
           /\ s = [i \in 1 .. Len(s) |-> s[i]]
           /\ (s = <<>> <=> Len(s) = 0)
           /\ s \in Seq({s[i] : i \in DOMAIN s})
<1>1. PICK n \in Nat : s = [i \in 1 .. n |-> s[i]]
  BY DEF IsSeq
<1> DEFINE S == {s[i] : i \in DOMAIN s}
<1>2. s \in Seq(S)
  <2>1. DOMAIN s = 1 .. n
    BY <1>1
  <2>2. s \in [1 .. n -> S]
    BY <1>1, <2>1
  <2> HIDE DEF S
  <2> QED BY <2>2
<1>3. Len(s) \in Nat /\ DOMAIN s = 1 .. Len(s) /\ (s = <<>> <=> Len(s) = 0)
  <2> HIDE DEF S
  <2> QED BY <1>2, LenProperties, EmptySeq
<1>4. s = [i \in 1 .. Len(s) |-> s[i]]
  BY <1>1, <1>3
<1> QED BY <1>2, <1>3, <1>4

LEMMA AppendIs ==
    ASSUME NEW s, IsSeq(s), NEW x
    PROVE  /\ IsSeq(Append(s, x)) /\ Len(Append(s, x)) = Len(s) + 1
           /\ DOMAIN Append(s, x) = 1 .. Len(s) + 1
           /\ \A i \in DOMAIN s : Append(s, x)[i] = s[i]
           /\ Append(s, x)[Len(s) + 1] = x
<1> DEFINE S == {s[i] : i \in DOMAIN s} \cup {x}
           t == Append(s, x)
<1>1. Len(s) \in Nat /\ DOMAIN s = 1 .. Len(s) /\ s \in Seq(S)
  <2>1. s \in Seq({s[i] : i \in DOMAIN s}) /\ Len(s) \in Nat /\ DOMAIN s = 1 .. Len(s)
    BY SeqIs
  <2>2. \A i \in 1 .. Len(s) : s[i] \in S
    BY <2>1
  <2>3. s = [i \in 1 .. Len(s) |-> s[i]]
    BY SeqIs
  <2>4. s \in [1 .. Len(s) -> S]
    <3> HIDE DEF S
    <3> QED BY <2>2, <2>3
  <2> HIDE DEF S
  <2> QED BY <2>1, <2>4
<1>2. x \in S
  OBVIOUS
<1> HIDE DEF S
<1>3. /\ t \in Seq(S) /\ Len(t) = Len(s) + 1
      /\ \A i \in 1 .. Len(s) : t[i] = s[i]
      /\ t[Len(s) + 1] = x
  BY <1>1, <1>2, AppendProperties
<1>4. DOMAIN t = 1 .. Len(s) + 1 /\ t = [i \in 1 .. Len(s) + 1 |-> t[i]]
  <2> HIDE DEF t
  <2> QED BY <1>1, <1>3
<1>5. IsSeq(t)
  <2> HIDE DEF t
  <2> QED BY <1>1, <1>4 DEF IsSeq
<1> QED BY <1>1, <1>3, <1>4, <1>5, SMTT(60)

LEMMA FrontIs ==
    ASSUME NEW s, IsSeq(s), s # <<>>
    PROVE  /\ IsSeq(Front(s)) /\ DOMAIN Front(s) = 1 .. Len(s) - 1
           /\ \A i \in 1 .. Len(s) - 1 : Front(s)[i] = s[i]
           /\ Len(s) \in DOMAIN s /\ Last(s) = s[Len(s)]
<1> DEFINE S == {s[i] : i \in DOMAIN s}
<1>1. Len(s) \in Nat /\ Len(s) # 0 /\ DOMAIN s = 1 .. Len(s) /\ s \in Seq(S)
  BY SeqIs
<1>2. \A i \in 1 .. Len(s) : s[i] \in S
  BY <1>1
<1> DEFINE t == SubSeq(s, 1, Len(s) - 1)
<1>3. t = [i \in 1 .. Len(s) - 1 |-> s[i]]
  <2> HIDE DEF S
  <2> QED BY <1>1, <1>2
<1>4. DOMAIN t = 1 .. Len(s) - 1 /\ \A i \in 1 .. Len(s) - 1 : t[i] = s[i]
  <2> HIDE DEF t
  <2> QED BY <1>3
<1>5. t = [i \in 1 .. Len(s) - 1 |-> t[i]] /\ Len(s) - 1 \in Nat
  <2> HIDE DEF t
  <2> QED BY <1>1, <1>3, <1>4
<1>6. IsSeq(t)
  <2> HIDE DEF t
  <2> QED BY <1>5 DEF IsSeq
<1>7. Front(s) = t /\ Last(s) = s[Len(s)]
  BY DEF Front, Last
<1> QED BY <1>1, <1>4, <1>6, <1>7

-----------------------------------------------------------------------------
(***************************************************************************)
(* What control reaches: the least set with the start that control does    *)
(* not leave.                                                              *)
(***************************************************************************)
KeptIn(code, S) == \A k \in S : LeadsTo(k, code[k]) \cap DOMAIN code \subseteq S

LEMMA ReachableIs ==
    ASSUME NEW code, IsFiniteSet(DOMAIN code), NEW a \in DOMAIN code
    PROVE  /\ Reached(code, a) \subseteq DOMAIN code /\ a \in Reached(code, a)
           /\ KeptIn(code, Reached(code, a))
           /\ \A T \in SUBSET DOMAIN code : a \in T /\ KeptIn(code, T) => Reached(code, a) \subseteq T
<1> DEFINE U == DOMAIN code
           F == [S \in SUBSET U |-> S \cup Onward(code, S)]
           c == CHOOSE c : c = [S \in SUBSET DOMAIN code |->
                    LET T == S \cup Onward(code, S)
                    IN  IF T = S THEN S ELSE c[T]]
<1>1. F \in [SUBSET U -> SUBSET U]
  BY DEF Onward
<1>2. PICK h : Iterates(U, F, h)
  <2> HIDE DEF F, U
  <2> QED BY <1>1, GrowthExists, ZenonT(60)
<1>3. h = [S \in SUBSET DOMAIN code |->
             LET T == S \cup Onward(code, S)
             IN  IF T = S THEN S ELSE h[T]]
  BY <1>2 DEF Iterates
<1>4. c = [S \in SUBSET DOMAIN code |->
             LET T == S \cup Onward(code, S)
             IN  IF T = S THEN S ELSE c[T]]
  BY <1>3, Zenon
<1>5. Reached(code, a) = c[{a}]
  BY DEF Reached
<1>6. GrowsIn(U, F, c)
  <2> HIDE DEF c
  <2>1. \A S, T \in SUBSET U : S \subseteq T => F[S] \subseteq F[T]
    BY DEF Onward
  <2>2. \A S \in SUBSET U : S \subseteq F[S]
    OBVIOUS
  <2>3. Iterates(U, F, c)
    BY <1>4, ZenonT(60) DEF Iterates
  <2> HIDE DEF F
  <2> QED BY <1>1, <2>1, <2>2, <2>3 DEF GrowsIn
<1> HIDE DEF c
<1>7. LeastKept(U, F, {a}, c[{a}])
  <2>1. {a} \in SUBSET U
    OBVIOUS
  <2> HIDE DEF F, U
  <2> QED BY <1>6, <2>1, GrowthResult
<1>8. \A T \in SUBSET U : F[T] = T <=> KeptIn(code, T)
  BY DEF KeptIn, Onward
<1> HIDE DEF F
<1> QED BY <1>5, <1>7, <1>8, ZenonT(60) DEF LeastKept

-----------------------------------------------------------------------------
(***************************************************************************)
(* The sections of a file, and the part of one a program is cut out of.    *)
(***************************************************************************)
LEMMA SectionIs ==
    ASSUME file \in Files, NEW s \in Sections
    PROVE  /\ Size(s) \in Nat \ {0} /\ DOMAIN Section(s).code = 0 .. Size(s) - 1
           /\ IsFiniteSet(DOMAIN Section(s).code)
           /\ \A k \in DOMAIN Section(s).code :
                 /\ DOMAIN Section(s).code[k] = {"op", "rel", "reloc"}
                 /\ Section(s).code[k].rel \in Int
           /\ DOMAIN Symbols(s) \subseteq Nat
           /\ Starts(s) \subseteq DOMAIN Section(s).code
<1>1. /\ Size(s) \in Nat \ {0} /\ DOMAIN Section(s).code = 0 .. Size(s) - 1
      /\ \A k \in DOMAIN Section(s).code :
            /\ DOMAIN Section(s).code[k] = {"op", "rel", "reloc"}
            /\ Section(s).code[k].rel \in Int
      /\ DOMAIN Symbols(s) \subseteq Nat
  BY FilesAssumption DEF Sections, Section, Size, Symbols
<1>2. IsFiniteSet(DOMAIN Section(s).code)
  BY <1>1, FS_Interval
<1>3. Starts(s) \subseteq DOMAIN Section(s).code
  BY <1>1 DEF Starts
<1> QED BY <1>1, <1>2, <1>3

LEMMA EndAtIs ==
    ASSUME file \in Files, NEW s \in Sections, NEW o \in Starts(s)
    PROVE  /\ EndAt(s, o) \in o + 1 .. Size(s)
           /\ EndAt(s, o) < Size(s) => EndAt(s, o) \in Starts(s)
<1> DEFINE later == {x \in DOMAIN Symbols(s) : x > o /\ x < Size(s)} \cup {Size(s)}
<1>1. /\ Size(s) \in Nat \ {0} /\ DOMAIN Section(s).code = 0 .. Size(s) - 1
      /\ DOMAIN Symbols(s) \subseteq Nat /\ o \in 0 .. Size(s) - 1
  BY SectionIs
<1>2. later \in SUBSET Nat /\ later # {}
  BY <1>1
<1>3. \E x \in later : \A y \in later : x <= y
  <2> HIDE DEF later
  <2> QED BY <1>2, LeastNat
<1>4. EndAt(s, o) = CHOOSE x \in later : \A y \in later : x <= y
  BY DEF EndAt
<1>5. EndAt(s, o) \in later
  <2> HIDE DEF later
  <2> QED BY <1>3, <1>4
<1> QED BY <1>1, <1>5 DEF Starts

LEMMA SpanEndIs ==
    ASSUME file \in Files, NEW s \in Sections, NEW o \in Starts(s)
    PROVE  /\ SpanEnd(s, o) \in o + 1 .. Size(s)
           /\ \A k \in Reachable(s, o) : k < SpanEnd(s, o)
<1> DEFINE R == Reachable(s, o)
           ends == {EndAt(s, o)} \cup {k + 1 : k \in R}
<1>1. /\ Size(s) \in Nat \ {0} /\ DOMAIN Section(s).code = 0 .. Size(s) - 1
      /\ IsFiniteSet(DOMAIN Section(s).code) /\ o \in DOMAIN Section(s).code
  BY SectionIs
<1>2. R \subseteq 0 .. Size(s) - 1
  BY <1>1, ReachableIs DEF Reachable
<1>3. EndAt(s, o) \in o + 1 .. Size(s)
  BY EndAtIs
<1> HIDE DEF R
<1>4. ends \in SUBSET (0 .. Size(s)) /\ ends # {}
  BY <1>1, <1>2, <1>3, SMTT(60)
<1>5. \E x \in ends : \A y \in ends : y <= x
  <2> HIDE DEF ends
  <2> QED BY <1>1, <1>4, GreatestNat
<1>6. SpanEnd(s, o) = CHOOSE x \in ends : \A y \in ends : x >= y
  BY DEF SpanEnd, R
<1>7. \E x \in ends : \A y \in ends : x >= y
  <2> HIDE DEF ends
  <2>1. \A x, y \in ends : y <= x <=> x >= y
    BY <1>1, <1>4
  <2> QED BY <1>5, <2>1
<1>8. SpanEnd(s, o) \in ends /\ \A y \in ends : SpanEnd(s, o) >= y
  <2> HIDE DEF ends
  <2> QED BY <1>6, <1>7
<1>9. SpanEnd(s, o) >= EndAt(s, o) /\ \A k \in R : SpanEnd(s, o) >= k + 1
  BY <1>8
<1>10. SpanEnd(s, o) \in 0 .. Size(s)
  BY <1>4, <1>8
<1> QED BY <1>1, <1>2, <1>3, <1>9, <1>10, SMTT(60) DEF R

\* A slot of a function that starts at o is not in front of o.
LEMMA FunctionStartIs ==
    ASSUME file \in Files, NEW s \in Sections, NEW o \in Starts(s),
           NEW k \in DOMAIN Section(s).code, o <= k
    PROVE  FunctionStart(s, k) \in Nat /\ FunctionStart(s, k) >= o
<1> DEFINE starts == {x \in DOMAIN Symbols(s) \cup {0} : x <= k}
<1>1. /\ Size(s) \in Nat \ {0} /\ DOMAIN Section(s).code = 0 .. Size(s) - 1
      /\ DOMAIN Symbols(s) \subseteq Nat /\ k \in Nat
  BY SectionIs, SMTT(60)
<1>2. o \in starts
  BY DEF Starts
<1>3. starts \in SUBSET (0 .. k)
  BY <1>1
<1>4. \E x \in starts : \A y \in starts : y <= x
  <2> HIDE DEF starts
  <2> QED BY <1>1, <1>2, <1>3, GreatestNat
<1>5. \E x \in starts : \A y \in starts : x >= y
  <2> HIDE DEF starts
  <2>1. \A x, y \in starts : y <= x <=> x >= y
    BY <1>1, <1>3
  <2> QED BY <1>4, <2>1
<1>6. FunctionStart(s, k) = CHOOSE x \in starts : \A y \in starts : x >= y
  BY DEF FunctionStart
<1>7. FunctionStart(s, k) \in starts /\ \A y \in starts : FunctionStart(s, k) >= y
  <2> HIDE DEF starts
  <2> QED BY <1>5, <1>6, SMTT(60)
<1> QED BY <1>2, <1>3, <1>7

-----------------------------------------------------------------------------
(***************************************************************************)
(* A program and a set of its slots that control does not leave: what      *)
(* FollowsFile asks of them, but for the calls still to be pointed.        *)
(***************************************************************************)
Places == UNION {{<<s, o>> : o \in DOMAIN Section(s).code} : s \in Sections}
Kinds == Op \cup {"wide", "half", "builtin"}

ProgramOK(g) ==
    /\ g = RawProgram(g.section, g.function_name, g.prog, g.builtin_call_offsets, g.origin)
    /\ Cardinality(DOMAIN g.prog) \in Nat \ {0}
    /\ DOMAIN g.prog = 0 .. Cardinality(DOMAIN g.prog) - 1
    /\ g.prog = [k \in DOMAIN g.prog |-> g.prog[k]]
    /\ \A k \in DOMAIN g.prog : /\ DOMAIN g.prog[k] = {"op", "rel", "reloc"} /\ g.prog[k].rel \in Int
                               /\ g.prog[k].op \in Kinds
    /\ g.origin \in [DOMAIN g.prog -> Places]
    /\ g.builtin_call_offsets \subseteq DOMAIN g.prog

ArrivesAt(g, K, to, places) == to \in K /\ g.origin[to] \in places
Goes(g, K, k) ==
    LET i == g.prog[k]
        s == g.origin[k][1]
        o == g.origin[k][2]
    IN  /\ i.op \in {"jump", "branch"} =>
              ArrivesAt(g, K, TargetOf(k, i), {<<s, TargetOf(o, Section(s).code[o])>>})
        /\ Falls(i) => ArrivesAt(g, K, After(k, i), {<<s, After(o, i)>>})
        /\ i.op = "wide" => k + 1 \in K
        /\ i.op = "builtin" <=> k \in g.builtin_call_offsets
CallsRight(g, K, k) ==
    g.prog[k].op = "call" =>
        ArrivesAt(g, K, TargetOf(k, g.prog[k]), CalledFrom(g.origin[k][1], g.origin[k][2]))

Exact(g, K, P) ==
    /\ K \subseteq DOMAIN g.prog /\ 0 \in K
    /\ \A k \in K : Goes(g, K, k) /\ (k \notin P => CallsRight(g, K, k))

LEMMA GoodFollows ==
    ASSUME NEW g, ProgramOK(g), NEW K, Exact(g, K, {})
    PROVE  FollowsFile(g)
<1>1. /\ DOMAIN g.prog = 0 .. Cardinality(DOMAIN g.prog) - 1
      /\ Cardinality(DOMAIN g.prog) \in Nat \ {0}
      /\ \A k \in DOMAIN g.prog : g.prog[k].rel \in Int
  BY DEF ProgramOK
<1>2. IsFiniteSet(DOMAIN g.prog) /\ 0 \in DOMAIN g.prog
  BY <1>1, FS_Interval, SMTT(60)
<1>3. K \in SUBSET DOMAIN g.prog /\ 0 \in K
  BY DEF Exact
<1>4. KeptIn(g.prog, K)
  <2> SUFFICES ASSUME NEW k \in K PROVE LeadsTo(k, g.prog[k]) \cap DOMAIN g.prog \subseteq K
    BY DEF KeptIn
  <2>1. Goes(g, K, k) /\ CallsRight(g, K, k)
    BY DEF Exact
  <2>2. /\ g.prog[k].op \in {"jump", "branch", "call"} => TargetOf(k, g.prog[k]) \in K
        /\ Falls(g.prog[k]) => After(k, g.prog[k]) \in K
        /\ g.prog[k].op = "wide" => k + 1 \in K
    BY <2>1 DEF Goes, CallsRight, ArrivesAt
  <2> QED BY <2>2 DEF LeadsTo, Falls, After
<1>5. Reached(g.prog, 0) \subseteq K
  BY <1>2, <1>3, <1>4, ReachableIs
<1>6. ASSUME NEW k \in Reached(g.prog, 0)
      PROVE  k \in K /\ Goes(g, K, k) /\ CallsRight(g, K, k)
  BY <1>5 DEF Exact
<1> QED BY <1>3, <1>6 DEF FollowsFile, Goes, CallsRight, ArrivesAt

(***************************************************************************)
(* Pointing a call leaves the others as they are.                          *)
(***************************************************************************)
LEMMA PatchedIs ==
    ASSUME NEW g, ProgramOK(g), NEW src \in DOMAIN g.prog, NEW base \in Int
    PROVE  LET h == Patched(g, src, base)
           IN  /\ ProgramOK(h)
               /\ h.section = g.section /\ h.function_name = g.function_name
               /\ DOMAIN h.prog = DOMAIN g.prog /\ h.origin = g.origin
               /\ h.builtin_call_offsets = g.builtin_call_offsets
               /\ \A k \in DOMAIN g.prog : k # src => h.prog[k] = g.prog[k]
               /\ h.prog[src].op = g.prog[src].op
               /\ TargetOf(src, h.prog[src]) = base
<1> DEFINE slot == [g.prog[src] EXCEPT !.rel = base - src - 1]
           prog == [g.prog EXCEPT ![src] = slot]
           h == [g EXCEPT !.prog = prog]
<1>1. Patched(g, src, base) = h
  BY DEF Patched
<1>2. /\ g = RawProgram(g.section, g.function_name, g.prog, g.builtin_call_offsets, g.origin)
      /\ src \in Int /\ DOMAIN g.prog[src] = {"op", "rel", "reloc"}
      /\ g.prog = [k \in DOMAIN g.prog |-> g.prog[k]]
  BY DEF ProgramOK
<1>3. /\ DOMAIN slot = {"op", "rel", "reloc"} /\ slot.rel = base - src - 1
      /\ slot.op = g.prog[src].op
  BY <1>2
<1>4. slot.rel \in Int /\ TargetOf(src, slot) = base
  BY <1>2, <1>3 DEF TargetOf
<1> HIDE DEF slot
<1>5. /\ DOMAIN prog = DOMAIN g.prog /\ prog = [k \in DOMAIN prog |-> prog[k]]
      /\ prog[src] = slot /\ \A k \in DOMAIN g.prog : k # src => prog[k] = g.prog[k]
  BY <1>2
<1> HIDE DEF prog
<1>6. h = RawProgram(g.section, g.function_name, prog, g.builtin_call_offsets, g.origin)
  BY <1>2 DEF RawProgram
<1>7. /\ h.section = g.section /\ h.function_name = g.function_name /\ h.prog = prog
      /\ h.origin = g.origin /\ h.builtin_call_offsets = g.builtin_call_offsets
  BY <1>6 DEF RawProgram
<1>8. h = RawProgram(h.section, h.function_name, h.prog, h.builtin_call_offsets, h.origin)
  <2> HIDE DEF h
  <2> QED BY <1>6, <1>7
<1> HIDE DEF h
<1>9. ProgramOK(h)
  <2>1. \A k \in DOMAIN g.prog : /\ DOMAIN g.prog[k] = {"op", "rel", "reloc"} /\ g.prog[k].rel \in Int
                                 /\ g.prog[k].op \in Kinds
    BY DEF ProgramOK
  <2>2. \A k \in DOMAIN h.prog : /\ DOMAIN h.prog[k] = {"op", "rel", "reloc"} /\ h.prog[k].rel \in Int
                                 /\ h.prog[k].op \in Kinds
    BY <1>3, <1>4, <1>5, <1>7, <2>1
  <2> QED BY <1>5, <1>7, <1>8, <2>2, ZenonT(60) DEF ProgramOK
<1> QED BY <1>1, <1>3, <1>4, <1>5, <1>7, <1>9, SMTT(60)

LEMMA PatchedGood ==
    ASSUME NEW g, ProgramOK(g), NEW K, NEW P, Exact(g, K, P),
           NEW src \in DOMAIN g.prog, g.prog[src].op = "call",
           NEW base \in K, g.origin[base] \in CalledFrom(g.origin[src][1], g.origin[src][2])
    PROVE  Exact(Patched(g, src, base), K, P \ {src})
<1> DEFINE h == Patched(g, src, base)
<1>1. base \in Int /\ K \subseteq DOMAIN g.prog /\ 0 \in K
  BY SMTT(60) DEF Exact, ProgramOK
<1>2. /\ DOMAIN h.prog = DOMAIN g.prog /\ h.origin = g.origin
      /\ h.builtin_call_offsets = g.builtin_call_offsets
      /\ \A k \in DOMAIN g.prog : k # src => h.prog[k] = g.prog[k]
      /\ h.prog[src].op = g.prog[src].op
      /\ TargetOf(src, h.prog[src]) = base
  BY <1>1, PatchedIs
<1> HIDE DEF h
<1>3. ASSUME NEW k \in K
      PROVE  Goes(h, K, k)
  <2>1. Goes(g, K, k) /\ k \in DOMAIN g.prog
    BY <1>1, SMTT(60) DEF Exact
  <2>2. CASE k # src
    BY <1>2, <2>1, <2>2, SMTT(60) DEF Goes, ArrivesAt
  <2>3. CASE k = src
    <3>1. /\ g.prog[k].op = "call" /\ h.prog[k].op = "call"
          /\ Falls(g.prog[k]) /\ Falls(h.prog[k])
          /\ After(k, g.prog[k]) = k + 1 /\ After(k, h.prog[k]) = k + 1
          /\ \A o : After(o, g.prog[k]) = o + 1 /\ After(o, h.prog[k]) = o + 1
      BY <1>2, <2>3 DEF Falls, After
    <3>2. k \notin h.builtin_call_offsets
      BY <1>2, <2>1, <3>1 DEF Goes
    <3> QED BY <1>2, <2>1, <3>1, <3>2 DEF Goes, ArrivesAt
  <2> QED BY <2>2, <2>3
<1>4. ASSUME NEW k \in K, k \notin P \ {src}
      PROVE  CallsRight(h, K, k)
  <2>1. k \in DOMAIN g.prog
    BY <1>1
  <2>2. CASE k # src
    <3>1. CallsRight(g, K, k)
      BY <1>4, <2>2 DEF Exact
    <3> QED BY <1>2, <2>1, <2>2, <3>1 DEF CallsRight, ArrivesAt
  <2>3. CASE k = src
    BY <1>2, <2>3 DEF CallsRight, ArrivesAt
  <2> QED BY <2>2, <2>3
<1> QED BY <1>1, <1>2, <1>3, <1>4 DEF Exact, h

(***************************************************************************)
(* Copying a subprogram behind a program.                                  *)
(***************************************************************************)
LEMMA JoinedIs ==
    ASSUME NEW n \in Nat, NEW m \in Nat, NEW f, NEW g, DOMAIN f = 0 .. n - 1, DOMAIN g = 0 .. m - 1
    PROVE  LET h == Joined(f, Shifted(g, -n))
           IN  /\ DOMAIN h = 0 .. n + m - 1 /\ h = [k \in DOMAIN h |-> h[k]]
               /\ \A k \in 0 .. n - 1 : h[k] = f[k]
               /\ \A k \in 0 .. m - 1 : h[n + k] = g[k]
<1> DEFINE t == Shifted(g, -n)
           h == Joined(f, t)
<1>1. DOMAIN t = {j - (-n) : j \in 0 .. m - 1}
  BY DEF Shifted
<1>2. DOMAIN t = n .. n + m - 1
  <2>1. \A k \in n .. n + m - 1 : \E j \in 0 .. m - 1 : k = j - (-n)
    <3> TAKE k \in n .. n + m - 1
    <3>1. k - n \in 0 .. m - 1 /\ k = (k - n) - (-n)
      OBVIOUS
    <3> QED BY <3>1
  <2>2. \A j \in 0 .. m - 1 : j - (-n) \in n .. n + m - 1
    OBVIOUS
  <2> HIDE DEF t
  <2> QED BY <1>1, <2>1, <2>2, ZenonT(60)
<1>3. \A k \in DOMAIN t : t[k] = g[k + (-n)]
  BY DEF Shifted
<1>4. \A k \in 0 .. m - 1 : n + k \in DOMAIN t /\ t[n + k] = g[k]
  <2>1. \A k \in 0 .. m - 1 : n + k \in n .. n + m - 1 /\ (n + k) + (-n) = k
    OBVIOUS
  <2> QED BY <1>2, <1>3, <2>1
<1> HIDE DEF t
<1>5. DOMAIN h = 0 .. n + m - 1
  BY <1>2 DEF Joined
<1>6. \A k \in DOMAIN h : h[k] = IF k \in 0 .. n - 1 THEN f[k] ELSE t[k]
  BY DEF Joined
<1>7. h = [k \in DOMAIN h |-> h[k]]
  BY DEF Joined
<1>8. \A k \in 0 .. n - 1 : h[k] = f[k]
  BY <1>5, <1>6
<1>9. \A k \in 0 .. m - 1 : h[n + k] = g[k]
  BY <1>4, <1>5, <1>6
<1> QED BY <1>5, <1>7, <1>8, <1>9 DEF t

LEMMA CopiedIs ==
    ASSUME NEW g, NEW sub, ProgramOK(g), ProgramOK(sub)
    PROVE  LET h == Copied(g, sub)
               n == Cardinality(DOMAIN g.prog)
               m == Cardinality(DOMAIN sub.prog)
           IN  /\ ProgramOK(h)
               /\ h.section = g.section /\ h.function_name = g.function_name
               /\ DOMAIN h.prog = 0 .. n + m - 1
               /\ \A k \in 0 .. n - 1 : h.prog[k] = g.prog[k] /\ h.origin[k] = g.origin[k]
               /\ \A k \in 0 .. m - 1 : /\ h.prog[n + k] = sub.prog[k]
                                        /\ h.origin[n + k] = sub.origin[k]
               /\ h.builtin_call_offsets =
                     g.builtin_call_offsets \cup {n + k : k \in sub.builtin_call_offsets}
<1> DEFINE n == Cardinality(DOMAIN g.prog)
           m == Cardinality(DOMAIN sub.prog)
           prog == Joined(g.prog, Shifted(sub.prog, -n))
           origin == Joined(g.origin, Shifted(sub.origin, -n))
           builtins == g.builtin_call_offsets \cup {n + k : k \in sub.builtin_call_offsets}
           h == [g EXCEPT !.prog = prog, !.origin = origin, !.builtin_call_offsets = builtins]
<1>1. Copied(g, sub) = h
  BY DEF Copied
<1>2. /\ n \in Nat \ {0} /\ m \in Nat \ {0}
      /\ DOMAIN g.prog = 0 .. n - 1 /\ DOMAIN sub.prog = 0 .. m - 1
      /\ g.origin \in [0 .. n - 1 -> Places] /\ sub.origin \in [0 .. m - 1 -> Places]
      /\ g.builtin_call_offsets \subseteq 0 .. n - 1
      /\ sub.builtin_call_offsets \subseteq 0 .. m - 1
      /\ g = RawProgram(g.section, g.function_name, g.prog, g.builtin_call_offsets, g.origin)
  BY SMTT(60) DEF ProgramOK
<1>3. /\ \A k \in 0 .. n - 1 : /\ DOMAIN g.prog[k] = {"op", "rel", "reloc"} /\ g.prog[k].rel \in Int
                                /\ g.prog[k].op \in Kinds
      /\ \A k \in 0 .. m - 1 : /\ DOMAIN sub.prog[k] = {"op", "rel", "reloc"} /\ sub.prog[k].rel \in Int
                                /\ sub.prog[k].op \in Kinds
  BY SMTT(60) DEF ProgramOK
<1> HIDE DEF n, m
<1>4. /\ DOMAIN prog = 0 .. n + m - 1 /\ prog = [k \in DOMAIN prog |-> prog[k]]
      /\ \A k \in 0 .. n - 1 : prog[k] = g.prog[k]
      /\ \A k \in 0 .. m - 1 : prog[n + k] = sub.prog[k]
  BY <1>2, JoinedIs, SMTT(60)
<1>5. /\ DOMAIN origin = 0 .. n + m - 1 /\ origin = [k \in DOMAIN origin |-> origin[k]]
      /\ \A k \in 0 .. n - 1 : origin[k] = g.origin[k]
      /\ \A k \in 0 .. m - 1 : origin[n + k] = sub.origin[k]
  <2>1. DOMAIN g.origin = 0 .. n - 1 /\ DOMAIN sub.origin = 0 .. m - 1
    BY <1>2
  <2> QED BY <1>2, <2>1, JoinedIs, SMTT(60)
<1> HIDE DEF prog, origin
<1>6. \A k \in 0 .. n + m - 1 : k \in 0 .. n - 1 \/ (k - n \in 0 .. m - 1 /\ n + (k - n) = k)
  BY <1>2
<1>7. \A k \in DOMAIN prog : /\ DOMAIN prog[k] = {"op", "rel", "reloc"} /\ prog[k].rel \in Int
                             /\ prog[k].op \in Kinds
  <2> TAKE k \in DOMAIN prog
  <2>1. CASE k \in 0 .. n - 1
    BY <1>3, <1>4, <2>1
  <2>2. CASE k - n \in 0 .. m - 1 /\ n + (k - n) = k
    <3>1. prog[n + (k - n)] = sub.prog[k - n]
      BY <1>4, <2>2
    <3> QED BY <1>3, <2>2, <3>1
  <2> QED BY <1>4, <1>6, <2>1, <2>2
<1>8. origin \in [DOMAIN prog -> Places]
  <2>1. \A k \in DOMAIN prog : origin[k] \in Places
    <3> TAKE k \in DOMAIN prog
    <3>1. CASE k \in 0 .. n - 1
      BY <1>2, <1>5, <3>1
    <3>2. CASE k - n \in 0 .. m - 1 /\ n + (k - n) = k
      <4>1. origin[n + (k - n)] = sub.origin[k - n]
        BY <1>5, <3>2
      <4> QED BY <1>2, <3>2, <4>1
    <3> QED BY <1>4, <1>6, <3>1, <3>2
  <2> QED BY <1>4, <1>5, <2>1
<1>9. Cardinality(DOMAIN prog) = n + m
  <2>1. 0 \in Int /\ n + m - 1 \in Int /\ ~ (0 > n + m - 1) /\ (n + m - 1) - 0 + 1 = n + m
    BY <1>2
  <2>2. Cardinality(0 .. n + m - 1) = n + m
    BY <2>1, FS_Interval
  <2> QED BY <1>4, <2>2
<1>10. builtins \subseteq DOMAIN prog
  BY <1>2, <1>4, SMTT(60)
<1> HIDE DEF builtins
<1>11. h = RawProgram(g.section, g.function_name, prog, builtins, origin)
  <2> DEFINE Raw(p, b, w) == RawProgram(g.section, g.function_name, p, b, w)
  <2>1. \A p, b, w : [Raw(p, b, w) EXCEPT !.prog = prog] = Raw(prog, b, w)
    BY DEF RawProgram
  <2>2. \A p, b, w : [Raw(p, b, w) EXCEPT !.origin = origin] = Raw(p, b, origin)
    BY DEF RawProgram
  <2>3. \A p, b, w : [Raw(p, b, w) EXCEPT !.builtin_call_offsets = builtins] = Raw(p, builtins, w)
    BY DEF RawProgram
  <2>4. g = Raw(g.prog, g.builtin_call_offsets, g.origin)
    BY <1>2
  <2> DEFINE g1 == [g EXCEPT !.prog = prog]
             g2 == [g1 EXCEPT !.origin = origin]
  <2> HIDE DEF Raw
  <2>5. g1 = Raw(prog, g.builtin_call_offsets, g.origin)
    BY <2>1, <2>4
  <2> HIDE DEF g1
  <2>6. g2 = Raw(prog, g.builtin_call_offsets, origin)
    BY <2>2, <2>5
  <2> HIDE DEF g2
  <2>7. [g2 EXCEPT !.builtin_call_offsets = builtins] = Raw(prog, builtins, origin)
    BY <2>3, <2>6
  <2>8. h = Raw(prog, builtins, origin)
    BY <2>7 DEF g1, g2
  <2> QED BY <2>8 DEF Raw
<1>12. /\ h.section = g.section /\ h.function_name = g.function_name /\ h.prog = prog
       /\ h.origin = origin /\ h.builtin_call_offsets = builtins
  BY <1>11 DEF RawProgram
<1>13. h = RawProgram(h.section, h.function_name, h.prog, h.builtin_call_offsets, h.origin)
  <2> HIDE DEF h
  <2> QED BY <1>11, <1>12
<1> HIDE DEF h
<1>14. ProgramOK(h)
  <2>1. /\ Cardinality(DOMAIN h.prog) \in Nat \ {0}
        /\ DOMAIN h.prog = 0 .. Cardinality(DOMAIN h.prog) - 1
    BY <1>2, <1>4, <1>9, <1>12
  <2>2. /\ h.prog = [k \in DOMAIN h.prog |-> h.prog[k]]
        /\ \A k \in DOMAIN h.prog : /\ DOMAIN h.prog[k] = {"op", "rel", "reloc"} /\ h.prog[k].rel \in Int
                                   /\ h.prog[k].op \in Kinds
        /\ h.origin \in [DOMAIN h.prog -> Places]
        /\ h.builtin_call_offsets \subseteq DOMAIN h.prog
    BY <1>4, <1>7, <1>8, <1>10, <1>12
  <2> QED BY ONLY <1>13, <2>1, <2>2, ZenonT(60) DEF ProgramOK
<1> QED BY <1>1, <1>4, <1>5, <1>12, <1>14 DEF n, m, builtins

LEMMA CopiedGood ==
    ASSUME NEW g, NEW sub, ProgramOK(g), ProgramOK(sub),
           NEW K, NEW P, Exact(g, K, P), P \subseteq DOMAIN g.prog, NEW L, Exact(sub, L, {})
    PROVE  LET n == Cardinality(DOMAIN g.prog)
           IN  /\ Exact(Copied(g, sub), K \cup {n + k : k \in L}, P)
               /\ n \in {n + k : k \in L}
<1> DEFINE h == Copied(g, sub)
           n == Cardinality(DOMAIN g.prog)
           m == Cardinality(DOMAIN sub.prog)
           M == {n + k : k \in L}
<1>1. /\ n \in Nat \ {0} /\ m \in Nat \ {0}
      /\ DOMAIN g.prog = 0 .. n - 1 /\ DOMAIN sub.prog = 0 .. m - 1
      /\ \A k \in 0 .. n - 1 : g.prog[k].rel \in Int
      /\ \A k \in 0 .. m - 1 : sub.prog[k].rel \in Int
      /\ g.builtin_call_offsets \subseteq 0 .. n - 1
      /\ sub.builtin_call_offsets \subseteq 0 .. m - 1
  BY SMTT(60) DEF ProgramOK
<1>2. /\ DOMAIN h.prog = 0 .. n + m - 1
      /\ \A k \in 0 .. n - 1 : h.prog[k] = g.prog[k] /\ h.origin[k] = g.origin[k]
      /\ \A k \in 0 .. m - 1 : h.prog[n + k] = sub.prog[k] /\ h.origin[n + k] = sub.origin[k]
      /\ h.builtin_call_offsets =
            g.builtin_call_offsets \cup {n + k : k \in sub.builtin_call_offsets}
  BY CopiedIs
<1> HIDE DEF n, m, h
<1>3. K \subseteq 0 .. n - 1 /\ 0 \in K /\ L \subseteq 0 .. m - 1 /\ 0 \in L
  BY <1>1 DEF Exact
<1>4. K \cup M \subseteq DOMAIN h.prog /\ 0 \in K \cup M
  <2>1. K \subseteq 0 .. n + m - 1
    BY <1>1, <1>3
  <2>2. \A k \in L : n + k \in 0 .. n + m - 1
    BY <1>1, <1>3
  <2> QED BY <1>2, <1>3, <2>1, <2>2, ZenonT(60)
<1>5. n \in M
  BY <1>1, <1>3
<1>6. ASSUME NEW k \in K
      PROVE  Goes(h, K \cup M, k) /\ (k \notin P => CallsRight(h, K \cup M, k))
  <2>1. Goes(g, K, k) /\ (k \notin P => CallsRight(g, K, k)) /\ k \in 0 .. n - 1
    BY <1>3 DEF Exact
  <2>2. \A to, places : ArrivesAt(g, K, to, places) => ArrivesAt(h, K \cup M, to, places)
    BY <1>2, <1>3 DEF ArrivesAt
  <2>3. h.prog[k] = g.prog[k] /\ h.origin[k] = g.origin[k]
    BY <1>2, <2>1
  <2>4. k \in h.builtin_call_offsets <=> k \in g.builtin_call_offsets
    BY <1>1, <1>2, <2>1, SMTT(60)
  <2>5. Goes(h, K \cup M, k)
    BY <2>1, <2>2, <2>3, <2>4 DEF Goes
  <2>6. k \notin P => CallsRight(h, K \cup M, k)
    BY <2>1, <2>2, <2>3 DEF CallsRight
  <2> QED BY <2>5, <2>6
<1>7. ASSUME NEW k \in L
      PROVE  Goes(h, K \cup M, n + k) /\ CallsRight(h, K \cup M, n + k)
  <2>1. Goes(sub, L, k) /\ CallsRight(sub, L, k) /\ k \in 0 .. m - 1
    BY <1>3 DEF Exact
  <2>2. \A to, places : ArrivesAt(sub, L, to, places) => ArrivesAt(h, K \cup M, n + to, places)
    BY <1>2, <1>3 DEF ArrivesAt
  <2>3. h.prog[n + k] = sub.prog[k] /\ h.origin[n + k] = sub.origin[k]
    BY <1>2, <2>1
  <2>4. n + k \in h.builtin_call_offsets <=> k \in sub.builtin_call_offsets
    <3>1. n + k \in {n + j : j \in sub.builtin_call_offsets} <=> k \in sub.builtin_call_offsets
      BY <1>1, <2>1
    <3>2. n + k \notin g.builtin_call_offsets
      BY <1>1, <2>1
    <3> QED BY <1>2, <3>1, <3>2
  <2>5. /\ TargetOf(n + k, sub.prog[k]) = n + TargetOf(k, sub.prog[k])
        /\ After(n + k, sub.prog[k]) = n + After(k, sub.prog[k])
        /\ (n + k) + 1 = n + (k + 1)
    <3>1. n \in Int /\ k \in Int /\ sub.prog[k].rel \in Int
      BY <1>1, <2>1
    <3> DEFINE rel == sub.prog[k].rel
    <3>2. n + k + 1 + rel = n + (k + 1 + rel) /\ (n + k) + 1 = n + (k + 1)
          /\ (n + k) + 2 = n + (k + 2)
      <4> HIDE DEF rel
      <4>1. rel \in Int
        BY <3>1 DEF rel
      <4> QED BY <3>1, <4>1
    <3> QED BY <3>2 DEF TargetOf, After
  <2>6. sub.prog[k].op = "wide" => n + (k + 1) \in K \cup M
    BY <2>1, SMTT(60) DEF Goes
  <2>7. Goes(h, K \cup M, n + k)
    BY <2>1, <2>2, <2>3, <2>4, <2>5, <2>6, SMTT(60) DEF Goes
  <2>8. CallsRight(h, K \cup M, n + k)
    BY <2>1, <2>2, <2>3, <2>5 DEF CallsRight
  <2> QED BY <2>7, <2>8
<1>8. \A k \in K \cup M : /\ Goes(h, K \cup M, k)
                          /\ k \notin P => CallsRight(h, K \cup M, k)
  BY <1>6, <1>7
<1> QED BY <1>4, <1>5, <1>8 DEF Exact, h, n

-----------------------------------------------------------------------------
(***************************************************************************)
(* Cutting out a program.                                                  *)
(***************************************************************************)
LEMMA CutIs ==
    ASSUME file \in Files, NEW s \in Sections, NEW o \in Starts(s), NEW end \in o + 1 .. Size(s)
    PROVE  LET g == CutOut(s, o, end)
           IN  /\ ProgramOK(g) /\ g.section = s /\ g.function_name = NameAt(s, o)
               /\ DOMAIN g.prog = 0 .. end - o - 1
               /\ \A k \in DOMAIN g.prog : /\ k + o \in DOMAIN Section(s).code
                                           /\ g.prog[k] = Section(s).code[k + o]
                                           /\ g.origin[k] = <<s, k + o>>
                                           /\ k \in g.builtin_call_offsets <=> g.prog[k].op = "builtin"
<1> DEFINE code == Section(s).code
           span == [k \in o .. end - 1 |-> code[k]]
           part == Shifted(span, o)
           origin == [k \in DOMAIN part |-> <<s, k + o>>]
           builtins == {k \in DOMAIN part : part[k].op = "builtin"}
           g == RawProgram(s, NameAt(s, o), part, builtins, origin)
<1>1. /\ Size(s) \in Nat \ {0} /\ DOMAIN code = 0 .. Size(s) - 1 /\ o \in 0 .. Size(s) - 1
      /\ \A k \in DOMAIN code : DOMAIN code[k] = {"op", "rel", "reloc"} /\ code[k].rel \in Int
  BY SectionIs
<1>2. CutOut(s, o, end) = g
  BY DEF CutOut
<1> HIDE DEF code
<1>3. DOMAIN span = o .. end - 1 /\ \A k \in o .. end - 1 : span[k] = code[k]
  OBVIOUS
<1> HIDE DEF span
<1>4. DOMAIN part = {j - o : j \in o .. end - 1} /\ \A k \in DOMAIN part : part[k] = span[k + o]
  BY <1>3 DEF Shifted
<1>5. part = [k \in DOMAIN part |-> part[k]]
  BY DEF Shifted
<1> HIDE DEF part
<1>6. DOMAIN part = 0 .. end - o - 1
  <2>1. \A j \in o .. end - 1 : j - o \in 0 .. end - o - 1
    BY <1>1
  <2>2. \A k \in 0 .. end - o - 1 : k + o \in o .. end - 1 /\ k = (k + o) - o
    BY <1>1
  <2> QED BY <1>4, <2>1, <2>2
<1>7. \A k \in DOMAIN part : k + o \in DOMAIN code /\ k + o \in o .. end - 1
  BY <1>1, <1>6, SMTT(60)
<1>8. \A k \in DOMAIN part : part[k] = code[k + o]
  BY <1>3, <1>4, <1>7
<1>9. /\ origin \in [DOMAIN part -> Places] /\ builtins \subseteq DOMAIN part
      /\ \A k \in DOMAIN part : origin[k] = <<s, k + o>> /\ (k \in builtins <=> part[k].op = "builtin")
  <2>1. \A k \in DOMAIN part : <<s, k + o>> \in Places
    BY <1>7 DEF Places, code
  <2> QED BY <2>1
<1>10. Cardinality(DOMAIN part) = end - o /\ end - o \in Nat \ {0}
  <2>1. 0 \in Int /\ end - o - 1 \in Int /\ ~ (0 > end - o - 1) /\ (end - o - 1) - 0 + 1 = end - o
    BY <1>1
  <2>2. Cardinality(0 .. end - o - 1) = end - o
    BY <2>1, FS_Interval
  <2> QED BY <1>1, <1>6, <2>2
<1> HIDE DEF origin, builtins
<1>11. /\ g.section = s /\ g.function_name = NameAt(s, o) /\ g.prog = part
       /\ g.origin = origin /\ g.builtin_call_offsets = builtins
  BY DEF RawProgram
<1>12. g = RawProgram(g.section, g.function_name, g.prog, g.builtin_call_offsets, g.origin)
  BY DEF RawProgram
<1> HIDE DEF g
<1>13. /\ Cardinality(DOMAIN g.prog) \in Nat \ {0}
       /\ DOMAIN g.prog = 0 .. Cardinality(DOMAIN g.prog) - 1
  BY <1>6, <1>10, <1>11
<1>14. /\ g.prog = [k \in DOMAIN g.prog |-> g.prog[k]]
       /\ \A k \in DOMAIN g.prog : /\ DOMAIN g.prog[k] = {"op", "rel", "reloc"} /\ g.prog[k].rel \in Int
                                  /\ g.prog[k].op \in Kinds
       /\ g.origin \in [DOMAIN g.prog -> Places]
       /\ g.builtin_call_offsets \subseteq DOMAIN g.prog
  <2>1. \A k \in DOMAIN code : code[k].op \in Kinds
    BY SlotsAssumption DEF Sections, Section, Kinds, code
  <2>2. \A k \in DOMAIN part : /\ DOMAIN part[k] = {"op", "rel", "reloc"} /\ part[k].rel \in Int
                               /\ part[k].op \in Kinds
    BY <1>1, <1>7, <1>8, <2>1
  <2> QED BY ONLY <1>5, <1>9, <1>11, <2>2
<1>15. ProgramOK(g)
  BY ONLY <1>12, <1>13, <1>14, ZenonT(60) DEF ProgramOK
<1> QED BY <1>2, <1>6, <1>7, <1>8, <1>9, <1>11, <1>15, SMTT(60) DEF code

\* The slots of the calls of a program that is cut out.
Sources(R) == {r.source_offset : r \in R}

LEMMA RelocationIs ==
    ASSUME file \in Files, NEW s \in Sections, NEW o \in Starts(s), NEW end \in o + 1 .. Size(s),
           NEW p, NEW r \in FunctionRelocations(p, s, o, end)
    PROVE  LET g == CutOut(s, o, end)
               i == Section(s).code[r.source_offset + o]
           IN  /\ r.prog = p /\ r.source_offset \in DOMAIN g.prog
               /\ r.synthetic \in BOOLEAN
               /\ g.prog[r.source_offset].op = "call"
               /\ g.origin[r.source_offset] = <<s, r.source_offset + o>>
               /\ r.source_offset + o \in DOMAIN Section(s).code
               /\ \/ i.reloc # NoReloc /\ r.name = i.reloc.name
                  \/ /\ i.reloc = NoReloc /\ r.name = Symbols(s)[TargetOf(r.source_offset + o, i)]
                     /\ r.source_offset + o \in Leaving(Section(s).code, o, end)
<1> DEFINE code == Section(s).code
           g == CutOut(s, o, end)
           record(k, q, synthetic) ==
               [prog |-> p, source_offset |-> k - o, section |-> q.section, name |-> q.name,
                synthetic |-> synthetic]
<1>1. o \in Nat /\ end \in Nat
  BY SectionIs, SMTT(60)
<1>2. PICK k \in Relocated(code, o, end) \cup Leaving(code, o, end) :
         \/ k \in Relocated(code, o, end) /\ r = record(k, code[k].reloc, FALSE)
         \/ /\ k \in Leaving(code, o, end)
            /\ r = record(k, Reloc(s, Symbols(s)[TargetOf(k, code[k])]), TRUE)
  BY DEF FunctionRelocations
<1>3. k \in o .. end - 1 /\ code[k].op = "call"
  BY <1>2 DEF Relocated, Leaving
<1>4. k - o \in 0 .. end - o - 1 /\ (k - o) + o = k
  BY <1>1, <1>3
<1>5. r.prog = p /\ r.source_offset = k - o /\ r.synthetic \in BOOLEAN
  <2>1. \A q : \A b \in BOOLEAN : /\ record(k, q, b).prog = p /\ record(k, q, b).source_offset = k - o
                                   /\ record(k, q, b).synthetic \in BOOLEAN
    OBVIOUS
  <2>2. \E q : \E b \in BOOLEAN : r = record(k, q, b)
    <3> HIDE DEF record
    <3> QED BY <1>2, ZenonT(60)
  <2> HIDE DEF record, code
  <2> QED BY <2>1, <2>2, ZenonT(60)
<1>6. \/ code[k].reloc # NoReloc /\ r.name = code[k].reloc.name
      \/ /\ code[k].reloc = NoReloc /\ r.name = Symbols(s)[TargetOf(k, code[k])]
         /\ k \in Leaving(code, o, end)
  <2>1. CASE k \in Relocated(code, o, end) /\ r = record(k, code[k].reloc, FALSE)
    BY <2>1, SMTT(60) DEF Relocated
  <2>2. CASE /\ k \in Leaving(code, o, end)
             /\ r = record(k, Reloc(s, Symbols(s)[TargetOf(k, code[k])]), TRUE)
    BY <2>2 DEF Leaving, Reloc
  <2> QED BY <1>2, <2>1, <2>2, SMTT(60)
<1> HIDE DEF code, g
<1>7. /\ DOMAIN g.prog = 0 .. end - o - 1
      /\ \A j \in DOMAIN g.prog : /\ j + o \in DOMAIN code /\ g.prog[j] = code[j + o]
                                  /\ g.origin[j] = <<s, j + o>>
  BY CutIs DEF g, code
<1>8. /\ k - o \in DOMAIN g.prog /\ g.prog[k - o] = code[k] /\ g.origin[k - o] = <<s, k>>
      /\ k \in DOMAIN code
  BY <1>4, <1>7
<1> QED BY <1>3, <1>4, <1>5, <1>6, <1>8 DEF code, g

\* The function of that name is the one the call goes to.
Resolves(name, at) ==
    \A t \in Sections : \A x \in Starts(t) :
        NameAt(t, x) = name => <<t, x>> \in CalledFrom(at[1], at[2])

LEMMA RelocationResolves ==
    ASSUME file \in Files, NEW s \in Sections, NEW o \in Starts(s), NEW end \in o + 1 .. Size(s),
           NEW p, NEW r \in FunctionRelocations(p, s, o, end),
           NamesApart, ~ CannotName(s, o, end)
    PROVE  Resolves(r.name, <<s, r.source_offset + o>>)
<1> DEFINE k == r.source_offset + o
           i == Section(s).code[k]
<1>1. /\ k \in DOMAIN Section(s).code
      /\ \/ i.reloc # NoReloc /\ r.name = i.reloc.name
         \/ /\ i.reloc = NoReloc /\ r.name = Symbols(s)[TargetOf(k, i)]
            /\ k \in Leaving(Section(s).code, o, end)
  BY RelocationIs
<1> HIDE DEF k
<1> SUFFICES ASSUME NEW t \in Sections, NEW x \in Starts(t), NameAt(t, x) = r.name
             PROVE  <<t, x>> \in CalledFrom(s, k)
  BY DEF Resolves, k
<1>2. CASE i.reloc # NoReloc /\ r.name = i.reloc.name
  <2>1. t = i.reloc.section
    BY <1>1, <1>2, SMTT(60) DEF NamesApart
  <2>2. <<t, x>> \in FunctionAt(i.reloc)
    BY <1>2, <2>1 DEF FunctionAt
  <2> QED BY <1>2, <2>2 DEF CalledFrom
<1>3. CASE /\ i.reloc = NoReloc /\ r.name = Symbols(s)[TargetOf(k, i)]
           /\ k \in Leaving(Section(s).code, o, end)
  <2>1. TargetOf(k, i) \in DOMAIN Symbols(s) \cap DOMAIN Section(s).code
    BY <1>3 DEF CannotName
  <2>2. TargetOf(k, i) \in Starts(s) /\ NameAt(s, TargetOf(k, i)) = r.name
    BY <1>3, <2>1 DEF Starts, NameAt
  <2>3. t = s /\ x = TargetOf(k, i)
    BY <2>2 DEF NamesApart
  <2> QED BY <1>3, <2>3 DEF CalledFrom
<1> QED BY <1>1, <1>2, <1>3, SMTT(60)

LEMMA CutGood ==
    ASSUME file \in Files, NEW s \in Sections, NEW o \in Starts(s), NEW p, JumpsInOrder
    PROVE  LET end == SpanEnd(s, o)
               g == CutOut(s, o, end)
           IN  Exact(g, {k \in DOMAIN g.prog : k + o \in Reachable(s, o)},
                    Sources(FunctionRelocations(p, s, o, end)))
<1> DEFINE end == SpanEnd(s, o)
           g == CutOut(s, o, end)
           code == Section(s).code
           R == Reachable(s, o)
           K == {k \in DOMAIN g.prog : k + o \in R}
           P == Sources(FunctionRelocations(p, s, o, end))
<1>1. /\ Size(s) \in Nat \ {0} /\ DOMAIN code = 0 .. Size(s) - 1 /\ IsFiniteSet(DOMAIN code)
      /\ o \in 0 .. Size(s) - 1
      /\ \A k \in DOMAIN code : code[k].rel \in Int
  BY SectionIs
<1>2. end \in o + 1 .. Size(s) /\ \A k \in R : k < end
  BY SpanEndIs
<1>3. R \subseteq DOMAIN code /\ o \in R /\ KeptIn(code, R)
  BY <1>1, ReachableIs DEF Reachable
<1> HIDE DEF end, R
<1>4. /\ DOMAIN g.prog = 0 .. end - o - 1
      /\ \A k \in DOMAIN g.prog : /\ k + o \in DOMAIN code
                                  /\ g.prog[k] = code[k + o]
                                  /\ g.origin[k] = <<s, k + o>>
                                  /\ k \in g.builtin_call_offsets <=> g.prog[k].op = "builtin"
  BY <1>2, CutIs
<1>5. \A k \in R : k >= o => k - o \in K /\ g.origin[k - o] = <<s, k>>
  <2> TAKE k \in R
  <2> HAVE k >= o
  <2>1. k \in Int /\ k < end
    BY <1>1, <1>2, <1>3
  <2>2. k - o \in 0 .. end - o - 1 /\ (k - o) + o = k
    BY <1>1, <1>2, <2>1
  <2> HIDE DEF g
  <2> QED BY <1>4, <2>2
<1>6. K \subseteq DOMAIN g.prog /\ 0 \in K
  <2>1. 0 \in 0 .. end - o - 1 /\ 0 + o = o
    BY <1>1, <1>2
  <2> HIDE DEF g
  <2> QED BY <1>3, <1>4, <2>1
<1>7. ASSUME NEW k \in K
      PROVE  Goes(g, K, k) /\ (k \notin P => CallsRight(g, K, k))
  <2> DEFINE i == g.prog[k]
             j == k + o
  <2>1. /\ k \in DOMAIN g.prog /\ j \in R /\ j \in DOMAIN code /\ i = code[j]
        /\ g.origin[k] = <<s, j>> /\ i.rel \in Int /\ k \in 0 .. end - o - 1
    <3> HIDE DEF g
    <3> QED BY <1>1, <1>4, SMTT(60)
  <2>2. j >= o /\ j \in Nat /\ j \in o .. end - 1
    BY <1>1, <1>2, <2>1
  <2>3. g.origin[k][1] = s /\ g.origin[k][2] = j
    BY <2>1
  <2>4. \A t \in R : t >= o => \A places : <<s, t>> \in places => ArrivesAt(g, K, t - o, places)
    <3> HIDE DEF g, K
    <3> QED BY <1>5 DEF ArrivesAt
  <2>5. LeadsTo(j, i) \cap DOMAIN code \subseteq R
    BY <1>3, <2>1 DEF KeptIn
  <2>6. TargetOf(k, i) = TargetOf(j, i) - o /\ After(k, i) = After(j, i) - o /\ k + 1 = (j + 1) - o
    <3> DEFINE rel == i.rel
    <3>1. rel \in Int /\ k \in Int /\ o \in Int /\ j = k + o
      BY <1>1, <2>1
    <3> HIDE DEF rel, j
    <3>2. k + 1 + rel = j + 1 + rel - o /\ k + 1 = j + 1 - o /\ k + 2 = j + 2 - o
      BY <3>1
    <3> QED BY <3>1, <3>2 DEF TargetOf, After, rel
  <2> HIDE DEF g, K
  <2>7. ASSUME i.op \in {"jump", "branch"}
        PROVE  ArrivesAt(g, K, TargetOf(k, i), {<<s, TargetOf(j, code[j])>>})
    <3>1. TargetOf(j, i) \in FunctionStart(s, j) .. Size(s) - 1
      BY <2>1, <2>7 DEF JumpsInOrder
    <3>2. FunctionStart(s, j) \in Nat /\ FunctionStart(s, j) >= o
      BY <2>1, <2>2, FunctionStartIs
    <3>3. TargetOf(j, i) \in DOMAIN code /\ TargetOf(j, i) >= o
      BY <1>1, <3>1, <3>2
    <3>4. TargetOf(j, i) \in R
      BY <2>5, <2>7, <3>3 DEF LeadsTo
    <3> QED BY <2>1, <2>4, <2>6, <3>3, <3>4
  <2>8. ASSUME Falls(i)
        PROVE  ArrivesAt(g, K, After(k, i), {<<s, After(j, i)>>})
    <3>1. After(j, i) \in DOMAIN code
      BY <2>1, <2>8 DEF JumpsInOrder
    <3>2. After(j, i) >= o /\ After(j, i) \in LeadsTo(j, i)
      BY <1>1, <2>2, <2>8, SMTT(60) DEF After, Falls, LeadsTo
    <3> QED BY <2>4, <2>5, <2>6, <3>1, <3>2
  <2>9. i.op = "wide" => k + 1 \in K
    <3> HAVE i.op = "wide"
    <3>1. j + 2 \in DOMAIN code
      BY <2>1 DEF JumpsInOrder, Falls, After
    <3>2. j + 1 \in DOMAIN code /\ j + 1 >= o
      BY <1>1, <2>2, <3>1
    <3>3. j + 1 \in R
      BY <2>5, <3>2 DEF LeadsTo
    <3> QED BY <1>5, <2>6, <3>2, <3>3
  <2>10. Goes(g, K, k)
    BY <1>4, <2>1, <2>3, <2>7, <2>8, <2>9 DEF Goes
  <2>11. ASSUME k \notin P, i.op = "call"
         PROVE  ArrivesAt(g, K, TargetOf(k, i), CalledFrom(s, j))
    <3>1. j \notin Relocated(code, o, end) /\ j \notin Leaving(code, o, end)
      <4> SUFFICES ASSUME j \in Relocated(code, o, end) \cup Leaving(code, o, end) PROVE FALSE
        OBVIOUS
      <4> DEFINE record(x, q, synthetic) ==
                     [prog |-> p, source_offset |-> x - o, section |-> q.section, name |-> q.name,
                      synthetic |-> synthetic]
                 called == Reloc(s, Symbols(s)[TargetOf(j, code[j])])
      <4>0. \/ record(j, code[j].reloc, FALSE) \in FunctionRelocations(p, s, o, end)
            \/ record(j, called, TRUE) \in FunctionRelocations(p, s, o, end)
        <5> HIDE DEF j
        <5>1. CASE j \in Relocated(code, o, end)
          BY <5>1 DEF FunctionRelocations
        <5>2. CASE j \in Leaving(code, o, end)
          BY <5>2 DEF FunctionRelocations
        <5> QED BY <5>1, <5>2, SMTT(60)
      <4>1. \E r \in FunctionRelocations(p, s, o, end) : r.source_offset = j - o
        <5>1. \A q, b : record(j, q, b).source_offset = j - o
          OBVIOUS
        <5> HIDE DEF record, called, j
        <5> QED BY <4>0, <5>1
      <4>2. j - o = k
        BY <1>1, <2>1
      <4> QED BY <2>11, <4>1, <4>2 DEF Sources
    <3>2. i.reloc = NoReloc /\ TargetOf(j, i) \in o .. end - 1
      BY <2>1, <2>2, <2>11, <3>1 DEF Relocated, Leaving
    <3>3. TargetOf(j, i) \in DOMAIN code /\ TargetOf(j, i) >= o
      BY <1>1, <1>2, <3>2, SMTT(60)
    <3>4. TargetOf(j, i) \in R
      BY <2>5, <2>11, <3>3 DEF LeadsTo
    <3>5. <<s, TargetOf(j, i)>> \in CalledFrom(s, j)
      BY <2>1, <3>2 DEF CalledFrom
    <3> QED BY <2>4, <2>6, <3>3, <3>4, <3>5
  <2>12. k \notin P => CallsRight(g, K, k)
    BY <2>3, <2>11 DEF CallsRight
  <2> QED BY <2>10, <2>12
<1> QED BY <1>6, <1>7 DEF Exact, end, R

-----------------------------------------------------------------------------
(***************************************************************************)
(* The state of linking.                                                   *)
(***************************************************************************)
CallIs(c) == /\ c = [prog |-> c.prog, done |-> c.done, subprogram_offsets |-> c.subprogram_offsets]
             /\ c.prog \in visiting
             /\ \A n \in DOMAIN c.subprogram_offsets : c.subprogram_offsets[n] \in Nat
RelocIs(r) ==
    /\ r.prog \in ProgIds /\ r.synthetic \in BOOLEAN
    /\ r.source_offset \in DOMAIN raw_programs[r.prog].prog
    /\ raw_programs[r.prog].prog[r.source_offset].op = "call"

LinkTypes ==
    /\ file \in Files
    /\ load \in {"read", "link", "linked", "failed"}
    /\ place.section \in Sections => place.offset \in Starts(place.section)
    /\ IsSeq(raw_programs)
    /\ \A p \in ProgIds : ProgramOK(raw_programs[p]) /\ raw_programs[p].section \in Sections
    /\ \A r \in relocations : RelocIs(r)
    /\ prog_idx \in Nat \ {0}
    /\ resolved \cup visiting \subseteq ProgIds /\ resolved \cap visiting = {}
    /\ IsSeq(calls) /\ \A i \in DOMAIN calls : CallIs(calls[i])
    /\ \A i, j \in DOMAIN calls : calls[i].prog = calls[j].prog => i = j
    /\ load = "read" => calls = <<>> /\ resolved = {} /\ visiting = {} /\ prog_idx = 1

\* A program starts at the function it is named for.
StartsAt(g) ==
    \E o \in Starts(g.section) : g.origin[0] = <<g.section, o>> /\ g.function_name = NameAt(g.section, o)

\* What an activation has placed is in the program, each name at its function.
PutAt(g, K, offsets) ==
    \A n \in DOMAIN offsets :
        /\ offsets[n] \in K
        /\ \E t \in Sections : \E x \in Starts(t) : NameAt(t, x) = n /\ g.origin[offsets[n]] = <<t, x>>
ActiveGood(c) ==
    \E K : /\ Exact(raw_programs[c.prog], K, Sources(RelocsFor(c.prog) \ c.done))
           /\ PutAt(raw_programs[c.prog], K, c.subprogram_offsets)

Programs ==
    /\ \A p \in ProgIds : StartsAt(raw_programs[p])
    /\ \A r \in relocations : Resolves(r.name, raw_programs[r.prog].origin[r.source_offset])
    /\ \A p \in ProgIds \ (resolved \cup visiting) :
          \E K : Exact(raw_programs[p], K, Sources(RelocsFor(p)))
    /\ \A p \in resolved : \E K : Exact(raw_programs[p], K, {})
    /\ \A i \in DOMAIN calls : ActiveGood(calls[i])

Passed ==
    /\ \A q \in ProgIds : q < prog_idx /\ Wanted(q) => q \in resolved
    /\ load = "linked" => prog_idx \notin ProgIds

LinkInv ==
    /\ LinkTypes /\ Passed
    /\ JumpsInOrder /\ NamesApart => Programs

\* Nothing of the file changes.
LEMMA FileKept ==
    ASSUME file' = file
    PROVE  /\ Sections' = Sections /\ \A s : Section(s)' = Section(s)
           /\ Places' = Places /\ \A s : Starts(s)' = Starts(s)
           /\ \A s, o : NameAt(s, o)' = NameAt(s, o)
           /\ \A g : ProgramOK(g) => ProgramOK(g)'
           /\ \A g, K, P : Exact(g, K, P) => Exact(g, K, P)'
           /\ \A n, at : Resolves(n, at) => Resolves(n, at)'
           /\ \A g : StartsAt(g) => StartsAt(g)'
           /\ \A g, K, f : PutAt(g, K, f) => PutAt(g, K, f)'
           /\ JumpsInOrder' = JumpsInOrder /\ NamesApart' = NamesApart
<1>1. Sections' = Sections /\ \A s : Section(s)' = Section(s)
  BY DEF Sections, Section
<1>2. /\ \A s : Symbols(s)' = Symbols(s) /\ Size(s)' = Size(s) /\ Starts(s)' = Starts(s)
      /\ \A s, o : NameAt(s, o)' = NameAt(s, o)
  BY <1>1 DEF Symbols, Size, Starts, NameAt
<1>3. Places' = Places
  BY <1>1 DEF Places
<1>4. \A g : ProgramOK(g) => ProgramOK(g)'
  BY <1>3 DEF ProgramOK
<1>5. \A s, k : CalledFrom(s, k)' = CalledFrom(s, k)
  BY <1>1, <1>2, ZenonT(60) DEF CalledFrom, FunctionAt
<1>6. \A g, K, P : Exact(g, K, P) => Exact(g, K, P)'
  BY <1>1, <1>5, SMTT(60) DEF Exact, Goes, CallsRight
<1>7. \A n, at : Resolves(n, at) => Resolves(n, at)'
  BY <1>1, <1>2, <1>5 DEF Resolves
<1>8. \A g : StartsAt(g) => StartsAt(g)'
  BY <1>2 DEF StartsAt
<1>9. \A g, K, f : PutAt(g, K, f) => PutAt(g, K, f)'
  BY <1>1, <1>2 DEF PutAt
<1>10. JumpsInOrder' = JumpsInOrder
  <2>1. \A s, k : FunctionStart(s, k)' = FunctionStart(s, k)
    BY <1>2 DEF FunctionStart
  <2> QED BY <1>1, <1>2, <2>1 DEF JumpsInOrder
<1>11. NamesApart' = NamesApart
  BY <1>1, <1>2 DEF NamesApart
<1> QED BY <1>1, <1>2, <1>3, <1>4, <1>6, <1>7, <1>8, <1>9, <1>10, <1>11, SMTT(60)

-----------------------------------------------------------------------------
(***************************************************************************)
(* The beginning, and the steps that change no program.                    *)
(***************************************************************************)
LEMMA LinkBegins ==
    ASSUME LinkInit
    PROVE  LinkInv
<1>1. /\ file \in Files /\ load = "read" /\ place = [section |-> 1, offset |-> 0]
      /\ raw_programs = <<>> /\ relocations = {} /\ prog_idx = 1
      /\ resolved = {} /\ visiting = {} /\ calls = <<>>
  BY DEF LinkInit
<1>2. IsSeq(<<>>) /\ DOMAIN <<>> = {}
  <2>1. <<>> = [i \in 1 .. 0 |-> <<>>[i]]
    OBVIOUS
  <2> QED BY <2>1 DEF IsSeq
<1>3. ProgIds = {}
  BY <1>1, <1>2 DEF ProgIds
<1>4. place.offset \in Starts(place.section)
  BY <1>1 DEF Starts
<1>5. LinkTypes
  BY <1>1, <1>2, <1>3, <1>4 DEF LinkTypes
<1>6. Passed
  BY <1>1, <1>3 DEF Passed
<1>7. Programs
  BY <1>1, <1>2, <1>3 DEF Programs
<1> QED BY <1>5, <1>6, <1>7 DEF LinkInv

Kept1 == UNCHANGED <<file, place, raw_programs, relocations>>

\* What the activations are, next.
NextCalls ==
    /\ IsSeq(calls')
    /\ \A i \in DOMAIN calls' :
          /\ calls'[i] = [prog |-> calls'[i].prog, done |-> calls'[i].done,
                          subprogram_offsets |-> calls'[i].subprogram_offsets]
          /\ calls'[i].prog \in visiting'
          /\ \A n \in DOMAIN calls'[i].subprogram_offsets : calls'[i].subprogram_offsets[n] \in Nat
    /\ \A i, j \in DOMAIN calls' : calls'[i].prog = calls'[j].prog => i = j

LEMMA MarkStep ==
    ASSUME LinkInv, Kept1,
           load' \in {"link", "linked", "failed"}, prog_idx' \in Nat \ {0},
           resolved' \cup visiting' \subseteq ProgIds, resolved' \cap visiting' = {},
           resolved \cup visiting \subseteq resolved' \cup visiting',
           NextCalls, Passed',
           JumpsInOrder /\ NamesApart /\ Programs =>
               /\ \A p \in resolved' : \E K : Exact(raw_programs[p], K, {})
               /\ \A i \in DOMAIN calls' : ActiveGood(calls'[i])
    PROVE  LinkInv'
<1>1. /\ file' = file /\ place' = place /\ raw_programs' = raw_programs
      /\ relocations' = relocations
  BY DEF Kept1
<1>2. /\ Sections' = Sections /\ \A s : Starts(s)' = Starts(s)
      /\ \A g : ProgramOK(g) => ProgramOK(g)'
      /\ \A g, K, P : Exact(g, K, P) => Exact(g, K, P)'
      /\ \A n, at : Resolves(n, at) => Resolves(n, at)'
      /\ \A g : StartsAt(g) => StartsAt(g)'
      /\ \A g, K, f : PutAt(g, K, f) => PutAt(g, K, f)'
      /\ JumpsInOrder' = JumpsInOrder /\ NamesApart' = NamesApart
  BY <1>1, FileKept
<1>3. ProgIds' = ProgIds /\ \A p : RelocsFor(p)' = RelocsFor(p)
  BY <1>1 DEF ProgIds, RelocsFor
<1>4. LinkTypes
  BY DEF LinkInv
<1>5. \A r : RelocIs(r) => RelocIs(r)'
  BY <1>1, <1>3 DEF RelocIs
<1>6. \A i \in DOMAIN calls' : CallIs(calls[i])'
  BY DEF NextCalls, CallIs
<1>7. LinkTypes'
  BY <1>1, <1>2, <1>3, <1>4, <1>5, <1>6, SMTT(60) DEF LinkTypes, NextCalls
<1>8. ASSUME JumpsInOrder, NamesApart
      PROVE  Programs'
  <2>1. Programs
    BY <1>8 DEF LinkInv
  <2>2. \A p \in ProgIds' : StartsAt(raw_programs[p])'
    BY <1>1, <1>2, <1>3, <2>1 DEF Programs
  <2>3. \A r \in relocations' : Resolves(r.name, raw_programs[r.prog].origin[r.source_offset])'
    BY <1>1, <1>2, <2>1 DEF Programs
  <2>4. \A p \in ProgIds' \ (resolved' \cup visiting') :
            \E K : Exact(raw_programs[p], K, Sources(RelocsFor(p)))'
    <3>1. \A p \in ProgIds \ (resolved \cup visiting) :
              \E K : Exact(raw_programs[p], K, Sources(RelocsFor(p)))
      BY <2>1 DEF Programs
    <3>2. \A p, K : Exact(raw_programs[p], K, Sources(RelocsFor(p)))
                        => Exact(raw_programs[p], K, Sources(RelocsFor(p)))'
      BY <1>1, <1>2, <1>3 DEF Sources
    <3> QED BY <1>3, <3>1, <3>2
  <2>5. \A p \in resolved' : \E K : Exact(raw_programs[p], K, {})'
    <3>1. \A p \in resolved' : \E K : Exact(raw_programs[p], K, {})
      BY <1>8, <2>1
    <3>2. \A p, K : Exact(raw_programs[p], K, {}) => Exact(raw_programs[p], K, {})'
      BY <1>1, <1>2
    <3> QED BY <3>1, <3>2
  <2>6. \A i \in DOMAIN calls' : ActiveGood(calls[i])'
    <3>1. \A i \in DOMAIN calls' : ActiveGood(calls'[i])
      BY <1>8, <2>1
    <3>2. ASSUME NEW i \in DOMAIN calls'
          PROVE  ActiveGood(calls[i])'
      <4>1. PICK K : /\ Exact(raw_programs[calls'[i].prog], K,
                             Sources(RelocsFor(calls'[i].prog) \ calls'[i].done))
                     /\ PutAt(raw_programs[calls'[i].prog], K, calls'[i].subprogram_offsets)
        BY <3>1, <3>2 DEF ActiveGood
      <4>2. /\ Exact(raw_programs[calls[i].prog], K,
                    Sources(RelocsFor(calls[i].prog) \ calls[i].done))'
            /\ PutAt(raw_programs[calls[i].prog], K, calls[i].subprogram_offsets)'
        BY <1>1, <1>2, <1>3, <4>1 DEF Sources
      <4> QED BY <4>2 DEF ActiveGood
    <3> QED BY <3>2
  <2> QED BY <2>2, <2>3, <2>4, <2>5, <2>6 DEF Programs
<1> QED BY <1>2, <1>7, <1>8 DEF LinkInv

LEMMA ActiveIs ==
    ASSUME LinkTypes, calls # <<>>
    PROVE  /\ Len(calls) \in DOMAIN calls /\ Active = calls[Len(calls)]
           /\ CallIs(Active) /\ Active.prog \in visiting /\ Active.prog \in ProgIds
           /\ Active.prog \notin resolved
<1>1. IsSeq(calls) /\ \A i \in DOMAIN calls : CallIs(calls[i])
  BY DEF LinkTypes
<1>2. Len(calls) \in DOMAIN calls /\ Active = calls[Len(calls)]
  BY <1>1, FrontIs DEF Active
<1>3. CallIs(Active)
  BY <1>1, <1>2
<1> QED BY <1>2, <1>3 DEF LinkTypes, CallIs

LEMMA CurrentRelocIs ==
    ASSUME LinkTypes, MoreRelocs
    PROVE  /\ CurrentReloc \in Remaining /\ CurrentReloc \in relocations /\ RelocIs(CurrentReloc)
           /\ CurrentReloc.prog = Active.prog
<1>1. Remaining # {} /\ Remaining \subseteq relocations /\ \A r \in Remaining : r.prog = Active.prog
  BY SMTT(60) DEF MoreRelocs, Remaining, RelocsFor
<1>2. \A r \in Remaining : RelocIs(r) /\ r.source_offset \in Nat /\ r.synthetic \in BOOLEAN
  <2> TAKE r \in Remaining
  <2>1. RelocIs(r) /\ ProgramOK(raw_programs[r.prog])
    BY <1>1 DEF LinkTypes, RelocIs
  <2> QED BY <2>1 DEF RelocIs, ProgramOK
<1>3. ASSUME NEW S \in SUBSET Remaining, S # {}, NEW b \in BOOLEAN, \A r \in S : r.synthetic = b
      PROVE  \E r \in S : \A q \in S : ~ ComesBefore(q, r)
  <2> DEFINE T == {r.source_offset : r \in S}
  <2>1. T \in SUBSET Nat /\ T # {}
    BY <1>2, <1>3
  <2>2. PICK m \in T : \A n \in T : m <= n
    <3> HIDE DEF T
    <3> QED BY <2>1, LeastNat
  <2>3. PICK r \in S : r.source_offset = m
    OBVIOUS
  <2>4. \A q \in S : ~ ComesBefore(q, r)
    <3> TAKE q \in S
    <3>1. m <= q.source_offset /\ m \in Nat /\ q.source_offset \in Nat
      BY <1>2, <2>1, <2>2
    <3>2. q.synthetic = r.synthetic
      BY <1>3
    <3>3. ~ (q.source_offset < r.source_offset)
      BY <2>3, <3>1
    <3> QED BY <3>2, <3>3 DEF ComesBefore
  <2> QED BY <2>4
<1>4. \E r \in Remaining : \A q \in Remaining : ~ ComesBefore(q, r)
  <2> DEFINE E == {r \in Remaining : r.synthetic = FALSE}
             Y == {r \in Remaining : r.synthetic = TRUE}
  <2>1. CASE E # {}
    <3>1. PICK r \in E : \A q \in E : ~ ComesBefore(q, r)
      BY <1>3, <2>1
    <3>2. \A q \in Remaining : q \notin E => q.synthetic = TRUE
      BY <1>2
    <3>3. \A q \in Remaining : q \notin E => ~ ComesBefore(q, r)
      BY <3>1, <3>2 DEF ComesBefore
    <3> QED BY <3>1, <3>3
  <2>2. CASE E = {}
    <3>1. Y = Remaining
      BY <1>2, <2>2
    <3> QED BY <1>1, <1>3, <3>1
  <2> QED BY <2>1, <2>2
<1>5. CurrentReloc \in Remaining
  BY <1>4 DEF CurrentReloc
<1> QED BY <1>1, <1>2, <1>5

LEMMA LookupIs ==
    ASSUME LinkTypes, NEW r, Named(r) # {}
    PROVE  Lookup(r) \in Named(r) /\ Lookup(r) \in ProgIds
<1>1. ProgIds = 1 .. Len(raw_programs) /\ Len(raw_programs) \in Nat
  BY SeqIs DEF LinkTypes, ProgIds
<1>2. Named(r) \in SUBSET Nat /\ Named(r) \subseteq ProgIds
  BY <1>1 DEF Named
<1>3. \E p \in Named(r) : \A q \in Named(r) : p <= q
  BY <1>2, LeastNat
<1> QED BY <1>2, <1>3 DEF Lookup

LEMMA EnterStep ==
    ASSUME LinkInv, NEW q \in ProgIds \ (visiting \cup resolved), Enter(q), Kept1,
           load = "link", load' = load, prog_idx' = prog_idx, resolved' = resolved
    PROVE  LinkInv'
<1>1. LinkTypes /\ Passed
  BY DEF LinkInv
<1>2. visiting' = visiting \cup {q} /\ calls' = Append(calls, Begin(q))
  BY DEF Enter
<1>3. IsSeq(calls) /\ DOMAIN calls = 1 .. Len(calls) /\ Len(calls) \in Nat
  BY <1>1, SeqIs DEF LinkTypes
<1>4. /\ IsSeq(calls') /\ DOMAIN calls' = 1 .. Len(calls) + 1
      /\ \A i \in DOMAIN calls : calls'[i] = calls[i]
      /\ calls'[Len(calls) + 1] = Begin(q)
  BY <1>2, <1>3, AppendIs
<1>5. \A i \in DOMAIN calls' : i \in DOMAIN calls \/ i = Len(calls) + 1
  BY <1>3, <1>4
<1>6. Begin(q).prog = q /\ Begin(q).done = {} /\ Begin(q).subprogram_offsets = <<>>
  BY DEF Begin
<1>7. NextCalls
  <2>1. \A i \in DOMAIN calls : CallIs(calls[i])
    BY <1>1 DEF LinkTypes
  <2>2. \A i, j \in DOMAIN calls : calls[i].prog = calls[j].prog => i = j
    BY <1>1 DEF LinkTypes
  <2>3. \A i \in DOMAIN calls' :
            /\ calls'[i] = [prog |-> calls'[i].prog, done |-> calls'[i].done,
                            subprogram_offsets |-> calls'[i].subprogram_offsets]
            /\ calls'[i].prog \in visiting'
            /\ \A m \in DOMAIN calls'[i].subprogram_offsets : calls'[i].subprogram_offsets[m] \in Nat
    <3> TAKE i \in DOMAIN calls'
    <3>1. CASE i \in DOMAIN calls
      BY <1>2, <1>4, <2>1, <3>1 DEF CallIs
    <3>2. CASE i = Len(calls) + 1
      <4>1. Begin(q) = [prog |-> Begin(q).prog, done |-> Begin(q).done,
                        subprogram_offsets |-> Begin(q).subprogram_offsets]
        BY DEF Begin
      <4>2. calls'[i] = Begin(q)
        BY <1>4, <3>2
      <4>3. q \in visiting'
        BY <1>2
      <4> QED BY <1>6, <4>1, <4>2, <4>3
    <3> QED BY <1>5, <3>1, <3>2
  <2>4. \A i \in DOMAIN calls : calls'[i].prog # q
    BY <1>4, <2>1 DEF CallIs
  <2>5. \A i, j \in DOMAIN calls' : calls'[i].prog = calls'[j].prog => i = j
    BY <1>4, <1>5, <1>6, <2>2, <2>4
  <2> QED BY <1>4, <2>3, <2>5 DEF NextCalls
<1>8. Passed'
  BY <1>1 DEF Passed, Kept1, Wanted, ProgIds, Section
<1>9. ASSUME JumpsInOrder, NamesApart, Programs
      PROVE  /\ \A p \in resolved' : \E K : Exact(raw_programs[p], K, {})
             /\ \A i \in DOMAIN calls' : ActiveGood(calls'[i])
  <2>1. \A p \in resolved' : \E K : Exact(raw_programs[p], K, {})
    BY <1>9 DEF Programs
  <2>2. ActiveGood(Begin(q))
    <3>1. PICK K : Exact(raw_programs[q], K, Sources(RelocsFor(q)))
      BY <1>9 DEF Programs
    <3>2. RelocsFor(q) \ {} = RelocsFor(q)
      OBVIOUS
    <3>3. PutAt(raw_programs[q], K, <<>>)
      BY DEF PutAt
    <3> QED BY <1>6, <3>1, <3>2, <3>3 DEF ActiveGood
  <2>3. \A i \in DOMAIN calls' : ActiveGood(calls'[i])
    BY <1>4, <1>5, <1>9, <2>2, SMTT(60) DEF Programs
  <2> QED BY <2>1, <2>3
<1>10. /\ resolved' \cup visiting' \subseteq ProgIds /\ resolved' \cap visiting' = {}
       /\ resolved \cup visiting \subseteq resolved' \cup visiting'
       /\ prog_idx' \in Nat \ {0} /\ load' \in {"link", "linked", "failed"}
  BY <1>1, <1>2 DEF LinkTypes
<1> QED BY <1>7, <1>8, <1>9, <1>10, MarkStep

LEMMA NextProgramStep ==
    ASSUME LinkInv, NextProgram
    PROVE  LinkInv'
<1>1. LinkTypes /\ Passed
  BY DEF LinkInv
<1>2. /\ load = "link" /\ calls = <<>> /\ prog_idx \in ProgIds
      /\ raw_programs' = raw_programs /\ resolved' = resolved /\ Kept1
  BY DEF NextProgram, LinkOnly, Kept1
<1>3. CASE /\ prog_idx \notin visiting \cup resolved /\ Enter(prog_idx)
           /\ UNCHANGED <<load, prog_idx>>
  BY <1>2, <1>3, EnterStep
<1>4. CASE /\ prog_idx \in resolved /\ prog_idx' = prog_idx + 1
           /\ UNCHANGED <<load, visiting, calls>>
  <2>1. NextCalls
    BY <1>1, <1>4 DEF NextCalls, LinkTypes, CallIs
  <2>2. \A n \in Nat : n < prog_idx + 1 => n < prog_idx \/ n = prog_idx
    BY <1>1 DEF LinkTypes
  <2>3. ProgIds \subseteq Nat
    <3>1. DOMAIN raw_programs = 1 .. Len(raw_programs) /\ Len(raw_programs) \in Nat
      BY <1>1, SeqIs DEF LinkTypes
    <3> QED BY <3>1 DEF ProgIds
  <2>4. Passed'
    BY <1>1, <1>2, <1>4, <2>2, <2>3 DEF Passed, Kept1, Wanted, ProgIds, Section
  <2>5. prog_idx' \in Nat \ {0}
    BY <1>1, <1>4 DEF LinkTypes
  <2>6. JumpsInOrder /\ NamesApart /\ Programs =>
               /\ \A p \in resolved' : \E K : Exact(raw_programs[p], K, {})
               /\ \A i \in DOMAIN calls' : ActiveGood(calls'[i])
    BY <1>2, <1>4 DEF Programs
  <2>7. /\ resolved' \cup visiting' \subseteq ProgIds /\ resolved' \cap visiting' = {}
        /\ resolved \cup visiting \subseteq resolved' \cup visiting'
    BY <1>1, <1>2, <1>4 DEF LinkTypes
  <2> QED BY <1>2, <1>4, <2>1, <2>4, <2>5, <2>6, <2>7, MarkStep, SMTT(60)
<1>5. CASE /\ prog_idx \in visiting \ resolved /\ LinkFails
           /\ UNCHANGED <<prog_idx, visiting, calls>>
  <2>0. load' = "failed"
    BY <1>5 DEF LinkFails
  <2>1. NextCalls
    BY <1>1, <1>5 DEF NextCalls, LinkTypes, CallIs
  <2>4. Passed'
    BY <1>1, <1>2, <1>5, <2>0 DEF Passed, Kept1, Wanted, ProgIds, Section
  <2>6. JumpsInOrder /\ NamesApart /\ Programs =>
               /\ \A p \in resolved' : \E K : Exact(raw_programs[p], K, {})
               /\ \A i \in DOMAIN calls' : ActiveGood(calls'[i])
    BY <1>2, <1>5 DEF Programs
  <2>7. /\ resolved' \cup visiting' \subseteq ProgIds /\ resolved' \cap visiting' = {}
        /\ resolved \cup visiting \subseteq resolved' \cup visiting' /\ prog_idx' \in Nat \ {0}
    BY <1>1, <1>2, <1>5 DEF LinkTypes
  <2> QED BY <1>2, <2>0, <2>1, <2>4, <2>6, <2>7, MarkStep, SMTT(60)
<1> QED BY <1>3, <1>4, <1>5 DEF NextProgram

LEMMA ResolveCalleeStep ==
    ASSUME LinkInv, ResolveCallee
    PROVE  LinkInv'
<1> DEFINE r == CurrentReloc
<1>1. /\ load = "link" /\ Named(r) # {} /\ Lookup(r) \notin resolved \cup visiting
      /\ Enter(Lookup(r)) /\ load' = load /\ prog_idx' = prog_idx /\ resolved' = resolved /\ Kept1
  BY DEF ResolveCallee, LinkOnly, Kept1
<1>2. Lookup(r) \in ProgIds
  BY <1>1, LookupIs DEF LinkInv
<1> HIDE DEF r
<1>3. Lookup(r) \in ProgIds \ (visiting \cup resolved)
  BY <1>1, <1>2
<1> QED BY <1>1, <1>3, EnterStep

\* A step that only changes how linking stands and where it is.
LEMMA PauseStep ==
    ASSUME LinkInv, Kept1, UNCHANGED <<resolved, visiting>>, calls' \in {calls, <<>>},
           load' \in {"link", "linked", "failed"}, prog_idx' \in Nat \ {0}, Passed'
    PROVE  LinkInv'
<1>1. LinkTypes
  BY DEF LinkInv
<1>2. IsSeq(<<>>) /\ DOMAIN <<>> = {}
  <2>1. <<>> = [i \in 1 .. 0 |-> <<>>[i]]
    OBVIOUS
  <2> QED BY <2>1 DEF IsSeq
<1>3. NextCalls
  <2>1. CASE calls' = calls
    BY <1>1, <2>1 DEF NextCalls, LinkTypes, CallIs
  <2>2. CASE calls' = <<>>
    BY <1>2, <2>2 DEF NextCalls
  <2> QED BY <2>1, <2>2
<1>4. JumpsInOrder /\ NamesApart /\ Programs =>
           /\ \A p \in resolved' : \E K : Exact(raw_programs[p], K, {})
           /\ \A i \in DOMAIN calls' : ActiveGood(calls'[i])
  BY <1>2 DEF Programs
<1>5. /\ resolved' \cup visiting' \subseteq ProgIds /\ resolved' \cap visiting' = {}
      /\ resolved \cup visiting \subseteq resolved' \cup visiting'
  BY <1>1 DEF LinkTypes
<1> QED BY <1>3, <1>4, <1>5, MarkStep

LEMMA FinishReadingStep ==
    ASSUME LinkInv, FinishReading
    PROVE  LinkInv'
<1>1. LinkTypes /\ Passed
  BY DEF LinkInv
<1>2. /\ load' = "link" /\ Kept1 /\ UNCHANGED <<resolved, visiting, calls, prog_idx>>
  BY DEF FinishReading, Kept1
<1>3. Passed'
  BY <1>1, <1>2 DEF Passed, Kept1, Wanted, ProgIds, Section
<1>4. prog_idx' \in Nat \ {0}
  BY <1>1, <1>2 DEF LinkTypes
<1> QED BY <1>2, <1>3, <1>4, PauseStep, SMTT(60)

LEMMA RecursionStep ==
    ASSUME LinkInv, Recursion
    PROVE  LinkInv'
<1>1. LinkTypes /\ Passed
  BY DEF LinkInv
<1>2. /\ load' = "failed" /\ Kept1 /\ UNCHANGED <<resolved, visiting, calls, prog_idx>>
  BY DEF Recursion, Kept1, LinkOnly, LinkFails
<1>3. Passed'
  BY <1>1, <1>2 DEF Passed, Kept1, Wanted, ProgIds, Section
<1>4. prog_idx' \in Nat \ {0}
  BY <1>1, <1>2 DEF LinkTypes
<1> QED BY <1>2, <1>3, <1>4, PauseStep

LEMMA MissingSubprogramStep ==
    ASSUME LinkInv, MissingSubprogram
    PROVE  LinkInv'
<1>1. LinkTypes /\ Passed
  BY DEF LinkInv
<1>2. /\ load = "link" /\ calls' = <<>> /\ Kept1 /\ UNCHANGED <<resolved, visiting>>
      /\ \/ load' = "failed" /\ prog_idx' = prog_idx
         \/ ~ Wanted(prog_idx) /\ prog_idx' = prog_idx + 1 /\ load' = load
  BY DEF MissingSubprogram, Kept1, LinkOnly, LinkFails
<1>3. ProgIds \subseteq Nat /\ prog_idx \in Nat \ {0}
  <2>1. DOMAIN raw_programs = 1 .. Len(raw_programs) /\ Len(raw_programs) \in Nat
    BY <1>1, SeqIs DEF LinkTypes
  <2> QED BY <1>1, <2>1 DEF ProgIds, LinkTypes
<1>4. \A n \in Nat : n < prog_idx + 1 => n < prog_idx \/ n = prog_idx
  BY <1>3
<1>5. Passed'
  <2>1. CASE load' = "failed" /\ prog_idx' = prog_idx
    BY <1>1, <1>2, <2>1 DEF Passed, Kept1, Wanted, ProgIds, Section
  <2>2. CASE ~ Wanted(prog_idx) /\ prog_idx' = prog_idx + 1 /\ load' = load
    BY <1>1, <1>2, <1>3, <1>4, <2>2 DEF Passed, Kept1, Wanted, ProgIds, Section
  <2> QED BY <1>2, <2>1, <2>2
<1>6. prog_idx' \in Nat \ {0} /\ load' \in {"link", "linked", "failed"}
  BY <1>2, <1>3
<1> QED BY <1>2, <1>5, <1>6, PauseStep

LEMMA FinishLinkingStep ==
    ASSUME LinkInv, FinishLinking
    PROVE  LinkInv'
<1>1. LinkTypes /\ Passed
  BY DEF LinkInv
<1>2. /\ load' \in {"failed", "linked"} /\ prog_idx \notin ProgIds
      /\ Kept1 /\ UNCHANGED <<resolved, visiting, calls, prog_idx>>
  BY DEF FinishLinking, Kept1, LinkOnly
<1>3. Passed'
  BY <1>1, <1>2 DEF Passed, Kept1, Wanted, ProgIds, Section
<1>4. prog_idx' \in Nat \ {0}
  BY <1>1, <1>2 DEF LinkTypes
<1> QED BY <1>2, <1>3, <1>4, PauseStep

LEMMA FinishSubprogramStep ==
    ASSUME LinkInv, FinishSubprogram
    PROVE  LinkInv'
<1> DEFINE p == Active.prog
           n == Len(calls)
<1>1. LinkTypes /\ Passed
  BY DEF LinkInv
<1>2. /\ load = "link" /\ calls # <<>> /\ ~ MoreRelocs
      /\ resolved' = resolved \cup {p} /\ visiting' = visiting \ {p} /\ calls' = Front(calls)
      /\ load' = load /\ prog_idx' = prog_idx /\ Kept1
  BY DEF FinishSubprogram, LinkOnly, Kept1
<1>3. n \in DOMAIN calls /\ Active = calls[n] /\ p \in visiting /\ p \in ProgIds
  BY <1>1, <1>2, ActiveIs
<1>4. /\ IsSeq(calls') /\ DOMAIN calls' = 1 .. n - 1 /\ \A i \in 1 .. n - 1 : calls'[i] = calls[i]
  BY <1>1, <1>2, FrontIs DEF LinkTypes
<1>5. n \in Nat /\ DOMAIN calls = 1 .. n
  BY <1>1, SeqIs DEF LinkTypes
<1> HIDE DEF p, n
<1>6. \A i \in DOMAIN calls' : i \in DOMAIN calls /\ i # n /\ calls'[i] = calls[i]
  BY <1>4, <1>5
<1>7. \A i \in DOMAIN calls' : calls[i].prog # p
  BY <1>1, <1>3, <1>6 DEF LinkTypes, p
<1>8. NextCalls
  BY <1>1, <1>2, <1>4, <1>6, <1>7, SMTT(60) DEF NextCalls, LinkTypes, CallIs
<1>9. Passed'
  BY <1>1, <1>2 DEF Passed, Kept1, Wanted, ProgIds, Section
<1>10. ASSUME JumpsInOrder, NamesApart, Programs
       PROVE  /\ \A q \in resolved' : \E K : Exact(raw_programs[q], K, {})
              /\ \A i \in DOMAIN calls' : ActiveGood(calls'[i])
  <2>1. ActiveGood(Active)
    BY <1>3, <1>10 DEF Programs
  <2>2. RelocsFor(p) \ Active.done = {}
    BY <1>2 DEF MoreRelocs, Remaining, p
  <2>3. Sources({}) = {}
    BY DEF Sources
  <2>4. \E K : Exact(raw_programs[p], K, {})
    BY <2>1, <2>2, <2>3 DEF ActiveGood, p
  <2>5. \A q \in resolved : \E K : Exact(raw_programs[q], K, {})
    BY <1>10 DEF Programs
  <2>6. \A i \in DOMAIN calls' : ActiveGood(calls'[i])
    BY <1>6, <1>10 DEF Programs
  <2> QED BY <1>2, <2>4, <2>5, <2>6
<1>11. /\ resolved' \cup visiting' \subseteq ProgIds /\ resolved' \cap visiting' = {}
       /\ resolved \cup visiting \subseteq resolved' \cup visiting'
       /\ prog_idx' \in Nat \ {0} /\ load' \in {"link", "linked", "failed"}
  BY <1>1, <1>2, <1>3 DEF LinkTypes
<1> QED BY <1>2, <1>8, <1>9, <1>10, <1>11, MarkStep, SMTT(60)

-----------------------------------------------------------------------------
(***************************************************************************)
(* Reading a program.                                                      *)
(***************************************************************************)
LEMMA ReadProgramStep ==
    ASSUME LinkInv, ReadProgram
    PROVE  LinkInv'
<1> DEFINE s == place.section
           o == place.offset
           end == SpanEnd(s, o)
           N == Len(raw_programs)
           g == CutOut(s, o, end)
           new == FunctionRelocations(N + 1, s, o, end)
<1>1. LinkTypes /\ Passed
  BY DEF LinkInv
<1>2. /\ load = "read" /\ s \in Sections
      /\ file' = file /\ UNCHANGED <<prog_idx, resolved, visiting, calls>>
  BY DEF ReadProgram
<1>3. o \in Starts(s) /\ calls = <<>> /\ resolved = {} /\ visiting = {} /\ prog_idx = 1
  BY <1>1, <1>2 DEF LinkTypes
<1>4. CASE CannotName(s, o, end)
  <2>1. load' = "failed" /\ Kept1
    BY <1>2, <1>4 DEF ReadProgram, LinkFails, Kept1
  <2>2. Passed'
    BY <1>1, <1>2, <2>1, SMTT(60) DEF Passed, Kept1, Wanted, ProgIds, Section
  <2>3. prog_idx' \in Nat \ {0}
    BY <1>1, <1>2 DEF LinkTypes
  <2> QED BY <1>2, <2>1, <2>2, <2>3, PauseStep
<1>5. CASE ~ CannotName(s, o, end)
  <2>1. /\ raw_programs' = Append(raw_programs, g) /\ relocations' = relocations \cup new
        /\ place' = NextPlace(s, o) /\ load' = load
    BY <1>2, <1>5 DEF ReadProgram
  <2>2. end \in o + 1 .. Size(s) /\ file \in Files
    BY <1>1, <1>2, <1>3, SpanEndIs DEF LinkTypes
  <2> HIDE DEF end
  <2>3. /\ ProgramOK(g) /\ g.section = s /\ g.function_name = NameAt(s, o) /\ g.origin[0] = <<s, o>>
    <3>1. /\ ProgramOK(g) /\ g.section = s /\ g.function_name = NameAt(s, o)
          /\ DOMAIN g.prog = 0 .. end - o - 1
          /\ \A k \in DOMAIN g.prog : g.origin[k] = <<s, k + o>>
      BY <1>2, <1>3, <2>2, CutIs
    <3>2. o \in Nat
      BY <1>2, <1>3, <2>2, SectionIs, SMTT(60)
    <3>3. 0 \in DOMAIN g.prog /\ 0 + o = o
      <4> HIDE DEF g
      <4> QED BY <2>2, <3>1, <3>2
    <3> HIDE DEF g
    <3> QED BY <3>1, <3>3, SMTT(60)
  <2>4. /\ IsSeq(raw_programs') /\ DOMAIN raw_programs' = 1 .. N + 1
        /\ N \in Nat /\ DOMAIN raw_programs = 1 .. N
        /\ \A p \in 1 .. N : raw_programs'[p] = raw_programs[p]
        /\ raw_programs'[N + 1] = g
    <3>1. IsSeq(raw_programs)
      BY <1>1, SMTT(60) DEF LinkTypes
    <3> HIDE DEF g
    <3> QED BY <2>1, <3>1, AppendIs, SeqIs
  <2>5. \A r \in new : /\ r.prog = N + 1 /\ r.source_offset \in DOMAIN g.prog
                       /\ r.synthetic \in BOOLEAN
                       /\ g.prog[r.source_offset].op = "call"
                       /\ g.origin[r.source_offset] = <<s, r.source_offset + o>>
    BY <1>2, <1>3, <2>2, RelocationIs
  <2>6. /\ Sections' = Sections /\ \A t : Starts(t)' = Starts(t)
        /\ \A h : ProgramOK(h) => ProgramOK(h)'
        /\ \A h, K, P : Exact(h, K, P) => Exact(h, K, P)'
        /\ \A n, at : Resolves(n, at) => Resolves(n, at)'
        /\ \A h : StartsAt(h) => StartsAt(h)'
        /\ JumpsInOrder' = JumpsInOrder /\ NamesApart' = NamesApart
    BY <1>2, FileKept
  <2>7. ProgIds' = 1 .. N + 1 /\ ProgIds = 1 .. N /\ N + 1 \notin ProgIds
    BY <2>4 DEF ProgIds
  <2>8. \A p \in ProgIds' : p \in ProgIds \/ p = N + 1
    BY <2>4, <2>7, SMTT(60)
  <2>9. \A r \in relocations : RelocIs(r) /\ r.prog \in ProgIds
    BY <1>1 DEF LinkTypes, RelocIs
  <2>10. \A p : /\ p = N + 1 => RelocsFor(p)' = new
                /\ p \in ProgIds => RelocsFor(p)' = RelocsFor(p)
    <3> HIDE DEF new, g
    <3> TAKE p
    <3>1. RelocsFor(p)' = {r \in relocations \cup new : r.prog = p}
      BY <2>1 DEF RelocsFor
    <3>2. ASSUME p = N + 1
          PROVE  RelocsFor(p)' = new
      <4>1. \A r \in relocations : r.prog # p
        BY <2>7, <2>9, <3>2
      <4>2. \A r \in new : r.prog = p
        BY <2>5, <3>2
      <4> QED BY <3>1, <4>1, <4>2
    <3>3. ASSUME p \in ProgIds
          PROVE  RelocsFor(p)' = RelocsFor(p)
      <4>1. \A r \in new : r.prog # p
        BY <2>5, <2>7, <3>3
      <4> QED BY <3>1, <4>1 DEF RelocsFor
    <3> QED BY <3>2, <3>3
  <2>11. \A r \in relocations' : RelocIs(r)'
    <3> HIDE DEF new, g
    <3> TAKE r \in relocations'
    <3>1. CASE r \in relocations
      <4>1. RelocIs(r) /\ r.prog \in 1 .. N /\ raw_programs'[r.prog] = raw_programs[r.prog]
        BY <2>4, <2>7, <2>9, <3>1
      <4>2. r.prog \in 1 .. N + 1
        BY <2>4, <4>1, SMTT(60)
      <4> QED BY <2>7, <4>1, <4>2 DEF RelocIs
    <3>2. CASE r \in new
      BY <2>4, <2>5, <2>7, <3>2 DEF RelocIs
    <3> QED BY <2>1, <3>1, <3>2
  <2>12. place'.section \in Sections => place'.offset \in Starts(place'.section)
    <3>1. CASE EndAt(s, o) < Size(s)
      <4>1. place' = [section |-> s, offset |-> EndAt(s, o)]
        BY <2>1, <3>1 DEF NextPlace
      <4> QED BY <1>2, <1>3, <2>2, <3>1, <4>1, EndAtIs, SMTT(60)
    <3>2. CASE ~ (EndAt(s, o) < Size(s))
      <4>1. place' = [section |-> s + 1, offset |-> 0]
        BY <2>1, <3>2 DEF NextPlace
      <4> QED BY <4>1 DEF Starts
    <3> QED BY <3>1, <3>2
  <2>13. \A p \in ProgIds' : ProgramOK(raw_programs[p])' /\ raw_programs'[p].section \in Sections
    <3> HIDE DEF g
    <3> TAKE p \in ProgIds'
    <3>1. CASE p \in ProgIds
      <4>1. ProgramOK(raw_programs[p]) /\ raw_programs[p].section \in Sections
        BY <1>1, <3>1 DEF LinkTypes
      <4>2. raw_programs'[p] = raw_programs[p]
        BY <2>4, <2>7, <3>1
      <4> QED BY <2>6, <4>1, <4>2
    <3>2. CASE p = N + 1
      BY <1>2, <2>3, <2>4, <2>6, <3>2, SMTT(60)
    <3> QED BY <2>8, <3>1, <3>2
  <2>14. LinkTypes'
    <3>1. file' \in Files /\ load' = "read" /\ IsSeq(calls') /\ DOMAIN calls' = {} /\ prog_idx' = 1
      <4>1. IsSeq(calls) /\ DOMAIN calls = {}
        <5>1. IsSeq(calls)
          BY <1>1 DEF LinkTypes
        <5> QED BY <1>3, <5>1, SeqIs
      <4> QED BY <1>2, <1>3, <2>1, <2>2, <4>1
    <3>2. \A r \in relocations' : RelocIs(r)'
      BY <2>11
    <3> HIDE DEF g, new, s, o, N
    <3> QED BY <1>2, <1>3, <2>4, <2>6, <2>12, <2>13, <3>1, <3>2, SMTT(60) DEF LinkTypes
  <2>15. Passed'
    <3>1. \A q \in ProgIds' : ~ (q < 1)
      BY <2>4, <2>7
    <3>2. load' # "linked" /\ prog_idx' = 1
      BY <1>2, <1>3, <2>1
    <3> QED BY <3>1, <3>2 DEF Passed
  <2>16. ASSUME JumpsInOrder, NamesApart
         PROVE  Programs'
    <3>1. Programs
      BY <2>16 DEF LinkInv
    <3>2. StartsAt(g)
      BY <1>3, <2>3 DEF StartsAt
    <3>3. \A r \in new : Resolves(r.name, <<s, r.source_offset + o>>)
      BY <1>2, <1>3, <1>5, <2>2, <2>16, RelocationResolves, SMTT(60)
    <3>4. \E K : Exact(g, K, Sources(new))
      BY <1>2, <1>3, <2>2, <2>16, CutGood DEF end
    <3> HIDE DEF g, new, s, o, N
    <3>5. \A p \in ProgIds' : StartsAt(raw_programs[p])'
      <4>1. \A p \in ProgIds : StartsAt(raw_programs[p]) /\ raw_programs'[p] = raw_programs[p]
        BY <2>4, <2>7, <3>1 DEF Programs
      <4> QED BY <2>4, <2>6, <2>8, <3>2, <4>1
    <3>6. \A r \in relocations' : Resolves(r.name, raw_programs[r.prog].origin[r.source_offset])'
      <4> TAKE r \in relocations'
      <4>1. CASE r \in relocations
        <5>1. Resolves(r.name, raw_programs[r.prog].origin[r.source_offset])
          BY <3>1, <4>1 DEF Programs
        <5>2. raw_programs'[r.prog] = raw_programs[r.prog]
          BY <2>4, <2>7, <2>9, <4>1, SMTT(60)
        <5> QED BY <2>6, <5>1, <5>2
      <4>2. CASE r \in new
        <5>1. raw_programs'[r.prog].origin[r.source_offset] = <<s, r.source_offset + o>>
          BY <2>4, <2>5, <4>2
        <5>2. Resolves(r.name, <<s, r.source_offset + o>>)
          BY <3>3, <4>2
        <5> QED BY <2>6, <5>1, <5>2, SMTT(60)
      <4> QED BY <2>1, <4>1, <4>2
    <3>7. \A p \in ProgIds' : \E K : Exact(raw_programs[p], K, Sources(RelocsFor(p)))'
      <4> TAKE p \in ProgIds'
      <4>1. CASE p \in ProgIds
        <5>1. PICK K : Exact(raw_programs[p], K, Sources(RelocsFor(p)))
          BY <1>3, <3>1, <4>1 DEF Programs
        <5>2. raw_programs'[p] = raw_programs[p] /\ RelocsFor(p)' = RelocsFor(p)
          BY <2>4, <2>7, <2>10, <4>1
        <5>3. Exact(raw_programs[p], K, Sources(RelocsFor(p)))'
          BY <2>6, <5>1, <5>2, SMTT(60) DEF Sources
        <5> QED BY <5>3
      <4>2. CASE p = N + 1
        <5>1. PICK K : Exact(g, K, Sources(new))
          BY <3>4
        <5>2. raw_programs'[p] = g /\ RelocsFor(p)' = new
          BY <2>4, <2>10, <4>2
        <5>3. Exact(raw_programs[p], K, Sources(RelocsFor(p)))'
          BY <2>6, <5>1, <5>2 DEF Sources
        <5> QED BY <5>3
      <4> QED BY <2>8, <4>1, <4>2
    <3>8. resolved' = {} /\ DOMAIN calls' = {}
      <4>1. IsSeq(calls)
        BY <1>1 DEF LinkTypes
      <4> QED BY <1>2, <1>3, <4>1, SeqIs, SMTT(60)
    <3> QED BY <3>5, <3>6, <3>7, <3>8, SMTT(60) DEF Programs
  <2> QED BY <2>6, <2>14, <2>15, <2>16 DEF LinkInv
<1> QED BY <1>4, <1>5

-----------------------------------------------------------------------------
(***************************************************************************)
(* Pointing a call: the program it is in, with its subprogram placed, and  *)
(* the slot the subprogram starts at.                                      *)
(***************************************************************************)
Base == IF IsPlaced(CurrentReloc) THEN Active.subprogram_offsets[CurrentReloc.name]
        ELSE Length(Active.prog)
Whole == IF IsPlaced(CurrentReloc) THEN raw_programs[Active.prog]
         ELSE Copied(raw_programs[Active.prog], raw_programs[Lookup(CurrentReloc)])
CanPoint ==
    /\ MoreRelocs
    /\ IsPlaced(CurrentReloc) \/ (Named(CurrentReloc) # {} /\ Lookup(CurrentReloc) \in resolved)
NewOffsets == Joined([n \in {CurrentReloc.name} |-> Base], Active.subprogram_offsets)

LEMMA NewOffsetsAre ==
    /\ DOMAIN NewOffsets = {CurrentReloc.name} \cup DOMAIN Active.subprogram_offsets
    /\ \A n \in DOMAIN NewOffsets :
          NewOffsets[n] = IF n = CurrentReloc.name THEN Base ELSE Active.subprogram_offsets[n]
<1> DEFINE name == CurrentReloc.name
           f == [n \in {name} |-> Base]
           old == Active.subprogram_offsets
<1>1. DOMAIN f = {name} /\ f[name] = Base
  OBVIOUS
<1>2. NewOffsets = Joined(f, old)
  BY DEF NewOffsets
<1> HIDE DEF f, old, name
<1>3. DOMAIN NewOffsets = {name} \cup DOMAIN old
  BY <1>1, <1>2 DEF Joined
<1>4. \A n \in DOMAIN NewOffsets : NewOffsets[n] = IF n = name THEN Base ELSE old[n]
  BY <1>1, <1>2 DEF Joined
<1> QED BY <1>3, <1>4 DEF name, old

LEMMA WholeIs ==
    ASSUME LinkTypes, CanPoint
    PROVE  LET g == raw_programs[Active.prog]
           IN  /\ ProgramOK(g) /\ ProgramOK(Whole) /\ Base \in Nat
               /\ Whole.section = g.section /\ Whole.function_name = g.function_name
               /\ DOMAIN g.prog \subseteq DOMAIN Whole.prog
               /\ \A k \in DOMAIN g.prog : Whole.prog[k] = g.prog[k] /\ Whole.origin[k] = g.origin[k]
<1> DEFINE g == raw_programs[Active.prog]
           sub == raw_programs[Lookup(CurrentReloc)]
<1>1. MoreRelocs /\ calls # <<>>
  BY DEF CanPoint, MoreRelocs
<1>2. Active.prog \in ProgIds /\ CallIs(Active)
  BY <1>1, ActiveIs
<1>3. ProgramOK(g)
  BY <1>2 DEF LinkTypes
<1>4. CASE IsPlaced(CurrentReloc)
  <2>1. Whole = g /\ Base \in Nat
    BY <1>2, <1>4, SMTT(60) DEF Whole, Base, CallIs, IsPlaced
  <2> HIDE DEF g
  <2> QED BY <1>3, <2>1 DEF g
<1>5. CASE ~ IsPlaced(CurrentReloc)
  <2>1. Named(CurrentReloc) # {}
    BY <1>5 DEF CanPoint
  <2>2. Lookup(CurrentReloc) \in ProgIds
    BY <2>1, LookupIs
  <2>3. ProgramOK(sub)
    BY <2>2 DEF LinkTypes
  <2>4. Whole = Copied(g, sub) /\ Base = Cardinality(DOMAIN g.prog)
    BY <1>5 DEF Whole, Base, Length
  <2> HIDE DEF g, sub
  <2>5. /\ ProgramOK(Whole)
        /\ Whole.section = g.section /\ Whole.function_name = g.function_name
        /\ DOMAIN Whole.prog =
              0 .. Cardinality(DOMAIN g.prog) + Cardinality(DOMAIN sub.prog) - 1
        /\ \A k \in 0 .. Cardinality(DOMAIN g.prog) - 1 :
              Whole.prog[k] = g.prog[k] /\ Whole.origin[k] = g.origin[k]
    BY <1>3, <2>3, <2>4, CopiedIs, SMTT(60)
  <2>6. /\ DOMAIN g.prog = 0 .. Cardinality(DOMAIN g.prog) - 1
        /\ Cardinality(DOMAIN g.prog) \in Nat /\ Cardinality(DOMAIN sub.prog) \in Nat
    BY <1>3, <2>3 DEF ProgramOK
  <2>7. DOMAIN g.prog \subseteq DOMAIN Whole.prog
    BY <2>5, <2>6
  <2>8. \A k \in DOMAIN g.prog : Whole.prog[k] = g.prog[k] /\ Whole.origin[k] = g.origin[k]
    BY <2>5, <2>6
  <2>9. Base \in Nat
    BY <2>4, <2>6
  <2> QED BY <1>3, <2>5, <2>7, <2>8, <2>9 DEF g
<1> QED BY <1>4, <1>5

LEMMA GoodMore ==
    ASSUME NEW g, NEW K, NEW P, NEW Q, Exact(g, K, P), P \subseteq Q
    PROVE  Exact(g, K, Q)
BY DEF Exact

LEMMA WholeGood ==
    ASSUME LinkTypes, CanPoint, Programs
    PROVE  \E K : /\ Exact(Whole, K, Sources(Remaining)) /\ PutAt(Whole, K, NewOffsets) /\ Base \in K
                  /\ LET at == Whole.origin[CurrentReloc.source_offset]
                     IN  Whole.origin[Base] \in CalledFrom(at[1], at[2])
<1> DEFINE c == Active
           p == c.prog
           r == CurrentReloc
           g == raw_programs[p]
           sub == raw_programs[Lookup(r)]
           src == r.source_offset
           old == c.subprogram_offsets
<1>1. MoreRelocs /\ calls # <<>>
  BY DEF CanPoint, MoreRelocs
<1>2. p \in ProgIds /\ ActiveGood(c)
  BY <1>1, ActiveIs DEF Programs
<1>3. r \in Remaining /\ r \in relocations /\ r.prog = p /\ src \in DOMAIN g.prog
  BY <1>1, CurrentRelocIs DEF RelocIs
<1>4. Resolves(r.name, g.origin[src])
  BY <1>3 DEF Programs
<1>5. ProgramOK(g) /\ \A k \in DOMAIN g.prog : Whole.origin[k] = g.origin[k]
  BY WholeIs
<1>6. PICK K : Exact(g, K, Sources(Remaining)) /\ PutAt(g, K, old)
  BY <1>2 DEF ActiveGood, Remaining
<1>7. /\ DOMAIN NewOffsets = {r.name} \cup DOMAIN old
      /\ \A n \in DOMAIN NewOffsets : NewOffsets[n] = IF n = r.name THEN Base ELSE old[n]
  BY NewOffsetsAre
<1>8. ASSUME NEW M, K \subseteq M, Exact(Whole, M, Sources(Remaining)), Base \in M,
             NEW t \in Sections, NEW x \in Starts(t), NameAt(t, x) = r.name,
             Whole.origin[Base] = <<t, x>>
      PROVE  /\ PutAt(Whole, M, NewOffsets)
             /\ LET at == Whole.origin[src] IN Whole.origin[Base] \in CalledFrom(at[1], at[2])
  <2>1. PutAt(Whole, M, NewOffsets)
    <3> SUFFICES ASSUME NEW n \in DOMAIN NewOffsets
                 PROVE  /\ NewOffsets[n] \in M
                        /\ \E u \in Sections : \E y \in Starts(u) :
                              NameAt(u, y) = n /\ Whole.origin[NewOffsets[n]] = <<u, y>>
      BY DEF PutAt
    <3>1. CASE n = r.name
      BY <1>7, <1>8, <3>1, SMTT(60)
    <3>2. CASE n # r.name
      <4>1. n \in DOMAIN old /\ NewOffsets[n] = old[n]
        BY <1>7, <3>2, SMTT(60)
      <4>2. /\ old[n] \in K
            /\ \E u \in Sections : \E y \in Starts(u) :
                  NameAt(u, y) = n /\ g.origin[old[n]] = <<u, y>>
        BY <1>6, <4>1 DEF PutAt
      <4>3. K \subseteq DOMAIN g.prog
        BY <1>6, SMTT(60) DEF Exact
      <4>4. Whole.origin[old[n]] = g.origin[old[n]]
        BY <1>5, <4>2, <4>3
      <4> QED BY <1>8, <4>1, <4>2, <4>4
    <3> QED BY <3>1, <3>2
  <2>2. Whole.origin[src] = g.origin[src]
    BY <1>3, <1>5, SMTT(60)
  <2>3. <<t, x>> \in CalledFrom(g.origin[src][1], g.origin[src][2])
    BY <1>4, <1>8 DEF Resolves
  <2> HIDE DEF g, src
  <2> QED BY <1>8, <2>1, <2>2, <2>3
<1>9. CASE IsPlaced(r)
  <2>1. Whole = g /\ Base = old[r.name] /\ r.name \in DOMAIN old
    BY <1>9, SMTT(60) DEF Whole, Base, IsPlaced
  <2>2. /\ Base \in K
        /\ \E t \in Sections : \E x \in Starts(t) : NameAt(t, x) = r.name /\ g.origin[Base] = <<t, x>>
    BY <1>6, <2>1, SMTT(60) DEF PutAt
  <2>3. PICK t \in Sections : \E x \in Starts(t) : NameAt(t, x) = r.name /\ g.origin[Base] = <<t, x>>
    BY <2>2
  <2>4. PICK x \in Starts(t) : NameAt(t, x) = r.name /\ g.origin[Base] = <<t, x>>
    BY <2>3
  <2> HIDE DEF g, r, old, src
  <2>5. Exact(Whole, K, Sources(Remaining)) /\ Whole.origin[Base] = <<t, x>>
    BY <1>6, <2>1, <2>4
  <2>6. K \subseteq K
    OBVIOUS
  <2>7. /\ PutAt(Whole, K, NewOffsets)
        /\ LET at == Whole.origin[src] IN Whole.origin[Base] \in CalledFrom(at[1], at[2])
    BY <1>8, <2>2, <2>4, <2>5, <2>6, SMTT(60)
  <2> QED BY <2>2, <2>5, <2>7 DEF src, r
<1>10. CASE ~ IsPlaced(r)
  <2>1. Named(r) # {} /\ Lookup(r) \in resolved
    BY <1>10 DEF CanPoint
  <2>2. Lookup(r) \in Named(r) /\ Lookup(r) \in ProgIds
    BY <2>1, LookupIs
  <2>3. ProgramOK(sub) /\ sub.section \in Sections /\ StartsAt(sub) /\ sub.function_name = r.name
    BY <2>2 DEF LinkTypes, Programs, Named
  <2>4. PICK L : Exact(sub, L, {})
    BY <2>1 DEF Programs
  <2>5. Whole = Copied(g, sub) /\ Base = Cardinality(DOMAIN g.prog)
    BY <1>10 DEF Whole, Base, Length
  <2>6. Sources(Remaining) \subseteq DOMAIN g.prog
    <3>1. \A q \in Remaining : q.prog = p /\ RelocIs(q)
      BY DEF Remaining, RelocsFor, LinkTypes
    <3> QED BY <3>1 DEF Sources, RelocIs
  <2>7. PICK x \in Starts(sub.section) : /\ sub.origin[0] = <<sub.section, x>>
                                         /\ NameAt(sub.section, x) = r.name
    BY <2>3 DEF StartsAt
  <2> DEFINE n == Cardinality(DOMAIN g.prog)
             M == K \cup {n + k : k \in L}
  <2>8. Exact(Whole, M, Sources(Remaining)) /\ Base \in M
    <3> HIDE DEF g, sub
    <3> QED BY <1>5, <1>6, <2>3, <2>4, <2>5, <2>6, CopiedGood
  <2>9. Whole.origin[Base] = <<sub.section, x>>
    <3> HIDE DEF g, sub
    <3>0. n \in Nat /\ Cardinality(DOMAIN sub.prog) \in Nat \ {0}
      BY <1>5, <2>3 DEF ProgramOK
    <3> HIDE DEF n
    <3>1. \A k \in 0 .. Cardinality(DOMAIN sub.prog) - 1 : Whole.origin[n + k] = sub.origin[k]
      BY <1>5, <2>3, <2>5, CopiedIs DEF n
    <3>2. 0 \in 0 .. Cardinality(DOMAIN sub.prog) - 1 /\ n + 0 = n
      BY <3>0
    <3>3. Whole.origin[n + 0] = sub.origin[0]
      BY <3>1, <3>2
    <3> QED BY <2>5, <2>7, <3>2, <3>3 DEF n
  <2>10. K \subseteq M
    OBVIOUS
  <2> HIDE DEF g, r, old, src, M, sub
  <2>11. /\ PutAt(Whole, M, NewOffsets)
         /\ LET at == Whole.origin[src] IN Whole.origin[Base] \in CalledFrom(at[1], at[2])
    BY <1>8, <2>3, <2>7, <2>8, <2>9, <2>10, SMTT(60)
  <2> QED BY <2>8, <2>11 DEF src, r
<1> QED BY <1>9, <1>10

LEMMA PointCallStep ==
    ASSUME LinkInv, PointCall
    PROVE  LinkInv'
<1> DEFINE N == Len(calls)
           src == CurrentReloc.source_offset
           h == Patched(Whole, src, Base)
           next == [prog |-> Active.prog, done |-> Active.done \cup {CurrentReloc},
                    subprogram_offsets |-> NewOffsets]
<1>1. LinkTypes /\ Passed
  BY DEF LinkInv
<1>2. /\ load = "link" /\ MoreRelocs /\ CanPoint /\ calls # <<>>
      /\ raw_programs' = [raw_programs EXCEPT ![Active.prog] = h]
      /\ calls' = [calls EXCEPT ![N] = next]
      /\ UNCHANGED <<file, place, relocations, load, prog_idx, resolved, visiting>>
  <2>1. /\ load = "link" /\ MoreRelocs /\ CanPoint
        /\ UNCHANGED <<file, place, relocations, load, prog_idx, resolved, visiting>>
    BY DEF PointCall, CanPoint, LinkOnly
  <2>2. calls # <<>>
    BY <2>1 DEF MoreRelocs
  <2>3. raw_programs' = [raw_programs EXCEPT ![Active.prog] = h]
    BY Zenon DEF PointCall, Whole, Base
  <2>4. Advance(NewOffsets)
    BY Zenon DEF PointCall, NewOffsets, Base
  <2>5. calls' = [calls EXCEPT ![N] = next]
    BY <2>4 DEF Advance
  <2> QED BY <2>1, <2>2, <2>3, <2>5
<1>3. /\ N \in DOMAIN calls /\ Active = calls[N] /\ CallIs(Active)
      /\ Active.prog \in ProgIds /\ Active.prog \in visiting /\ Active.prog \notin resolved
  BY <1>1, <1>2, ActiveIs
<1>4. /\ CurrentReloc \in Remaining /\ CurrentReloc \in relocations
      /\ CurrentReloc.prog = Active.prog /\ RelocIs(CurrentReloc)
  BY <1>1, <1>2, CurrentRelocIs
<1>5. PICK p : p = Active.prog
  OBVIOUS
<1>6. PICK g : g = raw_programs[p]
  BY SMTT(60)
<1>7. /\ ProgramOK(g) /\ ProgramOK(Whole) /\ Base \in Nat
      /\ Whole.section = g.section /\ Whole.function_name = g.function_name
      /\ DOMAIN g.prog \subseteq DOMAIN Whole.prog
      /\ \A k \in DOMAIN g.prog : Whole.prog[k] = g.prog[k] /\ Whole.origin[k] = g.origin[k]
  BY <1>1, <1>2, <1>5, <1>6, WholeIs
<1>8. /\ src \in DOMAIN g.prog /\ g.prog[src].op = "call"
      /\ src \in DOMAIN Whole.prog /\ Whole.prog[src].op = "call"
  <2>1. src \in DOMAIN g.prog /\ g.prog[src].op = "call"
    BY <1>4, <1>5, <1>6 DEF RelocIs
  <2> HIDE DEF src
  <2> QED BY <1>7, <2>1
<1>9. /\ ProgramOK(h) /\ h.section = g.section /\ h.function_name = g.function_name
      /\ DOMAIN h.prog = DOMAIN Whole.prog /\ h.origin = Whole.origin
      /\ \A k \in DOMAIN Whole.prog : h.prog[k].op = Whole.prog[k].op
  <2> HIDE DEF src
  <2>1. Base \in Int
    BY <1>7
  <2>2. /\ ProgramOK(h) /\ h.section = Whole.section /\ h.function_name = Whole.function_name
        /\ DOMAIN h.prog = DOMAIN Whole.prog /\ h.origin = Whole.origin
        /\ \A k \in DOMAIN Whole.prog : k # src => h.prog[k] = Whole.prog[k]
        /\ h.prog[src].op = Whole.prog[src].op
    BY <1>7, <1>8, <2>1, PatchedIs
  <2> HIDE DEF h
  <2> QED BY <1>7, <2>2
<1> HIDE DEF h, src
<1>10. /\ IsSeq(raw_programs) /\ IsSeq(raw_programs') /\ ProgIds' = ProgIds /\ p \in ProgIds
       /\ raw_programs'[p] = h
       /\ \A q \in ProgIds : q # p => raw_programs'[q] = raw_programs[q]
  <2>1. IsSeq(raw_programs) /\ p \in ProgIds
    BY <1>1, <1>3, <1>5 DEF LinkTypes
  <2>2. PICK n \in Nat : raw_programs = [i \in 1 .. n |-> raw_programs[i]]
    BY <2>1 DEF IsSeq
  <2>3. raw_programs' = [i \in 1 .. n |-> IF i = p THEN h ELSE raw_programs[i]]
    BY <1>2, <1>5, <2>2, SMTT(60)
  <2>4. DOMAIN raw_programs' = 1 .. n /\ DOMAIN raw_programs = 1 .. n
    BY <2>2, <2>3
  <2>5. raw_programs' = [i \in 1 .. n |-> raw_programs'[i]]
    BY <2>3
  <2>6. IsSeq(raw_programs')
    BY <2>5 DEF IsSeq
  <2> QED BY <2>1, <2>3, <2>4, <2>6 DEF ProgIds
<1>11. /\ IsSeq(calls) /\ IsSeq(calls') /\ DOMAIN calls' = DOMAIN calls
       /\ calls'[N] = next
       /\ \A i \in DOMAIN calls : i # N => calls'[i] = calls[i]
  <2> HIDE DEF next
  <2>1. IsSeq(calls)
    BY <1>1 DEF LinkTypes
  <2>2. PICK n \in Nat : calls = [i \in 1 .. n |-> calls[i]]
    BY <2>1 DEF IsSeq
  <2>3. PICK last : last = N
    OBVIOUS
  <2>4. calls' = [i \in 1 .. n |-> IF i = last THEN next ELSE calls[i]]
    BY <1>2, <2>2, <2>3
  <2>5. DOMAIN calls' = 1 .. n /\ DOMAIN calls = 1 .. n
    BY <2>2, <2>4
  <2>6. calls' = [i \in 1 .. n |-> calls'[i]]
    BY <2>4
  <2>7. IsSeq(calls')
    BY <2>6 DEF IsSeq
  <2> QED BY <1>3, <2>1, <2>3, <2>4, <2>5, <2>7, SMTT(60)
<1>12. /\ next = [prog |-> p, done |-> Active.done \cup {CurrentReloc},
                  subprogram_offsets |-> NewOffsets]
       /\ next.prog = p /\ next.done = Active.done \cup {CurrentReloc}
       /\ next.subprogram_offsets = NewOffsets
  BY <1>5
<1> HIDE DEF next
<1>13. /\ Sections' = Sections /\ \A s : Section(s)' = Section(s) /\ Starts(s)' = Starts(s)
       /\ \A f : ProgramOK(f) => ProgramOK(f)'
       /\ \A f, K, P : Exact(f, K, P) => Exact(f, K, P)'
       /\ \A n, at : Resolves(n, at) => Resolves(n, at)'
       /\ \A f : StartsAt(f) => StartsAt(f)'
       /\ \A f, K, m : PutAt(f, K, m) => PutAt(f, K, m)'
       /\ JumpsInOrder' = JumpsInOrder /\ NamesApart' = NamesApart
  BY <1>2, FileKept
<1>14. \A q : RelocsFor(q)' = RelocsFor(q)
  BY <1>2 DEF RelocsFor
<1>15. \A q \in ProgIds : ProgramOK(raw_programs[q])' /\ raw_programs'[q].section = raw_programs[q].section
  BY <1>1, <1>6, <1>9, <1>10, <1>13, SMTT(60) DEF LinkTypes
<1>16. \A i \in DOMAIN calls : calls'[i].prog = calls[i].prog
  BY <1>3, <1>5, <1>11, <1>12, SMTT(60)
<1>17. \A i \in DOMAIN calls' : CallIs(calls[i])'
  <2> SUFFICES ASSUME NEW i \in DOMAIN calls'
               PROVE  /\ calls'[i] = [prog |-> calls'[i].prog, done |-> calls'[i].done,
                                      subprogram_offsets |-> calls'[i].subprogram_offsets]
                      /\ calls'[i].prog \in visiting'
                      /\ \A n \in DOMAIN calls'[i].subprogram_offsets :
                            calls'[i].subprogram_offsets[n] \in Nat
    BY DEF CallIs
  <2>1. CASE i = N
    <3>1. calls'[i] = next
      BY <1>11, <2>1
    <3>2. \A n \in DOMAIN Active.subprogram_offsets : Active.subprogram_offsets[n] \in Nat
      BY <1>3 DEF CallIs
    <3>3. \A n \in DOMAIN NewOffsets : NewOffsets[n] \in Nat
      BY <1>7, <3>2, NewOffsetsAre
    <3>4. p \in visiting'
      BY <1>2, <1>3, <1>5
    <3> QED BY <1>12, <3>1, <3>3, <3>4
  <2>2. CASE i # N
    <3>1. calls'[i] = calls[i] /\ CallIs(calls[i])
      BY <1>1, <1>11, <2>2 DEF LinkTypes
    <3> QED BY <1>2, <3>1 DEF CallIs
  <2> QED BY <2>1, <2>2
<1>18. \A r \in relocations : /\ RelocIs(r) /\ RelocIs(r)'
                              /\ raw_programs'[r.prog].origin[r.source_offset] =
                                    raw_programs[r.prog].origin[r.source_offset]
  <2> TAKE r \in relocations
  <2>1. RelocIs(r)
    BY <1>1 DEF LinkTypes
  <2>2. CASE r.prog = p
    <3>1. r.source_offset \in DOMAIN g.prog /\ g.prog[r.source_offset].op = "call"
      BY <1>6, <2>1, <2>2 DEF RelocIs
    <3>2. /\ r.source_offset \in DOMAIN h.prog /\ h.prog[r.source_offset].op = "call"
          /\ h.origin[r.source_offset] = g.origin[r.source_offset]
      BY <1>7, <1>9, <3>1, SMTT(60)
    <3> QED BY <1>6, <1>10, <2>1, <2>2, <3>2, SMTT(60) DEF RelocIs
  <2>3. CASE r.prog # p
    <3>1. raw_programs'[r.prog] = raw_programs[r.prog]
      BY <1>10, <2>1, <2>3 DEF RelocIs
    <3> QED BY <1>10, <2>1, <3>1 DEF RelocIs
  <2> QED BY <2>2, <2>3
<1>19. LinkTypes'
  <2>1. \A q \in ProgIds' : ProgramOK(raw_programs[q])' /\ raw_programs'[q].section \in Sections'
    BY <1>1, <1>10, <1>13, <1>15, SMTT(60) DEF LinkTypes
  <2>2. \A i, j \in DOMAIN calls' : calls'[i].prog = calls'[j].prog => i = j
    BY <1>1, <1>11, <1>16, SMTT(60) DEF LinkTypes
  <2>3. \A r \in relocations' : RelocIs(r)'
    BY <1>2, <1>18
  <2>4. /\ file' \in Files /\ load' = "link" /\ prog_idx' \in Nat \ {0}
        /\ place'.section \in Sections' => place'.offset \in Starts(place.section)'
        /\ resolved' \cup visiting' \subseteq ProgIds' /\ resolved' \cap visiting' = {}
    BY <1>1, <1>2, <1>10, <1>13 DEF LinkTypes
  <2> QED BY <1>10, <1>11, <1>17, <2>1, <2>2, <2>3, <2>4, SMTT(60) DEF LinkTypes
<1>20. Passed'
  <2>1. \A q \in ProgIds : Wanted(q)' <=> Wanted(q)
    BY <1>2, <1>13, <1>15 DEF Wanted
  <2> QED BY <1>1, <1>2, <1>10, <2>1, SMTT(60) DEF Passed
<1>21. ASSUME JumpsInOrder, NamesApart
       PROVE  Programs'
  <2>1. Programs
    BY <1>21 DEF LinkInv
  <2>2. PICK K : /\ Exact(Whole, K, Sources(Remaining)) /\ PutAt(Whole, K, NewOffsets) /\ Base \in K
                 /\ LET at == Whole.origin[CurrentReloc.source_offset]
                    IN  Whole.origin[Base] \in CalledFrom(at[1], at[2])
    BY <1>1, <1>2, <2>1, WholeGood
  <2>3. Exact(h, K, Sources(Remaining) \ {src}) /\ PutAt(h, K, NewOffsets)
    <3>1. Whole.origin[Base] \in CalledFrom(Whole.origin[src][1], Whole.origin[src][2])
      BY <2>2 DEF src
    <3>2. Exact(h, K, Sources(Remaining) \ {src})
      BY <1>7, <1>8, <2>2, <3>1, PatchedGood, SMTT(60) DEF h
    <3>3. PutAt(h, K, NewOffsets)
      BY <1>9, <2>2 DEF PutAt
    <3> QED BY <3>2, <3>3
  <2>4. Sources(Remaining) \ {src} \subseteq Sources(RelocsFor(p) \ next.done)
    BY <1>5, <1>12 DEF Sources, Remaining, src
  <2>5. Exact(h, K, Sources(RelocsFor(p) \ next.done))
    BY <2>3, <2>4, GoodMore
  <2>6. \A q \in ProgIds' : StartsAt(raw_programs[q])'
    <3> SUFFICES ASSUME NEW q \in ProgIds PROVE StartsAt(raw_programs[q])'
      BY <1>10
    <3>1. StartsAt(raw_programs[q])
      BY <2>1 DEF Programs
    <3>2. CASE q # p
      <4>1. raw_programs'[q] = raw_programs[q]
        BY <1>10, <3>2
      <4> QED BY <1>13, <3>1, <4>1, SMTT(60)
    <3>3. CASE q = p
      <4>1. StartsAt(g)
        BY <1>6, <3>1, <3>3, SMTT(60)
      <4>2. 0 \in DOMAIN g.prog
        BY <1>7 DEF ProgramOK
      <4>3. h.section = g.section /\ h.function_name = g.function_name /\ h.origin[0] = g.origin[0]
        BY <1>7, <1>9, <4>2
      <4>4. StartsAt(h)
        BY <4>1, <4>3, SMTT(60) DEF StartsAt
      <4> QED BY <1>10, <1>13, <3>3, <4>4, SMTT(60)
    <3> QED BY <3>2, <3>3
  <2>7. \A r \in relocations' : Resolves(r.name, raw_programs[r.prog].origin[r.source_offset])'
    <3>1. \A r \in relocations : Resolves(r.name, raw_programs[r.prog].origin[r.source_offset])
      BY <2>1 DEF Programs
    <3> QED BY <1>2, <1>13, <1>18, <3>1, SMTT(60)
  <2>8. \A q \in ProgIds' \ (resolved' \cup visiting') :
            \E M : Exact(raw_programs[q], M, Sources(RelocsFor(q)))'
    <3> TAKE q \in ProgIds' \ (resolved' \cup visiting')
    <3>1. q \in ProgIds \ (resolved \cup visiting) /\ q # p
      BY <1>2, <1>3, <1>5, <1>10
    <3>2. PICK M : Exact(raw_programs[q], M, Sources(RelocsFor(q)))
      BY <2>1, <3>1 DEF Programs
    <3>3. raw_programs'[q] = raw_programs[q]
      BY <1>10, <3>1
    <3>4. Exact(raw_programs[q], M, Sources(RelocsFor(q)))'
      BY <1>13, <1>14, <3>2, <3>3 DEF Sources
    <3> QED BY <3>4
  <2>9. \A q \in resolved' : \E M : Exact(raw_programs[q], M, {})'
    <3> TAKE q \in resolved'
    <3>1. q \in resolved /\ q # p /\ q \in ProgIds
      BY <1>1, <1>2, <1>3, <1>5 DEF LinkTypes
    <3>2. PICK M : Exact(raw_programs[q], M, {})
      BY <2>1, <3>1 DEF Programs
    <3>3. raw_programs'[q] = raw_programs[q]
      BY <1>10, <3>1
    <3> QED BY <1>13, <3>2, <3>3
  <2>10. \A i \in DOMAIN calls' : ActiveGood(calls[i])'
    <3> TAKE i \in DOMAIN calls'
    <3>1. CASE i = N
      <4>1. calls'[i] = next /\ next.prog = p /\ raw_programs'[p] = h
        BY <1>10, <1>11, <1>12, <3>1
      <4>2. PICK d, f, offsets : d = next /\ f = h /\ offsets = NewOffsets
        OBVIOUS
      <4>3. /\ d.prog = p /\ d.subprogram_offsets = offsets
            /\ Exact(f, K, Sources(RelocsFor(p) \ d.done)) /\ PutAt(f, K, offsets)
        BY <1>12, <2>3, <2>5, <4>2
      <4>4. raw_programs'[p] = f /\ calls'[i] = d
        BY <4>1, <4>2
      <4>5. Exact(raw_programs[p], K, Sources(RelocsFor(p) \ d.done))' /\ PutAt(raw_programs[p], K, offsets)'
        BY <1>13, <1>14, <4>3, <4>4 DEF Sources
      <4>6. ActiveGood(d)'
        BY <4>3, <4>5 DEF ActiveGood
      <4> QED BY <4>4, <4>6
    <3>2. CASE i # N
      <4>1. PICK c : c = calls[i]
        OBVIOUS
      <4>2. calls'[i] = c /\ c.prog \in ProgIds /\ c.prog # p /\ ActiveGood(c)
        BY <1>1, <1>3, <1>5, <1>11, <2>1, <3>2, <4>1, SMTT(60) DEF LinkTypes, CallIs, Programs
      <4>3. raw_programs'[c.prog] = raw_programs[c.prog]
        BY <1>10, <4>2
      <4>4. PICK M : /\ Exact(raw_programs[c.prog], M, Sources(RelocsFor(c.prog) \ c.done))
                     /\ PutAt(raw_programs[c.prog], M, c.subprogram_offsets)
        BY <4>2 DEF ActiveGood
      <4>5. /\ Exact(raw_programs[c.prog], M, Sources(RelocsFor(c.prog) \ c.done))'
            /\ PutAt(raw_programs[c.prog], M, c.subprogram_offsets)'
        BY <1>13, <1>14, <4>3, <4>4 DEF Sources
      <4>6. ActiveGood(c)'
        BY <4>5 DEF ActiveGood
      <4> QED BY <4>2, <4>6
    <3> QED BY <3>1, <3>2
  <2> QED BY <2>6, <2>7, <2>8, <2>9, <2>10, SMTT(60) DEF Programs
<1> QED BY <1>13, <1>19, <1>20, <1>21, SMTT(60) DEF LinkInv

-----------------------------------------------------------------------------
(***************************************************************************)
(* The loader's steps, and the steps of the rest, which leave it alone.    *)
(***************************************************************************)
LEMMA LinkStep ==
    ASSUME LinkInv, Link
    PROVE  LinkInv'
BY ReadProgramStep, FinishReadingStep, NextProgramStep, PointCallStep, ResolveCalleeStep,
   RecursionStep, MissingSubprogramStep, FinishSubprogramStep, FinishLinkingStep, SMTT(60) DEF Link

LEMMA LinkKept ==
    ASSUME LinkInv, UNCHANGED linkVars
    PROVE  LinkInv'
<1>1. UNCHANGED <<file, load, place, raw_programs, relocations, prog_idx, resolved, visiting, calls>>
  BY DEF linkVars
<1>2. /\ Sections' = Sections /\ \A s : Section(s)' = Section(s) /\ Starts(s)' = Starts(s)
      /\ \A g : ProgramOK(g) => ProgramOK(g)'
      /\ \A g, K, P : Exact(g, K, P) => Exact(g, K, P)'
      /\ \A n, at : Resolves(n, at) => Resolves(n, at)'
      /\ \A g : StartsAt(g) => StartsAt(g)'
      /\ \A g, K, f : PutAt(g, K, f) => PutAt(g, K, f)'
      /\ JumpsInOrder' = JumpsInOrder /\ NamesApart' = NamesApart
  BY <1>1, FileKept
<1>3. ProgIds' = ProgIds /\ \A p : RelocsFor(p)' = RelocsFor(p)
  BY <1>1 DEF ProgIds, RelocsFor
<1>4. LinkTypes /\ Passed
  BY DEF LinkInv
<1>5. \A r : RelocIs(r) => RelocIs(r)'
  BY <1>1, <1>3 DEF RelocIs
<1>6. \A c : CallIs(c) => CallIs(c)'
  BY <1>1 DEF CallIs
<1>7. LinkTypes'
  <2>1. \A p \in ProgIds' : ProgramOK(raw_programs[p])' /\ raw_programs'[p].section \in Sections'
    BY <1>1, <1>2, <1>3, <1>4, SMTT(60) DEF LinkTypes
  <2>2. /\ \A r \in relocations' : RelocIs(r)'
        /\ \A i \in DOMAIN calls' : CallIs(calls[i])'
    BY <1>1, <1>4, <1>5, <1>6 DEF LinkTypes
  <2>3. place'.section \in Sections' => place'.offset \in Starts(place.section)'
    BY <1>1, <1>2, <1>4 DEF LinkTypes
  <2>4. IsSeq(raw_programs') /\ IsSeq(calls')
    BY <1>1, <1>4 DEF LinkTypes
  <2> QED BY <1>1, <1>3, <1>4, <2>1, <2>2, <2>3, <2>4, SMTT(60) DEF LinkTypes
<1>8. Passed'
  BY <1>1, <1>2, <1>3, <1>4, SMTT(60) DEF Passed, Wanted
<1>9. ASSUME JumpsInOrder, NamesApart
      PROVE  Programs'
  <2>1. Programs
    BY <1>9 DEF LinkInv
  <2>2. /\ \A p \in ProgIds' : StartsAt(raw_programs[p])'
        /\ \A r \in relocations' : Resolves(r.name, raw_programs[r.prog].origin[r.source_offset])'
    BY <1>1, <1>2, <1>3, <2>1 DEF Programs
  <2>3. \A p \in ProgIds' \ (resolved' \cup visiting') :
            \E K : Exact(raw_programs[p], K, Sources(RelocsFor(p)))'
    <3> TAKE p \in ProgIds' \ (resolved' \cup visiting')
    <3>1. PICK K : Exact(raw_programs[p], K, Sources(RelocsFor(p)))
      BY <1>1, <1>3, <2>1, SMTT(60) DEF Programs
    <3>2. Exact(raw_programs[p], K, Sources(RelocsFor(p)))'
      BY <1>1, <1>2, <1>3, <3>1, SMTT(60) DEF Sources
    <3> QED BY <3>2
  <2>4. \A p \in resolved' : \E K : Exact(raw_programs[p], K, {})'
    BY <1>1, <1>2, <2>1 DEF Programs
  <2>5. \A i \in DOMAIN calls' : ActiveGood(calls[i])'
    <3> TAKE i \in DOMAIN calls'
    <3>1. PICK c : c = calls[i]
      OBVIOUS
    <3>2. calls'[i] = c /\ ActiveGood(c)
      BY <1>1, <2>1, <3>1 DEF Programs
    <3>3. PICK K : /\ Exact(raw_programs[c.prog], K, Sources(RelocsFor(c.prog) \ c.done))
                   /\ PutAt(raw_programs[c.prog], K, c.subprogram_offsets)
      BY <3>2 DEF ActiveGood
    <3>4. /\ Exact(raw_programs[c.prog], K, Sources(RelocsFor(c.prog) \ c.done))'
          /\ PutAt(raw_programs[c.prog], K, c.subprogram_offsets)'
      BY <1>1, <1>2, <1>3, <3>3 DEF Sources
    <3>5. ActiveGood(c)'
      BY <3>4 DEF ActiveGood
    <3> QED BY <3>2, <3>5, SMTT(60)
  <2> QED BY <2>2, <2>3, <2>4, <2>5 DEF Programs
<1> QED BY <1>2, <1>7, <1>8, <1>9 DEF LinkInv

-----------------------------------------------------------------------------
(***************************************************************************)
(* The layout of programs: a function's start is never jumped over from    *)
(* behind, and calls go forward, to the starts of functions.               *)
(***************************************************************************)
Entries(g) == {k \in DOMAIN g.prog : g.origin[k][2] \in Starts(g.origin[k][1])}
PointsAhead(g, k) ==
    g.prog[k].op = "call" => TargetOf(k, g.prog[k]) \in Entries(g) /\ TargetOf(k, g.prog[k]) > k
Ahead(g, P) ==
    /\ 0 \in Entries(g)
    /\ \A t \in Entries(g) : \A k \in DOMAIN g.prog :
          k >= t /\ g.prog[k].op \in {"jump", "branch"} => TargetOf(k, g.prog[k]) >= t
    /\ \A k \in DOMAIN g.prog : k \notin P => PointsAhead(g, k)

LEMMA TargetShifts ==
    ASSUME NEW i, i.rel \in Int, NEW k \in Int, NEW n \in Int
    PROVE  TargetOf(k, i) \in Int /\ TargetOf(k + n, i) = TargetOf(k, i) + n
<1>1. PICK rel \in Int : i.rel = rel
  OBVIOUS
<1> QED BY <1>1 DEF TargetOf

\* A program that is cut out; its recorded calls do not point anywhere yet.
LEMMA CutAhead ==
    ASSUME file \in Files, NEW s \in Sections, NEW o \in Starts(s), NEW p, JumpsInOrder, SpansForward
    PROVE  LET end == SpanEnd(s, o)
           IN  Ahead(CutOut(s, o, end), Sources(FunctionRelocations(p, s, o, end)))
<1> DEFINE end == SpanEnd(s, o)
           code == Section(s).code
           P == Sources(FunctionRelocations(p, s, o, end))
<1>1. /\ end \in o + 1 .. Size(s) /\ o \in Nat /\ Size(s) \in Nat
      /\ DOMAIN code = 0 .. Size(s) - 1
      /\ \A k \in DOMAIN code : code[k].rel \in Int
  <2>1. end \in o + 1 .. Size(s)
    BY SpanEndIs
  <2>2. /\ Size(s) \in Nat \ {0} /\ DOMAIN code = 0 .. Size(s) - 1 /\ DOMAIN Symbols(s) \subseteq Nat
        /\ \A k \in DOMAIN code : code[k].rel \in Int
    BY SectionIs
  <2>3. o \in Nat
    BY <2>2, SMTT(60) DEF Starts
  <2> QED BY <2>1, <2>2, <2>3
<1> HIDE DEF end
<1>2. PICK g : g = CutOut(s, o, end)
  OBVIOUS
<1>3. /\ DOMAIN g.prog = 0 .. end - o - 1
      /\ \A k \in DOMAIN g.prog : /\ k + o \in DOMAIN code
                                  /\ g.prog[k] = code[k + o] /\ g.origin[k] = <<s, k + o>>
  BY <1>1, <1>2, CutIs, SMTT(60)
<1>4. \A k \in DOMAIN g.prog : k \in Nat /\ (k \in Entries(g) <=> k + o \in Starts(s))
  BY <1>1, <1>3, SMTT(60) DEF Entries
<1>5. 0 \in Entries(g)
  <2>1. 0 \in DOMAIN g.prog /\ 0 + o = o
    BY <1>1, <1>3
  <2> QED BY <1>4, <2>1
<1>7. ASSUME NEW t \in Entries(g), NEW k \in DOMAIN g.prog, k >= t, g.prog[k].op \in {"jump", "branch"}
      PROVE  TargetOf(k, g.prog[k]) >= t
  <2>1. /\ t \in DOMAIN g.prog /\ t + o \in Starts(s) /\ t \in Nat /\ k \in Nat
        /\ k + o \in DOMAIN code /\ g.prog[k] = code[k + o] /\ code[k + o].rel \in Int
    BY <1>1, <1>3, <1>4 DEF Entries
  <2>2. TargetOf(k + o, code[k + o]) \in FunctionStart(s, k + o) .. Size(s) - 1
    BY <1>7, <2>1 DEF JumpsInOrder
  <2>3. t + o <= k + o
    BY <1>1, <1>7, <2>1
  <2>4. FunctionStart(s, k + o) \in Nat /\ FunctionStart(s, k + o) >= t + o
    BY <2>1, <2>3, FunctionStartIs
  <2>5. TargetOf(k + o, code[k + o]) = TargetOf(k, g.prog[k]) + o
    BY <1>1, <2>1, TargetShifts, SMTT(60)
  <2>6. TargetOf(k, g.prog[k]) \in Int
    BY <2>1, TargetShifts
  <2> HIDE DEF TargetOf
  <2> QED BY <1>1, <2>1, <2>2, <2>4, <2>5, <2>6, SMTT(60)
<1>8. ASSUME NEW k \in DOMAIN g.prog, k \notin P, g.prog[k].op = "call"
      PROVE  TargetOf(k, g.prog[k]) \in Entries(g) /\ TargetOf(k, g.prog[k]) > k
  <2>1. PICK j : j = k + o
    OBVIOUS
  <2>2. /\ j \in o .. end - 1 /\ j \in DOMAIN code /\ g.prog[k] = code[j] /\ code[j].rel \in Int
        /\ j - o = k /\ k \in Nat
    BY <1>1, <1>3, <2>1, SMTT(60)
  <2>3. j \notin Relocated(code, o, end) /\ j \notin Leaving(code, o, end)
    <3> SUFFICES ASSUME j \in Relocated(code, o, end) \cup Leaving(code, o, end) PROVE FALSE
      OBVIOUS
    <3> DEFINE record(x, q, synthetic) ==
                   [prog |-> p, source_offset |-> x - o, section |-> q.section, name |-> q.name,
                    synthetic |-> synthetic]
               called == Reloc(s, Symbols(s)[TargetOf(j, code[j])])
    <3>1. \/ record(j, code[j].reloc, FALSE) \in FunctionRelocations(p, s, o, end)
          \/ record(j, called, TRUE) \in FunctionRelocations(p, s, o, end)
      <4>1. CASE j \in Relocated(code, o, end)
        BY <4>1 DEF FunctionRelocations
      <4>2. CASE j \in Leaving(code, o, end)
        BY <4>2 DEF FunctionRelocations
      <4> QED BY <4>1, <4>2, SMTT(60)
    <3>2. \A q, b : record(j, q, b).source_offset = j - o
      OBVIOUS
    <3> HIDE DEF record, called
    <3>3. \E r \in FunctionRelocations(p, s, o, end) : r.source_offset = j - o
      BY <3>1, <3>2
    <3> QED BY <1>8, <2>2, <3>3 DEF Sources
  <2>4. code[j].reloc = NoReloc /\ TargetOf(j, code[j]) \in o .. end - 1
    BY <1>8, <2>2, <2>3 DEF Relocated, Leaving
  <2>5. TargetOf(j, code[j]) \in Starts(s) \ (o .. j)
    BY <1>8, <2>2, <2>4 DEF SpansForward, end
  <2>6. TargetOf(j, code[j]) = TargetOf(k, g.prog[k]) + o /\ TargetOf(k, g.prog[k]) \in Int
    BY <1>1, <2>1, <2>2, TargetShifts, SMTT(60)
  <2>7. TargetOf(k, g.prog[k]) \in DOMAIN g.prog /\ TargetOf(k, g.prog[k]) > k
    BY <1>1, <1>3, <2>1, <2>2, <2>4, <2>5, <2>6, SMTT(60)
  <2> QED BY <1>4, <2>5, <2>6, <2>7
<1>9. Ahead(g, P)
  BY <1>5, <1>7, <1>8 DEF Ahead, PointsAhead
<1> QED BY <1>2, <1>9 DEF end

LEMMA CopiedAhead ==
    ASSUME NEW g, NEW sub, ProgramOK(g), ProgramOK(sub), NEW P, Ahead(g, P), Ahead(sub, {})
    PROVE  LET h == Copied(g, sub)
           IN  /\ Ahead(h, P) /\ Entries(g) \subseteq Entries(h)
               /\ Cardinality(DOMAIN g.prog) \in Entries(h)
               /\ \A k \in DOMAIN g.prog : PointsAhead(g, k) => PointsAhead(h, k)
<1> DEFINE n == Cardinality(DOMAIN g.prog)
           m == Cardinality(DOMAIN sub.prog)
<1>1. PICK h : h = Copied(g, sub)
  OBVIOUS
<1>2. /\ ProgramOK(h) /\ DOMAIN h.prog = 0 .. n + m - 1
      /\ \A k \in 0 .. n - 1 : h.prog[k] = g.prog[k] /\ h.origin[k] = g.origin[k]
      /\ \A k \in 0 .. m - 1 : h.prog[n + k] = sub.prog[k] /\ h.origin[n + k] = sub.origin[k]
  BY <1>1, CopiedIs
<1>3. /\ n \in Nat \ {0} /\ m \in Nat \ {0} /\ DOMAIN g.prog = 0 .. n - 1 /\ DOMAIN sub.prog = 0 .. m - 1
      /\ \A k \in DOMAIN g.prog : g.prog[k].rel \in Int
      /\ \A k \in DOMAIN sub.prog : sub.prog[k].rel \in Int
  BY DEF ProgramOK
<1> HIDE DEF n, m
<1>4. /\ \A k \in 0 .. n - 1 : k \in DOMAIN h.prog
      /\ \A k \in 0 .. m - 1 : n + k \in DOMAIN h.prog
      /\ \A k \in DOMAIN h.prog : k \in 0 .. n - 1 \/ \E j \in 0 .. m - 1 : k = n + j
  <2>1. ASSUME NEW k \in DOMAIN h.prog, k \notin 0 .. n - 1 PROVE \E j \in 0 .. m - 1 : k = n + j
    <3>1. k - n \in 0 .. m - 1 /\ k = n + (k - n)
      BY <1>2, <1>3, <2>1
    <3> QED BY <3>1
  <2> QED BY <1>2, <1>3, <2>1
<1>5. /\ \A k \in 0 .. n - 1 : k \in Entries(h) <=> k \in Entries(g)
      /\ \A k \in 0 .. m - 1 : n + k \in Entries(h) <=> k \in Entries(sub)
  BY <1>2, <1>3, <1>4 DEF Entries
<1>6. Entries(g) \subseteq 0 .. n - 1 /\ Entries(sub) \subseteq 0 .. m - 1 /\ Entries(h) \subseteq DOMAIN h.prog
  BY <1>3 DEF Entries
<1>7. 0 \in Entries(g) /\ 0 \in Entries(sub)
  BY DEF Ahead
<1>8. Entries(g) \subseteq Entries(h) /\ n \in Entries(h)
  <2>1. 0 \in 0 .. m - 1 /\ n + 0 = n
    BY <1>3
  <2> QED BY <1>5, <1>6, <1>7, <2>1, SMTT(60)
<1>9. \A k \in DOMAIN g.prog : PointsAhead(g, k) => PointsAhead(h, k)
  BY <1>2, <1>3, <1>8, SMTT(60) DEF PointsAhead
<1>10. \A k \in 0 .. m - 1 : PointsAhead(h, n + k)
  <2> SUFFICES ASSUME NEW k \in 0 .. m - 1, sub.prog[k].op = "call"
               PROVE  /\ TargetOf(n + k, sub.prog[k]) \in Entries(h)
                      /\ TargetOf(n + k, sub.prog[k]) > n + k
    BY <1>2 DEF PointsAhead
  <2>1. TargetOf(k, sub.prog[k]) \in Entries(sub) /\ TargetOf(k, sub.prog[k]) > k
    BY <1>3 DEF Ahead, PointsAhead
  <2>2. TargetOf(n + k, sub.prog[k]) = n + TargetOf(k, sub.prog[k])
    <3>1. sub.prog[k].rel \in Int /\ k \in Int /\ n \in Int /\ n + k = k + n
      BY <1>3
    <3>2. TargetOf(k, sub.prog[k]) \in Int /\ TargetOf(k + n, sub.prog[k]) = TargetOf(k, sub.prog[k]) + n
      BY <3>1, TargetShifts
    <3> QED BY <3>1, <3>2
  <2>3. TargetOf(k, sub.prog[k]) \in 0 .. m - 1
    BY <1>6, <2>1
  <2> QED BY <1>3, <1>5, <2>1, <2>2, <2>3, SMTT(60)
<1>12. ASSUME NEW t \in Entries(h), NEW k \in DOMAIN h.prog, k >= t, h.prog[k].op \in {"jump", "branch"}
       PROVE  TargetOf(k, h.prog[k]) >= t
  <2>1. t \in DOMAIN h.prog /\ t \in Nat /\ k \in Nat
    BY <1>2, <1>3, <1>6, SMTT(60)
  <2>2. CASE k \in 0 .. n - 1
    <3>1. t \in 0 .. n - 1
      BY <1>3, <1>12, <2>1, <2>2
    <3>2. t \in Entries(g) /\ k \in DOMAIN g.prog /\ h.prog[k] = g.prog[k]
      BY <1>2, <1>3, <1>5, <2>2, <3>1
    <3> QED BY <1>12, <3>2 DEF Ahead
  <2>3. ASSUME NEW j \in 0 .. m - 1, k = n + j PROVE TargetOf(k, h.prog[k]) >= t
    <3>1. j \in DOMAIN sub.prog /\ h.prog[k] = sub.prog[j] /\ sub.prog[j].rel \in Int
      BY <1>2, <1>3, <2>3
    <3>2. TargetOf(k, h.prog[k]) = n + TargetOf(j, sub.prog[j]) /\ TargetOf(j, sub.prog[j]) \in Int
      <4>1. j \in Int /\ n \in Int /\ n + j = j + n
        BY <1>3
      <4>2. TargetOf(j, sub.prog[j]) \in Int /\ TargetOf(j + n, sub.prog[j]) = TargetOf(j, sub.prog[j]) + n
        BY <3>1, <4>1, TargetShifts
      <4> QED BY <2>3, <3>1, <4>1, <4>2
    <3>3. \A e \in Entries(sub) : j >= e => TargetOf(j, sub.prog[j]) >= e
      BY <1>12, <3>1 DEF Ahead
    <3>4. CASE t \in 0 .. n - 1
      <4>1. TargetOf(j, sub.prog[j]) >= 0
        BY <1>3, <1>7, <2>3, <3>3
      <4> QED BY <1>3, <3>2, <3>4, <4>1
    <3>5. ASSUME NEW e \in 0 .. m - 1, t = n + e PROVE TargetOf(k, h.prog[k]) >= t
      <4>1. e \in Entries(sub) /\ j >= e
        BY <1>3, <1>5, <1>12, <2>3, <3>5, SMTT(60)
      <4>2. TargetOf(j, sub.prog[j]) >= e
        BY <3>3, <4>1
      <4> QED BY <1>3, <3>2, <3>5, <4>2
    <3> QED BY <1>4, <2>1, <3>4, <3>5
  <2> QED BY <1>4, <2>2, <2>3
<1>13. \A k \in DOMAIN h.prog : k \notin P => PointsAhead(h, k)
  <2> TAKE k \in DOMAIN h.prog
  <2>1. CASE k \in 0 .. n - 1
    <3>1. k \in DOMAIN g.prog /\ (k \notin P => PointsAhead(g, k))
      BY <1>3, <2>1 DEF Ahead
    <3> QED BY <1>9, <3>1
  <2> QED BY <1>4, <1>10, <2>1
<1>14. Ahead(h, P)
  BY <1>7, <1>8, <1>12, <1>13 DEF Ahead
<1> QED BY <1>1, <1>8, <1>9, <1>14 DEF n

LEMMA PatchedAhead ==
    ASSUME NEW g, ProgramOK(g), NEW P, Ahead(g, P), NEW src \in DOMAIN g.prog,
           g.prog[src].op = "call", NEW base \in Entries(g), base > src
    PROVE  LET h == Patched(g, src, base)
           IN  /\ Ahead(h, P) /\ Entries(h) = Entries(g) /\ PointsAhead(h, src)
               /\ \A k \in DOMAIN g.prog : PointsAhead(g, k) => PointsAhead(h, k)
<1>1. PICK h : h = Patched(g, src, base)
  OBVIOUS
<1>2. base \in Int
  BY DEF Entries, ProgramOK
<1>3. /\ DOMAIN h.prog = DOMAIN g.prog /\ h.origin = g.origin
      /\ \A k \in DOMAIN g.prog : k # src => h.prog[k] = g.prog[k]
      /\ h.prog[src].op = g.prog[src].op /\ TargetOf(src, h.prog[src]) = base
  BY <1>1, <1>2, PatchedIs
<1>4. Entries(h) = Entries(g)
  BY <1>3 DEF Entries
<1>5. PointsAhead(h, src)
  BY <1>3, <1>4 DEF PointsAhead
<1>6. \A k \in DOMAIN g.prog : PointsAhead(g, k) => PointsAhead(h, k)
  <2> TAKE k \in DOMAIN g.prog
  <2>1. CASE k # src
    BY <1>3, <1>4, <2>1 DEF PointsAhead
  <2> QED BY <1>5, <2>1
<1>7. \A k \in DOMAIN h.prog : /\ h.prog[k].op = g.prog[k].op
                               /\ h.prog[k].op \in {"jump", "branch"} => h.prog[k] = g.prog[k]
  BY <1>3
<1>8. Ahead(h, P)
  BY <1>3, <1>4, <1>6, <1>7, SMTT(60) DEF Ahead
<1> QED BY <1>1, <1>4, <1>5, <1>6, <1>8

(***************************************************************************)
(* The programs while they are linked: calls that are done point ahead,    *)
(* and a subprogram is placed behind all calls that may still point to it. *)
(***************************************************************************)
IsDone(r) ==
    r.prog \in resolved \/ \E i \in DOMAIN calls : calls[i].prog = r.prog /\ r \in calls[i].done
PlacedAhead(c) ==
    \A n \in DOMAIN c.subprogram_offsets :
        /\ c.subprogram_offsets[n] \in Entries(raw_programs[c.prog])
        /\ \A r \in RelocsFor(c.prog) : r.source_offset < c.subprogram_offsets[n]
Layout ==
    /\ \A p \in ProgIds : Ahead(raw_programs[p], Sources(RelocsFor(p)))
    /\ \A r \in relocations : IsDone(r) => PointsAhead(raw_programs[r.prog], r.source_offset)
    /\ \A i \in DOMAIN calls : PlacedAhead(calls[i])

LEMMA LayoutFixed ==
    ASSUME file' = file
    PROVE  /\ \A g : Entries(g)' = Entries(g)
           /\ \A g, k : PointsAhead(g, k) => PointsAhead(g, k)'
           /\ \A g, P : Ahead(g, P) => Ahead(g, P)'
           /\ JumpsInOrder' = JumpsInOrder /\ SpansForward' = SpansForward
<1>1. /\ Sections' = Sections /\ \A s : Section(s)' = Section(s) /\ Starts(s)' = Starts(s)
      /\ JumpsInOrder' = JumpsInOrder
  BY FileKept
<1>2. \A g : Entries(g)' = Entries(g)
  BY <1>1 DEF Entries
<1>3. \A g, k : PointsAhead(g, k) => PointsAhead(g, k)'
  BY <1>2 DEF PointsAhead
<1>4. \A g, P : Ahead(g, P) => Ahead(g, P)'
  BY <1>2, <1>3 DEF Ahead
<1>5. \A s, o : SpanEnd(s, o)' = SpanEnd(s, o)
  <2>1. \A s : Symbols(s)' = Symbols(s) /\ Size(s)' = Size(s)
    BY <1>1 DEF Symbols, Size
  <2>2. \A s, o : EndAt(s, o)' = EndAt(s, o)
    BY <2>1 DEF EndAt
  <2>3. \A s, o : Reachable(s, o)' = Reachable(s, o)
    BY <1>1 DEF Reachable
  <2> QED BY <2>2, <2>3 DEF SpanEnd
<1>6. SpansForward' = SpansForward
  BY <1>1, <1>5 DEF SpansForward
<1> QED BY <1>1, <1>2, <1>3, <1>4, <1>6

\* A step that changes no program: what it finishes was done.
LEMMA LayoutStays ==
    ASSUME Layout, Kept1,
           \A i \in DOMAIN calls' :
               \/ \E j \in DOMAIN calls : calls'[i] = calls[j]
               \/ calls'[i].done = {} /\ DOMAIN calls'[i].subprogram_offsets = {},
           \A p \in resolved' :
               p \in resolved \/ \E j \in DOMAIN calls : calls[j].prog = p /\ RelocsFor(p) \subseteq calls[j].done
    PROVE  Layout'
<1>1. /\ file' = file /\ raw_programs' = raw_programs /\ relocations' = relocations
      /\ ProgIds' = ProgIds /\ \A p : RelocsFor(p)' = RelocsFor(p)
  BY DEF Kept1, ProgIds, RelocsFor
<1>2. /\ \A g : Entries(g)' = Entries(g)
      /\ \A g, k : PointsAhead(g, k) => PointsAhead(g, k)'
      /\ \A g, P : Ahead(g, P) => Ahead(g, P)'
  BY <1>1, LayoutFixed
<1>3. \A p \in ProgIds' : Ahead(raw_programs[p], Sources(RelocsFor(p)))'
  <2> TAKE p \in ProgIds'
  <2>1. Ahead(raw_programs[p], Sources(RelocsFor(p)))
    BY <1>1 DEF Layout
  <2> QED BY <1>1, <1>2, <2>1 DEF Sources
<1>4. \A r \in relocations' : IsDone(r)' => PointsAhead(raw_programs[r.prog], r.source_offset)'
  <2> SUFFICES ASSUME NEW r \in relocations, IsDone(r)'
               PROVE  PointsAhead(raw_programs[r.prog], r.source_offset)'
    BY <1>1
  <2>1. r \in RelocsFor(r.prog)
    BY DEF RelocsFor
  <2>4. IsDone(r)
    <3>1. \/ r.prog \in resolved'
          \/ \E i \in DOMAIN calls' : calls'[i].prog = r.prog /\ r \in calls'[i].done
      BY DEF IsDone
    <3>2. CASE r.prog \in resolved'
      BY <2>1, <3>2 DEF IsDone
    <3>3. CASE \E i \in DOMAIN calls' : calls'[i].prog = r.prog /\ r \in calls'[i].done
      <4>1. PICK i \in DOMAIN calls' : calls'[i].prog = r.prog /\ r \in calls'[i].done
        BY <3>3
      <4>2. PICK j \in DOMAIN calls : calls'[i] = calls[j]
        BY <4>1
      <4> QED BY <4>1, <4>2 DEF IsDone
    <3> QED BY <3>1, <3>2, <3>3
  <2>5. PointsAhead(raw_programs[r.prog], r.source_offset)
    BY <2>4 DEF Layout
  <2> QED BY <1>1, <1>2, <2>5
<1>5. \A i \in DOMAIN calls' : PlacedAhead(calls[i])'
  <2> TAKE i \in DOMAIN calls'
  <2>1. PICK c : c = calls'[i]
    OBVIOUS
  <2>2. PlacedAhead(c) => PlacedAhead(c)'
    BY <1>1, <1>2 DEF PlacedAhead
  <2>3. PlacedAhead(c)
    <3>1. CASE \E j \in DOMAIN calls : c = calls[j]
      BY <3>1 DEF Layout
    <3>2. CASE DOMAIN c.subprogram_offsets = {}
      BY <3>2 DEF PlacedAhead
    <3> QED BY <2>1, <3>1, <3>2
  <2> QED BY <2>1, <2>2, <2>3, SMTT(60)
<1> QED BY <1>3, <1>4, <1>5 DEF Layout

LEMMA ReadLays ==
    ASSUME LinkTypes, Layout, JumpsInOrder, SpansForward, ReadProgram
    PROVE  Layout'
<1>1. PICK s, o : s = place.section /\ o = place.offset
  OBVIOUS
<1>2. PICK end, N : end = SpanEnd(s, o) /\ N = Len(raw_programs)
  OBVIOUS
<1>3. /\ s \in Sections /\ file \in Files /\ o \in Starts(s)
      /\ file' = file /\ UNCHANGED <<resolved, calls>>
      /\ calls = <<>> /\ resolved = {}
  BY <1>1 DEF ReadProgram, LinkTypes
<1>4. DOMAIN calls' = {} /\ resolved' = {}
  <2>1. IsSeq(calls) /\ calls = <<>>
    BY <1>3 DEF LinkTypes
  <2> QED BY <1>3, <2>1, SeqIs
<1>5. CASE CannotName(s, o, end)
  <2>1. Kept1
    BY <1>1, <1>2, <1>3, <1>5 DEF ReadProgram, Kept1
  <2> QED BY <1>4, <2>1, LayoutStays
<1>6. CASE ~ CannotName(s, o, end)
  <2>1. PICK g, new : g = CutOut(s, o, end) /\ new = FunctionRelocations(N + 1, s, o, end)
    OBVIOUS
  <2>2. raw_programs' = Append(raw_programs, g) /\ relocations' = relocations \cup new
    BY <1>1, <1>2, <1>6, <2>1 DEF ReadProgram
  <2>3. Ahead(g, Sources(new))
    BY <1>2, <1>3, <2>1, CutAhead, SMTT(60)
  <2>4. \A r \in new : r.prog = N + 1
    <3>1. end \in o + 1 .. Size(s)
      BY <1>2, <1>3, SpanEndIs
    <3> QED BY <1>3, <2>1, <3>1, RelocationIs
  <2>5. /\ DOMAIN raw_programs' = 1 .. N + 1 /\ N \in Nat /\ DOMAIN raw_programs = 1 .. N
        /\ \A p \in 1 .. N : raw_programs'[p] = raw_programs[p]
        /\ raw_programs'[N + 1] = g
    <3>1. IsSeq(raw_programs)
      BY SMTT(60) DEF LinkTypes
    <3> QED BY <1>2, <2>2, <3>1, AppendIs, SeqIs
  <2>6. ProgIds = 1 .. N /\ N + 1 \notin ProgIds /\ \A p \in ProgIds' : p \in ProgIds \/ p = N + 1
    BY <2>5 DEF ProgIds
  <2>7. \A r \in relocations : r.prog \in ProgIds
    BY DEF LinkTypes, RelocIs
  <2>8. /\ RelocsFor(N + 1)' = new
        /\ \A p \in ProgIds : RelocsFor(p)' = RelocsFor(p)
    BY <2>2, <2>4, <2>6, <2>7 DEF RelocsFor
  <2>9. \A h, P : Ahead(h, P) => Ahead(h, P)'
    BY <1>3, LayoutFixed
  <2>10. \A p \in ProgIds' : Ahead(raw_programs[p], Sources(RelocsFor(p)))'
    <3> TAKE p \in ProgIds'
    <3>1. CASE p \in ProgIds
      <4>1. Ahead(raw_programs[p], Sources(RelocsFor(p)))
        BY <3>1 DEF Layout
      <4>2. raw_programs'[p] = raw_programs[p] /\ RelocsFor(p)' = RelocsFor(p)
        BY <2>5, <2>6, <2>8, <3>1
      <4> QED BY <2>9, <4>1, <4>2 DEF Sources
    <3>2. CASE p = N + 1
      <4>1. raw_programs'[p] = g /\ RelocsFor(p)' = new
        BY <2>5, <2>8, <3>2
      <4> QED BY <2>3, <2>9, <4>1 DEF Sources
    <3> QED BY <2>6, <3>1, <3>2
  <2>11. \A r : ~ IsDone(r)'
    BY <1>4 DEF IsDone
  <2> QED BY <1>4, <2>10, <2>11 DEF Layout
<1> QED BY <1>5, <1>6

LEMMA PointLays ==
    ASSUME LinkTypes, Layout, PointCall
    PROVE  Layout'
<1>1. PICK N, c, r : N = Len(calls) /\ c = Active /\ r = CurrentReloc
  OBVIOUS
<1>2. PICK p, src, base, offsets :
          p = c.prog /\ src = r.source_offset /\ base = Base /\ offsets = NewOffsets
  OBVIOUS
<1>3. PICK g, w, h, next :
          /\ g = raw_programs[p] /\ w = Whole /\ h = Patched(w, src, base)
          /\ next = [prog |-> p, done |-> c.done \cup {r}, subprogram_offsets |-> offsets]
  OBVIOUS
<1>4. /\ MoreRelocs /\ CanPoint /\ calls # <<>>
      /\ raw_programs' = [raw_programs EXCEPT ![p] = h]
      /\ calls' = [calls EXCEPT ![N] = next]
      /\ UNCHANGED <<file, relocations, resolved>>
  <2>1. MoreRelocs /\ CanPoint /\ UNCHANGED <<file, relocations, resolved>>
    BY DEF PointCall, CanPoint, LinkOnly
  <2>2. calls # <<>>
    BY <2>1 DEF MoreRelocs
  <2>3. raw_programs' = [raw_programs EXCEPT ![Active.prog] = Patched(Whole, CurrentReloc.source_offset, Base)]
    BY Zenon DEF PointCall, Whole, Base
  <2>4. Advance(NewOffsets)
    BY Zenon DEF PointCall, NewOffsets, Base
  <2>5. calls' = [calls EXCEPT ![Len(calls)] =
                      [prog |-> Active.prog, done |-> Active.done \cup {CurrentReloc},
                       subprogram_offsets |-> NewOffsets]]
    BY <2>4 DEF Advance
  <2> QED BY <1>1, <1>2, <1>3, <2>1, <2>2, <2>3, <2>5
<1>5. /\ N \in DOMAIN calls /\ c = calls[N] /\ p \in ProgIds /\ p \notin resolved
  BY <1>1, <1>2, <1>4, ActiveIs, SMTT(60)
<1>6. /\ r \in relocations /\ r.prog = p /\ src \in DOMAIN g.prog /\ g.prog[src].op = "call"
  BY <1>1, <1>2, <1>3, <1>4, CurrentRelocIs, SMTT(60) DEF RelocIs
<1>7. /\ ProgramOK(g) /\ ProgramOK(w) /\ DOMAIN g.prog \subseteq DOMAIN w.prog
      /\ \A k \in DOMAIN g.prog : w.prog[k] = g.prog[k]
  BY <1>1, <1>2, <1>3, <1>4, WholeIs
<1>8. PICK P : P = Sources(RelocsFor(p))
  OBVIOUS
<1>9. Ahead(g, P) /\ PlacedAhead(c)
  BY <1>3, <1>5, <1>8 DEF Layout
<1>10. \A q \in RelocsFor(p) : q.source_offset \in DOMAIN g.prog
  BY <1>3 DEF RelocsFor, LinkTypes, RelocIs
\* The program with its subprogram placed.
<1>11. /\ Ahead(w, P) /\ Entries(g) \subseteq Entries(w) /\ base \in Entries(w)
       /\ \A q \in RelocsFor(p) : q.source_offset < base
       /\ \A k \in DOMAIN g.prog : PointsAhead(g, k) => PointsAhead(w, k)
  <2>1. CASE IsPlaced(r)
    <3>1. w = g /\ base = c.subprogram_offsets[r.name] /\ r.name \in DOMAIN c.subprogram_offsets
      BY <1>1, <1>2, <1>3, <2>1 DEF Whole, Base, IsPlaced
    <3> QED BY <1>2, <1>3, <1>9, <3>1 DEF PlacedAhead
  <2>2. CASE ~ IsPlaced(r)
    <3>1. PICK sub, q : q = Lookup(r) /\ sub = raw_programs[q]
      OBVIOUS
    <3>2. Named(r) # {} /\ q \in resolved
      BY <1>1, <1>4, <2>2, <3>1, SMTT(60) DEF CanPoint
    <3>3. q \in ProgIds /\ ProgramOK(sub)
      BY <3>1, <3>2, LookupIs DEF LinkTypes
    <3>4. Ahead(sub, {})
      <4>1. Ahead(sub, Sources(RelocsFor(q)))
        BY <3>1, <3>3 DEF Layout
      <4>2. \A e \in RelocsFor(q) : PointsAhead(sub, e.source_offset)
        BY <3>1, <3>2 DEF Layout, IsDone, RelocsFor
      <4>3. \A k \in Sources(RelocsFor(q)) : PointsAhead(sub, k)
        BY <4>2 DEF Sources
      <4> QED BY <4>1, <4>3 DEF Ahead
    <3>5. w = Copied(g, sub) /\ base = Cardinality(DOMAIN g.prog)
      BY <1>1, <1>2, <1>3, <2>2, <3>1, SMTT(60) DEF Whole, Base, Length
    <3>6. \A k \in DOMAIN g.prog : k < base
      BY <1>7, <3>5 DEF ProgramOK
    <3> QED BY <1>7, <1>9, <1>10, <3>3, <3>4, <3>5, <3>6, CopiedAhead, SMTT(60)
  <2> QED BY <2>1, <2>2
<1>12. /\ Ahead(h, P) /\ Entries(h) = Entries(w) /\ PointsAhead(h, src)
       /\ \A k \in DOMAIN g.prog : PointsAhead(g, k) => PointsAhead(h, k)
  <2>1. src \in DOMAIN w.prog /\ w.prog[src].op = "call"
    BY <1>6, <1>7
  <2>2. base > src
    <3>1. r \in RelocsFor(p)
      BY <1>6 DEF RelocsFor
    <3>2. src < base
      BY <1>2, <1>11, <3>1, SMTT(60)
    <3>3. base \in Int /\ src \in Int
      BY <1>7, <1>11, <2>1, SMTT(60) DEF ProgramOK, Entries
    <3> QED BY <3>2, <3>3
  <2>3. /\ Ahead(h, P) /\ Entries(h) = Entries(w) /\ PointsAhead(h, src)
        /\ \A k \in DOMAIN w.prog : PointsAhead(w, k) => PointsAhead(h, k)
    BY <1>3, <1>7, <1>11, <2>1, <2>2, PatchedAhead
  <2> QED BY <1>7, <1>11, <2>3
<1>13. /\ ProgIds' = ProgIds /\ raw_programs'[p] = h
       /\ \A q \in ProgIds : q # p => raw_programs'[q] = raw_programs[q]
  <2>1. IsSeq(raw_programs)
    BY DEF LinkTypes
  <2>2. PICK n \in Nat : raw_programs = [i \in 1 .. n |-> raw_programs[i]]
    BY <2>1 DEF IsSeq
  <2>3. raw_programs' = [i \in 1 .. n |-> IF i = p THEN h ELSE raw_programs[i]]
    BY <1>4, <2>2, SMTT(60)
  <2>4. DOMAIN raw_programs' = 1 .. n /\ DOMAIN raw_programs = 1 .. n
    BY <2>2, <2>3
  <2> QED BY <1>5, <2>3, <2>4 DEF ProgIds
<1>14. /\ DOMAIN calls' = DOMAIN calls /\ calls'[N] = next
       /\ \A i \in DOMAIN calls : i # N => calls'[i] = calls[i]
  <2>1. IsSeq(calls)
    BY DEF LinkTypes
  <2>2. PICK n \in Nat : calls = [i \in 1 .. n |-> calls[i]]
    BY <2>1 DEF IsSeq
  <2>3. calls' = [i \in 1 .. n |-> IF i = N THEN next ELSE calls[i]]
    BY <1>4, <2>2
  <2>4. DOMAIN calls' = 1 .. n /\ DOMAIN calls = 1 .. n
    BY <2>2, <2>3
  <2> QED BY <1>5, <2>3, <2>4
<1>15. next.prog = p /\ next.done = c.done \cup {r} /\ next.subprogram_offsets = offsets
  BY <1>3
<1>16. /\ \A q : RelocsFor(q)' = RelocsFor(q)
       /\ \A f : Entries(f)' = Entries(f)
       /\ \A f, k : PointsAhead(f, k) => PointsAhead(f, k)'
       /\ \A f, Q : Ahead(f, Q) => Ahead(f, Q)'
  BY <1>4, LayoutFixed DEF RelocsFor
<1>17. \A q \in ProgIds' : Ahead(raw_programs[q], Sources(RelocsFor(q)))'
  <2> TAKE q \in ProgIds'
  <2>1. CASE q = p
    BY <1>8, <1>12, <1>13, <1>16, <2>1 DEF Sources
  <2>2. CASE q # p
    <3>1. Ahead(raw_programs[q], Sources(RelocsFor(q)))
      BY <1>13 DEF Layout
    <3> QED BY <1>13, <1>16, <2>2, <3>1 DEF Sources
  <2> QED BY <2>1, <2>2
<1>18. \A e \in relocations' : IsDone(e)' => PointsAhead(raw_programs[e.prog], e.source_offset)'
  <2> SUFFICES ASSUME NEW e \in relocations, IsDone(e)'
               PROVE  PointsAhead(raw_programs[e.prog], e.source_offset)'
    BY <1>4
  <2>1. e.prog \in ProgIds /\ e \in RelocsFor(e.prog)
    BY DEF LinkTypes, RelocIs, RelocsFor
  <2>2. IsDone(e) \/ e = r
    <3>1. \/ e.prog \in resolved
          \/ \E i \in DOMAIN calls' : calls'[i].prog = e.prog /\ e \in calls'[i].done
      BY <1>4 DEF IsDone
    <3>2. ASSUME NEW i \in DOMAIN calls', calls'[i].prog = e.prog, e \in calls'[i].done
          PROVE  IsDone(e) \/ e = r
      <4>1. CASE i = N
        BY <1>2, <1>5, <1>14, <1>15, <3>2, <4>1, SMTT(60) DEF IsDone
      <4>2. CASE i # N
        BY <1>14, <3>2, <4>2 DEF IsDone
      <4> QED BY <4>1, <4>2
    <3> QED BY <3>1, <3>2 DEF IsDone
  <2>3. CASE e = r
    BY <1>2, <1>6, <1>12, <1>13, <1>16, <2>3, SMTT(60)
  <2>4. CASE IsDone(e)
    <3>1. PointsAhead(raw_programs[e.prog], e.source_offset)
      BY <2>4 DEF Layout
    <3>2. CASE e.prog = p
      BY <1>3, <1>10, <1>12, <1>13, <1>16, <2>1, <3>1, <3>2, SMTT(60)
    <3>3. CASE e.prog # p
      BY <1>13, <1>16, <2>1, <3>1, <3>3, SMTT(60)
    <3> QED BY <3>2, <3>3
  <2> QED BY <2>2, <2>3, <2>4
<1>19. \A i \in DOMAIN calls' : PlacedAhead(calls[i])'
  <2> TAKE i \in DOMAIN calls'
  <2>1. PICK d : d = calls'[i]
    OBVIOUS
  <2>2. d.prog = p => \A n \in DOMAIN d.subprogram_offsets :
                          /\ d.subprogram_offsets[n] \in Entries(h)
                          /\ \A q \in RelocsFor(p) : q.source_offset < d.subprogram_offsets[n]
    <3>1. \A j \in DOMAIN calls : calls[j].prog = p => j = N
      BY <1>2, <1>5 DEF LinkTypes
    <3> SUFFICES ASSUME d.prog = p, NEW n \in DOMAIN d.subprogram_offsets
                 PROVE  /\ d.subprogram_offsets[n] \in Entries(h)
                        /\ \A q \in RelocsFor(p) : q.source_offset < d.subprogram_offsets[n]
      OBVIOUS
    <3>2. d.subprogram_offsets = offsets
      BY <1>14, <1>15, <2>1, <3>1, SMTT(60)
    <3>3. /\ DOMAIN offsets = {r.name} \cup DOMAIN c.subprogram_offsets
          /\ \A m \in DOMAIN offsets : offsets[m] = IF m = r.name THEN base ELSE c.subprogram_offsets[m]
      BY <1>1, <1>2, NewOffsetsAre, SMTT(60)
    <3>4. CASE n = r.name
      BY <1>11, <1>12, <3>2, <3>3, <3>4, SMTT(60)
    <3>5. CASE n # r.name
      <4>1. n \in DOMAIN c.subprogram_offsets /\ d.subprogram_offsets[n] = c.subprogram_offsets[n]
        BY <3>2, <3>3, <3>5
      <4> QED BY <1>2, <1>3, <1>9, <1>11, <1>12, <4>1, SMTT(60) DEF PlacedAhead
    <3> QED BY <3>4, <3>5
  <2>3. CASE d.prog = p
    BY <1>13, <1>16, <2>1, <2>2, <2>3, SMTT(60) DEF PlacedAhead
  <2>4. CASE d.prog # p
    <3>1. d = calls[i] /\ i \in DOMAIN calls
      BY <1>14, <1>15, <2>1, <2>4
    <3>2. PlacedAhead(d) /\ d.prog \in ProgIds
      BY <3>1 DEF Layout, LinkTypes, CallIs
    <3>3. raw_programs'[d.prog] = raw_programs[d.prog]
      BY <1>13, <2>4, <3>2
    <3> QED BY <1>16, <2>1, <3>2, <3>3 DEF PlacedAhead
  <2> QED BY <2>3, <2>4
<1> QED BY <1>17, <1>18, <1>19 DEF Layout

LEMMA LinkLays ==
    ASSUME LinkTypes, Layout, JumpsInOrder, SpansForward, Link
    PROVE  Layout'
<1>1. CASE ReadProgram
  BY <1>1, ReadLays
<1>2. CASE PointCall
  BY <1>2, PointLays
<1>3. CASE FinishReading \/ Recursion \/ MissingSubprogram \/ FinishLinking
  <2>1. Kept1 /\ resolved' = resolved /\ calls' \in {calls, <<>>}
    BY <1>3 DEF FinishReading, Recursion, MissingSubprogram, FinishLinking, LinkOnly, Kept1
  <2>2. \A i \in DOMAIN calls' : \E j \in DOMAIN calls : calls'[i] = calls[j]
    BY <2>1
  <2> QED BY <2>1, <2>2, LayoutStays
<1>4. CASE NextProgram \/ ResolveCallee
  <2>1. Kept1 /\ resolved' = resolved /\ (calls' = calls \/ \E q : calls' = Append(calls, Begin(q)))
    BY <1>4 DEF NextProgram, ResolveCallee, Enter, LinkOnly, Kept1
  <2>2. \A i \in DOMAIN calls' :
            \/ \E j \in DOMAIN calls : calls'[i] = calls[j]
            \/ calls'[i].done = {} /\ DOMAIN calls'[i].subprogram_offsets = {}
    <3>1. CASE calls' = calls
      BY <3>1
    <3>2. ASSUME NEW q, calls' = Append(calls, Begin(q))
          PROVE  \A i \in DOMAIN calls' :
                     \/ \E j \in DOMAIN calls : calls'[i] = calls[j]
                     \/ calls'[i].done = {} /\ DOMAIN calls'[i].subprogram_offsets = {}
      <4>1. IsSeq(calls) /\ DOMAIN calls = 1 .. Len(calls) /\ Len(calls) \in Nat
        BY SeqIs DEF LinkTypes
      <4>2. /\ DOMAIN calls' = 1 .. Len(calls) + 1
            /\ \A i \in DOMAIN calls : calls'[i] = calls[i]
            /\ calls'[Len(calls) + 1] = Begin(q)
        BY <3>2, <4>1, AppendIs
      <4>3. Begin(q).done = {} /\ DOMAIN Begin(q).subprogram_offsets = {}
        BY DEF Begin
      <4>4. \A i \in DOMAIN calls' : i \in DOMAIN calls \/ i = Len(calls) + 1
        BY <4>1, <4>2
      <4> QED BY <4>2, <4>3, <4>4
    <3> QED BY <2>1, <3>1, <3>2
  <2> QED BY <2>1, <2>2, LayoutStays
<1>5. CASE FinishSubprogram
  <2>1. /\ Kept1 /\ calls # <<>> /\ ~ MoreRelocs
        /\ resolved' = resolved \cup {Active.prog} /\ calls' = Front(calls)
    BY <1>5 DEF FinishSubprogram, LinkOnly, Kept1
  <2>2. Len(calls) \in DOMAIN calls /\ Active = calls[Len(calls)]
    BY <2>1, ActiveIs
  <2>3. RelocsFor(Active.prog) \subseteq Active.done
    BY <2>1 DEF MoreRelocs, Remaining
  <2>4. \A i \in DOMAIN calls' : \E j \in DOMAIN calls : calls'[i] = calls[j]
    <3>1. IsSeq(calls) /\ DOMAIN calls = 1 .. Len(calls) /\ Len(calls) \in Nat
      BY SeqIs DEF LinkTypes
    <3>2. DOMAIN calls' = 1 .. Len(calls) - 1 /\ \A i \in 1 .. Len(calls) - 1 : calls'[i] = calls[i]
      BY <2>1, <3>1, FrontIs
    <3> QED BY <3>1, <3>2, SMTT(60)
  <2> QED BY <2>1, <2>2, <2>3, <2>4, LayoutStays, SMTT(60)
<1> QED BY <1>1, <1>2, <1>3, <1>4, <1>5 DEF Link

-----------------------------------------------------------------------------
(***************************************************************************)
(* A sequence that is given directly comes with no programs.               *)
(***************************************************************************)
NoPrograms == load = "linked" /\ raw_programs = <<>>
FromFile == LinkInv \/ NoPrograms

LEMMA FromFileFollows ==
    ASSUME FromFile
    PROVE  LinkedFollowsFile
<1>1. CASE NoPrograms
  <2>1. ProgIds = {}
    BY <1>1 DEF NoPrograms, ProgIds
  <2> QED BY <2>1 DEF LinkedFollowsFile, Kept, MustBeLinked
<1>2. CASE LinkInv
  <2> SUFFICES ASSUME load = "linked", JumpsInOrder, NamesApart
               PROVE  /\ file.desired_section # "" => Kept \subseteq resolved
                      /\ \A p \in MustBeLinked : FollowsFile(raw_programs[p])
    BY DEF LinkedFollowsFile
  <2>1. LinkTypes /\ Passed /\ Programs
    BY <1>2 DEF LinkInv
  <2>2. \A p \in ProgIds : p < prog_idx
    <3>1. ProgIds = 1 .. Len(raw_programs) /\ Len(raw_programs) \in Nat
      BY <2>1, SeqIs DEF LinkTypes, ProgIds
    <3>2. prog_idx \in Nat \ {0} /\ prog_idx \notin ProgIds
      BY <2>1 DEF LinkTypes, Passed
    <3> QED BY <3>1, <3>2
  <2>3. file.desired_section # "" => Kept \subseteq resolved
    BY <2>1, <2>2 DEF Kept, Passed
  <2>4. MustBeLinked \subseteq resolved
    BY <2>3 DEF MustBeLinked
  <2>5. ASSUME NEW p \in resolved
        PROVE  FollowsFile(raw_programs[p])
    <3>1. ProgramOK(raw_programs[p])
      BY <2>1 DEF LinkTypes
    <3>2. PICK K : Exact(raw_programs[p], K, {})
      BY <2>1 DEF Programs
    <3> QED BY <3>1, <3>2, GoodFollows
  <2> QED BY <2>3, <2>4, <2>5
<1> QED BY <1>1, <1>2 DEF FromFile

\* Linking goes where the file goes, for every object file: the programs that
\* append_subprograms leaves in ProgramReader follow the jumps, the calls and
\* the order of the file's code through all levels of copied subprograms.
THEOREM LinkedFollowsFileAlways == LoadingSpec => []LinkedFollowsFile
<1>1. LoadingInit => FromFile
  <2>1. ASSUME StartFromFile
        PROVE  LinkInv
    BY <2>1, LinkBegins DEF StartFromFile
  <2>2. ASSUME StartFromSequence
        PROVE  NoPrograms
    BY <2>2 DEF StartFromSequence, NoPrograms
  <2> QED BY <2>1, <2>2 DEF LoadingInit, FromFile
<1>2. FromFile /\ [LoadingNext]_loadingVars => FromFile'
  <2> SUFFICES ASSUME FromFile, [LoadingNext]_loadingVars
               PROVE  FromFile'
    OBVIOUS
  <2>1. Link \/ UNCHANGED linkVars
    BY DEF LoadingNext, LoadAndBuild, Decode, LoadFails, loadingVars
  <2>2. CASE LinkInv
    BY <2>1, <2>2, LinkStep, LinkKept DEF FromFile
  <2>3. CASE NoPrograms
    <3>1. ~ Link
      BY <2>3 DEF NoPrograms, Link, ReadProgram, FinishReading, NextProgram, PointCall,
                  ResolveCallee, Recursion, MissingSubprogram, FinishSubprogram, FinishLinking
    <3> QED BY <2>1, <2>3, <3>1 DEF NoPrograms, FromFile, linkVars
  <2> QED BY <2>2, <2>3 DEF FromFile
<1>3. FromFile => LinkedFollowsFile
  BY FromFileFollows
<1> QED BY <1>1, <1>2, <1>3, PTL DEF LoadingSpec

-----------------------------------------------------------------------------
(***************************************************************************)
(* What is decoded of a program that is laid out: its calls go forward.    *)
(***************************************************************************)
Laid ==
    \E H : /\ \A c \in Indexes : seq[c].op = "call" => seq[c].target \in H /\ seq[c].target > c
           /\ \A t \in H : \A k \in Indexes :
                 k >= t /\ seq[k].op \in {"jump", "branch"} => seq[k].target >= t

LEMMA FallsForward ==
    ASSUME InputOK, NEW i \in Indexes, ~ IsLast(i)
    PROVE  Fallthrough(i).from > i
<1> DEFINE T == {j \in Indexes : j > i}
<1>1. T \in SUBSET Nat /\ T # {}
  BY DEF InputOK, IsLast
<1>2. \E j \in T : \A k \in T : j <= k
  <2> HIDE DEF T
  <2> QED BY <1>1, LeastNat
<1>3. PICK j \in Indexes : j > i /\ Fallthrough(i) = NewLabel(j)
  <2>1. \E j \in Indexes : j > i /\ \A k \in Indexes : k > i => j <= k
    BY <1>2
  <2> QED BY <2>1 DEF Fallthrough
<1>4. NewLabel(j).from = j
  BY <1>3, LabelsApart DEF InputOK
<1> QED BY <1>3, <1>4

LEMMA LaidIsForward ==
    ASSUME InputOK, TargetsIn, Laid
    PROVE  CallsForward
<1>1. PICK H : /\ \A c \in Indexes : seq[c].op = "call" => seq[c].target \in H /\ seq[c].target > c
               /\ \A t \in H : \A k \in Indexes :
                     k >= t /\ seq[k].op \in {"jump", "branch"} => seq[k].target >= t
  BY DEF Laid
<1>2. \A i \in Indexes : i \in Int
  BY DEF InputOK
<1>3. ASSUME NEW c \in Indexes, seq[c].op = "call", NEW d \in Leads(seq[c].target, TRUE)
      PROVE  d > c
  <2>1. PICK t \in Indexes : t = seq[c].target
    BY <1>3 DEF TargetsIn
  <2>2. t \in H /\ t > c
    BY <1>1, <1>3, <2>1, SMTT(60)
  <2>3. PICK Z : IsZone(t, TRUE, Z)
    BY <2>1, ZoneExists
  <2>4. PICK S : S = {k \in Indexes : k >= t}
    OBVIOUS
  <2>5. ASSUME NEW k \in S
        PROVE  Flow(k, TRUE) \subseteq S
    <3>1. k \in Indexes /\ k >= t /\ k \in Int /\ t \in Int
      BY <1>2, <2>4
    <3>2. ASSUME seq[k].op \in {"jump", "branch", "call"} PROVE seq[k].target \in S
      <4>1. seq[k].target \in Indexes
        BY <3>1, <3>2 DEF TargetsIn
      <4>2. seq[k].op = "call" => seq[k].target > k
        BY <1>1, <3>1
      <4>3. seq[k].op \in {"jump", "branch"} => seq[k].target >= t
        BY <1>1, <2>2, <3>1
      <4>4. PICK y \in Int, j \in Int, u \in Int : y = seq[k].target /\ j = k /\ u = t
        BY <1>2, <3>1, <4>1
      <4>5. j >= u /\ (y > j \/ y >= u)
        BY <3>1, <3>2, <4>2, <4>3, <4>4
      <4>6. y >= u
        BY <4>4, <4>5
      <4> QED BY <2>4, <4>1, <4>4, <4>6
    <3>3. ASSUME ~ IsLast(k) PROVE Fallthrough(k).from \in S
      <4>1. Fallthrough(k).from \in Indexes /\ Fallthrough(k).from > k
        BY <3>1, <3>3, FallsTo, FallsForward
      <4>2. PICK y \in Int, j \in Int, u \in Int : y = Fallthrough(k).from /\ j = k /\ u = t
        BY <1>2, <3>1, <4>1
      <4>3. y > j /\ j >= u
        BY <3>1, <4>1, <4>2
      <4>4. y >= u
        BY <4>2, <4>3
      <4> QED BY <2>4, <4>1, <4>2, <4>4
    <3>4. \A x \in Flow(k, TRUE) :
              \/ seq[k].op \in {"jump", "branch", "call"} /\ x = seq[k].target
              \/ ~ IsLast(k) /\ x = Fallthrough(k).from
      BY DEF Flow
    <3> QED BY <3>2, <3>3, <3>4
  <2>6. Z \subseteq S
    <3>1. S \in SUBSET Indexes /\ t \in S
      BY <1>2, <2>1, <2>4
    <3> QED BY <2>3, <2>5, <3>1 DEF IsZone
  <2>7. d \in Z
    BY <1>3, <2>1, <2>3 DEF IsZone, LocalCallsIn
  <2> QED BY <1>2, <2>2, <2>4, <2>6, <2>7
<1> QED BY <1>3 DEF CallsForward

LEMMA DecodedIs ==
    ASSUME NEW g, ProgramOK(g), Decodable(g.prog)
    PROVE  LET d == Decoded(g.prog)
           IN  /\ IsFiniteSet(DOMAIN d) /\ DOMAIN d \subseteq DOMAIN g.prog
               /\ \A k \in DOMAIN d :
                     /\ k \in Nat /\ d[k].op \in Op /\ d[k].target \in Nat
                     /\ d[k].op \in {"jump", "branch", "call"} =>
                           d[k].op = g.prog[k].op /\ d[k].target = TargetOf(k, g.prog[k])
<1> DEFINE d == Decoded(g.prog)
<1>1. /\ DOMAIN g.prog = 0 .. Cardinality(DOMAIN g.prog) - 1
      /\ Cardinality(DOMAIN g.prog) \in Nat
  BY DEF ProgramOK
<1>2. DOMAIN d = {k \in DOMAIN g.prog : g.prog[k].op # "half"}
  BY DEF Decoded
<1>3. IsFiniteSet(DOMAIN d)
  <2>1. IsFiniteSet(0 .. Cardinality(DOMAIN g.prog) - 1)
    BY <1>1, FS_Interval
  <2> QED BY <1>1, <1>2, <2>1, FS_Subset
<1>4. ASSUME NEW k \in DOMAIN d
      PROVE  /\ k \in Nat /\ d[k].op \in Op /\ d[k].target \in Nat
             /\ d[k].op \in {"jump", "branch", "call"} =>
                   d[k].op = g.prog[k].op /\ d[k].target = TargetOf(k, g.prog[k])
  <2>1. PICK i : i = g.prog[k]
    OBVIOUS
  <2>2. k \in DOMAIN g.prog /\ i.op # "half" /\ k \in Nat
    BY <1>1, <1>2, <2>1
  <2>3. i.op \in Op \cup {"wide", "half", "builtin"}
    BY <2>1, <2>2, SMTT(60) DEF ProgramOK, Kinds
  <2>4. d[k] = CASE i.op \in {"jump", "branch", "call"} -> Ins(i.op, TargetOf(k, i))
                 [] i.op = "builtin" -> Ins("helper", 0)
                 [] i.op = "wide" -> Ins("plain", 0)
                 [] OTHER -> Ins(i.op, 0)
    BY <1>2, <2>1, <2>2 DEF Decoded
  <2> HIDE DEF d
  <2>5. CASE i.op \in {"jump", "branch", "call"}
    <3>1. d[k] = Ins(i.op, TargetOf(k, i))
      BY <2>4, <2>5
    <3>2. TargetOf(k, i) \in DOMAIN g.prog
      BY <2>1, <2>2, <2>5 DEF Decodable
    <3>3. TargetOf(k, i) \in Nat
      BY <1>1, <3>2
    <3>4. d[k].op = i.op /\ d[k].target = TargetOf(k, i)
      BY <3>1 DEF Ins
    <3> QED BY <2>1, <2>2, <2>5, <3>3, <3>4, SMTT(60) DEF Op
  <2>6. CASE i.op = "builtin"
    <3>1. d[k] = Ins("helper", 0)
      BY <2>4, <2>6
    <3> QED BY <2>2, <3>1 DEF Ins, Op
  <2>7. CASE i.op = "wide"
    <3>1. d[k] = Ins("plain", 0)
      BY <2>4, <2>7
    <3> QED BY <2>2, <3>1 DEF Ins, Op
  <2>8. CASE i.op \notin {"jump", "branch", "call", "builtin", "wide"}
    <3>1. d[k] = Ins(i.op, 0)
      BY <2>4, <2>8
    <3>2. d[k].op = i.op /\ d[k].target = 0
      BY <3>1 DEF Ins
    <3> QED BY <2>2, <2>3, <2>8, <3>2
  <2> QED BY <2>5, <2>6, <2>7, <2>8
<1> QED BY <1>2, <1>3, <1>4

-----------------------------------------------------------------------------
(***************************************************************************)
(* Loading a file: linking, decoding and building the graph.               *)
(***************************************************************************)
InOrderFile == JumpsInOrder /\ SpansForward /\ Kept \subseteq resolved
BuildInv == StageInv /\ FlowInv /\ DepthsInv /\ NoPanicInv /\ Laid /\ pass # "panicked"
OptionsKept == \E s : input = [NothingRead EXCEPT !.seq = s]
LoadInv ==
    /\ LinkInv
    /\ JumpsInOrder /\ SpansForward => Layout
    /\ OptionsKept
    /\ pass \notin {"loading", "rejected"} => load = "linked" /\ (InOrderFile /\ LabelsFit => BuildInv)

LEMMA LinkVarsKept ==
    ASSUME UNCHANGED linkVars, LinkInv, JumpsInOrder /\ SpansForward => Layout
    PROVE  /\ LinkInv' /\ (JumpsInOrder /\ SpansForward => Layout)'
           /\ load' = load /\ InOrderFile' = InOrderFile
<1>1. UNCHANGED <<file, load, place, raw_programs, relocations, resolved, calls>>
  BY DEF linkVars
<1>2. LinkInv'
  BY LinkKept
<1>3. JumpsInOrder' = JumpsInOrder /\ SpansForward' = SpansForward
  BY <1>1, LayoutFixed
<1>4. Layout => Layout'
  BY <1>1, LayoutStays DEF Kept1
<1>5. Kept' = Kept
  BY <1>1 DEF Kept, ProgIds, Wanted, Section
<1> QED BY <1>1, <1>2, <1>3, <1>4, <1>5 DEF InOrderFile

\* What is decoded is a sequence the graph can be built of.
LEMMA DecodeStep ==
    ASSUME LoadInv, Decode, pass' # "rejected", InOrderFile, LabelsFit'
    PROVE  BuildInv'
<1>1. load = "linked" /\ LinkTypes /\ Layout
  BY DEF Decode, LoadInv, LinkInv, InOrderFile
<1>2. PICK p \in Kept : /\ Decodable(raw_programs[p].prog)
                        /\ input' = [input EXCEPT !.seq = Decoded(raw_programs[p].prog)]
                        /\ nodes' = [l \in {EntryLabel, ExitLabel} |-> Node("undefined", 0, <<>>)]
                        /\ pass' = "ValidateInstructionSupport"
  BY DEF Decode
<1>3. PICK g, d : g = raw_programs[p] /\ d = Decoded(g.prog)
  OBVIOUS
<1>4. p \in ProgIds /\ p \in resolved /\ ProgramOK(g)
  BY <1>1, <1>2, <1>3 DEF Kept, InOrderFile, LinkTypes
<1>5. Ahead(g, {})
  <2>1. Ahead(g, Sources(RelocsFor(p)))
    BY <1>1, <1>3, <1>4 DEF Layout
  <2>2. \A r \in RelocsFor(p) : PointsAhead(g, r.source_offset)
    BY <1>1, <1>3, <1>4 DEF Layout, IsDone, RelocsFor
  <2>3. \A k \in Sources(RelocsFor(p)) : PointsAhead(g, k)
    BY <2>2 DEF Sources
  <2> QED BY <2>1, <2>3 DEF Ahead
<1>6. /\ IsFiniteSet(DOMAIN d) /\ DOMAIN d \subseteq DOMAIN g.prog
      /\ \A k \in DOMAIN d :
            /\ k \in Nat /\ d[k].op \in Op /\ d[k].target \in Nat
            /\ d[k].op \in {"jump", "branch", "call"} =>
                  d[k].op = g.prog[k].op /\ d[k].target = TargetOf(k, g.prog[k])
  BY <1>2, <1>3, <1>4, DecodedIs
<1>7. seq' = d /\ Indexes' = DOMAIN d /\ input'.max_call_stack_frames \in Nat \ {0}
  <2>1. PICK s : input = [NothingRead EXCEPT !.seq = s]
    BY DEF LoadInv, OptionsKept
  <2> QED BY <1>2, <1>3, <2>1, OptionsAssumption DEF NothingRead, seq, Indexes
<1>8. InputOK'
  <2>1. PICK m \in Nat : m = MAX
    BY DEF MAX
  <2>2. DOMAIN d \subseteq 0 .. m - 1
    BY <1>7, <2>1 DEF LabelsFit
  <2>3. \A i \in DOMAIN d : i # m
    BY <2>1, <2>2
  <2> QED BY <1>6, <1>7, <2>1, <2>3 DEF InputOK
<1>9. StageInv' /\ FlowInv' /\ DepthsInv' /\ NoPanicInv' /\ pass' # "panicked"
  BY <1>2, <1>8 DEF StageInv, Fresh, FlowInv, DepthsInv, NoPanicInv, Inlining, AllInlined
<1>10. Laid'
  <2>1. \A c \in DOMAIN d : d[c].op = "call" => d[c].target \in Entries(g) /\ d[c].target > c
    BY <1>5, <1>6 DEF Ahead, PointsAhead
  <2>2. \A t \in Entries(g) : \A k \in DOMAIN d :
            k >= t /\ d[k].op \in {"jump", "branch"} => d[k].target >= t
    BY <1>5, <1>6 DEF Ahead
  <2>3. PICK H : H = Entries(g)
    OBVIOUS
  <2> QED BY <1>7, <2>1, <2>2, <2>3 DEF Laid
<1> QED BY <1>9, <1>10 DEF BuildInv

LEMMA BuildStep ==
    ASSUME BuildInv, [Next]_vars
    PROVE  BuildInv'
<1>1. UNCHANGED input
  BY InputFixed
<1>2. StageInv' /\ FlowInv' /\ DepthsInv' /\ NoPanicInv'
  BY StageStep, FlowStep, DepthsStep, NoPanicStep DEF BuildInv
<1>3. Laid'
  BY <1>1 DEF BuildInv, Laid, seq, Indexes
<1>4. pass' # "panicked"
  <2>1. CASE ~ AddCfgNodes
    BY <2>1 DEF BuildInv, Next, Build, Start, Execute, Stopped, ValidateInstructionSupport,
                ResolveKfuncCalls, LowerPseudoLoads, PopulateNodes, ValidateControlFlowTargets,
                ConnectEdges, InlineLocalCalls, ValidateTailCallDepth, ComputeCallbackMetadata,
                InsertTerminationCounters, ExtractAssertions, Rejected, Go, vars
  <2>2. CASE AddCfgNodes
    <3>1. pass = "InlineLocalCalls"
      BY <2>2 DEF AddCfgNodes
    <3>2. InputOK /\ GraphInv
      BY <3>1 DEF BuildInv, StageInv, Inlining
    <3>3. CallsForward
      BY <3>2, LaidIsForward DEF BuildInv, GraphInv
    <3>4. CallsForward'
      BY <1>1, <3>3, ForwardSame
    <3> QED BY <1>2, <3>4, SMTT(60) DEF NoPanicInv
  <2> QED BY <2>1, <2>2, SMTT(60)
<1> QED BY <1>2, <1>3, <1>4 DEF BuildInv

LEMMA LoadBegins ==
    ASSUME StartFromFile
    PROVE  LoadInv
<1>1. LinkInv
  BY LinkBegins DEF StartFromFile
<1>2. Layout
  <2>1. raw_programs = <<>> /\ relocations = {} /\ calls = <<>>
    BY DEF StartFromFile, LinkInit
  <2>2. DOMAIN raw_programs = {} /\ DOMAIN calls = {}
    BY <2>1
  <2> QED BY <2>1, <2>2 DEF Layout, ProgIds
<1>3. OptionsKept /\ pass = "loading"
  BY DEF StartFromFile, OptionsKept, NothingRead
<1> QED BY <1>1, <1>2, <1>3 DEF LoadInv

LEMMA LoadStep ==
    ASSUME LoadInv, [LoadingNext]_loadingVars
    PROVE  LoadInv'
<1>1. CASE Link /\ UNCHANGED vars
  <2>1. UNCHANGED <<input, pass>>
    BY <1>1 DEF vars
  <2>2. pass \in {"loading", "rejected"}
    <3>1. load # "linked"
      BY <1>1 DEF Link, ReadProgram, FinishReading, NextProgram, PointCall,
                  ResolveCallee, Recursion, MissingSubprogram, FinishSubprogram, FinishLinking
    <3> QED BY <3>1 DEF LoadInv
  <2>3. LinkInv' /\ LinkTypes /\ file' = file
    <3>1. LinkInv'
      BY <1>1, LinkStep, SMTT(60) DEF LoadInv
    <3>2. file' = file
      BY <1>1 DEF Link, ReadProgram, FinishReading, NextProgram, PointCall, LinkOnly,
                  ResolveCallee, Recursion, MissingSubprogram, FinishSubprogram, FinishLinking
    <3> QED BY <3>1, <3>2 DEF LoadInv, LinkInv
  <2>4. (JumpsInOrder /\ SpansForward => Layout)'
    <3>1. JumpsInOrder' = JumpsInOrder /\ SpansForward' = SpansForward
      BY <2>3, LayoutFixed
    <3>2. JumpsInOrder /\ SpansForward => Layout'
      BY <1>1, <2>3, LinkLays DEF LoadInv
    <3> QED BY <3>1, <3>2
  <2>5. OptionsKept => OptionsKept'
    BY <2>1 DEF OptionsKept, NothingRead
  <2> QED BY <2>1, <2>2, <2>3, <2>4, <2>5 DEF LoadInv
<1>2. ASSUME UNCHANGED linkVars
      PROVE  /\ LinkInv' /\ (JumpsInOrder /\ SpansForward => Layout)'
             /\ load' = load /\ InOrderFile' = InOrderFile
  BY <1>2, LinkVarsKept DEF LoadInv
<1>3. CASE Decode
  <2>1. load = "linked" /\ pass' \in {"rejected", "ValidateInstructionSupport"} /\ UNCHANGED linkVars
    BY <1>3 DEF Decode
  <2>2. InOrderFile' /\ LabelsFit' /\ pass' # "rejected" => BuildInv'
    BY <1>2, <1>3, <2>1, DecodeStep
  <2>3. OptionsKept'
    <3>1. PICK s : input = [NothingRead EXCEPT !.seq = s]
      BY DEF LoadInv, OptionsKept
    <3>2. input' = input \/ \E t : input' = [input EXCEPT !.seq = t]
      BY <1>3 DEF Decode
    <3>3. \E t : input' = [NothingRead EXCEPT !.seq = t]
      BY <3>1, <3>2 DEF NothingRead
    <3> QED BY <3>3 DEF OptionsKept, NothingRead
  <2> QED BY <1>2, <2>1, <2>2, <2>3 DEF LoadInv
<1>4. CASE LoadFails
  <2>1. pass' = "rejected" /\ UNCHANGED linkVars /\ UNCHANGED input
    BY <1>4 DEF LoadFails
  <2> QED BY <1>2, <2>1 DEF LoadInv, OptionsKept, NothingRead
<1>5. CASE (Build \/ Stopped \/ UNCHANGED vars) /\ UNCHANGED linkVars
  <2>1. [Next]_vars
    BY <1>5 DEF Next
  <2>2. UNCHANGED input
    BY <2>1, InputFixed, SMTT(60)
  <2>3. pass \in {"loading", "rejected"} => pass' = pass
    BY <1>5 DEF Build, Stopped, ValidateInstructionSupport,
                ResolveKfuncCalls, LowerPseudoLoads, PopulateNodes, ValidateControlFlowTargets,
                ConnectEdges, AddCfgNodes, InlineLocalCalls, ValidateTailCallDepth, ComputeCallbackMetadata,
                InsertTerminationCounters, ExtractAssertions, vars
  <2>4. LabelsFit' = LabelsFit /\ (OptionsKept => OptionsKept')
    BY <2>2 DEF LabelsFit, Indexes, seq, OptionsKept, NothingRead
  <2>5. BuildInv => BuildInv'
    BY <2>1, BuildStep
  <2> QED BY <1>2, <1>5, <2>2, <2>3, <2>4, <2>5 DEF LoadInv
<1> QED BY <1>1, <1>3, <1>4, <1>5 DEF LoadingNext, LoadAndBuild, loadingVars

LEMMA LoadedIs ==
    ASSUME LoadInv
    PROVE  LoadedInOrder
<1> SUFFICES ASSUME pass \in {"built", "panicked"}, InOrderFile, LabelsFit
             PROVE  MainFirst /\ pass = "built"
  BY DEF LoadedInOrder, InOrderFile
<1>1. BuildInv
  BY DEF LoadInv
<1>2. pass = "built"
  BY <1>1 DEF BuildInv
<1>3. InputOK /\ TargetsIn /\ Indexes # {} /\ Laid
  BY <1>1, <1>2, SMTT(60) DEF BuildInv, StageInv, FlowInv, FollowInv
<1> QED BY <1>2, <1>3, LaidIsForward, ForwardIsMainFirst

\* What is loaded has its main program first and is inlined without a panic,
\* for every object file: append_subprograms puts a subprogram behind all
\* calls of it, and compute_reachable_program_span never cuts a call off.
THEOREM LoadedInOrderAlways == LoadingSpec => []LoadedInOrder
<1> DEFINE Inv == file # NoFile => LoadInv
<1>1. LoadingInit => Inv
  BY LoadBegins DEF LoadingInit, StartFromSequence
<1>2. Inv /\ [LoadingNext]_loadingVars => Inv'
  <2> SUFFICES ASSUME Inv, [LoadingNext]_loadingVars, file' # NoFile'
               PROVE  LoadInv'
    OBVIOUS
  <2>1. file' = file
    BY DEF LoadingNext, LoadAndBuild, Decode, LoadFails, loadingVars, linkVars, Link, ReadProgram,
           FinishReading, NextProgram, PointCall, LinkOnly, ResolveCallee, Recursion,
           MissingSubprogram, FinishSubprogram, FinishLinking
  <2>2. file # NoFile
    BY <2>1 DEF NoFile
  <2> QED BY <2>2, LoadStep
<1>3. Inv => LoadedInOrder
  BY LoadedIs DEF LoadedInOrder
<1> HIDE DEF Inv
<1> QED BY <1>1, <1>2, <1>3, PTL DEF LoadingSpec

-----------------------------------------------------------------------------
(***************************************************************************)
(* The types of the joint state.  Nothing is linked when a sequence is     *)
(* given directly; nothing is built before a program is decoded.           *)
(***************************************************************************)
NoLinking ==
    /\ NoPrograms
    /\ relocations = {} /\ resolved = {} /\ visiting = {} /\ calls = <<>>
LinkSide == LinkInv \/ NoLinking
Undecoded ==
    pass = "loading" =>
        /\ input = NothingRead /\ edges = {} /\ pending = <<>>
        /\ callbacks = [targets |-> {}, with_exit |-> {}]
GraphSide == StageInv /\ FlowInv /\ EndingInv /\ TypedInv
TypesInv == LinkSide /\ Undecoded /\ machine = NotStarted /\ GraphSide

LEMMA TypesBegin ==
    ASSUME LoadingInit
    PROVE  TypesInv
<1>1. CASE StartFromFile
  <2>1. /\ pass = "loading" /\ input = NothingRead /\ edges = {} /\ pending = <<>> /\ asserted = {}
        /\ callbacks = [targets |-> {}, with_exit |-> {}] /\ machine = NotStarted
    BY <1>1 DEF StartFromFile
  <2>2. LinkInv
    BY <1>1, LinkBegins DEF StartFromFile
  <2>3. InputOK
    <3>1. Indexes = {} /\ input.max_call_stack_frames \in Nat \ {0}
      BY <2>1, OptionsAssumption DEF NothingRead, Indexes, seq
    <3> QED BY <3>1, FS_EmptySet DEF InputOK
  <2>4. StageInv /\ FlowInv /\ EndingInv
    BY <2>1, <2>3 DEF StageInv, FlowInv, EndingInv, CallbackExitsExact, CallbackExitsAtAnyDepth,
                      Inlining, Unpopulated
  <2>5. TypedInv
    BY <2>1 DEF TypedInv, EdgesApart
  <2> QED BY <2>1, <2>2, <2>4, <2>5 DEF TypesInv, LinkSide, Undecoded, GraphSide
<1>2. CASE StartFromSequence
  <2>1. Init /\ NoLinking
    BY <1>2 DEF StartFromSequence, NoLinking, NoPrograms
  <2>2. pass # "loading" /\ machine = NotStarted
    BY <2>1 DEF Init
  <2>3. StageInv /\ FlowInv /\ EndingInv /\ TypedInv
    BY <2>1, StageInit, FlowInit, EndingInit, TypedInit
  <2> QED BY <2>1, <2>2, <2>3 DEF TypesInv, LinkSide, Undecoded, GraphSide
<1> QED BY <1>1, <1>2 DEF LoadingInit

LEMMA LinkSideStep ==
    ASSUME LinkSide, Link \/ UNCHANGED linkVars
    PROVE  LinkSide'
<1>1. CASE LinkInv
  BY <1>1, LinkStep, LinkKept DEF LinkSide
<1>2. CASE NoLinking
  <2>1. ~ Link
    BY <1>2 DEF NoLinking, NoPrograms, Link, ReadProgram, FinishReading, NextProgram, PointCall,
                ResolveCallee, Recursion, MissingSubprogram, FinishSubprogram, FinishLinking
  <2> QED BY <1>2, <2>1 DEF NoLinking, NoPrograms, LinkSide, linkVars
<1> QED BY <1>1, <1>2 DEF LinkSide

\* Whatever program is decoded, of any file, the graph can be built of it.
LEMMA DecodeTypes ==
    ASSUME TypesInv, Decode, LabelsFit'
    PROVE  GraphSide'
<1>1. /\ load = "linked" /\ pass = "loading" /\ LinkSide
      /\ input = NothingRead /\ edges = {} /\ pending = <<>>
      /\ callbacks = [targets |-> {}, with_exit |-> {}]
      /\ UNCHANGED <<edges, pending, callbacks>>
  BY DEF Decode, TypesInv, Undecoded
<1>2. CASE pass' = "rejected" /\ UNCHANGED <<input, nodes, asserted>>
  <2>1. GraphSide
    BY DEF TypesInv
  <2>2. InputOK'
    BY <1>2, <2>1 DEF GraphSide, StageInv, InputOK, Indexes, seq
  <2>3. StageInv' /\ FlowInv' /\ EndingInv'
    BY <1>2, <2>2 DEF StageInv, FlowInv, EndingInv, CallbackExitsExact, CallbackExitsAtAnyDepth,
                      Inlining, Unpopulated
  <2>4. TypedInv'
    BY <1>1, <1>2, <2>1 DEF GraphSide, TypedInv, EdgesApart, Indexes, seq
  <2> QED BY <2>3, <2>4 DEF GraphSide
<1>3. ASSUME NEW p \in Kept, Decodable(raw_programs[p].prog),
             input' = [input EXCEPT !.seq = Decoded(raw_programs[p].prog)],
             nodes' = [l \in {EntryLabel, ExitLabel} |-> Node("undefined", 0, <<>>)],
             asserted' = {EntryLabel, ExitLabel}, pass' = "ValidateInstructionSupport"
      PROVE  GraphSide'
  <2>1. PICK g, d : g = raw_programs[p] /\ d = Decoded(g.prog)
    OBVIOUS
  <2>2. ProgramOK(g)
    <3>1. p \in ProgIds
      BY <1>3 DEF Kept
    <3>2. ~ NoLinking
      BY <3>1 DEF NoLinking, NoPrograms, ProgIds
    <3> QED BY <1>1, <2>1, <3>1, <3>2 DEF LinkSide, LinkInv, LinkTypes
  <2>3. /\ IsFiniteSet(DOMAIN d)
        /\ \A k \in DOMAIN d : k \in Nat /\ d[k].op \in Op /\ d[k].target \in Nat
    BY <1>3, <2>1, <2>2, DecodedIs
  <2>4. seq' = d /\ Indexes' = DOMAIN d /\ input'.max_call_stack_frames \in Nat \ {0}
    BY <1>1, <1>3, <2>1, OptionsAssumption DEF NothingRead, seq, Indexes
  <2>5. InputOK'
    <3>1. PICK m \in Nat : m = MAX
      BY DEF MAX
    <3>2. DOMAIN d \subseteq 0 .. m - 1
      BY <2>4, <3>1 DEF LabelsFit
    <3>3. \A i \in DOMAIN d : i # m
      BY <3>1, <3>2
    <3> QED BY <2>3, <2>4, <3>1, <3>3 DEF InputOK
  <2>6. StageInv' /\ FlowInv' /\ EndingInv'
    BY <1>3, <2>5 DEF StageInv, Fresh, FlowInv, EndingInv, CallbackExitsExact,
                      CallbackExitsAtAnyDepth, Inlining
  <2>7. TypedInv'
    <3>1. edges' = {} /\ pending' = <<>> /\ callbacks' = [targets |-> {}, with_exit |-> {}]
      BY <1>1
    <3>2. asserted' = DOMAIN nodes'
      BY <1>3
    <3> QED BY <3>1, <3>2 DEF TypedInv, EdgesApart
  <2> QED BY <2>6, <2>7 DEF GraphSide
<1> QED BY <1>2, <1>3 DEF Decode

LEMMA TypesStep ==
    ASSUME TypesInv, [LoadingNext]_loadingVars, LabelsFit'
    PROVE  TypesInv'
<1>1. LinkSide'
  <2>1. Link \/ UNCHANGED linkVars
    BY DEF LoadingNext, LoadAndBuild, Decode, LoadFails, loadingVars
  <2> QED BY <2>1, LinkSideStep DEF TypesInv
<1>2. CASE Decode
  <2>1. pass' # "loading" /\ UNCHANGED machine
    BY <1>2 DEF Decode
  <2>2. GraphSide'
    BY <1>2, DecodeTypes
  <2> QED BY <1>1, <2>1, <2>2 DEF TypesInv, Undecoded
<1>3. CASE LoadFails
  <2>1. pass' = "rejected" /\ UNCHANGED <<input, nodes, edges, pending, callbacks, asserted, machine>>
    BY <1>3 DEF LoadFails
  <2>2. GraphSide'
    <3>1. InputOK'
      BY <2>1 DEF TypesInv, GraphSide, StageInv, InputOK, Indexes, seq
    <3>2. StageInv' /\ FlowInv' /\ EndingInv'
      BY <2>1, <3>1 DEF StageInv, FlowInv, EndingInv, CallbackExitsExact, CallbackExitsAtAnyDepth,
                        Inlining, Unpopulated
    <3>3. TypedInv'
      BY <2>1 DEF TypesInv, GraphSide, TypedInv, EdgesApart, Indexes, seq
    <3> QED BY <3>2, <3>3 DEF GraphSide
  <2> QED BY <1>1, <2>1, <2>2 DEF TypesInv, Undecoded
<1>4. CASE Build \/ Stopped \/ UNCHANGED vars
  <2>1. [Next]_vars
    BY <1>4, SMTT(60) DEF Next
  <2>2. UNCHANGED machine
    BY <1>4 DEF Build, Stopped, ValidateInstructionSupport, ResolveKfuncCalls, LowerPseudoLoads,
                PopulateNodes, ValidateControlFlowTargets, ConnectEdges, AddCfgNodes, InlineLocalCalls,
                ValidateTailCallDepth, ComputeCallbackMetadata, InsertTerminationCounters,
                ExtractAssertions, Vetted, vars
  <2>3. GraphSide'
    BY <2>1, StageStep, FlowStep, EndingStep, TypedStep DEF TypesInv, GraphSide
  <2>4. CASE AddCfgNodes
    <3>1. pass = "InlineLocalCalls"
      BY <2>4 DEF AddCfgNodes
    <3>2. InputOK /\ GraphInv
      BY <3>1 DEF TypesInv, GraphSide, StageInv, Inlining
    <3>3. pass' # "loading"
      BY <2>4, <3>2, AddCfgNodesIs DEF InlineStep
    <3> QED BY <1>1, <2>2, <2>3, <3>3, SMTT(60) DEF TypesInv, Undecoded
  <2>5. CASE ~ AddCfgNodes
    <3>1. pass' = "loading" => UNCHANGED vars
      BY <1>4, <2>5 DEF Build, Stopped, ValidateInstructionSupport, ResolveKfuncCalls, LowerPseudoLoads,
                  PopulateNodes, ValidateControlFlowTargets, ConnectEdges, InlineLocalCalls,
                  ValidateTailCallDepth, ComputeCallbackMetadata, InsertTerminationCounters,
                  ExtractAssertions, Rejected, Go
    <3>2. Undecoded'
      BY <3>1 DEF TypesInv, Undecoded, NothingRead, vars
    <3> QED BY <1>1, <2>2, <2>3, <3>2, SMTT(60) DEF TypesInv
  <2> QED BY <2>4, <2>5
<1> QED BY <1>2, <1>3, <1>4 DEF LoadingNext, LoadAndBuild, loadingVars

LEMMA TypesAre ==
    ASSUME TypesInv
    PROVE  LoadingTypeOK
<1>1. TypeOK
  <2>1. MadeInv
    BY DEF TypesInv, NotStarted, MadeInv
  <2> QED BY <2>1, TypedIs DEF TypesInv, GraphSide
<1>2. CASE LinkInv
  <2>1. LinkTypes
    BY <1>2 DEF LinkInv
  <2>2. ASSUME NEW p \in ProgIds
        PROVE  LET program == raw_programs[p]
               IN  /\ DOMAIN program.prog = 0 .. Length(p) - 1
                   /\ DOMAIN program.origin = DOMAIN program.prog
                   /\ program.builtin_call_offsets \subseteq DOMAIN program.prog
    <3>1. PICK g : g = raw_programs[p]
      OBVIOUS
    <3>2. ProgramOK(g)
      BY <2>1, <3>1 DEF LinkTypes
    <3>3. DOMAIN g.origin = DOMAIN g.prog
      BY <3>2 DEF ProgramOK
    <3> QED BY <3>1, <3>2, <3>3 DEF ProgramOK, Length
  <2>3. \A c \in ToSet(calls) : c.prog \in visiting
    <3> SUFFICES ASSUME NEW c \in ToSet(calls) PROVE c.prog \in visiting
      OBVIOUS
    <3>1. PICK k \in DOMAIN calls : calls[k] = c
      BY DEF ToSet
    <3> QED BY <2>1, <3>1 DEF LinkTypes, CallIs
  <2>4. \A r \in relocations :
            r.prog \in ProgIds /\ r.source_offset \in DOMAIN raw_programs[r.prog].prog
    BY <2>1 DEF LinkTypes, RelocIs
  <2>5. /\ load \in {"read", "link", "linked", "failed"}
        /\ resolved \cup visiting \subseteq ProgIds /\ resolved \cap visiting = {}
    BY <2>1 DEF LinkTypes
  <2> QED BY <1>1, <2>2, <2>3, <2>4, <2>5 DEF LoadingTypeOK
<1>3. CASE NoLinking
  <2>1. ProgIds = {} /\ ToSet(calls) = {}
    BY <1>3 DEF NoLinking, NoPrograms, ProgIds, ToSet
  <2> QED BY <1>1, <1>3, <2>1, SMTT(60) DEF LoadingTypeOK, NoLinking, NoPrograms
<1> QED BY <1>2, <1>3 DEF TypesInv, LinkSide

\* The joint state is typed, for every object file and every sequence whose
\* instructions have numbers that fit a label: a program's origins and builtin
\* calls are its own, each relocation is of a slot of its program, what is
\* linked and what is being linked are apart, and the graph joins its nodes.
THEOREM LoadingTypeCorrect == LoadingSpec /\ []LabelsFit => []LoadingTypeOK
<1>1. LoadingInit => TypesInv
  BY TypesBegin
<1>2. TypesInv /\ [LoadingNext]_loadingVars /\ LabelsFit' => TypesInv'
  BY TypesStep
<1>3. TypesInv => LoadingTypeOK
  BY TypesAre
<1> QED BY <1>1, <1>2, <1>3, PTL DEF LoadingSpec
=============================================================================
