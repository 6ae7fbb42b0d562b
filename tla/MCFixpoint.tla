------------------------------ MODULE MCFixpoint ------------------------------
(***************************************************************************)
(* Fixpoint over a small domain: one register with the values 0 .. MaxVal, *)
(* intervals of them as abstract values, and one instruction of each kind  *)
(* that matters to the iteration.  The register also plays the loop        *)
(* counter of the programs that have one.                                  *)
(***************************************************************************)
EXTENDS Fixpoint, FiniteSetsExt

CONSTANTS
    MaxVal,     \* largest value of the register
    LoopBound   \* largest value a loop counter may have

MCState == 0 .. MaxVal
MCBot == <<1, 0>>
MCTop == <<0, MaxVal>>
MCDom == {MCBot} \cup {i \in MCState \X MCState : i[1] <= i[2]}
MCFails == <<0, -1>>

MCGamma(d) == d[1] .. d[2]
Hull(S) == IF S = {} THEN MCBot ELSE <<Min(S), Max(S)>>

MCLeq(a, b) == a = MCBot \/ (b # MCBot /\ b[1] <= a[1] /\ a[2] <= b[2])
MCJoin(a, b) == Hull(MCGamma(a) \cup MCGamma(b))
MCMeet(a, b) == Hull(MCGamma(a) \cap MCGamma(b))
MCJoinAll(S) == FoldSet(MCJoin, MCBot, S)

\* An unstable bound goes to the end of the range; with thresholds, to the
\* middle of it if that is far enough.
Threshold == MaxVal - 1
MCWiden(a, b, thresholds) ==
    IF a = MCBot THEN b ELSE IF b = MCBot THEN a ELSE
    <<IF b[1] < a[1] THEN 0 ELSE a[1],
      IF b[2] <= a[2] THEN a[2]
      ELSE IF thresholds /\ b[2] <= Threshold THEN Threshold ELSE MaxVal>>
\* Only a bound that widening has given up is refined.
MCNarrow(a, b) ==
    IF MCBot \in {a, b} THEN MCBot ELSE
    LET lo == IF a[1] = 0 THEN b[1] ELSE a[1]
        hi == IF a[2] = MaxVal THEN b[2] ELSE a[2]
    IN  IF lo <= hi THEN <<lo, hi>> ELSE MCBot

MCInstr == {"nop", "inc", "low", "high", "zero", "havoc", "assert_low", "unsupported", "counter"}

\* low and high: the two branches of a test; inc wraps around.
MCStep(i, s) ==
    CASE i \in {"inc", "counter"} -> {(s + 1) % (MaxVal + 1)}
      [] i = "low" -> {s} \cap {0, 1}
      [] i = "high" -> {s} \ {0, 1}
      [] i = "zero" -> {0}
      [] i = "havoc" -> MCState
      [] i = "unsupported" -> {}
      [] OTHER -> {s}
MCSafe(i) ==
    CASE i = "assert_low" -> {0, 1}
      [] i = "unsupported" -> {}
      [] i = "counter" -> 0 .. LoopBound
      [] OTHER -> MCState
MCTransfer(i, d) ==
    IF i = "unsupported" /\ d # MCBot THEN MCFails
    ELSE Hull(UNION {MCStep(i, s) : s \in MCGamma(d)})
\* Like the code, the checker does not know "unsupported": its transfer fails.
MCCheck(i, d) == i = "unsupported" \/ MCGamma(d) \subseteq MCSafe(i)
MCIsCounter(i) == i = "counter"
MCInitCounters(d, heads) == IF heads = {} THEN d ELSE <<0, 0>>

(***************************************************************************)
(* The CFGs, with the orders WtoBuilder computes for them: two nested      *)
(* loops, a loop around an irreducible one, and a loop that exits straight *)
(* to the head of another (process_cycle leaves such a predecessor out of  *)
(* the start of the second loop).                                          *)
(***************************************************************************)
Nested ==                               \* 0 (1 (2 3) 4) 5
    [edges |-> {<<0, 1>>, <<1, 2>>, <<2, 3>>, <<3, 2>>, <<3, 4>>, <<4, 1>>, <<4, 5>>},
     wto |-> [order |-> <<0, 1, 2, 3, 4, 5>>, heads |-> {2, 3},
              last |-> <<1, 5, 4, 4, 5, 6>>,
              nesting |-> [l \in 0 .. 5 |-> CASE l \in {2, 4} -> <<1>>
                                              [] l = 3 -> <<2, 1>>
                                              [] OTHER -> <<>>]]]
Irreducible ==                          \* 0 (1 (2 3)) 4 5
    [edges |-> {<<0, 1>>, <<1, 2>>, <<1, 3>>, <<2, 3>>, <<2, 4>>, <<3, 1>>, <<3, 2>>, <<4, 5>>},
     wto |-> [order |-> <<0, 1, 2, 3, 4, 5>>, heads |-> {2, 3},
              last |-> <<1, 4, 4, 4, 5, 6>>,
              nesting |-> [l \in 0 .. 5 |-> CASE l = 2 -> <<1>>
                                              [] l = 3 -> <<2, 1>>
                                              [] OTHER -> <<>>]]]
Siblings ==                             \* 0 (1 2) (3) 4 5
    [edges |-> {<<0, 1>>, <<1, 2>>, <<2, 1>>, <<2, 3>>, <<3, 3>>, <<3, 4>>, <<4, 5>>},
     wto |-> [order |-> <<0, 1, 2, 3, 4, 5>>, heads |-> {2, 4},
              last |-> <<1, 3, 3, 4, 5, 6>>,
              nesting |-> [l \in 0 .. 5 |-> IF l = 2 THEN <<1>> ELSE <<>>]]]

Filled(body, check) ==
    {[edges |-> shape.edges, wto |-> shape.wto, check_for_termination |-> check,
      ins |-> [l \in 0 .. 5 |-> IF l \in 1 .. 4 THEN f[l] ELSE "nop"]] :
        shape \in {Nested, Irreducible, Siblings}, f \in [1 .. 4 -> body]}

\* Labels 1 .. 4 are filled with any instructions, or with loop counters and
\* branches where termination is checked.
MCPrograms ==
    Filled({"inc", "low", "high", "zero", "assert_low", "unsupported"}, FALSE)
        \cup Filled({"counter", "low", "high", "nop"}, TRUE)
=============================================================================
