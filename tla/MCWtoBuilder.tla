----------------------------- MODULE MCWtoBuilder -----------------------------
(***************************************************************************)
(* Every CFG with an entry whose only child is label 1, and MaxLabel other *)
(* labels of at most two successors each: the shapes a jump instruction    *)
(* can make, the irreducible ones included.  The check of tail-call chains *)
(* is made with one label at most that is no tail call: none, 1, or one of *)
(* the others, which are alike.                                            *)
(***************************************************************************)
EXTENDS WtoBuilder

CONSTANT MaxLabel

MCLabels == 0 .. MaxLabel

Inner == 1 .. MaxLabel
AtMostTwo == {<<>>} \cup {<<a>> : a \in Inner}
                    \cup {<<a, b>> : a \in Inner, b \in Inner}
Ascending == {s \in AtMostTwo : Len(s) = 2 => s[1] < s[2]}

\* The labels that g leads to from label 1.  One that it does not lead to is
\* seen by the builder as a predecessor only: one successor is enough for it.
LedTo(g) ==
    LET closure[S \in SUBSET Inner] ==
            LET T == S \cup UNION {ToSet(g[l]) : l \in S} IN IF T = S THEN S ELSE closure[T]
    IN  closure[{1}]

MCGraphs ==
    {[l \in MCLabels |-> IF l = 0 THEN <<1>> ELSE g[l]] :
        g \in {f \in [Inner -> Ascending] : \A l \in Inner \ LedTo(f) : Len(f[l]) <= 1}}

MCTailCalls == {MCLabels \ {Entry, other} : other \in {Entry, 1, 2}}
=============================================================================
