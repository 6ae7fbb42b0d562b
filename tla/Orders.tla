------------------------------- MODULE Orders -------------------------------
(***************************************************************************)
(* Going through a set or a sequence in a given order.                     *)
(***************************************************************************)
EXTENDS Integers, Sequences, FiniteSets

\* The members of a set in an order: each is as far back as there are members
\* in front of it.
InOrder(L, before(_, _)) ==
    [k \in 1 .. Cardinality(L) |->
        CHOOSE l \in L : Cardinality({m \in L : m = l \/ before(m, l)}) = k]

Ascending(S) == InOrder(S, <)

\* What op makes of base, one member of the sequence after the other.
Folded(op(_, _), base, q) ==
    LET f[i \in 0 .. Len(q)] == IF i = 0 THEN base ELSE op(f[i - 1], q[i])
    IN  f[Len(q)]
=============================================================================
