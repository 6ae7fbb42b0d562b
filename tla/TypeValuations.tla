--------------------------- MODULE TypeValuations ---------------------------
(***************************************************************************)
(* What the type domain promises: a state stands for a set of valuations,  *)
(* each of which gives every type variable one type.  Every operation is   *)
(* exact, and a join is the best one: the least set above both operands    *)
(* that types per variable and equalities between variables can describe.  *)
(***************************************************************************)
EXTENDS Naturals

CONSTANTS Vars, Types

VARIABLES meaning, last

Valuations == [Vars -> Types]

\* The valuations that no per-variable type and no equality tells from S.
Best(S) ==
    {f \in Valuations :
        /\ \A v \in Vars : \E g \in S : g[v] = f[v]
        /\ \A v, w \in Vars : (\A g \in S : g[v] = g[w]) => f[v] = f[w]}

Init ==
    /\ meaning = [r \in {1, 2} |-> Valuations]
    /\ last = <<"none">>

Becomes(r, label, S) ==
    /\ last' = label
    /\ meaning' = [meaning EXCEPT ![r] = S]

\* A type that does not exist (t \notin Types) leaves nothing.
AssignType(r) == \E v \in Vars, t \in Types \cup {0} :
    Becomes(r, <<"type", r, v, t>>,
            IF t \in Types THEN {[f EXCEPT ![v] = t] : f \in meaning[r]} ELSE {})

Copy(r) == \E v, w \in Vars :
    Becomes(r, <<"copy", r, v, w>>, {[f EXCEPT ![v] = f[w]] : f \in meaning[r]})

Havoc(r) == \E v \in Vars :
    Becomes(r, <<"havoc", r, v>>, {[f EXCEPT ![v] = t] : f \in meaning[r], t \in Types})

Restrict(r) == \E v \in Vars, m \in SUBSET Types :
    Becomes(r, <<"restrict", r, v, m>>, {f \in meaning[r] : f[v] \in m})

AssumeEq(r) == \E v, w \in Vars :
    Becomes(r, <<"equal", r, v, w>>, {f \in meaning[r] : f[v] = f[w]})

\* Registers take over the types of the frame variables that saved them; of
\* the frame variables nothing is known afterwards.
Restored(S, from, to) == {[f EXCEPT ![to] = f[from], ![from] = t] : f \in S, t \in Types}

Restore(r) == \E from, to \in Vars :
    Becomes(r, <<"restore", r, <<from, to>>>>, Restored(meaning[r], from, to))

SetToTop(r) == Becomes(r, <<"top", r>>, Valuations)

Clone == Becomes(2, <<"clone">>, meaning[1])

Join == Becomes(1, <<"join">>, Best(meaning[1] \cup meaning[2]))

Meet == Becomes(1, <<"meet">>, meaning[1] \cap meaning[2])

Next ==
    \/ \E r \in {1, 2} : \/ AssignType(r)
                         \/ Copy(r)
                         \/ Havoc(r)
                         \/ Restrict(r)
                         \/ AssumeEq(r)
                         \/ Restore(r)
                         \/ SetToTop(r)
    \/ Clone
    \/ Join
    \/ Meet

Spec == Init /\ [][Next]_<<meaning, last>>
=============================================================================
