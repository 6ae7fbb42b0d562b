----------------------------- MODULE MCCfgBuilder -----------------------------
(***************************************************************************)
(* Families of inputs: every sequence of a number of slots filled with     *)
(* instructions of the given kinds and any targets.  A wide instruction    *)
(* takes two slots.                                                        *)
(***************************************************************************)
EXTENDS CfgBuilder

Targeted == {"jump", "branch", "call"}
AnyIns(kinds, slots) == {Ins(k, 0) : k \in kinds \ Targeted}
                            \cup {Ins(k, t) : k \in kinds \cap Targeted, t \in slots}

SecondHalf(s, i) == i > 0 /\ s[i - 1].op = "wide"
Narrowed(ins) == IF ins.op = "wide" THEN Ins("plain", 0) ELSE ins

InstSeqs(size, kinds, last_kinds) ==
    LET slots == 0 .. size - 1
        filled == {[i \in slots |-> IF i = size - 1 THEN end ELSE front[i]] :
                      front \in [0 .. size - 2 -> AnyIns(kinds, slots)],
                      end \in AnyIns(last_kinds, slots)}
        paired == {s \in filled : \A i \in slots : SecondHalf(s, i) => s[i].op = "exit"}
    IN  {[i \in {j \in slots : ~ SecondHalf(s, j)} |-> Narrowed(s[i])] : s \in paired}

Under(seqs, frames, must_have_exit, check_for_termination) ==
    {[seq |-> s, max_call_stack_frames |-> frames, must_have_exit |-> must_have_exit,
      check_for_termination |-> check_for_termination] : s \in seqs}

\* Calls and branches, with too few frames for the deepest chains of calls;
\* loops in the main program and in subprograms, with termination checking;
\* and short sequences of everything there is.
MCAll ==
    Under(InstSeqs(5, {"branch", "call", "exit"}, {"exit"}), 3, TRUE, FALSE)
        \cup Under(InstSeqs(4, {"jump", "branch", "call", "exit"}, {"exit", "jump", "branch"}),
                   4, TRUE, TRUE)
        \cup Under(InstSeqs(3, Op \cup {"wide"}, {"exit", "branch", "tail_call", "call"}),
                   4, FALSE, FALSE)

\* Subprograms in front of, and between, the code that calls them.
MCJumpsAndCalls == Under(InstSeqs(5, {"jump", "call", "exit"}, {"exit"}), 4, TRUE, FALSE)
=============================================================================
