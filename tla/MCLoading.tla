------------------------------ MODULE MCLoading ------------------------------
(***************************************************************************)
(* Small object files, and recursive sequences without a file.             *)
(***************************************************************************)
EXTENDS Loading

MCOptions == [max_call_stack_frames |-> 4, must_have_exit |-> TRUE,
              check_for_termination |-> FALSE]

Sec(name, symbols, code) == [name |-> name, symbols |-> symbols, code |-> code]
File(desired_section, sections) == [desired_section |-> desired_section, sections |-> sections]
Plain == Slot("plain", 0, NoReloc)
Exit == Slot("exit", 0, NoReloc)
To(op, k, target) == Slot(op, target - k - 1, NoReloc)
\* Compilers leave -1 in a call that has a relocation.
CallOf(section, name) == Slot("call", -1, Reloc(section, name))

(***************************************************************************)
(* One section with three functions of two slots: each begins with any     *)
(* call, a branch, or nothing, and ends with an exit or a jump.            *)
(***************************************************************************)
Three == [o \in {0, 2, 4} |-> CASE o = 0 -> "main" [] o = 2 -> "f" [] o = 4 -> "g"]
Begins(k) == {Plain} \cup {To("call", k, t) : t \in {0, 2, 4}} \cup {To("branch", k, 3)}
Ends(k) == {Exit} \cup {To("jump", k, t) : t \in {2, 5} \ {k}}
OneSection ==
    {File("xdp", <<Sec("xdp", Three, [k \in 0 .. 5 |-> CASE k = 0 -> a [] k = 2 -> b [] k = 4 -> c
                                                          [] k = 1 -> x [] k = 3 -> y [] k = 5 -> Exit])>>) :
        a \in Begins(0), b \in Begins(2), c \in Begins(4), x \in Ends(1), y \in Ends(3)}

(***************************************************************************)
(* One section with four functions, each of which may call each other, and *)
(* the second of which calls twice: in some of them inlining panics.       *)
(***************************************************************************)
Four == [o \in {0, 2, 5, 7} |-> CASE o = 0 -> "main" [] o = 2 -> "h" [] o = 5 -> "f" [] o = 7 -> "k"]
Calls(k, targets) == {Plain} \cup {To("call", k, t) : t \in targets}
FourFunctions ==
    {File("xdp", <<Sec("xdp", Four, [k \in 0 .. 7 |-> CASE k = 0 -> a [] k = 2 -> b [] k = 3 -> c
                                                         [] k = 5 -> d [] OTHER -> Exit])>>) :
        a \in Calls(0, {2, 5, 7}), b \in Calls(2, {5, 7}), c \in Calls(3, {5, 7}), d \in Calls(5, {2, 7})}

(***************************************************************************)
(* Two programs in front of a section of subprograms, with relocations;    *)
(* one name belongs to no function.                                        *)
(***************************************************************************)
Refs == {Plain, CallOf(3, "f"), CallOf(3, "g"), CallOf(3, "none")}
ThreeSections(refs) ==
    {File(desired, <<Sec("xdp", 0 :> "main", [k \in 0 .. 2 |-> CASE k = 0 -> a [] k = 1 -> b [] k = 2 -> Exit]),
                     Sec("tc", 0 :> "other", [k \in 0 .. 1 |-> IF k = 0 THEN c ELSE Exit]),
                     Sec(".text", (0 :> "f") @@ (3 :> "g"),
                         [k \in 0 .. 6 |-> CASE k = 0 -> Slot("wide", 0, NoReloc)
                                              [] k = 1 -> Slot("half", 0, NoReloc)
                                              [] k = 3 -> d
                                              [] k = 4 -> Slot("builtin", 0, NoReloc)
                                              [] k = 5 -> To("call", 5, 0)
                                              [] OTHER -> Exit])>>) :
        desired \in {"xdp", "gone", ""}, a \in refs, b \in refs, c \in refs, d \in refs}

MCFiles == OneSection \cup FourFunctions \cup ThreeSections(Refs \cup {CallOf(2, "other")})

\* Recursive sequences.
MCRecursive ==
    LET slots == 0 .. 3
        any == {Ins("branch", 0)} \cup {Ins("call", t) : t \in slots}
    IN  {[seq |-> s, max_call_stack_frames |-> 4, must_have_exit |-> FALSE,
          check_for_termination |-> FALSE] :
            s \in {front @@ (3 :> Ins("exit", 0)) : front \in [0 .. 2 -> any]}}
=============================================================================
