------------------------------- MODULE Loading -------------------------------
(***************************************************************************)
(* From an object file to the graph: the loader links the programs         *)
(* (Linking), one of them is decoded, and the graph of the decoded         *)
(* sequence is built (CfgBuilder).  A sequence may also be given directly, *)
(* as the tests do.  The machine that CfgBuilder measures the graph by     *)
(* does not run here.                                                      *)
(***************************************************************************)
EXTENDS CfgBuilder, Linking

CONSTANT
    Options     \* the options a loaded program is verified under

ASSUME OptionsAssumption ==
    /\ Options.max_call_stack_frames \in Nat \ {0}
    /\ Options.must_have_exit \in BOOLEAN /\ Options.check_for_termination \in BOOLEAN
ASSUME SlotsAssumption ==
    \A f \in Files : \A s \in DOMAIN f.sections : \A k \in DOMAIN f.sections[s].code :
        f.sections[s].code[k].op \in Op \cup {"wide", "half", "builtin"}

NoFile == [sections |-> <<>>, desired_section |-> ""]
NothingRead == [seq |-> <<>>, max_call_stack_frames |-> Options.max_call_stack_frames,
                must_have_exit |-> Options.must_have_exit,
                check_for_termination |-> Options.check_for_termination]
loadingVars == <<vars, linkVars>>

StartFromFile ==
    /\ LinkInit
    /\ input = NothingRead /\ pass = "loading"
    /\ nodes = <<>> /\ edges = {} /\ pending = <<>> /\ asserted = {}
    /\ callbacks = [targets |-> {}, with_exit |-> {}]
    /\ machine = NotStarted

StartFromSequence ==
    /\ Init
    /\ file = NoFile /\ load = "linked" /\ place = [section |-> 1, offset |-> 0]
    /\ raw_programs = <<>> /\ relocations = {} /\ prog_idx = 1
    /\ resolved = {} /\ visiting = {} /\ calls = <<>>

(***************************************************************************)
(* Unmarshaller::unmarshal: a wide instruction takes two slots, and the    *)
(* target of a jump or a local call has to be a slot of the program.       *)
(***************************************************************************)
Decodable(prog) ==
    \A k \in DOMAIN prog :
        /\ prog[k].op \in {"jump", "branch", "call"} => TargetOf(k, prog[k]) \in DOMAIN prog
        /\ prog[k].op = "wide" => k + 1 \in DOMAIN prog /\ prog[k + 1].op = "half"
        /\ prog[k].op = "half" => k - 1 \in DOMAIN prog /\ prog[k - 1].op = "wide"

Decoded(prog) ==
    [k \in {x \in DOMAIN prog : prog[x].op # "half"} |->
        LET i == prog[k]
        IN  CASE i.op \in {"jump", "branch", "call"} -> Ins(i.op, TargetOf(k, i))
              [] i.op = "builtin" -> Ins("helper", 0)
              [] i.op = "wide" -> Ins("plain", 0)
              [] OTHER -> Ins(i.op, 0)]

Decode ==
    /\ load = "linked" /\ pass = "loading"
    /\ \E p \in Kept :
          IF Decodable(raw_programs[p].prog)
          THEN /\ input' = [input EXCEPT !.seq = Decoded(raw_programs[p].prog)]
               /\ nodes' = [l \in {EntryLabel, ExitLabel} |-> Node("undefined", 0, <<>>)]
               /\ asserted' = {EntryLabel, ExitLabel}
               /\ pass' = "ValidateInstructionSupport"
          ELSE pass' = "rejected" /\ UNCHANGED <<input, nodes, asserted>>
    /\ UNCHANGED <<edges, pending, callbacks, machine, linkVars>>

LoadFails ==
    /\ load = "failed" /\ pass = "loading"
    /\ pass' = "rejected"
    /\ UNCHANGED <<input, nodes, edges, pending, callbacks, asserted, machine, linkVars>>

LoadAndBuild ==
    \/ Link /\ UNCHANGED vars
    \/ Decode
    \/ LoadFails
    \/ Build /\ UNCHANGED linkVars

LoadingInit == StartFromFile \/ StartFromSequence
LoadingNext == LoadAndBuild \/ (Stopped /\ UNCHANGED linkVars)
LoadingSpec == LoadingInit /\ [][LoadingNext]_loadingVars /\ WF_loadingVars(LoadAndBuild)

-----------------------------------------------------------------------------
LoadingTypeOK ==
    /\ TypeOK
    /\ load \in {"read", "link", "linked", "failed"}
    /\ resolved \cup visiting \subseteq ProgIds /\ resolved \cap visiting = {}
    /\ \A p \in ProgIds :
          LET program == raw_programs[p]
          IN  /\ DOMAIN program.prog = 0 .. Length(p) - 1
              /\ DOMAIN program.origin = DOMAIN program.prog
              /\ program.builtin_call_offsets \subseteq DOMAIN program.prog
    /\ \A r \in relocations :
          r.prog \in ProgIds /\ r.source_offset \in DOMAIN raw_programs[r.prog].prog
    /\ \A c \in ToSet(calls) : c.prog \in visiting

(***************************************************************************)
(* What append_subprograms promises: a program that is loaded goes where   *)
(* the file goes.  From each instruction it can reach, jumps, calls and    *)
(* the next instruction lead to copies of the ones the file says, through  *)
(* all levels of copied subprograms, and the builtin calls are the         *)
(* recorded ones.  No program of the section asked for is left unlinked.   *)
(***************************************************************************)
LinkedFollowsFile ==
    load = "linked" /\ pass = "loading" /\ JumpsInOrder /\ NamesApart =>
        /\ file.desired_section # "" => Kept \subseteq resolved
        /\ \A p \in MustBeLinked : FollowsFile(raw_programs[p])

(***************************************************************************)
(* The layout CfgBuilder's inlining relies on: if no jump of a file goes   *)
(* back behind the start of its function, the calls within a span go       *)
(* forward and every program that is kept is linked, then what is accepted *)
(* has the main program in front of its subprograms, those that spans      *)
(* bring in and those that linking appends, and inlining never panics.  A  *)
(* backward call within a span is inlined after the calls of its callee,   *)
(* and then inlining may panic.  (An index that does not fit a label's     *)
(* number would wrap; the code has no guard against it.)                   *)
(***************************************************************************)
LabelsFit == Indexes \subseteq 0 .. MAX - 1
LoadedInOrder ==
    /\ file # NoFile /\ pass \in {"built", "panicked"}
    /\ JumpsInOrder /\ SpansForward /\ Kept \subseteq resolved /\ LabelsFit
    => MainFirst /\ pass = "built"
=============================================================================
