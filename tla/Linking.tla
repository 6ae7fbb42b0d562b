------------------------------- MODULE Linking -------------------------------
(***************************************************************************)
(* ProgramReader of src/elf_loader.rs: how the code sections of an object  *)
(* file become programs.  read_programs cuts a program out at each         *)
(* function symbol, up to the last instruction it can reach, and records   *)
(* its local calls; append_subprograms appends to each program copies of   *)
(* the subprograms it calls, after their own callees, and points its calls *)
(* at them.  The recursion of resolve_subprograms_for is the stack         *)
(* "calls".                                                                *)
(*                                                                         *)
(* Sections, symbols and relocations are given; maps, externals and BTF    *)
(* relocations, which rewrite operands and no control flow, are left out,  *)
(* and so is the long jump JA32.                                           *)
(***************************************************************************)
EXTENDS Integers, Sequences, FiniteSets, SequencesExt

CONSTANT
    Files   \* the object files considered, with the section asked for

\* Sections without code are skipped when the file is read.
ASSUME FilesAssumption ==
    \A f \in Files : \A s \in DOMAIN f.sections :
        LET code == f.sections[s].code
        IN  /\ Cardinality(DOMAIN code) \in Nat \ {0}
            /\ DOMAIN code = 0 .. Cardinality(DOMAIN code) - 1
            /\ \A k \in DOMAIN code : DOMAIN code[k] = {"op", "rel", "reloc"} /\ code[k].rel \in Int
            /\ DOMAIN f.sections[s].symbols \subseteq Nat

(***************************************************************************)
(* A section has a name, its code, a function from 0 .. size - 1, and its  *)
(* function symbols by offset.  Jumps and local calls are relative, as in  *)
(* the encoding: "rel" counts from the next slot.  A wide instruction is   *)
(* followed by its second half, "half".  A local call may have a           *)
(* relocation, a section's number and a function's name; a "builtin" is a  *)
(* call that its relocation turned into a static helper call.              *)
(***************************************************************************)
Reloc(section, name) == [section |-> section, name |-> name]
NoReloc == Reloc(0, "")
Slot(op, rel, reloc) == [op |-> op, rel |-> rel, reloc |-> reloc]

VARIABLES
    file,               \* the object file and desired_section; it never changes
    load,               \* "read", "link", "linked" or "failed"
    place,              \* the section being read and the offset in it
    raw_programs,       \* the programs, see RawProgram
    relocations,        \* function_relocations, in the order of ComesBefore
    prog_idx,           \* the program append_subprograms is at
    resolved, visiting, \* programs that are linked, and that were begun
    calls               \* the activations of resolve_subprograms_for

linkVars == <<file, load, place, raw_programs, relocations, prog_idx, resolved, visiting, calls>>

Section(s) == file.sections[s]
Sections == DOMAIN file.sections
Size(s) == Cardinality(DOMAIN Section(s).code)

(***************************************************************************)
(* origin: where each slot comes from, which the code does not keep.       *)
(***************************************************************************)
RawProgram(section, name, prog, builtins, origin) ==
    [section |-> section, function_name |-> name, prog |-> prog,
     builtin_call_offsets |-> builtins, origin |-> origin]
Length(p) == Cardinality(DOMAIN raw_programs[p].prog)
TargetOf(pc, i) == pc + 1 + i.rel

LinkInit ==
    /\ file \in Files
    /\ load = "read"
    /\ place = [section |-> 1, offset |-> 0]
    /\ raw_programs = <<>> /\ relocations = {}
    /\ prog_idx = 1
    /\ resolved = {} /\ visiting = {} /\ calls = <<>>

-----------------------------------------------------------------------------
(***************************************************************************)
(* get_program_name_and_size: the next symbol ends a program.              *)
(***************************************************************************)
Symbols(s) == Section(s).symbols
NameAt(s, o) == IF o \in DOMAIN Symbols(s) THEN Symbols(s)[o] ELSE Section(s).name
EndAt(s, o) ==
    LET later == {x \in DOMAIN Symbols(s) : x > o /\ x < Size(s)} \cup {Size(s)}
    IN  CHOOSE x \in later : \A y \in later : x <= y

(***************************************************************************)
(* compute_reachable_program_span: the program goes on to the last slot    *)
(* that control, local calls included, can get to from its start.          *)
(***************************************************************************)
LeadsTo(pc, i) ==
    CASE i.op = "exit" -> {}
      [] i.op = "jump" -> {TargetOf(pc, i)}
      [] i.op \in {"branch", "call"} -> {TargetOf(pc, i), pc + 1}
      [] i.op = "wide" -> {pc + 1, pc + 2}
      [] OTHER -> {pc + 1}

Onward(code, S) == (UNION {LeadsTo(k, code[k]) : k \in S}) \cap DOMAIN code
Reached(code, start) ==
    LET seen[S \in SUBSET DOMAIN code] ==
            LET T == S \cup Onward(code, S) IN IF T = S THEN S ELSE seen[T]
    IN  seen[{start}]
Reachable(s, o) == Reached(Section(s).code, o)

SpanEnd(s, o) ==
    LET ends == {EndAt(s, o)} \cup {k + 1 : k \in Reachable(s, o)}
    IN  CHOOSE x \in ends : \A y \in ends : x >= y

(***************************************************************************)
(* The calls of the program that becomes number p: the ones with a         *)
(* relocation first, then the ones that leave the program, for which       *)
(* enqueue_synthetic_local_calls makes one.                                *)
(***************************************************************************)
Relocated(code, o, end) == {k \in o .. end - 1 : code[k].op = "call" /\ code[k].reloc # NoReloc}
Leaving(code, o, end) ==
    {k \in o .. end - 1 : /\ code[k].op = "call" /\ code[k].reloc = NoReloc
                          /\ TargetOf(k, code[k]) \notin o .. end - 1}
FunctionRelocations(p, s, o, end) ==
    LET code == Section(s).code
        record(k, r, synthetic) ==
            [prog |-> p, source_offset |-> k - o, section |-> r.section, name |-> r.name,
             synthetic |-> synthetic]
    IN  {record(k, code[k].reloc, FALSE) : k \in Relocated(code, o, end)}
            \cup {record(k, Reloc(s, Symbols(s)[TargetOf(k, code[k])]), TRUE) :
                      k \in Leaving(code, o, end)}

ComesBefore(r, q) ==
    IF r.synthetic = q.synthetic THEN r.source_offset < q.source_offset ELSE q.synthetic

\* A call that leaves the program for no function symbol of the section.
CannotName(s, o, end) ==
    \E k \in Leaving(Section(s).code, o, end) :
        TargetOf(k, Section(s).code[k]) \notin DOMAIN Symbols(s) \cap DOMAIN Section(s).code

Shifted(f, by) == [k \in {j - by : j \in DOMAIN f} |-> f[k + by]]
CutOut(s, o, end) ==
    LET part == Shifted([k \in o .. end - 1 |-> Section(s).code[k]], o)
    IN  RawProgram(s, NameAt(s, o), part, {k \in DOMAIN part : part[k].op = "builtin"},
                   [k \in DOMAIN part |-> <<s, k + o>>])

LinkFails == load' = "failed"

\* The next program starts at the next symbol, wherever this one ends.
NextPlace(s, o) ==
    IF EndAt(s, o) < Size(s) THEN [section |-> s, offset |-> EndAt(s, o)]
    ELSE [section |-> s + 1, offset |-> 0]

ReadProgram ==
    LET s == place.section
        o == place.offset
        end == SpanEnd(s, o)
    IN  /\ load = "read" /\ s \in Sections
        /\ IF CannotName(s, o, end)
           THEN LinkFails /\ UNCHANGED <<place, raw_programs, relocations>>
           ELSE /\ raw_programs' = Append(raw_programs, CutOut(s, o, end))
                /\ relocations' = relocations
                       \cup FunctionRelocations(Len(raw_programs) + 1, s, o, end)
                /\ place' = NextPlace(s, o)
                /\ UNCHANGED load
        /\ UNCHANGED <<file, prog_idx, resolved, visiting, calls>>

FinishReading ==
    /\ load = "read" /\ place.section \notin Sections
    /\ load' = "link"
    /\ UNCHANGED <<file, place, raw_programs, relocations, prog_idx, resolved, visiting, calls>>

-----------------------------------------------------------------------------
(***************************************************************************)
(* append_subprograms, and resolve_subprograms_for: an activation knows    *)
(* the relocations it is done with and where it has put the subprograms.   *)
(***************************************************************************)
ProgIds == DOMAIN raw_programs
Begin(p) == [prog |-> p, done |-> {}, subprogram_offsets |-> <<>>]
RelocsFor(p) == {r \in relocations : r.prog = p}
Active == Last(calls)
Remaining == RelocsFor(Active.prog) \ Active.done
MoreRelocs == calls # <<>> /\ Remaining # {}
CurrentReloc == CHOOSE r \in Remaining : \A q \in Remaining : ~ ComesBefore(q, r)

\* build_prog_lookup: the first program with that section and name.
Named(r) == {p \in ProgIds : /\ Section(raw_programs[p].section).name = Section(r.section).name
                               /\ raw_programs[p].function_name = r.name}
Lookup(r) == CHOOSE p \in Named(r) : \A q \in Named(r) : p <= q

Wanted(p) == Section(raw_programs[p].section).name = file.desired_section
Enter(p) == visiting' = visiting \cup {p} /\ calls' = Append(calls, Begin(p))
LinkOnly == UNCHANGED <<file, place, relocations>>

NextProgram ==
    /\ load = "link" /\ calls = <<>> /\ prog_idx \in ProgIds
    /\ \/ /\ prog_idx \in resolved
          /\ prog_idx' = prog_idx + 1
          /\ UNCHANGED <<load, visiting, calls>>
       \/ /\ prog_idx \in visiting \ resolved
          /\ LinkFails
          /\ UNCHANGED <<prog_idx, visiting, calls>>
       \/ /\ prog_idx \notin visiting \cup resolved
          /\ Enter(prog_idx)
          /\ UNCHANGED <<load, prog_idx>>
    /\ UNCHANGED <<raw_programs, resolved>> /\ LinkOnly

\* A subprogram of that name is already in the program.
IsPlaced(r) == r.name \in DOMAIN Active.subprogram_offsets

Joined(f, g) ==
    [k \in DOMAIN f \cup DOMAIN g |-> IF k \in DOMAIN f THEN f[k] ELSE g[k]]

\* Mutant: the builtin calls of the subprogram keep their offsets.
CopiedUnshifted(main, sub) ==
    LET base == Cardinality(DOMAIN main.prog)
        both(f, g) == Joined(f, Shifted(g, -base))
    IN  [main EXCEPT !.prog = both(main.prog, sub.prog),
                     !.origin = both(main.origin, sub.origin),
                     !.builtin_call_offsets = @ \cup sub.builtin_call_offsets]

\* Mutant: one slot is left between the program and its subprogram.
CopiedApart(main, sub) ==
    LET base == Cardinality(DOMAIN main.prog) + 1
        both(f, g) == Joined(f, Shifted(g, -base))
    IN  [main EXCEPT !.prog = both(main.prog, sub.prog),
                     !.origin = both(main.origin, sub.origin),
                     !.builtin_call_offsets = @ \cup {base + k : k \in sub.builtin_call_offsets}]

Copied(main, sub) ==
    LET base == Cardinality(DOMAIN main.prog)
        both(f, g) == Joined(f, Shifted(g, -base))
    IN  [main EXCEPT !.prog = both(main.prog, sub.prog),
                     !.origin = both(main.origin, sub.origin),
                     !.builtin_call_offsets = @ \cup {base + k : k \in sub.builtin_call_offsets}]

Patched(program, source, base) == [program EXCEPT !.prog[source].rel = base - source - 1]

Advance(offsets) ==
    calls' = [calls EXCEPT ![Len(calls)] =
                  [prog |-> Active.prog, done |-> Active.done \cup {CurrentReloc},
                   subprogram_offsets |-> offsets]]

\* The call's subprogram is placed, or is linked and now copied.
PointCall ==
    LET r == CurrentReloc
        p == Active.prog
        base == IF IsPlaced(r) THEN Active.subprogram_offsets[r.name] ELSE Length(p)
        whole == IF IsPlaced(r) THEN raw_programs[p]
                 ELSE Copied(raw_programs[p], raw_programs[Lookup(r)])
    IN  /\ load = "link" /\ MoreRelocs
        /\ IsPlaced(r) \/ (Named(r) # {} /\ Lookup(r) # p /\ Lookup(r) \in resolved)
        /\ raw_programs' = [raw_programs EXCEPT ![p] = Patched(whole, r.source_offset, base)]
        /\ Advance(Joined([n \in {r.name} |-> base], Active.subprogram_offsets))
        /\ UNCHANGED <<load, prog_idx, resolved, visiting>> /\ LinkOnly

ResolveCallee ==
    LET r == CurrentReloc
    IN  /\ load = "link" /\ MoreRelocs
        /\ ~ IsPlaced(r) /\ Named(r) # {}
        /\ Lookup(r) # Active.prog /\ Lookup(r) \notin resolved \cup visiting
        /\ Enter(Lookup(r))
        /\ UNCHANGED <<load, raw_programs, prog_idx, resolved>> /\ LinkOnly

\* A program that calls itself, or one that was begun and not finished.
Recursion ==
    LET r == CurrentReloc
    IN  /\ load = "link" /\ MoreRelocs
        /\ ~ IsPlaced(r) /\ Named(r) # {}
        /\ Lookup(r) \in {Active.prog} \cup (visiting \ resolved)
        /\ LinkFails
        /\ UNCHANGED <<raw_programs, prog_idx, resolved, visiting, calls>> /\ LinkOnly

\* A missing subprogram ends all activations; what they began stays marked.
MissingSubprogram ==
    LET r == CurrentReloc
    IN  /\ load = "link" /\ MoreRelocs
        /\ ~ IsPlaced(r) /\ Named(r) = {}
        /\ calls' = <<>>
        /\ \/ Wanted(prog_idx) /\ LinkFails /\ UNCHANGED prog_idx
           \/ ~ Wanted(prog_idx) /\ prog_idx' = prog_idx + 1 /\ UNCHANGED load
        /\ UNCHANGED <<raw_programs, resolved, visiting>> /\ LinkOnly

FinishSubprogram ==
    /\ load = "link" /\ calls # <<>> /\ ~ MoreRelocs
    /\ resolved' = resolved \cup {Active.prog}
    /\ visiting' = visiting \ {Active.prog}
    /\ calls' = Front(calls)
    /\ UNCHANGED <<load, raw_programs, prog_idx>> /\ LinkOnly

\* The programs of the section asked for, of all sections if none is.
Kept == {p \in ProgIds : file.desired_section = "" \/ Wanted(p)}

FinishLinking ==
    /\ load = "link" /\ calls = <<>> /\ prog_idx \notin ProgIds
    /\ load' = IF Kept = {} THEN "failed" ELSE "linked"
    /\ UNCHANGED <<raw_programs, prog_idx, resolved, visiting, calls>> /\ LinkOnly

Link == \/ ReadProgram \/ FinishReading \/ NextProgram \/ PointCall \/ ResolveCallee
        \/ Recursion \/ MissingSubprogram \/ FinishSubprogram \/ FinishLinking

-----------------------------------------------------------------------------
(***************************************************************************)
(* What linking is measured by: where control goes from a slot of a        *)
(* section, by the file.                                                   *)
(***************************************************************************)
Starts(s) == {0} \cup (DOMAIN Symbols(s) \cap DOMAIN Section(s).code)
FunctionAt(r) == {<<r.section, o>> : o \in {x \in Starts(r.section) : NameAt(r.section, x) = r.name}}
CalledFrom(s, k) ==
    LET i == Section(s).code[k]
    IN  IF i.reloc = NoReloc THEN {<<s, TargetOf(k, i)>>} ELSE FunctionAt(i.reloc)

Falls(i) == i.op \notin {"exit", "jump"}
After(k, i) == IF i.op = "wide" THEN k + 2 ELSE k + 1

\* The function a slot belongs to starts at the last symbol in front of it.
FunctionStart(s, k) ==
    LET starts == {x \in DOMAIN Symbols(s) \cup {0} : x <= k}
    IN  CHOOSE x \in starts : \A y \in starts : x >= y

\* No jump goes back behind the start of its function or out of its section,
\* and no section's end is run off.
JumpsInOrder ==
    \A s \in Sections : \A k \in DOMAIN Section(s).code :
        LET i == Section(s).code[k]
        IN  /\ i.op \in {"jump", "branch"} => TargetOf(k, i) \in FunctionStart(s, k) .. Size(s) - 1
            /\ Falls(i) => After(k, i) \in DOMAIN Section(s).code

\* Within the span of a program, calls go forward, to starts of functions.
SpansForward ==
    \A s \in Sections : \A o \in Starts(s) :
        \A k \in o .. SpanEnd(s, o) - 1 :
            LET i == Section(s).code[k]
            IN  i.op = "call" /\ i.reloc = NoReloc => TargetOf(k, i) \in Starts(s) \ (o .. k)

\* A name belongs to one function, and relocations know its section.
NamesApart ==
    /\ \A s, t \in Sections : \A o \in Starts(s), x \in Starts(t) :
          NameAt(s, o) = NameAt(t, x) => s = t /\ o = x
    /\ \A s \in Sections : \A k \in DOMAIN Section(s).code :
          LET r == Section(s).code[k].reloc
          IN  r # NoReloc =>
                 \A t \in Sections : \A x \in Starts(t) : NameAt(t, x) = r.name => t = r.section

FollowsFile(program) ==
    \A k \in Reached(program.prog, 0) :
        LET i == program.prog[k]
            s == program.origin[k][1]
            o == program.origin[k][2]
            leads(to, places) == to \in DOMAIN program.prog /\ program.origin[to] \in places
        IN  /\ i.op = "call" => leads(TargetOf(k, i), CalledFrom(s, o))
            /\ i.op \in {"jump", "branch"} =>
                  leads(TargetOf(k, i), {<<s, TargetOf(o, Section(s).code[o])>>})
            /\ Falls(i) => leads(After(k, i), {<<s, After(o, i)>>})
            /\ i.op = "builtin" <=> k \in program.builtin_call_offsets

\* With no section asked for, a program that lacks a subprogram is kept as it is.
MustBeLinked == IF file.desired_section = "" THEN Kept \cap resolved ELSE Kept
=============================================================================
