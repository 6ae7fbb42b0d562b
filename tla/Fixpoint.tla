------------------------------- MODULE Fixpoint -------------------------------
(***************************************************************************)
(* FwdFixpointIterator of src/fwd_analyzer.rs, the loop that decides       *)
(* whether a program is accepted: it walks the components of the CFG's     *)
(* weak topological order, iterates each cycle upwards with widening and   *)
(* downwards with narrowing, and records the first error of each label.    *)
(*                                                                         *)
(* The recursion of visit_component is a position in the flat order (pc)   *)
(* and a stack of frames, one per cycle being iterated, innermost last.    *)
(* The abstract domain EbpfDomain, the transfer function and the checker   *)
(* are parameters; the assumptions made about them are what the            *)
(* soundness argument needs of them, no more.                              *)
(*                                                                         *)
(* The model also runs the program: once it is accepted it executes, one   *)
(* instruction per step.  That execution is what the verdict is about.     *)
(***************************************************************************)
EXTENDS Wto, Integers

CONSTANTS
    Labels, Entry, Exit,    \* the labels of the CFG
    Programs,               \* the programs considered, see ProgramOK
    Instr,                  \* the instructions
    Dom, Bot,               \* EbpfDomain and its bottom
    Fails,                  \* ebpf_domain_transform returns an error
    Leq(_, _),              \* is_included_in
    Join(_, _),             \* join
    JoinAll(_),             \* join_assign over the members of a set, from bottom
    Widen(_, _, _),         \* widen; the third argument: use thresholds
    Meet(_, _), Narrow(_, _),
    Transfer(_, _),         \* ebpf_domain_transform of an instruction
    Check(_, _),            \* ebpf_domain_check of all assertions of an instruction
    IsCounter(_),           \* the instruction is IncrementLoopCounter
    InitCounters(_, _),     \* initialize_loop_counter for a set of loop heads
    EntryInv,               \* the entry state given to run
    DescendingIterations,   \* DESCENDING_ITERATIONS (2000000 in the code)
    State,                  \* concrete states of a running program
    Gamma(_),               \* the concrete states an abstract value stands for
    Step(_, _),             \* the states an instruction can lead to
    Safe(_)                 \* the states in which an instruction may be executed

WIDENING_DELAY == 2

(***************************************************************************)
(* A program comes with the option it is verified under; without           *)
(* check_for_termination no IncrementLoopCounter is inserted.              *)
(***************************************************************************)
ProgramOK(p) ==
    /\ p.edges \subseteq Labels \X Labels
    /\ p.ins \in [Labels -> Instr]
    /\ \A e \in p.edges : e[2] # Entry
    /\ p.check_for_termination \in BOOLEAN
    /\ ~ p.check_for_termination => \A l \in Labels : ~ IsCounter(p.ins[l])
    /\ IsWto(p.wto, Entry, p.edges, Labels)

ASSUME ProgramsAssumption ==
    /\ Entry \in Labels /\ Exit \in Labels
    /\ \A p \in Programs : ProgramOK(p)
    /\ DescendingIterations \in Nat

ASSUME DomainClosed ==
    /\ Bot \in Dom /\ Fails \notin Dom /\ EntryInv \in Dom
    /\ \A a, b \in Dom :
          /\ Join(a, b) \in Dom /\ Meet(a, b) \in Dom /\ Narrow(a, b) \in Dom
          /\ \A t \in BOOLEAN : Widen(a, b, t) \in Dom
    /\ \A S \in SUBSET Dom : JoinAll(S) \in Dom
    /\ \A i \in Instr, a \in Dom : Transfer(i, a) \in Dom \cup {Fails}
    /\ \A H \in SUBSET Labels : InitCounters(EntryInv, H) \in Dom

(***************************************************************************)
(* Soundness of the domain's operations.  Nothing is asked of join and     *)
(* widen, which only steer the search for a post-fixpoint.                 *)
(***************************************************************************)
ASSUME DomainSound ==
    /\ Gamma(Bot) = {}
    /\ \A a \in Dom : Gamma(a) \subseteq State
    /\ \A a, b \in Dom :
          /\ Leq(a, b) => Gamma(a) \subseteq Gamma(b)
          /\ Gamma(a) \cap Gamma(b) \subseteq Gamma(Meet(a, b))
          /\ Gamma(a) \cap Gamma(b) \subseteq Gamma(Narrow(a, b))
    /\ \A S \in SUBSET Dom : \A a \in S : Gamma(a) \subseteq Gamma(JoinAll(S))

ASSUME StepsAssumption ==
    \A i \in Instr, s \in State : Step(i, s) \subseteq State

ASSUME InstructionsSound ==
    \A i \in Instr, a \in Dom :
        /\ Check(i, a) /\ (IsCounter(i) \/ Transfer(i, a) # Fails) =>
              Gamma(a) \subseteq Safe(i)
        /\ Transfer(i, a) # Fails =>
              \A s \in Gamma(a) \cap Safe(i) : Step(i, s) \subseteq Gamma(Transfer(i, a))

VARIABLES
    prog,           \* the program under analysis; it never changes
    pre, post,      \* result.invariants[..].pre and .post
    error,          \* the labels whose .error is set
    failed,         \* result.failed
    exit_value,     \* the exit label's post, of which the code keeps r0
    skip,           \* true until the walk meets the entry
    pc,             \* position in the weak topological order
    frames,         \* the cycles being iterated
    phase,          \* "walk" or "done"
    run             \* the accepted program's execution

vars == <<prog, pre, post, error, failed, exit_value, skip, pc, frames, phase, run>>
control == <<skip, pc, frames>>

NotLoaded == [mode |-> "not loaded"]

wto == prog.wto
Node(p) == wto.order[p]
Parents(n) == {m \in Labels : <<m, n>> \in prog.edges}

Frame == [head : Nat, dir : {"up", "down"}, iter : Nat \ {0}, inv : Dom]
FrameOf(h, dir, iter, inv) == [head |-> h, dir |-> dir, iter |-> iter, inv |-> inv]
TopFrame == frames[Len(frames)]
PopFrame == SubSeq(frames, 1, Len(frames) - 1)
SetTop(f) == [frames EXCEPT ![Len(frames)] = f]

-----------------------------------------------------------------------------
(***************************************************************************)
(* new and the first part of run.                                          *)
(***************************************************************************)
EntryState(p) ==
    IF p.check_for_termination
    THEN InitCounters(EntryInv, {p.wto.order[h] : h \in p.wto.heads})
    ELSE EntryInv

Init ==
    /\ prog \in Programs
    /\ pre = [l \in Labels |-> IF l = Entry THEN EntryState(prog) ELSE Bot]
    /\ post = [l \in Labels |-> Bot]
    /\ error = {}
    /\ failed = FALSE
    /\ exit_value = Bot
    /\ skip = TRUE
    /\ pc = 1
    /\ frames = <<>>
    /\ phase = "walk"
    /\ run = NotLoaded

(***************************************************************************)
(* transform_to_post: check the assertions, then apply the transfer        *)
(* function.  A label that has an error is not visited again, and its post *)
(* keeps the value it had.  The assertion of a loop counter waits for      *)
(* find_termination_errors.                                                *)
(***************************************************************************)
SetError(n) == error' = error \cup {n} /\ failed' = TRUE

Applies(n, d) ==
    \/ IsCounter(prog.ins[n])
    \/ n \notin error /\ Check(prog.ins[n], d)

TransformToPost(n, d) ==
    \/ /\ ~ IsCounter(prog.ins[n])
       /\ n \in error
       /\ UNCHANGED <<post, error, failed>>
    \/ /\ ~ IsCounter(prog.ins[n])
       /\ n \notin error
       /\ ~ Check(prog.ins[n], d)
       /\ SetError(n)
       /\ UNCHANGED post
    \/ /\ Applies(n, d)
       /\ Transfer(prog.ins[n], d) = Fails
       /\ SetError(n)
       /\ UNCHANGED post
    \/ /\ Applies(n, d)
       /\ Transfer(prog.ins[n], d) # Fails
       /\ post' = [post EXCEPT ![n] = Transfer(prog.ins[n], d)]
       /\ UNCHANGED <<error, failed>>

\* Mutant: the predecessors inside of the cycle are left out at its end, too.
JoinAllPrevsOutside(n) ==
    IF n = Entry THEN pre[n]
    ELSE JoinAll({post[m] : m \in {x \in Parents(n) :
                      ~ IsSupersetOf(prog.wto.nesting[x], prog.wto.nesting[n])}})

JoinAllPrevs(n) ==
    IF n = Entry THEN pre[n] ELSE JoinAll({post[m] : m \in Parents(n)})

(***************************************************************************)
(* Where the walk stands.                                                  *)
(***************************************************************************)
AtHead == frames # <<>> /\ TopFrame.head = pc
AtLoopEnd == frames # <<>> /\ pc = wto.last[TopFrame.head] + 1
\* Mutant: the walk goes on beyond the last component of a cycle.
AtComponentNoEnd == phase = "walk" /\ ~ AtHead /\ pc <= Len(wto.order)

AtComponent == phase = "walk" /\ ~ AtHead /\ ~ AtLoopEnd /\ pc <= Len(wto.order)

ProcessNode ==
    /\ AtComponent
    /\ pc \notin wto.heads
    /\ skip' = (skip /\ Node(pc) # Entry)
    /\ IF skip'
       THEN UNCHANGED <<pre, post, error, failed>>
       ELSE /\ pre' = [pre EXCEPT ![Node(pc)] = JoinAllPrevs(Node(pc))]
            /\ TransformToPost(Node(pc), JoinAllPrevs(Node(pc)))
    /\ pc' = pc + 1
    /\ UNCHANGED <<prog, exit_value, frames, phase, run>>

(***************************************************************************)
(* The start of process_cycle: skip the cycle, or begin the first upward   *)
(* iteration from the predecessors outside of it.                          *)
(***************************************************************************)
StartInvariant(n) ==
    JoinAll({post[m] : m \in {x \in Parents(n) : ~ IsSupersetOf(wto.nesting[x], wto.nesting[n])}})

EnterCycle ==
    /\ AtComponent
    /\ pc \in wto.heads
    /\ LET entry_in_this_cycle ==
               skip /\ \E p \in Positions(wto) : InCycle(wto, pc, p) /\ Node(p) = Entry
       IN  /\ skip' = (skip /\ ~ entry_in_this_cycle)
           /\ IF skip'
              THEN pc' = wto.last[pc] + 1 /\ UNCHANGED frames
              ELSE /\ frames' = Append(frames, FrameOf(pc, "up", 1,
                          IF entry_in_this_cycle THEN pre[Entry] ELSE StartInvariant(Node(pc))))
                   /\ UNCHANGED pc
    /\ UNCHANGED <<prog, pre, post, error, failed, exit_value, phase, run>>

(***************************************************************************)
(* The start of an iteration; only the upward ones store the invariant.    *)
(***************************************************************************)
ProcessHead ==
    /\ phase = "walk"
    /\ AtHead
    /\ pre' = IF TopFrame.dir = "up" THEN [pre EXCEPT ![Node(pc)] = TopFrame.inv] ELSE pre
    /\ TransformToPost(Node(pc), TopFrame.inv)
    /\ pc' = pc + 1
    /\ UNCHANGED <<prog, exit_value, skip, frames, phase, run>>

Extrapolate(before, after, iteration) ==
    IF iteration < WIDENING_DELAY THEN Join(before, after)
    ELSE Widen(before, after, iteration = WIDENING_DELAY)

Refine(before, after, iteration) ==
    IF iteration = 1 THEN Meet(before, after) ELSE Narrow(before, after)

(***************************************************************************)
(* The end of an upward iteration: go down from a post-fixpoint, or try a  *)
(* larger invariant.                                                       *)
(***************************************************************************)
\* Mutant: an unstable invariant is tried again without extrapolation.
EndAscendingNoExtrapolate ==
    /\ phase = "walk"
    /\ AtLoopEnd
    /\ TopFrame.dir = "up"
    /\ LET f == TopFrame
           new_pre == JoinAllPrevs(Node(f.head))
       IN  IF Leq(new_pre, f.inv)
           THEN /\ pre' = [pre EXCEPT ![Node(f.head)] = new_pre]
                /\ frames' = SetTop(FrameOf(f.head, "down", 1, new_pre))
           ELSE UNCHANGED <<pre, frames>>
    /\ pc' = TopFrame.head
    /\ UNCHANGED <<prog, post, error, failed, exit_value, skip, phase, run>>

\* Mutant: the inclusion is tested the wrong way round.
EndAscendingSwapped ==
    /\ phase = "walk"
    /\ AtLoopEnd
    /\ TopFrame.dir = "up"
    /\ LET f == TopFrame
           new_pre == JoinAllPrevs(Node(f.head))
       IN  IF Leq(f.inv, new_pre)
           THEN /\ pre' = [pre EXCEPT ![Node(f.head)] = new_pre]
                /\ frames' = SetTop(FrameOf(f.head, "down", 1, new_pre))
           ELSE /\ frames' = SetTop(FrameOf(f.head, "up", f.iter + 1,
                                            Extrapolate(f.inv, new_pre, f.iter)))
                /\ UNCHANGED pre
    /\ pc' = TopFrame.head
    /\ UNCHANGED <<prog, post, error, failed, exit_value, skip, phase, run>>

EndAscending ==
    /\ phase = "walk"
    /\ AtLoopEnd
    /\ TopFrame.dir = "up"
    /\ LET f == TopFrame
           new_pre == JoinAllPrevs(Node(f.head))
       IN  \/ /\ Leq(new_pre, f.inv)
              /\ pre' = [pre EXCEPT ![Node(f.head)] = new_pre]
              /\ frames' = SetTop(FrameOf(f.head, "down", 1, new_pre))
           \/ /\ ~ Leq(new_pre, f.inv)
              /\ frames' = SetTop(FrameOf(f.head, "up", f.iter + 1,
                                          Extrapolate(f.inv, new_pre, f.iter)))
              /\ UNCHANGED pre
    /\ pc' = TopFrame.head
    /\ UNCHANGED <<prog, post, error, failed, exit_value, skip, phase, run>>

(***************************************************************************)
(* The end of a downward iteration: leave the cycle when nothing can be    *)
(* refined, when the limit is reached or when refining changed nothing;    *)
(* otherwise go round with the refined invariant.                          *)
(***************************************************************************)
EndDescending ==
    /\ phase = "walk"
    /\ AtLoopEnd
    /\ TopFrame.dir = "down"
    /\ LET f == TopFrame
           new_pre == JoinAllPrevs(Node(f.head))
           refined == Refine(f.inv, new_pre, f.iter)
           unrefinable == Leq(f.inv, new_pre)
           limit == f.iter > DescendingIterations
       IN  \/ /\ unrefinable \/ limit
              /\ frames' = PopFrame
              /\ UNCHANGED <<pre, pc>>
           \/ /\ ~ unrefinable /\ ~ limit
              /\ Leq(f.inv, refined)
              /\ pre' = [pre EXCEPT ![Node(f.head)] = refined]
              /\ frames' = PopFrame
              /\ UNCHANGED pc
           \/ /\ ~ unrefinable /\ ~ limit
              /\ ~ Leq(f.inv, refined)
              /\ pre' = [pre EXCEPT ![Node(f.head)] = refined]
              /\ frames' = SetTop(FrameOf(f.head, "down", f.iter + 1, refined))
              /\ pc' = f.head
    /\ UNCHANGED <<prog, post, error, failed, exit_value, skip, phase, run>>

(***************************************************************************)
(* The last part of run: find_termination_errors checks the bound of every *)
(* reachable loop counter, unless the analysis has failed already.         *)
(***************************************************************************)
\* Mutant: the bounds are checked at the labels that are not reachable.
OverBoundUnreachable ==
    {n \in Labels : pre[n] = Bot /\ IsCounter(prog.ins[n]) /\ ~ Check(prog.ins[n], pre[n])}

OverBound ==
    {n \in Labels : pre[n] # Bot /\ IsCounter(prog.ins[n]) /\ ~ Check(prog.ins[n], pre[n])}

\* Mutant: the exit value is never computed.
FinishNoExitValue ==
    /\ phase = "walk"
    /\ frames = <<>>
    /\ pc = Len(wto.order) + 1
    /\ phase' = "done"
    /\ UNCHANGED <<prog, pre, post, error, failed, exit_value, skip, pc, frames, run>>

Finish ==
    /\ phase = "walk"
    /\ frames = <<>>
    /\ pc = Len(wto.order) + 1
    /\ LET late == IF ~ failed /\ prog.check_for_termination THEN OverBound ELSE {}
       IN  /\ error' = error \cup late
           /\ failed' = (failed \/ late # {})
    /\ exit_value' = post[Exit]
    /\ phase' = "done"
    /\ UNCHANGED <<prog, pre, post, skip, pc, frames, run>>

-----------------------------------------------------------------------------
(***************************************************************************)
(* The accepted program runs from any state the entry invariant allows.    *)
(* An instruction executed outside its safe states would fault: such an    *)
(* execution stops where it is.                                            *)
(***************************************************************************)
Accepted == phase = "done" /\ ~ failed

Load ==
    /\ Accepted
    /\ run = NotLoaded
    /\ \E s \in Gamma(pre[Entry]) : run' = [mode |-> "running", at |-> Entry, st |-> s]
    /\ UNCHANGED <<prog, pre, post, error, failed, exit_value, control, phase>>

Execute ==
    /\ run.mode = "running"
    /\ run.st \in Safe(prog.ins[run.at])
    /\ \E s \in Step(prog.ins[run.at], run.st) :
          \/ /\ run.at = Exit
             /\ run' = [run EXCEPT !.mode = "halted", !.st = s]
          \/ \E m \in Labels :
                /\ <<run.at, m>> \in prog.edges
                /\ run' = [run EXCEPT !.at = m, !.st = s]
    /\ UNCHANGED <<prog, pre, post, error, failed, exit_value, control, phase>>

Stopped == phase = "done" /\ UNCHANGED vars

Next == ProcessNode \/ EnterCycle \/ ProcessHead \/ EndAscending \/ EndDescending
            \/ Finish \/ Load \/ Execute \/ Stopped

(***************************************************************************)
(* The analysis is one sequential computation: nothing it does waits for   *)
(* anything else.  A program need not be loaded, nor run to its end.       *)
(***************************************************************************)
Analyze == ProcessNode \/ EnterCycle \/ ProcessHead \/ EndAscending \/ EndDescending \/ Finish
Spec == Init /\ [][Next]_vars /\ WF_vars(Analyze)

-----------------------------------------------------------------------------
TypeOK ==
    /\ pre \in [Labels -> Dom]
    /\ post \in [Labels -> Dom]
    /\ error \subseteq Labels
    /\ failed \in BOOLEAN
    /\ exit_value \in Dom
    /\ skip \in BOOLEAN
    /\ pc \in 1 .. Len(wto.order) + 1
    /\ frames \in Seq(Frame)
    /\ phase \in {"walk", "done"}
    /\ run = NotLoaded \/ run \in [mode : {"running", "halted"}, at : Labels, st : State]

(***************************************************************************)
(* The position and the stack of frames stand for one point of the code's  *)
(* recursion: the frames are exactly the cycles around the position, each  *)
(* nested in the one before, and every other cycle already begun is over.  *)
(***************************************************************************)
Active(p) == \E k \in DOMAIN frames : frames[k].head = p

WalkStructure ==
    /\ \A k \in DOMAIN frames :
          /\ frames[k].head \in wto.heads
          /\ frames[k].head <= pc /\ pc <= wto.last[frames[k].head] + 1
    /\ \A j, k \in DOMAIN frames :
          j < k => frames[j].head < frames[k].head /\ frames[k].head <= wto.last[frames[j].head]
    /\ \A h \in wto.heads : h < pc /\ ~ Active(h) => wto.last[h] < pc
    /\ \A k \in DOMAIN frames, h \in wto.heads :
          h < frames[k].head /\ frames[k].head <= wto.last[h] => Active(h)
    /\ skip => pc = 1 /\ frames = <<>>
    /\ phase = "done" => pc = Len(wto.order) + 1 /\ frames = <<>>

(***************************************************************************)
(* The comment in process_cycle, "narrowing is descending": from the       *)
(* moment a post-fixpoint is found the invariant of a head only shrinks,   *)
(* until its cycle is left.                                                *)
(***************************************************************************)
NarrowingDescends ==
    [][frames # <<>> /\ Len(frames') = Len(frames) /\ TopFrame'.dir = "down"
            => Leq(TopFrame'.inv, TopFrame.inv)]_vars

(***************************************************************************)
(* What the verdict promises: an accepted program never reaches an         *)
(* instruction in a state in which its assertions do not hold.             *)
(***************************************************************************)
NoFault == run.mode = "running" => run.st \in Safe(prog.ins[run.at])

(***************************************************************************)
(* What the invariants printed with the verdict promise: at every label    *)
(* the execution is in a state that the label's pre-invariant admits.  The *)
(* final pre of a loop head may be smaller than the one its body was last  *)
(* analysed from, so this does not follow from one pass over the labels.   *)
(***************************************************************************)
RunInPre == run.mode = "running" => run.st \in Gamma(pre[run.at])

(***************************************************************************)
(* result.exit_value covers the state in which the program ends.           *)
(***************************************************************************)
ExitValueSound == run.mode = "halted" => run.st \in Gamma(exit_value)

(***************************************************************************)
(* What is reported for an accepted program holds in every execution of    *)
(* it, at its labels and at its end.                                       *)
(***************************************************************************)
InvariantsHold == RunInPre /\ ExitValueSound

(***************************************************************************)
(* Widening ends the upward iterations, the narrowing test or the limit    *)
(* ends the downward ones, and nested cycles restart theirs finitely often.*)
(***************************************************************************)
EventuallyDone == <>(phase = "done")
=============================================================================
