------------------------------- MODULE MCSlices -------------------------------
(***************************************************************************)
(* Slices on a loop around a branch whose last label may leave it for the  *)
(* failing one, on a branch in front of a loop of one label, and on a      *)
(* straight line that stores to the stack and loads from it.               *)
(***************************************************************************)
EXTENDS Slices

MCSlots == {-8, -4}
MCStackBytes == -8 .. -1

Reg(op, dst, src) == Ins(op, dst, src, None, None, 8)
\* Accesses of four bytes, so that the two slots are apart, and wide ones.
Mem(op, dst, src, base, slot) == Ins(op, dst, src, base, slot, 4)
Wide(op, dst, src, base, slot) == Ins(op, dst, src, base, slot, 8)

\* The instructions of the inner labels.
MCData ==
    {Reg("alu", 6, 1), Reg("mov", 1, 6), Reg("load_const", 1, None),
     Mem("load", 1, None, 10, -8), Mem("store", None, 6, 10, -8), Mem("fetch", None, 1, 10, -8),
     Reg("call", None, None), Reg("assume", 1, 6)}
\* The ones that only one label has.
MCRare ==
    {Reg("un", 6, None), Mem("atomic", None, 6, 10, -8), Mem("load", 6, None, 6, None),
     Mem("store", None, None, 6, None), Mem("load", 6, None, 10, -4), Mem("store", None, 0, 10, -4),
     Wide("load", 1, None, 10, -8), Wide("store", None, 1, 10, -8), Mem("cmpxchg", None, 1, 10, -8),
     Reg("callx", None, 6), Reg("packet", None, 6),
     Reg("jmp", 1, 6), Reg("jmp", None, None), Reg("other", None, None),
     Reg("call_local", None, None), Reg("return", None, None)}

Loop == {<<0, 1>>, <<1, 2>>, <<1, 3>>, <<2, 4>>, <<3, 4>>, <<4, 1>>, <<4, 5>>}
Branch == {<<0, 1>>, <<0, 2>>, <<1, 3>>, <<2, 3>>, <<3, 4>>, <<4, 4>>, <<4, 5>>}
\* The failing label is inside of the loop.
Inside == {<<0, 1>>, <<1, 2>>, <<1, 3>>, <<2, 5>>, <<3, 5>>, <<5, 4>>, <<4, 1>>}

Assertion(reg, other) == [reg |-> reg, other |-> other]
Fails(assertions, failing) == [assertions |-> assertions, failing |-> failing]

Analysis(edges, inner, last, errors, collected, max_steps, max_slices) ==
    [edges |-> edges, collected |-> collected, bottom |-> {}, errors |-> errors,
     ins |-> [l \in Labels |-> CASE l = 0 -> Reg("mov", 6, 1)
                                  [] l = 5 -> last
                                  [] OTHER -> inner[l]],
     max_steps |-> max_steps, max_slices |-> max_slices]

Failure == [l \in {5} |-> Fails(<<Assertion(6, None), Assertion(1, None)>>, 2)]
Access == Mem("load", 1, None, 1, None)

\* Two labels are filled with any of the common instructions, one with a few.
MCCommon ==
    {Analysis(edges, [l \in 1 .. 4 |-> IF l = 4 THEN x ELSE inner[l]], Access, Failure, Labels, 200, 0) :
        edges \in {Loop, Inside}, inner \in [1 .. 3 -> MCData],
        x \in {Reg("alu", 6, 1), Mem("store", None, 1, 10, -8), Reg("assume", 6, None)}}

\* One label has a rare instruction.
MCUncommon ==
    {Analysis(edges, <<x, rare, Reg("mov", 1, 6), Mem("store", None, 0, 10, -8)>>, Access, Failure,
              Labels, 200, 0) :
        edges \in {Loop, Branch}, x \in MCData \cup {Mem("store", None, 6, 10, -4)}, rare \in MCRare}

\* The stack in two halves and as a whole, and CMPXCHG, one after the other.
Line == {<<l, l + 1>> : l \in 0 .. 4}
MCMemory ==
    {Reg("load_const", 0, None), Reg("mov", 1, 0), Mem("store", None, 6, 10, -8), Mem("store", None, 1, 10, -4),
     Wide("store", None, 6, 10, -8), Mem("load", 1, None, 10, -8), Mem("load", 1, None, 10, -4),
     Wide("load", 1, None, 10, -8), Mem("cmpxchg", None, 1, 10, -8)}
MCStack ==
    {Analysis(Line, inner @@ 4 :> last, Access, Failure, Labels, 200, 0) :
        inner \in [1 .. 3 -> MCMemory], last \in {Reg("mov", 1, 0), Mem("load", 1, None, 10, -4)}}

\* Several failures, one of them in unreachable code; assertions that name no
\* register, two registers, or are not found to fail; labels without
\* dependencies; both limits.
MCErrors ==
    {[l \in {3} |-> Fails(<<Assertion(None, None)>>, 1)],
     [l \in {2, 3, 5} |-> Fails(<<Assertion(6, 1), Assertion(0, None)>>, l % 3)]}
MCLimits ==
    {[Analysis(Loop, <<x, y, Reg("assume", 0, 6), Reg("mov", 6, 0)>>, Access, errors,
               collected, max_steps, max_slices) EXCEPT !.bottom = {2}] :
        x \in MCData, y \in MCData, errors \in MCErrors, collected \in {Labels, Labels \ {1, 4}, {}},
        max_steps \in {3, 200}, max_slices \in {0, 1}}

MCInputs == MCCommon \cup MCUncommon \cup MCStack \cup MCLimits

=============================================================================
