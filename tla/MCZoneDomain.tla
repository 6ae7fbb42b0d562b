---------------------------- MODULE MCZoneDomain ----------------------------
(***************************************************************************)
(* A small program for ZoneDomain: three variables, differences, sums and  *)
(* multiples of them, small constants.                                     *)
(***************************************************************************)
EXTENDS ZoneDomain

Expr(k, t) == [k |-> k, t |-> t]
Const(k) == Expr(k, [x \in {} |-> 0])
Var(x, k) == Expr(k, x :> 1)
Diff(x, y, k) == Expr(k, (x :> 1) @@ (y :> -1))
Rng(l, h) == [lo |-> {l}, hi |-> {h}]

MCAssigns == {<<1, Var(2, 1)>>, <<1, Var(1, -1)>>, <<2, Expr(0, 1 :> 2)>>,
              <<3, Expr(0, (1 :> 1) @@ (2 :> 1))>>, <<3, Diff(1, 2, 0)>>, <<2, Const(1)>>}
MCIntervals == {Rng(0, 2), Rng(1, 1), [lo |-> {-1}, hi |-> {}]}
MCGuards == {[kind |-> "le", e |-> Diff(1, 2, 0)], [kind |-> "lt", e |-> Diff(2, 3, 0)],
             [kind |-> "eq", e |-> Diff(3, 1, 1)], [kind |-> "le", e |-> Var(1, -1)],
             [kind |-> "ne", e |-> Var(2, 0)], [kind |-> "ne", e |-> Diff(1, 2, 0)],
             [kind |-> "le", e |-> Expr(-1, 3 :> -2)]}
MCMinOnlySets == {{}, {1}}
MCRenamings == {<<<<3, 1>>>>}
MCValues == -2 .. 2

\* The operation performed last is only looked at by the action properties.
View == <<min_only, dom, ops>>
=============================================================================
