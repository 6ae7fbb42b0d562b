---------------------------- MODULE MCTypeDomain ----------------------------
(***************************************************************************)
(* Three type variables and three types for TypeDomain.  Variable 3 is     *)
(* also the frame variable that variable 1 may be restored from.           *)
(***************************************************************************)
EXTENDS TypeDomain

MCMasks == {{1, 2}, {2, 3}, {3}}
MCRenamings == {<<3, 1>>}

\* The operation performed last matters to the refinement only.
View == <<dom, ops>>
=============================================================================
