---------------------------- MODULE MCEventTarget ----------------------------
(***************************************************************************)
(* EventTarget with two interchangeable listeners.                         *)
(***************************************************************************)
EXTENDS EventTarget, TLC

CONSTANTS f1, f2

MCFuncs == {f1, f2}
Symmetry == Permutations(MCFuncs)
=============================================================================
