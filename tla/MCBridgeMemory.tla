--------------------------- MODULE MCBridgeMemory ---------------------------
(***************************************************************************)
(* BridgeMemory with four objects: an argument and the three Buffers of a  *)
(* call.                                                                   *)
(***************************************************************************)
EXTENDS BridgeMemory, TLC

CONSTANTS o1, o2, o3, o4

MCObjects == {o1, o2, o3, o4}

\* Objects are interchangeable.
MCSymmetry == Permutations(MCObjects)
=============================================================================
