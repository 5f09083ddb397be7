----------------------------- MODULE MCLoopEmbed -----------------------------
(***************************************************************************)
(* LoopEmbed with timeouts on both sides of each clamp of uv_event.        *)
(***************************************************************************)
EXTENDS LoopEmbed

MCTimeouts == {-1, 0, 10, 251}
=============================================================================
