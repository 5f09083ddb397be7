---------------------------- MODULE MCLoopEmbedWin ----------------------------
(***************************************************************************)
(* LoopEmbedWin with the nested loops the message loop may meet.           *)
(***************************************************************************)
EXTENDS LoopEmbedWin

AllLoops == {"wpf", "foreign"}
=============================================================================
