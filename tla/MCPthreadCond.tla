--------------------------- MODULE MCPthreadCond ---------------------------
(***************************************************************************)
(* PthreadCond with three threads.                                         *)
(***************************************************************************)
EXTENDS PthreadCond

CONSTANTS t1, t2, t3

MCThreads == {t1, t2, t3}
=============================================================================
