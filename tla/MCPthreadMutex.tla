--------------------------- MODULE MCPthreadMutex ---------------------------
(***************************************************************************)
(* PthreadMutex with three threads and every kind of mutex.                *)
(***************************************************************************)
EXTENDS PthreadMutex

CONSTANTS t1, t2, t3

MCThreads == {t1, t2, t3}
=============================================================================
