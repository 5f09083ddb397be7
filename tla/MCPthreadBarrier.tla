-------------------------- MODULE MCPthreadBarrier --------------------------
(***************************************************************************)
(* PthreadBarrier with three threads that meet two at a time.              *)
(***************************************************************************)
EXTENDS PthreadBarrier

CONSTANTS t1, t2, t3

MCThreads == {t1, t2, t3}
MCLocks == {OnceLock, BarrierLock}
MCProxies == {Proxy}
=============================================================================
